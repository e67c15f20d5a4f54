----------------------------- MODULE AudioChain -----------------------------
(*****************************************************************************)
(* The parsers of audio files that run one another's parsers: ID3, MP3, APE, *)
(* FLAC, Ogg, Musepack and WavPack (formats/id3/process.rs, ape.rs, flac.rs, *)
(* ogg.rs, mpc.rs, wavpack.rs).                                              *)
(*                                                                           *)
(* An audio file may start with an ID3v2 tag and end with an APE tag, an     *)
(* enhanced ID3v1 tag and an ID3v1 tag.  Each parser looks for ID3 first,    *)
(* unless `SharedFlags` says that it was done, reads its own body behind the *)
(* ID3v2 tag, and looks for the APE tag in front of the ID3v1 tags, whose    *)
(* size it takes from `SharedFlags` too.                                     *)
(*                                                                           *)
(* A file is a row of segments with their sizes in bytes; what a parser sees *)
(* is the segment that begins where it looks.  The calls come in any order,  *)
(* each with flags of its own, as the drivers call, or all with the same, as *)
(* a caller of the public functions may.                                     *)
(*****************************************************************************)
EXTENDS OggPages

CONSTANTS Files,     \* the files: records of the fields below
          ScanLen    \* the bytes in which MPEG audio has to begin

Parsers == {"ID3", "MP3", "APE", "FLAC", "OGG", "MPC", "WV"}

(* The segments of a file.  `v2` is the ID3v2 tag: absent, or its bytes (the *)
(* letters ID3 at least), the size it declares, whether it has a footer, and *)
(* whether the rest of its header is in order.  `body` is what the parsers   *)
(* tell a body by.  `ape` is the APE tag: absent, or its declared size.      *)
Absent == -1
HeaderLen == 10
ApeFooterLen == 32
ApeItemsLen == 8
BodyLen == 40
V1Len == 128
EnhancedLen == 227
Bodies == {"", "mpeg", "MAC ", "APE header", "fLaC", "OggS", "MP+", "wvpk"}

ASSUME AudioChainAssumption ==
  /\ ScanLen \in Nat
  /\ Files \subseteq [v2 : [len : {Absent} \cup {n \in Nat : n >= 3}, size : Nat,
                            footer : BOOLEAN, valid : BOOLEAN],
                      body : Bodies, ape : Int, enhanced : BOOLEAN, v1 : BOOLEAN]

Segment(kind, len) == [kind |-> kind, len |-> len]
SegmentIf(there, kind, len) == IF there THEN <<Segment(kind, len)>> ELSE <<>>

Row(f) ==
  SegmentIf(f.v2.len # Absent, "ID3", f.v2.len)
    \o SegmentIf(f.body # "", f.body, BodyLen)
    \o SegmentIf(f.ape # Absent, "items", ApeItemsLen)
    \o SegmentIf(f.ape # Absent, "APETAGEX", ApeFooterLen)
    \o SegmentIf(f.enhanced, "TAG", EnhancedLen)
    \o SegmentIf(f.v1, "TAG", V1Len)

(* A file as it lies: its segments with the offsets at which they begin and  *)
(* end, and its size.                                                        *)
Laid(f) ==
  LET row == Row(f)
      end[i \in 0..Len(row)] == IF i = 0 THEN 0 ELSE end[i - 1] + row[i].len
      segments == [i \in DOMAIN row |->
                     [kind |-> row[i].kind, start |-> end[i - 1], end |-> end[i]]]
  IN [segments |-> segments, size |-> end[Len(row)],
      v2 |-> f.v2, ape |-> f.ape, enhanced |-> f.enhanced, v1 |-> f.v1]

(* What the segment begins with that begins at an offset.                    *)
At(f, offset) ==
  LET found == {i \in DOMAIN f.segments : f.segments[i].start = offset}
  IN IF found = {} THEN "" ELSE f.segments[CHOOSE i \in found : TRUE].kind

Rest(f, from) == IF from <= f.size THEN f.size - from ELSE 0

VARIABLES file, sharing,  \* chosen once: the file, and whether the calls share flags
          flags,          \* SharedFlags
          calls,          \* history: of each parser that returned, what it reported
          waiting         \* what the Ogg parser will report, while its page loop runs

vars == <<file, sharing, flags, calls, waiting, oggVars>>

-----------------------------------------------------------------------------
(* `process_id3_inner_legacy` and `parse_v2_header`.                         *)
HasV2(f) == At(f, 0) = "ID3" /\ f.size >= 3
V2Valid(f) ==
  /\ HasV2(f) /\ f.size >= HeaderLen /\ f.v2.valid
  /\ HeaderLen + f.v2.size <= f.size
HeaderEnd(f) ==
  IF V2Valid(f) THEN HeaderLen + f.v2.size + (IF f.v2.footer THEN HeaderLen ELSE 0) ELSE 0

HasV1(f) == f.size >= V1Len /\ At(f, f.size - V1Len) = "TAG"
HasEnhanced(f) ==
  /\ HasV1(f) /\ f.size >= V1Len + EnhancedLen
  /\ At(f, f.size - V1Len - EnhancedLen) = "TAG"

\* Mutant: the enhanced tag is not counted.
TrailerSizePlain(f) == IF HasV1(f) THEN V1Len ELSE 0

TrailerSize(f) ==
  IF HasEnhanced(f) THEN V1Len + EnhancedLen ELSE IF HasV1(f) THEN V1Len ELSE 0

HasId3(f) == HasV2(f) \/ HasV1(f)

(* `SharedFlags`: the size of the ID3v1 tags once ID3 ran, the end of the    *)
(* ID3v2 tag, and whether the APE tag was looked for.                        *)
NoFlags == [done_id3 |-> Absent, hdr_end |-> Absent, done_ape |-> FALSE]

\* Mutant: no guard against a second pass.
Id3RunsAlways(fl) == TRUE

\* Mutant: the parsers that skip ID3 do not use the end of the ID3v2 tag.
AfterId3FromZero(f, fl) ==
  IF fl.done_id3 = Absent
  THEN [fl EXCEPT !.done_id3 = TrailerSize(f), !.hdr_end = HeaderEnd(f)]
  ELSE [fl EXCEPT !.hdr_end = 0]

(* The ID3 step of a parser: done once for the flags it is given.            *)
Id3Runs(fl) == fl.done_id3 = Absent
AfterId3(f, fl) ==
  IF Id3Runs(fl) THEN [fl EXCEPT !.done_id3 = TrailerSize(f), !.hdr_end = HeaderEnd(f)] ELSE fl
AfterApe(fl) == [fl EXCEPT !.done_ape = TRUE]

-----------------------------------------------------------------------------
(* What is found of an APE tag: nothing, its items (from, to), or that it is *)
(* broken.                                                                   *)
NoTag == [found |-> FALSE, broken |-> FALSE, from |-> 0, to |-> 0]
Broken == [NoTag EXCEPT !.found = TRUE, !.broken = TRUE]
Items(from, to) == [found |-> TRUE, broken |-> FALSE, from |-> from, to |-> to]

(* `decode_apetagex_body_size`: a size below that of the footer wraps.       *)
ItemsSize(declared) == IF declared < ApeFooterLen THEN Absent ELSE declared - ApeFooterLen

(* The footer scan of `plan_apetagex_trailer_only` and of `plan_ape_inner`   *)
(* over the bytes behind `from`, past ID3v1 tags of `done_id3` bytes.        *)
Footer(f, from, done_id3) ==
  LET shift == IF done_id3 > 1 THEN done_id3 ELSE 0
      offset == Rest(f, from) - (ApeFooterLen + shift)
      size == ItemsSize(f.ape)
  IN IF offset < 0 \/ At(f, from + offset) # "APETAGEX" THEN NoTag
     ELSE IF size = Absent \/ offset < size THEN Broken
     ELSE Items(from + offset - size, from + offset)

-----------------------------------------------------------------------------
(* The body a parser insists on, behind the ID3v2 tag; WavPack looks at the  *)
(* very beginning of the file, MPEG audio may begin a little later.          *)
BodyFound(p, f, hdr_end) ==
  CASE p = "MP3" -> \E i \in DOMAIN f.segments :
                      /\ f.segments[i].kind = "mpeg" /\ f.segments[i].end > hdr_end
                      /\ f.segments[i].start - hdr_end < ScanLen
    [] p = "APE" -> Rest(f, hdr_end) >= 32 /\ At(f, hdr_end) \in {"MAC ", "APE header"}
    [] p = "FLAC" -> At(f, hdr_end) = "fLaC"
    [] p = "OGG" -> At(f, hdr_end) = "OggS"
    [] p = "MPC" -> Rest(f, hdr_end) >= 32 /\ At(f, hdr_end) = "MP+"
    [] p = "WV" -> f.size >= 32 /\ At(f, 0) = "wvpk"

Report(accepted, id3, ape) == [accepted |-> accepted, id3 |-> id3, ape |-> ape]
Rejected == Report(FALSE, FALSE, NoTag)

\* Mutant: the drivers keep the flags of a parser that rejected the file.
ReturnsLeaking(p, report, left) ==
  /\ calls' = Put(calls, p, report)
  /\ flags' = IF sharing \/ ~report.accepted THEN left ELSE NoFlags

(* A parser returns: its report is kept, and the next call gets the flags it *)
(* left, or fresh ones.                                                      *)
Returns(p, report, left) ==
  /\ calls' = Put(calls, p, report)
  /\ flags' = IF sharing THEN left ELSE NoFlags

MayCall(p) == p \notin DOMAIN calls /\ waiting = {}

(* What the ID3 step yields: tags, if it runs and there are any.             *)
Id3Found == Id3Runs(flags) /\ HasId3(file)
Seen == AfterId3(file, flags)

(* `parse_id3_inner`.                                                        *)
CallId3 ==
  /\ MayCall("ID3")
  /\ Returns("ID3", Report(Id3Found, Id3Found, NoTag), Seen)
  /\ UNCHANGED <<file, sharing, waiting, oggVars>>

(* `parse_mp3_typed`: an ID3 tag alone makes an MP3 file, and the APE tag is *)
(* looked for in the whole file, unless a parser before did.                 *)
CallMp3 ==
  /\ MayCall("MP3")
  /\ LET accepted == Id3Found \/ BodyFound("MP3", file, Seen.hdr_end)
         scans == accepted /\ ~flags.done_ape
         ape == IF scans THEN Footer(file, 0, Seen.done_id3) ELSE NoTag
     IN Returns("MP3", Report(accepted, Id3Found, ape), IF scans THEN AfterApe(Seen) ELSE Seen)
  /\ UNCHANGED <<file, sharing, waiting, oggVars>>

(* `parse_full_chained` of APE: a tag at the start is read as it stands, and *)
(* a MAC body has its tag at the end of what follows the ID3v2 tag.          *)
CallApe ==
  /\ MayCall("APE")
  /\ LET start == Seen.hdr_end
         ape == IF At(file, start) = "APE header"
                THEN Items(start + ApeFooterLen, start + BodyLen)
                ELSE Footer(file, start, Seen.done_id3)
     IN Returns("APE", IF BodyFound("APE", file, start) THEN Report(TRUE, Id3Found, ape)
                       ELSE Rejected, AfterApe(Seen))
  /\ UNCHANGED <<file, sharing, waiting, oggVars>>

(* `parse_inner` of FLAC.                                                    *)
CallFlac ==
  /\ MayCall("FLAC")
  /\ Returns("FLAC", IF BodyFound("FLAC", file, Seen.hdr_end) THEN Report(TRUE, Id3Found, NoTag)
                     ELSE Rejected, Seen)
  /\ UNCHANGED <<file, sharing, waiting, oggVars>>

(* `parse_full_chained` of Musepack and of WavPack, which checks its body    *)
(* before it looks for ID3.                                                  *)
CallMpc ==
  /\ MayCall("MPC")
  /\ IF BodyFound("MPC", file, Seen.hdr_end)
     THEN Returns("MPC", Report(TRUE, Id3Found, Footer(file, 0, Seen.done_id3)), AfterApe(Seen))
     ELSE Returns("MPC", Rejected, Seen)
  /\ UNCHANGED <<file, sharing, waiting, oggVars>>

CallWavPack ==
  /\ MayCall("WV")
  /\ IF BodyFound("WV", file, 0)
     THEN Returns("WV", Report(TRUE, Id3Found, Footer(file, 0, Seen.done_id3)), AfterApe(Seen))
     ELSE Returns("WV", Rejected, flags)
  /\ UNCHANGED <<file, sharing, waiting, oggVars>>

(* `parse_full_chained` of Ogg: the ID3 step, then the page loop over what   *)
(* follows the ID3v2 tag, then the test of `success`.                        *)
CallOgg ==
  /\ MayCall("OGG")
  /\ waiting' = {[id3 |-> Id3Found, left |-> Seen]}
  /\ pageLoop' = "reading"
  /\ UNCHANGED <<file, sharing, flags, calls, success, packetCount, streamCount, streamPage, val,
                 override, oggWarnings, pagesRead, packets, cut>>

RunPageLoop ==
  /\ \E w \in waiting :
       IF BodyFound("OGG", file, w.left.hdr_end)
       THEN \/ \E page \in Pages, end \in {"whole", "table", "data"} : ReadPage(page, end)
            \/ pagesRead # <<>> /\ EndOfPages(Rest(file, w.left.hdr_end + BodyLen) >= 28)
       ELSE EndOfPages(FALSE)
  /\ UNCHANGED <<file, sharing, flags, calls, waiting>>

OggReturns ==
  /\ pageLoop = "finished"
  /\ \E w \in waiting :
       Returns("OGG", IF success THEN Report(TRUE, w.id3, NoTag) ELSE Rejected, w.left)
  /\ waiting' = {}
  /\ UNCHANGED <<file, sharing, oggVars>>

Init ==
  /\ \E f \in Files : file = Laid(f)
  /\ sharing \in BOOLEAN
  /\ flags = NoFlags /\ calls = [p \in {} |-> Rejected] /\ waiting = {}
  /\ OggInit

Next ==
  \/ CallId3 \/ CallMp3 \/ CallApe \/ CallFlac \/ CallMpc \/ CallWavPack
  \/ CallOgg \/ RunPageLoop \/ OggReturns

Spec == Init /\ [][Next]_vars

-----------------------------------------------------------------------------
(* Types, and the agreement of the flags with the file: whoever ran ID3 left *)
(* the size of the ID3v1 tags and the end of the ID3v2 tag together.         *)
TypeOK ==
  /\ sharing \in BOOLEAN
  /\ DOMAIN calls \subseteq Parsers
  /\ flags.done_id3 \in {Absent, TrailerSize(file)} /\ flags.hdr_end \in {Absent, HeaderEnd(file)}
  /\ (flags.done_id3 = Absent) = (flags.hdr_end = Absent)
  /\ Cardinality(waiting) <= 1 /\ pageLoop \in {"idle", "reading", "finished"}

(* A parser whose body decides claims the same files whatever ran before it  *)
(* on the same flags: the end of the ID3v2 tag outlives the ID3 step, so a   *)
(* parser that must not run ID3 again still finds its body behind the tag.   *)
BodyDecides ==
  \A p \in DOMAIN calls \ {"ID3", "MP3"} :
    calls[p].accepted = BodyFound(p, file, HeaderEnd(file))

(* The ID3 tags of a file are reported once: by one parser at most when the  *)
(* calls share flags (DoneID3 as recursion guard), and by whichever claims   *)
(* the file when each has fresh ones, as the drivers call, so that nothing   *)
(* is lost to a parser that ran before and rejected it.                      *)
Id3ReportedOnce ==
  LET reporting == {p \in DOMAIN calls : calls[p].id3} IN
  IF sharing THEN Cardinality(reporting) <= 1
  ELSE \A p \in DOMAIN calls : calls[p].accepted => (p \in reporting <=> HasId3(file))

(* Where the items of the APE tag at the end of a file stand, if it has one  *)
(* in good order and nothing but ID3v1 tags follows it.                      *)
Trailer(f) ==
  LET i == CHOOSE i \in DOMAIN f.segments : f.segments[i].kind = "items"
  IN Items(f.segments[i].start, f.segments[i].end)

HasTrailer(f) ==
  /\ f.ape = ApeFooterLen + ApeItemsLen
  /\ f.enhanced => f.v1

(* The APE tag at the end is found past whatever ID3v1 tags follow it, by    *)
(* each parser that looks for it, in the whole file or behind the ID3v2 tag, *)
(* whoever ran ID3 before; and where there is no such tag, none is reported. *)
(* Only MP3 leaves it to a parser that looked for it on the same flags.      *)
TrailerFound ==
  \A p \in {"MP3", "MPC", "WV", "APE"} \cap DOMAIN calls :
    LET looks == calls[p].accepted /\ (p = "APE" => At(file, HeaderEnd(file)) = "MAC ")
        left == sharing /\ p = "MP3" /\ {"MPC", "WV", "APE"} \cap DOMAIN calls # {}
    IN /\ looks /\ HasTrailer(file) =>
            calls[p].ape = Trailer(file) \/ (left /\ ~calls[p].ape.found)
       /\ looks /\ file.ape = Absent => ~calls[p].ape.found
=============================================================================
