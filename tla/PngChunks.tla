----------------------------- MODULE PngChunks -----------------------------
(***************************************************************************)
(* The chunk loop of a PNG (src/src/formats/png.rs, parse_inner) and the   *)
(* meta it fills (src/src/metadata/png.rs).  What a chunk has to say goes  *)
(* to a list per source: the warnings of the loop, the EXIF events, the    *)
(* XMP packets, the warnings of the JUMBF and of the FlashPix chunks.      *)
(* diag_order remembers how the lists interleave, and a watermark per list *)
(* where the chunks after the end of the image begin, so that diagnostics  *)
(* can tell the whole story afterwards.  A compressed eXIf chunk is        *)
(* unwrapped level by level against one budget of the file.                *)
(***************************************************************************)
EXTENDS Integers, Sequences, FiniteSets

CONSTANTS
  MAX_ZXIF_INFLATE_TOTAL, \* the bytes all inflations of a file may come to
  MAX_ZXIF_DEPTH,         \* the levels a chunk may be nested
  Inflations,             \* what a level may inflate to, in bytes (TLC only)
  TextBodies,             \* what text chunks hold
  BoxWarnings,            \* the warnings of a caBX or cpIp chunk that holds something
  MaxChunks               \* bound on the whole chunks of a file (TLC only)

ASSUME InflateAssumption ==
  MAX_ZXIF_INFLATE_TOTAL \in Nat /\ MAX_ZXIF_DEPTH \in Nat /\ Inflations \subseteq Nat

VARIABLES
  png,                        \* the PngMeta
  was_hdr, was_dat, was_end,  \* the header, image data, the end chunk were seen
  walking,                    \* the loop has not returned
  depth, owned,               \* the level of an eXIf chunk at hand, and its inflated bytes
  zxif_inflated_total,        \* the bytes charged to the budget
  retained,                   \* history: the inflated bytes that live on in an event
  peak,                       \* history: the most inflated bytes alive at once
  chunks                      \* history: the chunks read, with what they had to say

budget == <<depth, owned, zxif_inflated_total, retained, peak>>
chunkVars == <<png, was_hdr, was_dat, was_end, walking, budget, chunks>>

NoLevel == -1

\* The lists with a watermark; the boxes of a chunk have none.
Watermarked == {"warnings", "exif_events", "xmp_profiles"}
Boxes == {"jumbf_diags", "flashpix_diags"}

NoPngMeta ==
  [warnings |-> <<>>, exif_events |-> <<>>, xmp_profiles |-> <<>>,
   jumbf_diags |-> <<>>, flashpix_diags |-> <<>>,
   diag_order |-> <<>>, is_apng |-> FALSE,
   in_trailer |-> FALSE, trailer_start |-> [source \in Watermarked |-> 0]]

\* What a chunk says: an item for one of the lists.  A warning is the words it
\* is made of, and what may warn more than once is a sequence of them.
Say(source, item) == [source |-> source, item |-> item]
Warning(words) == Say("warnings", <<words>>)
Warns(word) == Warning(<<word>>)
Event(kind) == Say("exif_events", kind)

Push(p, say) ==
  [p EXCEPT ![say.source] = Append(@, say.item), !.diag_order = Append(@, say.source)]
PushAll(p, says) ==
  LET after[n \in 0..Len(says)] == IF n = 0 THEN p ELSE Push(after[n - 1], says[n])
  IN  after[Len(says)]

\* Mutant: the watermarks move with every chunk after the end.
begin_trailer_again(p) ==
  [p EXCEPT !.in_trailer = TRUE,
            !.trailer_start = [source \in Watermarked |-> Len(p[source])]]

begin_trailer(p) ==
  IF p.in_trailer THEN p
  ELSE [p EXCEPT !.in_trailer = TRUE,
                 !.trailer_start = [source \in Watermarked |-> Len(p[source])]]

\* The watermarks are usize::MAX until begin_trailer.
IsTrailing(p, source, n) == p.in_trailer /\ n > p.trailer_start[source]

-----------------------------------------------------------------------------
(* The head of the loop.                                                    *)

TrailerData == Warns("trailer data")

\* After the end chunk the loop warns of whatever is left, and only then turns
\* to the trailer.
AtTrailer(p) == IF was_end THEN begin_trailer(Push(p, TrailerData)) ELSE p

\* The first chunk is to be the header; Apple writes one before it.
HeaderWarning(name) ==
  IF name = "CgBI" THEN Warns("non-standard PNG") ELSE Warns("did not start with IHDR")
AtHeader(p, name) == IF was_hdr \/ name = "IHDR" THEN p ELSE Push(p, HeaderWarning(name))

\* The loop stops short, with a warning unless the image has ended.
StopsWith(p, text) == IF was_end THEN p ELSE Push(p, Warns(text))

Reading == walking /\ depth = NoLevel
Bounded == Len(chunks) < MaxChunks

Chunk(name, fate, says) == [name |-> name, fate |-> fate, says |-> says]
Reads(chunk) == chunks' = Append(chunks, chunk)

\* Fewer than 8 bytes are left.
EndOfData ==
  /\ Reading
  /\ \E fate \in {"empty", "short"} :
       /\ png' = StopsWith(IF fate = "short" THEN AtTrailer(png) ELSE png, "truncated")
       /\ Reads(Chunk("", fate, <<>>))
  /\ walking' = FALSE
  /\ UNCHANGED <<was_hdr, was_dat, was_end, budget>>

\* len > 0x7fffffff.
OversizeChunk ==
  /\ Reading
  /\ png' = StopsWith(AtTrailer(png), "invalid chunk size")
  /\ Reads(Chunk("", "oversize", <<>>))
  /\ walking' = FALSE
  /\ UNCHANGED <<was_hdr, was_dat, was_end, budget>>

\* The file ends within the chunk or its CRC.
CutChunk ==
  /\ Reading
  /\ \E name \in {"IHDR", "CgBI", "IEND"} :
       /\ png' = StopsWith(AtHeader(AtTrailer(png), name),
                           IF name = "IEND" THEN "truncated IEND" ELSE "corrupted")
       /\ was_hdr' = (was_hdr \/ name = "IHDR")
       /\ Reads(Chunk(name, "cut", <<>>))
  /\ walking' = FALSE
  /\ UNCHANGED <<was_dat, was_end, budget>>

EndChunk ==
  /\ Reading /\ Bounded
  /\ png' = AtHeader(AtTrailer(png), "IEND")
  /\ was_end' = TRUE
  /\ Reads(Chunk("IEND", "whole", <<>>))
  /\ UNCHANGED <<was_hdr, was_dat, walking, budget>>

-----------------------------------------------------------------------------
(* The other chunks.                                                        *)

TextChunks == {"tEXt", "eXIf"}

\* The file type a warning names: acTL overrides that of the name from here on.
AfterData(p) == Warning(<<"after image data", IF p.is_apng THEN "APNG" ELSE "by name">>)
AtText(p, name) == IF name \in TextChunks /\ was_dat THEN Push(p, AfterData(p)) ELSE p

\* A case variant of eXIf is read as one, after the check of the name on disk.
AtCase(p, name) == IF name = "exif" THEN Push(p, Warns("should be eXIf")) ELSE p

\* Everything that happens to a whole chunk before its body is looked at.
Before(name) == AtCase(AtText(AtHeader(AtTrailer(png), name), name), name)

WholeChunk(name, says) ==
  /\ Reading /\ Bounded
  /\ png' = [PushAll(Before(name), says) EXCEPT !.is_apng = @ \/ name = "acTL"]
  /\ was_hdr' = (was_hdr \/ name = "IHDR")
  /\ was_dat' = (was_dat \/ name = "IDAT")
  /\ Reads(Chunk(name, "whole", says))
  /\ UNCHANGED <<was_end, walking>>

PlainChunk ==
  /\ \E name \in {"IHDR", "CgBI", "IDAT", "acTL"} : WholeChunk(name, <<>>)
  /\ UNCHANGED budget

\* A well-formed profile is an event of its own, EXIF or not; its XMP packet
\* comes before it.
ProfileSays(body) ==
  CASE body.what = "exif"    -> <<Event("ExifProfile")>>
    [] body.what = "xmp"     -> <<Say("xmp_profiles", body.warnings), Event("ResetOnlyProfile")>>
    [] body.what = "unknown" -> <<Warns("unknown raw profile"), Event("ResetOnlyProfile")>>
    [] body.what = "other"   -> <<Event("ResetOnlyProfile")>>
    [] OTHER                 -> <<>>

TextSays(body) ==
  IF body.what = "bad zlib" THEN <<Warns("error inflating")>>
  ELSE (IF body.wrong_size THEN <<Warns("wrong size")>> ELSE <<>>) \o ProfileSays(body)

TextChunk ==
  /\ \E body \in TextBodies : WholeChunk("tEXt", TextSays(body))
  /\ UNCHANGED budget

\* set_jumbf, set_flashpix: a chunk that holds nothing is dropped.
BoxChunk ==
  /\ \E box \in Boxes, holds \in BOOLEAN, warnings \in BoxWarnings :
       WholeChunk(IF box = "jumbf_diags" THEN "caBX" ELSE "cpIp",
                  IF holds THEN <<Say(box, warnings)>> ELSE <<>>)
  /\ UNCHANGED budget

\* An eXIf chunk: process_exif_block begins with the bytes on disk.
ExifChunk ==
  /\ \E name \in {"eXIf", "exif"} : WholeChunk(name, <<>>)
  /\ depth' = 0 /\ owned' = 0
  /\ UNCHANGED <<zxif_inflated_total, retained, peak>>

-----------------------------------------------------------------------------
(* process_exif_block, one level a step.                                    *)

\* A level may start with the header of another container, which is stripped.
Prefix == {<<>>, <<Warns("improper Exif00 header")>>}

LevelSays(says) ==
  /\ depth # NoLevel
  /\ png' = PushAll(png, says)
  /\ chunks' = [chunks EXCEPT ![Len(chunks)].says = @ \o says]
  /\ UNCHANGED <<was_hdr, was_dat, was_end, walking>>

LeavesBlock == depth' = NoLevel /\ owned' = 0

\* II or MM: the level is moved into an event.
RetainLevel ==
  /\ \E prefix \in Prefix : LevelSays(prefix \o <<Event("NativeTiff")>>)
  /\ retained' = retained + owned
  /\ LeavesBlock
  /\ UNCHANGED <<zxif_inflated_total, peak>>

\* Neither TIFF nor compressed, or nested too deep, or without a payload.
RefuseLevel ==
  /\ \E prefix \in Prefix, text \in {"invalid chunk", "error inflating"} :
       LevelSays(prefix \o <<Warns(text)>>)
  /\ LeavesBlock
  /\ UNCHANGED <<zxif_inflated_total, retained, peak>>

\* Mutant: every chunk has the whole budget.
RemainingPerChunk == MAX_ZXIF_INFLATE_TOTAL

Remaining ==
  IF zxif_inflated_total > MAX_ZXIF_INFLATE_TOTAL THEN 0
  ELSE MAX_ZXIF_INFLATE_TOTAL - zxif_inflated_total

\* Inflating makes so many bytes beside those alive, whether it succeeds or not.
Inflates(bytes) ==
  /\ bytes <= Remaining
  /\ zxif_inflated_total' = zxif_inflated_total + bytes
  /\ peak' = IF retained + owned + bytes > peak THEN retained + owned + bytes ELSE peak
  /\ UNCHANGED retained

InflateLevel ==
  /\ depth < MAX_ZXIF_DEPTH /\ Remaining > 0
  /\ \E prefix \in Prefix : LevelSays(prefix)
  /\ \E bytes \in Inflations : Inflates(bytes) /\ owned' = bytes
  /\ depth' = depth + 1

\* Corrupt, or more than the budget has left: what was made so far is charged.
FailToInflate ==
  /\ depth < MAX_ZXIF_DEPTH
  /\ \E prefix \in Prefix : LevelSays(prefix \o <<Warns("error inflating")>>)
  /\ \E bytes \in {0, Remaining} : Inflates(bytes)
  /\ LeavesBlock

ChunkInit ==
  /\ png = NoPngMeta
  /\ was_hdr = FALSE /\ was_dat = FALSE /\ was_end = FALSE
  /\ walking = TRUE
  /\ depth = NoLevel /\ owned = 0
  /\ zxif_inflated_total = 0 /\ retained = 0 /\ peak = 0
  /\ chunks = <<>>

ChunkNext ==
  \/ EndOfData \/ OversizeChunk \/ CutChunk \/ EndChunk
  \/ PlainChunk \/ TextChunk \/ BoxChunk \/ ExifChunk
  \/ RetainLevel \/ RefuseLevel \/ InflateLevel \/ FailToInflate

ChunkSpec == ChunkInit /\ [][ChunkNext]_chunkVars

-----------------------------------------------------------------------------
(* diagnostics: the lists put together again.                               *)

Nth(order, k) == Cardinality({j \in 1..k : order[j] = order[k]})

\* Every step of diag_order draws the next item of its list; replays[n] is what
\* the replay of the n-th EXIF event warns of.
Diagnostics(p, replays) ==
  [k \in DOMAIN p.diag_order |->
     LET source == p.diag_order[k]
         n      == Nth(p.diag_order, k)
     IN  [texts |-> IF source = "exif_events" THEN replays[n] ELSE p[source][n],
          group |-> IF source \in Watermarked /\ IsTrailing(p, source, n)
                    THEN "Trailer" ELSE "document"]]

-----------------------------------------------------------------------------
(* Properties.                                                              *)

Seen(name, i) == \E j \in 1..i : chunks[j].name = name
InTrailer(i) == Seen("IEND", i - 1)

Ending(chunk) ==
  IF chunk.fate = "cut" THEN IF chunk.name = "IEND" THEN "truncated IEND" ELSE "corrupted"
  ELSE IF chunk.fate = "oversize" THEN "invalid chunk size"
  ELSE "truncated"

\* What is to be said when a chunk is read, from the list of the chunks alone.
Says(i) ==
  LET chunk == chunks[i]
      when(condition, say) == IF condition THEN <<say>> ELSE <<>>
      named == chunk.fate \in {"whole", "cut"}
      whole == chunk.fate = "whole"
  IN  when(InTrailer(i) /\ chunk.fate # "empty", TrailerData)
        \o when(named /\ ~Seen("IHDR", i), HeaderWarning(chunk.name))
        \o when(~whole /\ ~InTrailer(i), Warns(Ending(chunk)))
        \o when(whole /\ chunk.name \in TextChunks /\ Seen("IDAT", i - 1),
                Warning(<<"after image data", IF Seen("acTL", i - 1) THEN "APNG" ELSE "by name">>))
        \o when(whole /\ chunk.name = "exif", Warns("should be eXIf"))
        \o chunk.says

\* What the chunks after the end say belongs to the trailer, but for the first
\* warning that there is one, and for the boxes, whose group the code leaves.
Group(i, say) ==
  IF InTrailer(i) /\ say.source \notin Boxes /\ ~(say = TrailerData /\ ~InTrailer(i - 1))
  THEN "Trailer" ELSE "document"

SpokenBy(i) ==
  LET says == Says(i)
  IN  [k \in DOMAIN says |-> [say |-> says[k], group |-> Group(i, says[k])]]

Spoken ==
  LET upto[i \in 0..Len(chunks)] == IF i = 0 THEN <<>> ELSE upto[i - 1] \o SpokenBy(i)
  IN  upto[Len(chunks)]

\* The diagnostics of a file come in the order of its chunks, none is lost and
\* none is drawn for another, and those of a trailing chunk, alone, are in the
\* group of the trailer: "every document warning surfaces at its chunk-walk
\* position", which decides the one warning a document shows.
InWalkOrder(replays) ==
  LET spoken == Spoken
      order  == [k \in DOMAIN spoken |-> spoken[k].say.source]
      Texts(k) == IF order[k] = "exif_events" THEN replays[Nth(order, k)] ELSE spoken[k].say.item
  IN  Diagnostics(png, replays) =
        [k \in DOMAIN spoken |-> [texts |-> Texts(k), group |-> spoken[k].group]]

\* However many chunks are inflated, however deep and however they fail, the
\* inflated bytes alive at once, those of the level at hand, of the one being
\* made from it and of every event, stay within one budget: "bounded across ALL
\* chunks, not per chunk".
InflationBounded == peak <= MAX_ZXIF_INFLATE_TOTAL
=============================================================================
