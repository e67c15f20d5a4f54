------------------------------ MODULE OggPages ------------------------------
(*****************************************************************************)
(* The page loop of an Ogg stream, `parse_inner` of formats/ogg.rs.          *)
(*                                                                           *)
(* A stream is cut into pages; a packet is a page and the pages of the same  *)
(* logical stream that continue it.  The loop keeps the packet that is being *)
(* put together for each logical stream (`val`), and hands it on when a page *)
(* of that stream does not continue it, when a page ends the stream, or,     *)
(* once, at the end of the file.                                             *)
(*                                                                           *)
(* A page is the record of the header fields the loop reads and the codec    *)
(* that `classify_packet` finds in it.  The pages of a file are chosen as    *)
(* the loop reads them.                                                      *)
(*****************************************************************************)
EXTENDS Integers, Sequences, FiniteSets, FiniteSetsExt

CONSTANTS Pages,        \* the pages a file may hold
          MaxPages,     \* bound on the pages of a file
          MaxPackets    \* MAX_PACKETS: the packets scanned for each stream

ASSUME OggPagesAssumption ==
  /\ MaxPages \in Nat /\ MaxPackets \in Nat
  /\ \A p \in Pages : /\ p.stream \in Nat /\ p.num \in Nat
                      /\ {p.bos, p.cont, p.eos} \subseteq BOOLEAN
                      /\ p.codec \in {"vorbis", "theora", "opus", "other"}

Streams == {p.stream : p \in Pages}
Unchecked == -1

VARIABLES pageLoop,       \* "idle", "reading", "finished"
          success,        \* a page was accepted
          packetCount, streamCount,
          streamPage,     \* of a stream that began: the page expected, or Unchecked
          val,            \* of a stream: the pages of its pending packet
          override,       \* the first type a codec asks for, or ""
          oggWarnings,
          pagesRead,      \* history: every page accepted
          packets,        \* history: every packet processed
          cut             \* history: the last page was cut short by the end of file

oggVars == <<pageLoop, success, packetCount, streamCount, streamPage, val, override,
             oggWarnings, pagesRead, packets, cut>>

NoPages == [s \in {} |-> <<>>]

OggInit ==
  /\ pageLoop = "idle" /\ success = FALSE /\ packetCount = 0 /\ streamCount = 0
  /\ streamPage = [s \in {} |-> 0] /\ val = NoPages /\ override = ""
  /\ oggWarnings = {} /\ pagesRead = <<>> /\ packets = <<>> /\ cut = FALSE

Put(f, s, x) == [t \in DOMAIN f \cup {s} |-> IF t = s THEN x ELSE f[t]]
Drop(f, s) == [t \in DOMAIN f \ {s} |-> f[t]]

(* The type that `record_outcome` takes from a packet, if none came before.  *)
TypeOf(codec) == CASE codec = "theora" -> "OGV" [] codec = "opus" -> "OPUS" [] OTHER -> ""
OverrideAfter(known, packet) ==
  IF known # "" THEN known ELSE TypeOf(packet[1].codec)

TooManyPackets(n, streams) == n > MaxPackets * streams

\* Mutant: the flag of continuation is read the wrong way round.
FlushesContinued(page) == page.stream \in DOMAIN val /\ page.cont

(* A page that does not continue a packet hands on the one that is pending.  *)
Flushes(page) == page.stream \in DOMAIN val /\ ~page.cont

(* What the pages after the header leave of a stream: a continuation joins   *)
(* the pending packet, another page starts one if a codec is found in it.    *)
PendingWith(pending, page) ==
  IF page.stream \in DOMAIN pending
  THEN Put(pending, page.stream, Append(pending[page.stream], page))
  ELSE IF ~page.cont /\ page.codec # "other"
       THEN Put(pending, page.stream, <<page>>)
       ELSE pending

ExpectedAfter(expected, page) ==
  IF page.stream \notin DOMAIN expected \/ expected[page.stream] = Unchecked THEN expected
  ELSE Put(expected, page.stream,
           IF expected[page.stream] = page.num THEN page.num + 1 ELSE Unchecked)

\* Mutant: only a page that comes back is missed.
IsGapBackwards(expected, page) ==
  page.stream \in DOMAIN expected /\ expected[page.stream] > page.num

IsGap(expected, page) ==
  /\ page.stream \in DOMAIN expected
  /\ expected[page.stream] \notin {Unchecked, page.num}

(* One round of the loop on a page.  The loop may stop before it reads the   *)
(* page's data, because it has scanned enough packets, or because the file   *)
(* ends within the segment table or the data.                                *)
ReadPage(page, end) ==
  /\ pageLoop = "reading" /\ Len(pagesRead) < MaxPages
  /\ success' = TRUE
  /\ pagesRead' = Append(pagesRead, page)
  /\ streamCount' = streamCount + (IF page.bos THEN 1 ELSE 0)
  /\ packetCount' = packetCount + (IF page.cont THEN 0 ELSE 1)
  /\ LET begun == IF page.bos THEN Put(streamPage, page.stream, 0) ELSE streamPage
         left == IF Flushes(page) THEN Drop(val, page.stream) ELSE val
         done == IF Flushes(page) THEN <<val[page.stream]>> ELSE <<>>
         type == IF Flushes(page) THEN OverrideAfter(override, val[page.stream])
                 ELSE override
         enough == TooManyPackets(packetCount', streamCount') /\ DOMAIN left = {}
         pending == PendingWith(left, page)
         ends == page.eos /\ page.stream \in DOMAIN pending
     IN /\ cut' = (~enough /\ end # "whole")
        /\ streamPage' = IF enough \/ end = "table" THEN begun ELSE ExpectedAfter(begun, page)
        /\ oggWarnings' = oggWarnings \cup
             (IF ~enough /\ end # "table" /\ IsGap(begun, page) THEN {"MissingPages"} ELSE {})
        /\ IF enough \/ end # "whole"
           THEN /\ pageLoop' = "finished"
                /\ val' = left
                /\ packets' = packets \o done
                /\ override' = type
           ELSE /\ pageLoop' = "reading"
                /\ val' = IF ends THEN Drop(pending, page.stream) ELSE pending
                /\ packets' = packets \o done
                               \o (IF ends THEN <<pending[page.stream]>> ELSE <<>>)
                /\ override' = IF ends THEN OverrideAfter(type, pending[page.stream]) ELSE type

\* Mutant: the loop ends with the last page.
EndOfPagesDropping(lost) ==
  /\ pageLoop = "reading" /\ pageLoop' = "finished"
  /\ oggWarnings' = oggWarnings \cup (IF lost /\ success THEN {"LostSynchronization"} ELSE {})
  /\ UNCHANGED <<success, packetCount, streamCount, streamPage, val, override, pagesRead, packets,
                 cut>>

(* The round without a page: the pending packet of the lowest stream, if     *)
(* there is one, is processed, and the loop ends.  `lost` says that bytes    *)
(* which are no page follow the last one.                                    *)
EndOfPages(lost) ==
  /\ pageLoop = "reading"
  /\ pageLoop' = "finished"
  /\ oggWarnings' = oggWarnings \cup (IF lost /\ success THEN {"LostSynchronization"} ELSE {})
  /\ IF DOMAIN val = {} THEN UNCHANGED <<val, packets, override>>
     ELSE LET first == Min(DOMAIN val)
          IN /\ val' = Drop(val, first)
             /\ packets' = Append(packets, val[first])
             /\ override' = OverrideAfter(override, val[first])
  /\ UNCHANGED <<success, packetCount, streamCount, streamPage, pagesRead, cut>>

-----------------------------------------------------------------------------
(* A packet is made of the pages of one stream, starts at a page that starts *)
(* a packet and in which a codec was found, and goes on with pages that      *)
(* continue it (the accumulation of `parse_inner`).                          *)
IsPacket(p) ==
  /\ p # <<>> /\ ~p[1].cont /\ p[1].codec # "other"
  /\ \A i \in 2..Len(p) : p[i].cont /\ p[i].stream = p[1].stream

(* The pages of a packet stand in the file at rising positions, and no page  *)
(* of the stream that stands between them is left out.                       *)
IsRun(p) ==
  \E at \in [DOMAIN p -> DOMAIN pagesRead] :
    /\ \A k \in DOMAIN p : pagesRead[at[k]] = p[k]
    /\ \A k, l \in DOMAIN p : k < l => at[k] < at[l]
    /\ \A i \in at[1]..at[Len(p)] :
         pagesRead[i].stream = p[1].stream => \E k \in DOMAIN p : at[k] = i

(* Every packet handed to the codec is whole and of one stream: pages of     *)
(* interleaved streams never mix, and no page within a packet is skipped     *)
(* (`val` keyed by the stream, and the flush before the append).             *)
PacketsWellFormed ==
  \A k \in DOMAIN packets : IsPacket(packets[k]) /\ IsRun(packets[k])

(* The first page of a stream says that the stream begins.                   *)
Began(s) ==
  \E i \in DOMAIN pagesRead :
    /\ pagesRead[i].stream = s /\ pagesRead[i].bos
    /\ \A k \in 1..(i - 1) : pagesRead[k].stream # s

(* A hole in a packet does not go unnoticed: if a packet of a stream that    *)
(* began with its first page skips or repeats a page number, other than by   *)
(* beginning the stream again, the warning about missing pages was given,    *)
(* although the check of a stream stops at its first hole.                   *)
HolesReported ==
  \A k \in DOMAIN packets :
    LET p == packets[k]
        hole == \E i \in 2..Len(p) : ~p[i].bos /\ p[i].num # p[i-1].num + 1
    IN hole /\ Began(p[1].stream) => "MissingPages" \in oggWarnings

(* A file of one stream that ends at a page boundary, and whose packets are  *)
(* not cut off by MAX_PACKETS, leaves nothing behind: the packet pending at  *)
(* the end of the file is processed (the pass of `raf_done`).  Of several    *)
(* streams only one pending packet is processed there.                       *)
NothingLeftBehind ==
  (pageLoop = "finished" /\ ~cut) =>
    /\ (\A i, j \in DOMAIN pagesRead : pagesRead[i].stream = pagesRead[j].stream)
         => DOMAIN val = {}
    /\ \A s \in DOMAIN val : Len(packets) > 0 /\ packets[Len(packets)][1].stream < s
=============================================================================
