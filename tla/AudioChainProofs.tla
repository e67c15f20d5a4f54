-------------------------- MODULE AudioChainProofs --------------------------
(*****************************************************************************)
(* Proofs about the page loop of Ogg and the chained audio parsers around    *)
(* it.  Of the loop: packets are whole and of one stream, holes are reported *)
(* and the pass at the end of the file leaves as little behind as it can,    *)
(* for every set of pages, any number of streams and any bound.  Of the      *)
(* chain: in every order of calls and on every file a body is found, ID3     *)
(* tags are reported once, and what holds of the loop holds inside it.       *)
(*****************************************************************************)
EXTENDS AudioChain, SequenceTheorems, FiniteSetTheorems, NaturalsInduction,
        WellFoundedInduction, TLAPS

-----------------------------------------------------------------------------
(* The page loop.                                                           *)

\* The first stream of a set of streams exists.
LEMMA MinNat ==
  ASSUME NEW S, S \subseteq Nat, S # {}
  PROVE  Min(S) \in S /\ \A y \in S : Min(S) <= y
<1>1. \E x \in S : \A y \in S : <<y, x>> \notin OpToRel(<, Nat)
  BY NatLessThanWellFounded, WFMin
<1>2. \E x \in S : \A y \in S : x =< y
  <2>1. PICK x \in S : \A y \in S : <<y, x>> \notin OpToRel(<, Nat)
    BY <1>1
  <2>2. \A y \in S : ~(y < x)
    BY <2>1 DEF OpToRel
  <2> QED
    BY <2>2
<1> QED
  BY <1>2 DEF Min

-----------------------------------------------------------------------------
(* Positions of a packet's pages among the pages read.                      *)

Places(p, read, at) ==
  /\ at \in [DOMAIN p -> DOMAIN read]
  /\ \A k \in DOMAIN p : read[at[k]] = p[k]
  /\ \A k, l \in DOMAIN p : k < l => at[k] < at[l]

RunIn(p, read) ==
  \E at : /\ Places(p, read, at)
          /\ \A i \in at[1]..at[Len(p)] :
               read[i].stream = p[1].stream => \E k \in DOMAIN p : at[k] = i

\* A packet that may still grow reaches to the last page read of its stream.
OpenRun(p, read) ==
  \E at : /\ Places(p, read, at)
          /\ \A i \in at[1]..Len(read) :
               read[i].stream = p[1].stream => \E k \in DOMAIN p : at[k] = i

BeganIn(s, read) ==
  \E i \in DOMAIN read :
    /\ read[i].stream = s /\ read[i].bos
    /\ \A k \in 1..(i - 1) : read[k].stream # s

LEMMA OpenIsRun ==
  ASSUME NEW p \in Seq(Pages), p # <<>>, NEW read \in Seq(Pages), OpenRun(p, read)
  PROVE  RunIn(p, read)
<1>1. PICK at : /\ Places(p, read, at)
                /\ \A i \in at[1]..Len(read) :
                     read[i].stream = p[1].stream => \E k \in DOMAIN p : at[k] = i
  BY DEF OpenRun
<1>2. at[1] \in 1..Len(read) /\ at[Len(p)] \in 1..Len(read)
  BY <1>1 DEF Places
<1> QED
  BY <1>1, <1>2 DEF RunIn

LEMMA PlacesStay ==
  ASSUME NEW p \in Seq(Pages), NEW read \in Seq(Pages), NEW page \in Pages,
         NEW at, Places(p, read, at)
  PROVE  Places(p, Append(read, page), at)
BY DEF Places

LEMMA RunStays ==
  ASSUME NEW p \in Seq(Pages), p # <<>>, NEW read \in Seq(Pages), NEW page \in Pages,
         RunIn(p, read)
  PROVE  RunIn(p, Append(read, page))
<1>1. PICK at : /\ Places(p, read, at)
                /\ \A i \in at[1]..at[Len(p)] :
                     read[i].stream = p[1].stream => \E k \in DOMAIN p : at[k] = i
  BY DEF RunIn
<1>2. at[1] \in 1..Len(read) /\ at[Len(p)] \in 1..Len(read)
  BY <1>1 DEF Places
<1>3. \A i \in at[1]..at[Len(p)] : Append(read, page)[i] = read[i]
  BY <1>2
<1>4. \A i \in at[1]..at[Len(p)] :
        Append(read, page)[i].stream = p[1].stream => \E k \in DOMAIN p : at[k] = i
  BY <1>1, <1>3
<1>5. Places(p, Append(read, page), at)
  BY <1>1, PlacesStay
<1> QED
  BY <1>4, <1>5 DEF RunIn

LEMMA OpenPassed ==
  ASSUME NEW p \in Seq(Pages), p # <<>>, NEW read \in Seq(Pages), NEW page \in Pages,
         OpenRun(p, read), page.stream # p[1].stream
  PROVE  OpenRun(p, Append(read, page))
<1>1. PICK at : /\ Places(p, read, at)
                /\ \A i \in at[1]..Len(read) :
                     read[i].stream = p[1].stream => \E k \in DOMAIN p : at[k] = i
  BY DEF OpenRun
<1>2. at[1] \in 1..Len(read)
  BY <1>1 DEF Places
<1>3. ASSUME NEW i \in at[1]..Len(Append(read, page)),
             Append(read, page)[i].stream = p[1].stream
      PROVE  \E k \in DOMAIN p : at[k] = i
  <2>1. i # Len(read) + 1
    BY <1>3
  <2>2. i \in at[1]..Len(read) /\ Append(read, page)[i] = read[i]
    BY <1>2, <2>1
  <2> QED
    BY <1>1, <1>3, <2>2
<1> QED
  BY <1>1, <1>3, PlacesStay DEF OpenRun

LEMMA OpenGrows ==
  ASSUME NEW p \in Seq(Pages), p # <<>>, NEW read \in Seq(Pages), NEW page \in Pages,
         OpenRun(p, read)
  PROVE  OpenRun(Append(p, page), Append(read, page))
<1> DEFINE q == Append(p, page)
           longer == Append(read, page)
<1>1. PICK at : /\ Places(p, read, at)
                /\ \A i \in at[1]..Len(read) :
                     read[i].stream = p[1].stream => \E k \in DOMAIN p : at[k] = i
  BY DEF OpenRun
<1> DEFINE to == [k \in DOMAIN q |-> IF k = Len(p) + 1 THEN Len(read) + 1 ELSE at[k]]
<1>2. /\ DOMAIN q = 1..(Len(p) + 1) /\ DOMAIN longer = 1..(Len(read) + 1)
      /\ \A k \in DOMAIN p : q[k] = p[k]
      /\ q[Len(p) + 1] = page /\ longer[Len(read) + 1] = page
      /\ \A i \in DOMAIN read : longer[i] = read[i]
      /\ Len(p) \in Nat \ {0} /\ DOMAIN p = 1..Len(p) /\ DOMAIN read = 1..Len(read)
      /\ Len(longer) = Len(read) + 1 /\ Len(read) \in Nat
  OBVIOUS
<1>3. \A k \in DOMAIN p : at[k] \in 1..Len(read) /\ to[k] = at[k]
  BY <1>1, <1>2 DEF Places
<1>4. to[Len(p) + 1] = Len(read) + 1
  BY <1>2
<1>5. Places(q, longer, to)
  <2>1. to \in [DOMAIN q -> DOMAIN longer]
    <3>1. \A k \in DOMAIN q : to[k] \in DOMAIN longer
      <4> TAKE k \in DOMAIN q
      <4>1. CASE k = Len(p) + 1
        BY <1>2, <1>4, <4>1
      <4>2. CASE k \in DOMAIN p
        <5>1. to[k] \in 1..Len(read)
          BY <1>3, <4>2
        <5>2. 1..Len(read) \subseteq DOMAIN longer
          BY <1>2
        <5> QED
          BY <5>1, <5>2
      <4> QED
        BY <1>2, <4>1, <4>2
    <3> HIDE DEF q, longer
    <3> QED
      BY <3>1
  <2>2. \A k \in DOMAIN q : longer[to[k]] = q[k]
    BY <1>1, <1>2, <1>3, <1>4 DEF Places
  <2>3. \A k, l \in DOMAIN q : k < l => to[k] < to[l]
    BY <1>1, <1>2, <1>3, <1>4 DEF Places
  <2> QED
    BY <2>1, <2>2, <2>3 DEF Places
<1>6. \A i \in to[1]..Len(longer) :
        longer[i].stream = q[1].stream => \E k \in DOMAIN q : to[k] = i
  <2> TAKE i \in to[1]..Len(longer)
  <2>1. CASE i = Len(read) + 1
    BY <1>2, <1>4, <2>1
  <2>2. CASE i # Len(read) + 1
    <3>1. at[1] \in 1..Len(read) /\ to[1] = at[1]
      <4>1. 1 \in DOMAIN p
        BY <1>2
      <4> QED
        BY <1>3, <4>1
    <3>2. i \in at[1]..Len(read) /\ i \in DOMAIN read
      BY <1>2, <2>2, <3>1
    <3> QED
      BY <1>1, <1>2, <1>3, <3>2
  <2> QED
    BY <2>1, <2>2
<1> QED
  BY <1>5, <1>6 DEF OpenRun

LEMMA OpenStarts ==
  ASSUME NEW read \in Seq(Pages), NEW page \in Pages
  PROVE  OpenRun(<<page>>, Append(read, page))
<1> DEFINE at == [k \in {1} |-> Len(read) + 1]
<1>1. DOMAIN <<page>> = {1} /\ Len(Append(read, page)) = Len(read) + 1 /\ Len(read) \in Nat
  OBVIOUS
<1>2. Places(<<page>>, Append(read, page), at)
  BY <1>1 DEF Places
<1> QED
  BY <1>1, <1>2 DEF OpenRun

\* The stream of a packet is among those of the pages read.
LEMMA RunHasPage ==
  ASSUME NEW p \in Seq(Pages), p # <<>>, NEW read, RunIn(p, read)
  PROVE  \E i \in DOMAIN read : read[i].stream = p[1].stream
BY DEF RunIn, Places

LEMMA BeganBefore ==
  ASSUME NEW read \in Seq(Pages), NEW page \in Pages, NEW s, BeganIn(s, Append(read, page))
  PROVE  /\ BeganIn(s, read) \/ (page.stream = s /\ page.bos)
         /\ (\E i \in DOMAIN read : read[i].stream = s) => BeganIn(s, read)
<1> DEFINE longer == Append(read, page)
<1>1. PICK i \in DOMAIN longer : /\ longer[i].stream = s /\ longer[i].bos
                                 /\ \A k \in 1..(i - 1) : longer[k].stream # s
  BY DEF BeganIn
<1>2. CASE i = Len(read) + 1
  <2>1. \A k \in DOMAIN read : read[k].stream # s
    BY <1>1, <1>2
  <2> QED
    BY <1>1, <1>2, <2>1
<1>3. CASE i # Len(read) + 1
  <2>1. i \in DOMAIN read /\ longer[i] = read[i]
    BY <1>3
  <2>2. \A k \in 1..(i - 1) : longer[k] = read[k]
    BY <2>1
  <2> QED
    BY <1>1, <2>1, <2>2 DEF BeganIn
<1> QED
  BY <1>2, <1>3

-----------------------------------------------------------------------------
(* The invariant of the loop.                                               *)

OggTypeOK ==
  /\ pageLoop \in {"idle", "reading", "finished"}
  /\ success \in BOOLEAN
  /\ pagesRead \in Seq(Pages)
  /\ DOMAIN val \subseteq Streams
  /\ packets \in Seq(Seq(Pages))

\* A page was accepted exactly if one was read, and none before the loop.
Accepting ==
  /\ success <=> pagesRead # <<>>
  /\ pageLoop = "idle" => pagesRead = <<>> /\ DOMAIN val = {} /\ packets = <<>>

Contiguous(p) == \A i \in 2..Len(p) : p[i].bos \/ p[i].num = p[i-1].num + 1

\* A pending packet is filed under its stream, well formed, and reaches to the
\* last page of the stream; as long as nothing was missed, it has no hole, and
\* the page expected of the stream is the one after its last page.
PendingFor(s, p, read, expected, warned) ==
  /\ p \in Seq(Pages) /\ IsPacket(p) /\ p[1].stream = s /\ OpenRun(p, read)
  /\ BeganIn(s, read) /\ ~warned => Contiguous(p) /\ expected[s] = p[Len(p)].num + 1

PendingOK ==
  pageLoop # "finished" =>
    \A s \in DOMAIN val :
      PendingFor(s, val[s], pagesRead, streamPage, "MissingPages" \in oggWarnings)

\* A page is expected of each stream that began, and as long as nothing was
\* missed the check of none has stopped.
ExpectedOK ==
  pageLoop # "finished" =>
    /\ \A s : BeganIn(s, pagesRead) => s \in DOMAIN streamPage
    /\ "MissingPages" \notin oggWarnings =>
         \A s \in DOMAIN streamPage : streamPage[s] \in Nat

OggInv ==
  /\ OggTypeOK /\ Accepting /\ PendingOK /\ ExpectedOK
  /\ PacketsWellFormed /\ HolesReported /\ NothingLeftBehind

\* The two properties of packets, packet by packet.
PacketOK(p, read, warned) ==
  /\ IsPacket(p) /\ RunIn(p, read)
  /\ BeganIn(p[1].stream, read) /\ ~warned => Contiguous(p)

LEMMA PendingIsPacket ==
  ASSUME NEW s, NEW p, NEW read \in Seq(Pages), NEW expected, NEW warned \in BOOLEAN,
         PendingFor(s, p, read, expected, warned)
  PROVE  p # <<>> /\ PacketOK(p, read, warned)
<1>1. p \in Seq(Pages) /\ IsPacket(p) /\ p[1].stream = s /\ OpenRun(p, read)
  BY DEF PendingFor
<1>2. p # <<>>
  BY <1>1 DEF IsPacket
<1>3. RunIn(p, read)
  BY <1>1, <1>2, OpenIsRun
<1> QED
  BY <1>1, <1>2, <1>3 DEF PendingFor, PacketOK

LEMMA PacketStays ==
  ASSUME NEW p \in Seq(Pages), NEW read \in Seq(Pages), NEW page \in Pages,
         NEW before \in BOOLEAN, NEW after \in BOOLEAN, before => after,
         PacketOK(p, read, before)
  PROVE  PacketOK(p, Append(read, page), after)
<1>1. IsPacket(p) /\ p # <<>> /\ RunIn(p, read)
  BY DEF PacketOK, IsPacket
<1>2. RunIn(p, Append(read, page))
  BY <1>1, RunStays
<1>3. BeganIn(p[1].stream, Append(read, page)) => BeganIn(p[1].stream, read)
  BY <1>1, RunHasPage, BeganBefore
<1> QED
  BY <1>1, <1>2, <1>3 DEF PacketOK

LEMMA PacketsAre ==
  ASSUME packets \in Seq(Seq(Pages))
  PROVE  PacketsWellFormed /\ HolesReported <=>
           \A k \in DOMAIN packets :
             PacketOK(packets[k], pagesRead, "MissingPages" \in oggWarnings)
<1>1. \A k \in DOMAIN packets : IsRun(packets[k]) <=> RunIn(packets[k], pagesRead)
  BY DEF IsRun, RunIn, Places
<1>2. \A s : Began(s) <=> BeganIn(s, pagesRead)
  BY DEF Began, BeganIn
<1> QED
  BY <1>1, <1>2 DEF PacketsWellFormed, HolesReported, PacketOK, Contiguous

LEMMA PacketsAreNext ==
  ASSUME packets' \in Seq(Seq(Pages))
  PROVE  PacketsWellFormed' /\ HolesReported' <=>
           \A k \in DOMAIN packets' :
             PacketOK(packets'[k], pagesRead', "MissingPages" \in oggWarnings')
<1>1. \A k \in DOMAIN packets' : IsRun(packets[k])' <=> RunIn(packets'[k], pagesRead')
  BY DEF IsRun, RunIn, Places
<1>2. \A s : Began(s)' <=> BeganIn(s, pagesRead')
  BY DEF Began, BeganIn
<1> QED
  BY <1>1, <1>2 DEF PacketsWellFormed, HolesReported, PacketOK, Contiguous

LEMMA OggInvInit == OggInit => OggInv
<1> SUFFICES ASSUME OggInit PROVE OggInv
  OBVIOUS
<1>0. /\ pageLoop = "idle" /\ success = FALSE /\ pagesRead = <<>> /\ packets = <<>>
      /\ DOMAIN val = {} /\ DOMAIN streamPage = {} /\ DOMAIN pagesRead = {} /\ DOMAIN packets = {}
  <2>1. /\ pageLoop = "idle" /\ success = FALSE /\ pagesRead = <<>> /\ packets = <<>>
        /\ streamPage = [s \in {} |-> 0] /\ val = [s \in {} |-> <<>>]
    BY DEF OggInit, NoPages
  <2>2. DOMAIN val = {} /\ DOMAIN streamPage = {}
    BY <2>1, Zenon
  <2>3. DOMAIN <<>> = {}
    OBVIOUS
  <2> QED
    BY <2>1, <2>2, <2>3
<1>1. OggTypeOK /\ Accepting /\ PendingOK /\ PacketsWellFormed /\ HolesReported
  <2>1. OggTypeOK
    BY <1>0, EmptySeq, Zenon DEF OggTypeOK
  <2>2. Accepting /\ PendingOK /\ PacketsWellFormed /\ HolesReported
    BY <1>0 DEF Accepting, PendingOK, PacketsWellFormed, HolesReported
  <2> QED
    BY <2>1, <2>2
<1>2. ExpectedOK
  BY <1>0 DEF ExpectedOK, BeganIn
<1>3. NothingLeftBehind
  BY DEF OggInit, NothingLeftBehind
<1> QED
  BY <1>1, <1>2, <1>3 DEF OggInv

\* The loop starts on what the state before it holds.
LEMMA OggInvStart ==
  ASSUME OggInv, pageLoop = "idle", pageLoop' = "reading",
         UNCHANGED <<success, packetCount, streamCount, streamPage, val, override,
                     oggWarnings, pagesRead, packets, cut>>
  PROVE  OggInv'
<1>1. OggTypeOK' /\ Accepting' /\ PendingOK' /\ ExpectedOK'
  BY DEF OggInv, OggTypeOK, Accepting, PendingOK, ExpectedOK
<1>2. PacketsWellFormed' /\ HolesReported'
  BY DEF OggInv, OggTypeOK, Accepting, PacketsWellFormed, HolesReported
<1>3. NothingLeftBehind'
  BY DEF NothingLeftBehind
<1> QED
  BY <1>1, <1>2, <1>3 DEF OggInv

LEMMA OggInvStutter ==
  ASSUME OggInv, UNCHANGED oggVars
  PROVE  OggInv'
<1>1. OggTypeOK' /\ Accepting' /\ PendingOK' /\ ExpectedOK' /\ NothingLeftBehind'
  BY DEF OggInv, oggVars, OggTypeOK, Accepting, PendingOK, ExpectedOK, NothingLeftBehind
<1>2. packets' \in Seq(Seq(Pages)) /\ packets \in Seq(Seq(Pages))
  BY DEF OggInv, oggVars, OggTypeOK
<1>3. \A k \in DOMAIN packets' : PacketOK(packets'[k], pagesRead', "MissingPages" \in oggWarnings')
  BY <1>2, PacketsAre DEF OggInv, oggVars
<1> QED
  BY <1>1, <1>2, <1>3, PacketsAreNext DEF OggInv

-----------------------------------------------------------------------------
(* The rounds of the loop.                                                  *)

LEMMA PageTyped ==
  ASSUME NEW page \in Pages
  PROVE  page.stream \in Streams /\ page.stream \in Nat /\ page.num \in Nat
BY OggPagesAssumption DEF Streams

LEMMA StreamsNat == Streams \subseteq Nat
BY OggPagesAssumption DEF Streams

LEMMA PacketAppended ==
  ASSUME NEW ps \in Seq(Seq(Pages)), NEW p \in Seq(Pages), NEW read, NEW warned \in BOOLEAN,
         PacketOK(p, read, warned),
         \A k \in DOMAIN ps : PacketOK(ps[k], read, warned)
  PROVE  /\ Append(ps, p) \in Seq(Seq(Pages))
         /\ \A k \in DOMAIN Append(ps, p) : PacketOK(Append(ps, p)[k], read, warned)
<1>1. \A k \in DOMAIN Append(ps, p) :
        Append(ps, p)[k] = p \/ (k \in DOMAIN ps /\ Append(ps, p)[k] = ps[k])
  OBVIOUS
<1>2. Append(ps, p) \in Seq(Seq(Pages))
  OBVIOUS
<1> QED
  BY <1>1, <1>2

\* The pass without a page.
LEMMA EndOfPagesInv ==
  ASSUME OggInv, NEW lost, EndOfPages(lost)
  PROVE  OggInv'
<1>1. OggTypeOK /\ Accepting /\ PendingOK /\ ExpectedOK /\ pageLoop = "reading"
  BY DEF OggInv, EndOfPages
<1>2. pageLoop' = "finished" /\ pagesRead' = pagesRead /\ success' = success
      /\ oggWarnings \subseteq oggWarnings'
  BY DEF EndOfPages
<1> DEFINE warned == "MissingPages" \in oggWarnings
<1>3. "MissingPages" \in oggWarnings' <=> warned
  BY DEF EndOfPages
<1>4. \A k \in DOMAIN packets : PacketOK(packets[k], pagesRead, warned)
  BY <1>1, PacketsAre DEF OggInv, OggTypeOK
<1>5. CASE DOMAIN val = {}
  <2>1. val' = val /\ packets' = packets
    BY <1>5 DEF EndOfPages
  <2>2. OggTypeOK' /\ Accepting' /\ PendingOK' /\ ExpectedOK' /\ NothingLeftBehind'
    BY <1>1, <1>2, <1>5, <2>1
       DEF OggTypeOK, Accepting, PendingOK, ExpectedOK, NothingLeftBehind
  <2>3. \A k \in DOMAIN packets' :
          PacketOK(packets'[k], pagesRead', "MissingPages" \in oggWarnings')
    BY <1>2, <1>3, <1>4, <2>1
  <2> QED
    BY <2>2, <2>3, PacketsAreNext DEF OggInv, OggTypeOK
<1>6. CASE DOMAIN val # {}
  <2> DEFINE first == Min(DOMAIN val)
  <2>1. first \in DOMAIN val /\ \A s \in DOMAIN val : first <= s
    BY <1>1, <1>6, StreamsNat, MinNat DEF OggTypeOK
  <2>2. val' = Drop(val, first) /\ packets' = Append(packets, val[first])
    BY <1>6 DEF EndOfPages
  <2>3. DOMAIN val' = DOMAIN val \ {first} /\ \A s \in DOMAIN val' : val'[s] = val[s]
    BY <2>2 DEF Drop
  <2>4. \A s \in DOMAIN val :
          /\ val[s] \in Seq(Pages) /\ val[s] # <<>> /\ val[s][1].stream = s
          /\ PacketOK(val[s], pagesRead, warned)
    <3> TAKE s \in DOMAIN val
    <3>1. PendingFor(s, val[s], pagesRead, streamPage, warned)
      BY <1>1 DEF PendingOK
    <3> HIDE DEF warned
    <3>2. warned \in BOOLEAN /\ pagesRead \in Seq(Pages)
      BY <1>1 DEF warned, OggTypeOK
    <3>3. val[s] # <<>> /\ PacketOK(val[s], pagesRead, warned)
      BY <3>1, <3>2, PendingIsPacket
    <3> QED
      BY <3>1, <3>3 DEF PendingFor
  <2>6. /\ packets' \in Seq(Seq(Pages))
        /\ \A k \in DOMAIN packets' :
             PacketOK(packets'[k], pagesRead', "MissingPages" \in oggWarnings')
    <3> HIDE DEF first, warned
    <3>1. warned \in BOOLEAN
      BY DEF warned
    <3> QED
      BY <1>1, <1>2, <1>3, <1>4, <2>1, <2>2, <2>4, <3>1, PacketAppended DEF OggTypeOK
  <2>7. OggTypeOK' /\ Accepting' /\ PendingOK' /\ ExpectedOK'
    BY <1>1, <1>2, <2>3, <2>6 DEF OggTypeOK, Accepting, PendingOK, ExpectedOK
  <2>8. NothingLeftBehind'
    <3>1. packets'[Len(packets')] = val[first] /\ Len(packets') > 0
      BY <1>1, <2>1, <2>2, <2>4 DEF OggTypeOK
    <3>2. \A s \in DOMAIN val' : first < s
      <4>1. first \in Nat /\ \A s \in DOMAIN val : s \in Nat
        BY <1>1, <2>1, StreamsNat DEF OggTypeOK
      <4> HIDE DEF first
      <4> QED
        BY <2>1, <2>3, <4>1
    <3>3. ASSUME NEW s \in DOMAIN val'
          PROVE  \E i, j \in DOMAIN pagesRead' : pagesRead'[i].stream # pagesRead'[j].stream
      <4>1. s \in DOMAIN val /\ s # first
        BY <2>3, <3>3
      <4>2. \A t \in DOMAIN val : \E i \in DOMAIN pagesRead : pagesRead[i].stream = t
        BY <2>4, RunHasPage DEF PacketOK
      <4> QED
        BY <1>2, <2>1, <4>1, <4>2
    <3> HIDE DEF first
    <3> QED
      BY <2>1, <2>4, <3>1, <3>2, <3>3 DEF NothingLeftBehind
  <2> QED
    BY <2>6, <2>7, <2>8, PacketsAreNext DEF OggInv
<1> QED
  BY <1>5, <1>6

\* What a page read to its end does to the page expected of each stream.
LEMMA ExpectedNext ==
  ASSUME ExpectedOK, pageLoop = "reading", pagesRead \in Seq(Pages), NEW page \in Pages,
         NEW begun, begun = (IF page.bos THEN Put(streamPage, page.stream, 0) ELSE streamPage),
         NEW after, after = ExpectedAfter(begun, page),
         "MissingPages" \notin oggWarnings, ~IsGap(begun, page)
  PROVE  /\ \A s \in DOMAIN after : after[s] \in Nat
         /\ page.stream \in DOMAIN after => after[page.stream] = page.num + 1
         /\ \A s \in DOMAIN streamPage : s # page.stream => after[s] = streamPage[s]
         /\ ~page.bos /\ page.stream \in DOMAIN streamPage => streamPage[page.stream] = page.num
<1>1. \A s \in DOMAIN streamPage : streamPage[s] \in Nat
  BY DEF ExpectedOK
<1>2. \A s \in DOMAIN begun : begun[s] \in Nat
  BY <1>1 DEF Put
<1>3. page.stream \in DOMAIN begun => begun[page.stream] = page.num
  BY <1>2 DEF IsGap, Unchecked
<1>4. page.num \in Nat
  BY PageTyped
<1>5. CASE page.stream \in DOMAIN begun
  <2>1. after = Put(begun, page.stream, page.num + 1)
    BY <1>2, <1>3, <1>5 DEF ExpectedAfter, Unchecked
  <2>2. DOMAIN after = DOMAIN begun /\ after[page.stream] = page.num + 1
        /\ \A s \in DOMAIN begun : s # page.stream => after[s] = begun[s]
    BY <1>5, <2>1 DEF Put
  <2>3. \A s \in DOMAIN streamPage : s # page.stream => s \in DOMAIN begun /\ begun[s] = streamPage[s]
    BY DEF Put
  <2>4. \A s \in DOMAIN after : after[s] \in Nat
    BY <1>2, <1>4, <2>2
  <2> QED
    BY <1>3, <1>5, <2>2, <2>3, <2>4
<1>6. CASE page.stream \notin DOMAIN begun
  <2>1. ~page.bos /\ after = begun /\ begun = streamPage
    BY <1>6 DEF ExpectedAfter, Put
  <2> QED
    BY <1>2, <1>6, <2>1
<1> QED
  BY <1>5, <1>6

LEMMA BegunNext ==
  ASSUME ExpectedOK, pageLoop = "reading", pagesRead \in Seq(Pages), NEW page \in Pages,
         NEW begun, begun = (IF page.bos THEN Put(streamPage, page.stream, 0) ELSE streamPage),
         NEW s, BeganIn(s, Append(pagesRead, page))
  PROVE  s \in DOMAIN ExpectedAfter(begun, page)
<1>1. BeganIn(s, pagesRead) \/ (page.stream = s /\ page.bos)
  BY BeganBefore
<1>2. s \in DOMAIN begun
  BY <1>1 DEF ExpectedOK, Put
<1> QED
  BY <1>2 DEF ExpectedAfter, Put

\* The pending packets after a page read to its end.
LEMMA PendingNext ==
  ASSUME PendingOK, ExpectedOK, pageLoop = "reading", pagesRead \in Seq(Pages),
         NEW page \in Pages,
         NEW left, DOMAIN left \subseteq DOMAIN val, \A s \in DOMAIN left : left[s] = val[s],
         page.stream \in DOMAIN left => page.cont,
         NEW begun, begun = (IF page.bos THEN Put(streamPage, page.stream, 0) ELSE streamPage),
         NEW warned \in BOOLEAN,
         warned <=> "MissingPages" \in oggWarnings \/ IsGap(begun, page),
         NEW s \in DOMAIN PendingWith(left, page)
  PROVE  PendingFor(s, PendingWith(left, page)[s], Append(pagesRead, page),
                    ExpectedAfter(begun, page), warned)
<1> DEFINE pending == PendingWith(left, page)
           read == Append(pagesRead, page)
           after == ExpectedAfter(begun, page)
           before == "MissingPages" \in oggWarnings
<1>1. ~warned =>
        /\ page.stream \in DOMAIN after => after[page.stream] = page.num + 1
        /\ \A t \in DOMAIN streamPage : t # page.stream => after[t] = streamPage[t]
        /\ ~page.bos /\ page.stream \in DOMAIN streamPage => streamPage[page.stream] = page.num
  BY ExpectedNext
<1>2. BeganIn(s, read) => s \in DOMAIN after
  BY BegunNext
<1>3. \A t \in DOMAIN left : PendingFor(t, left[t], pagesRead, streamPage, before)
  BY DEF PendingOK
<1>4. \A t \in DOMAIN left :
        /\ left[t] \in Seq(Pages) /\ IsPacket(left[t]) /\ left[t] # <<>>
        /\ left[t][1].stream = t /\ OpenRun(left[t], pagesRead)
  BY <1>3 DEF PendingFor, IsPacket
<1>5. \A t \in DOMAIN left : BeganIn(t, read) => BeganIn(t, pagesRead)
  <2> TAKE t \in DOMAIN left
  <2>1. RunIn(left[t], pagesRead)
    BY <1>4, OpenIsRun
  <2>2. \E i \in DOMAIN pagesRead : pagesRead[i].stream = t
    BY <1>4, <2>1, RunHasPage
  <2> QED
    BY <2>2, BeganBefore
<1>6. \A t \in DOMAIN left :
        BeganIn(t, read) /\ ~warned =>
          /\ Contiguous(left[t]) /\ streamPage[t] = left[t][Len(left[t])].num + 1
          /\ t \in DOMAIN streamPage
  BY <1>3, <1>5 DEF PendingFor, ExpectedOK
<1>7. CASE s # page.stream
  <2>1. s \in DOMAIN left /\ pending[s] = left[s]
    BY <1>7 DEF PendingWith, Put
  <2>2. OpenRun(left[s], read)
    BY <1>4, <1>7, <2>1, OpenPassed
  <2>3. BeganIn(s, read) /\ ~warned =>
          Contiguous(left[s]) /\ after[s] = left[s][Len(left[s])].num + 1
    BY <1>1, <1>6, <1>7, <2>1
  <2> HIDE DEF read, after
  <2>4. PendingFor(s, left[s], read, after, warned)
    BY <1>4, <2>1, <2>2, <2>3 DEF PendingFor
  <2> QED
    BY <2>1, <2>4 DEF read, after
<1>8. CASE s = page.stream /\ s \in DOMAIN left
  <2> DEFINE p == left[s]
             q == Append(p, page)
  <2>1. pending[s] = q /\ page.cont
    BY <1>8 DEF PendingWith, Put
  <2>2. /\ p \in Seq(Pages) /\ IsPacket(p) /\ p # <<>> /\ p[1].stream = s
        /\ OpenRun(p, pagesRead)
    BY <1>4, <1>8
  <2>3. BeganIn(s, read) /\ ~warned =>
          Contiguous(p) /\ (page.bos \/ page.num = p[Len(p)].num + 1) /\ after[s] = page.num + 1
    BY <1>1, <1>2, <1>6, <1>8
  <2> HIDE DEF p, read, after
  <2>4. /\ q \in Seq(Pages) /\ Len(q) = Len(p) + 1 /\ q[Len(q)] = page
        /\ Len(p) \in Nat \ {0} /\ \A i \in 1..Len(p) : q[i] = p[i]
    BY <2>2
  <2>5. OpenRun(q, read)
    BY <2>2, OpenGrows DEF read
  <2> HIDE DEF q
  <2>6. IsPacket(q)
    BY <1>8, <2>1, <2>2, <2>4 DEF IsPacket
  <2>7. Contiguous(p) /\ (page.bos \/ page.num = p[Len(p)].num + 1) => Contiguous(q)
    BY <2>4 DEF Contiguous
  <2>8. PendingFor(s, q, read, after, warned)
    BY <2>2, <2>3, <2>4, <2>5, <2>6, <2>7 DEF PendingFor
  <2> QED
    BY <2>1, <2>8 DEF read, after
<1>9. CASE s = page.stream /\ s \notin DOMAIN left
  <2>1. pending[s] = <<page>> /\ ~page.cont /\ page.codec # "other"
    BY <1>9 DEF PendingWith, Put
  <2>2. OpenRun(<<page>>, read)
    BY OpenStarts
  <2>3. BeganIn(s, read) /\ ~warned => after[s] = page.num + 1
    BY <1>1, <1>2, <1>9
  <2> HIDE DEF read, after
  <2>4. <<page>> \in Seq(Pages) /\ Len(<<page>>) = 1 /\ <<page>>[1] = page
    OBVIOUS
  <2>5. IsPacket(<<page>>) /\ Contiguous(<<page>>)
    BY <2>1, <2>4 DEF IsPacket, Contiguous
  <2>6. PendingFor(s, <<page>>, read, after, warned)
    BY <1>9, <2>2, <2>3, <2>4, <2>5 DEF PendingFor
  <2> QED
    BY <2>1, <2>6 DEF read, after
<1> QED
  BY <1>7, <1>8, <1>9

\* A round on a page.
LEMMA ReadPageInv ==
  ASSUME OggInv, NEW page \in Pages, NEW end, ReadPage(page, end)
  PROVE  OggInv' /\ success'
<1> DEFINE begun == IF page.bos THEN Put(streamPage, page.stream, 0) ELSE streamPage
           left == IF Flushes(page) THEN Drop(val, page.stream) ELSE val
           done == IF Flushes(page) THEN <<val[page.stream]>> ELSE <<>>
           enough == TooManyPackets(packetCount', streamCount') /\ DOMAIN left = {}
           pending == PendingWith(left, page)
           ends == page.eos /\ page.stream \in DOMAIN pending
           read == Append(pagesRead, page)
           before == "MissingPages" \in oggWarnings
           warned == "MissingPages" \in oggWarnings'
<1>1. /\ OggTypeOK /\ Accepting /\ PendingOK /\ ExpectedOK /\ pageLoop = "reading"
      /\ pagesRead \in Seq(Pages) /\ packets \in Seq(Seq(Pages))
  BY DEF OggInv, OggTypeOK, ReadPage
<1>2. /\ success' = TRUE /\ pagesRead' = read
      /\ oggWarnings' = oggWarnings \cup
           (IF ~enough /\ end # "table" /\ IsGap(begun, page) THEN {"MissingPages"} ELSE {})
      /\ cut' = (~enough /\ end # "whole")
  BY DEF ReadPage
<1>3. before => warned
  BY <1>2
<1>4. /\ DOMAIN left \subseteq DOMAIN val /\ \A s \in DOMAIN left : left[s] = val[s]
      /\ page.stream \in DOMAIN left => page.cont
  BY DEF Drop, Flushes
<1>5. \A k \in DOMAIN packets : PacketOK(packets[k], read, warned)
  <2> TAKE k \in DOMAIN packets
  <2>1. PacketOK(packets[k], pagesRead, before)
    BY <1>1, PacketsAre DEF OggInv
  <2>2. packets[k] \in Seq(Pages)
    BY <1>1
  <2> HIDE DEF before, warned
  <2>3. before \in BOOLEAN /\ warned \in BOOLEAN
    BY DEF before, warned
  <2> QED
    BY <1>1, <1>3, <2>1, <2>2, <2>3, PacketStays
<1>6. /\ packets \o done \in Seq(Seq(Pages))
      /\ \A k \in DOMAIN (packets \o done) : PacketOK((packets \o done)[k], read, warned)
  <2>1. CASE Flushes(page)
    <3> DEFINE p == val[page.stream]
    <3>1. page.stream \in DOMAIN val
      BY <2>1 DEF Flushes
    <3>2. PendingFor(page.stream, p, pagesRead, streamPage, before)
      BY <1>1, <3>1 DEF PendingOK
    <3> HIDE DEF p, before, warned
    <3>3. before \in BOOLEAN /\ warned \in BOOLEAN
      BY DEF before, warned
    <3>4. p \in Seq(Pages) /\ PacketOK(p, pagesRead, before)
      BY <1>1, <3>2, <3>3, PendingIsPacket DEF PendingFor
    <3>5. PacketOK(p, read, warned)
      BY <1>1, <1>3, <3>3, <3>4, PacketStays
    <3>6. packets \o done = Append(packets, p)
      BY <1>1, <2>1, <3>4 DEF p
    <3> HIDE DEF done, read
    <3> QED
      BY <1>1, <1>5, <3>3, <3>4, <3>5, <3>6, PacketAppended
  <2>2. CASE ~Flushes(page)
    <3>1. packets \o done = packets
      BY <1>1, <2>2, ConcatEmptySeq
    <3> QED
      BY <1>1, <1>5, <3>1
  <2> QED
    BY <2>1, <2>2
<1>7. pagesRead' \in Seq(Pages) /\ pagesRead' # <<>>
  BY <1>1, <1>2
<1>8. CASE enough \/ end # "whole"
  <2>1. pageLoop' = "finished" /\ val' = left /\ packets' = packets \o done
    BY <1>8 DEF ReadPage
  <2>2. OggTypeOK'
    BY <1>1, <1>2, <1>4, <1>6, <1>7, <2>1 DEF OggTypeOK
  <2>3. Accepting' /\ PendingOK' /\ ExpectedOK'
    BY <1>2, <1>7, <2>1 DEF Accepting, PendingOK, ExpectedOK
  <2>4. NothingLeftBehind'
    BY <1>2, <1>8, <2>1 DEF NothingLeftBehind
  <2>5. PacketsWellFormed' /\ HolesReported'
    BY <1>2, <1>6, <2>1, PacketsAreNext
  <2> QED
    BY <1>2, <2>2, <2>3, <2>4, <2>5 DEF OggInv
<1>9. CASE ~enough /\ end = "whole"
  <2>1. /\ pageLoop' = "reading"
        /\ val' = IF ends THEN Drop(pending, page.stream) ELSE pending
        /\ packets' = packets \o done \o (IF ends THEN <<pending[page.stream]>> ELSE <<>>)
        /\ streamPage' = ExpectedAfter(begun, page)
    BY <1>9 DEF ReadPage
  <2>2. warned <=> before \/ IsGap(begun, page)
    BY <1>2, <1>9
  <2>3. \A s \in DOMAIN pending : PendingFor(s, pending[s], read, streamPage', warned)
    <3> TAKE s \in DOMAIN pending
    <3> HIDE DEF warned, left, begun
    <3>1. warned \in BOOLEAN
      BY DEF warned
    <3>2. begun = IF page.bos THEN Put(streamPage, page.stream, 0) ELSE streamPage
      BY DEF begun
    <3> QED
      BY <1>1, <1>4, <2>1, <2>2, <3>1, <3>2, PendingNext
  <2>4. DOMAIN pending \subseteq Streams
    BY <1>1, <1>4, PageTyped DEF OggTypeOK, PendingWith, Put
  <2>5. DOMAIN val' \subseteq DOMAIN pending /\ \A s \in DOMAIN val' : val'[s] = pending[s]
    BY <2>1 DEF Drop
  <2>6. /\ packets' \in Seq(Seq(Pages))
        /\ \A k \in DOMAIN packets' : PacketOK(packets'[k], read, warned)
    <3> DEFINE first == packets \o done
               p == pending[page.stream]
    <3>1. CASE ends
      <4>1. PendingFor(page.stream, p, read, streamPage', warned)
        BY <2>3, <3>1
      <4>2. packets' = first \o <<p>>
        BY <2>1, <3>1
      <4> HIDE DEF warned, read, p, first
      <4>3. warned \in BOOLEAN /\ read \in Seq(Pages)
        BY <1>1 DEF warned, read
      <4>4. p \in Seq(Pages) /\ PacketOK(p, read, warned)
        BY <4>1, <4>3, PendingIsPacket DEF PendingFor
      <4>5. first \in Seq(Seq(Pages)) /\ \A k \in DOMAIN first : PacketOK(first[k], read, warned)
        BY <1>6 DEF first
      <4>6. packets' = Append(first, p)
        BY <4>2, <4>4, <4>5
      <4> QED
        BY <4>3, <4>4, <4>5, <4>6, PacketAppended
    <3>2. CASE ~ends
      <4>1. packets' = first
        BY <1>6, <2>1, <3>2, ConcatEmptySeq
      <4> QED
        BY <1>6, <4>1
    <3> QED
      BY <3>1, <3>2
  <2>7. OggTypeOK' /\ Accepting'
    BY <1>2, <1>7, <2>1, <2>4, <2>5, <2>6 DEF OggTypeOK, Accepting
  <2>8. PendingOK'
    <3> HIDE DEF read, pending
    <3> QED
      BY <1>2, <2>3, <2>5 DEF PendingOK
  <2>9. ExpectedOK'
    <3>1. \A s : BeganIn(s, pagesRead') => s \in DOMAIN streamPage'
      BY <1>1, <1>2, <2>1, BegunNext
    <3>2. ~warned => \A s \in DOMAIN streamPage' : streamPage'[s] \in Nat
      BY <1>1, <2>1, <2>2, ExpectedNext
    <3> QED
      BY <3>1, <3>2 DEF ExpectedOK
  <2>10. NothingLeftBehind'
    BY <2>1 DEF NothingLeftBehind
  <2>11. PacketsWellFormed' /\ HolesReported'
    BY <1>2, <2>6, PacketsAreNext
  <2> QED
    BY <1>2, <2>7, <2>8, <2>9, <2>10, <2>11 DEF OggInv
<1> QED
  BY <1>8, <1>9

-----------------------------------------------------------------------------
(* The chain of parsers.                                                    *)

Flags == [done_id3 : Int, hdr_end : Int, done_ape : BOOLEAN]

\* What whoever ran ID3 on the file has left.
Filled(fl) == fl.done_id3 = TrailerSize(file) /\ fl.hdr_end = HeaderEnd(file)
Agrees(fl) == Filled(fl) \/ (fl.done_id3 = Absent /\ fl.hdr_end = Absent)

FileOK == file.v2.size \in Nat

\* The flags, and those the Ogg parser is going to return.
FlagsOK ==
  /\ sharing \in BOOLEAN
  /\ flags \in Flags /\ Agrees(flags)
  /\ ~sharing => flags = NoFlags
  /\ waiting = {} \/ \E w : waiting = {w}
  /\ \A w \in waiting : /\ w.left \in Flags /\ Filled(w.left)
                        /\ w.id3 <=> Id3Found
  /\ DOMAIN calls \subseteq Parsers

\* Where the page loop stands while the Ogg parser runs.
OggStands ==
  /\ waiting = {} /\ "OGG" \notin DOMAIN calls => pageLoop = "idle"
  /\ waiting # {} => "OGG" \notin DOMAIN calls
  /\ success => BodyFound("OGG", file, HeaderEnd(file))
  /\ pageLoop = "finished" /\ BodyFound("OGG", file, HeaderEnd(file)) => success

\* The ID3 tags of a file, told by pairs of parsers.
Reporting == {p \in DOMAIN calls : calls[p].id3}
Id3Once ==
  IF sharing
  THEN /\ \A p, q \in Reporting : p = q
       /\ flags.done_id3 = Absent => Reporting = {}
  ELSE \A p \in DOMAIN calls : calls[p].accepted => (p \in Reporting <=> HasId3(file))

ChainInv == FileOK /\ FlagsOK /\ OggStands /\ BodyDecides /\ Id3Once /\ OggInv

-----------------------------------------------------------------------------
LEMMA SizesNotAbsent ==
  ASSUME FileOK
  PROVE  /\ TrailerSize(file) \in Nat /\ HeaderEnd(file) \in Nat
         /\ TrailerSize(file) # Absent /\ HeaderEnd(file) # Absent
BY DEF FileOK, TrailerSize, HeaderEnd, V1Len, EnhancedLen, HeaderLen, Absent

\* The flags after the ID3 step of a parser.
LEMMA SeenFilled ==
  ASSUME FileOK, FlagsOK
  PROVE  /\ Seen \in Flags /\ Filled(Seen) /\ AfterApe(Seen) \in Flags /\ Filled(AfterApe(Seen))
         /\ Seen.hdr_end = HeaderEnd(file)
         /\ Id3Runs(flags) <=> flags.done_id3 = Absent
<1>1. Seen \in Flags /\ Filled(Seen)
  <2>1. flags \in Flags /\ Agrees(flags)
    BY DEF FlagsOK
  <2>2. CASE flags.done_id3 = Absent
    <3>1. Seen = [flags EXCEPT !.done_id3 = TrailerSize(file), !.hdr_end = HeaderEnd(file)]
      BY <2>2 DEF Seen, AfterId3, Id3Runs
    <3>2. TrailerSize(file) \in Int /\ HeaderEnd(file) \in Int
      BY SizesNotAbsent
    <3> QED
      BY <2>1, <3>1, <3>2 DEF Flags, Filled
  <2>3. CASE flags.done_id3 # Absent
    <3>1. Seen = flags
      BY <2>3 DEF Seen, AfterId3, Id3Runs
    <3> QED
      BY <2>1, <2>3, <3>1 DEF Agrees
  <2> QED
    BY <2>2, <2>3
<1>2. AfterApe(Seen) \in Flags /\ Filled(AfterApe(Seen))
  BY <1>1 DEF Flags, Filled, AfterApe
<1> QED
  BY <1>1, <1>2 DEF Filled, Id3Runs

LEMMA NoFlagsOK == NoFlags \in Flags /\ NoFlags.done_id3 = Absent /\ NoFlags.hdr_end = Absent
BY DEF NoFlags, Flags, Absent

\* WavPack looks for its body where the file begins, whatever stands there.
LEMMA WavPackBody ==
  ASSUME NEW from
  PROVE  BodyFound("WV", file, 0) = BodyFound("WV", file, from)
BY DEF BodyFound

\* A parser that returns keeps the invariant, if its report is right: accepted as
\* the body decides, ID3 tags only if it ran ID3.
ReportOK(p, report) ==
  /\ p \notin {"ID3", "MP3"} => report.accepted = BodyFound(p, file, HeaderEnd(file))
  /\ report.id3 => Id3Found
  /\ report.accepted => (report.id3 <=> Id3Found)

LEMMA CallsNext ==
  ASSUME NEW p, NEW report, NEW left, Returns(p, report, left)
  PROVE  /\ DOMAIN calls' = DOMAIN calls \cup {p} /\ calls'[p] = report
         /\ \A q \in DOMAIN calls : q # p => calls'[q] = calls[q]
         /\ flags' = IF sharing THEN left ELSE NoFlags
BY DEF Returns, Put

LEMMA ReturnsInv ==
  ASSUME FileOK, FlagsOK, BodyDecides, Id3Once,
         NEW p \in Parsers, p \notin DOMAIN calls, NEW report, NEW left \in Flags,
         Returns(p, report, left), ReportOK(p, report),
         Agrees(left), report.id3 => Filled(left), Filled(flags) => Filled(left),
         UNCHANGED <<file, sharing>>, waiting' = {}
  PROVE  FileOK' /\ FlagsOK' /\ BodyDecides' /\ Id3Once'
<1>1. /\ DOMAIN calls' = DOMAIN calls \cup {p} /\ calls'[p] = report
      /\ \A q \in DOMAIN calls : calls'[q] = calls[q]
      /\ flags' = IF sharing THEN left ELSE NoFlags
  BY CallsNext
<1>2. FileOK'
  BY DEF FileOK
<1>3. FlagsOK'
  BY <1>1, NoFlagsOK DEF FlagsOK, Agrees, Filled
<1>4. BodyDecides'
  BY <1>1 DEF BodyDecides, ReportOK
<1>5. Id3Once'
  <2>1. Reporting' = IF report.id3 THEN Reporting \cup {p} ELSE Reporting
    BY <1>1 DEF Reporting
  <2>2. CASE sharing
    <3>1. report.id3 => Reporting = {} /\ left.done_id3 # Absent
      BY <2>2, SizesNotAbsent, SeenFilled DEF ReportOK, Id3Found, Id3Once, Filled
    <3>2. left.done_id3 = Absent => flags.done_id3 = Absent
      BY SizesNotAbsent DEF FlagsOK, Agrees, Filled
    <3> QED
      BY <1>1, <2>1, <2>2, <3>1, <3>2 DEF Id3Once
  <2>3. CASE ~sharing
    <3>1. Id3Found <=> HasId3(file)
      BY <2>3, NoFlagsOK DEF Id3Found, Id3Runs, FlagsOK
    <3>2. p \notin Reporting
      BY DEF Reporting
    <3>3. \A q \in DOMAIN calls' :
            calls'[q].accepted => (q \in Reporting' <=> HasId3(file))
      BY <1>1, <2>1, <2>3, <3>1, <3>2 DEF Id3Once, ReportOK
    <3> QED
      BY <2>3, <3>3 DEF Id3Once
  <2> QED
    BY <2>2, <2>3 DEF FlagsOK
<1> QED
  BY <1>2, <1>3, <1>4, <1>5

-----------------------------------------------------------------------------
(* The calls.                                                               *)

\* The calls other than those of Ogg leave the page loop alone.
LEMMA OggStandsStill ==
  ASSUME OggStands, OggInv, NEW p, p # "OGG", DOMAIN calls' = DOMAIN calls \cup {p},
         UNCHANGED <<file, waiting, oggVars>>
  PROVE  OggStands' /\ OggInv'
<1>1. OggInv'
  BY OggInvStutter
<1>2. OggStands'
  BY DEF OggStands, oggVars
<1> QED
  BY <1>1, <1>2

LEMMA SimpleReturnInv ==
  ASSUME ChainInv, NEW p \in Parsers, p # "OGG", p \notin DOMAIN calls, waiting = {},
         NEW report, NEW left \in Flags, Returns(p, report, left), ReportOK(p, report),
         Agrees(left), report.id3 => Filled(left), Filled(flags) => Filled(left),
         UNCHANGED <<file, sharing, waiting, oggVars>>
  PROVE  ChainInv'
<1>1. FileOK' /\ FlagsOK' /\ BodyDecides' /\ Id3Once'
  BY ReturnsInv DEF ChainInv
<1>2. DOMAIN calls' = DOMAIN calls \cup {p}
  BY CallsNext
<1>3. OggStands' /\ OggInv'
  BY <1>2, OggStandsStill DEF ChainInv
<1> QED
  BY <1>1, <1>3 DEF ChainInv

\* Each of the six calls that return at once.
LEMMA SimpleCallInv ==
  ASSUME ChainInv, CallId3 \/ CallMp3 \/ CallApe \/ CallFlac \/ CallMpc \/ CallWavPack
  PROVE  ChainInv'
<1>1. /\ Seen \in Flags /\ Filled(Seen) /\ AfterApe(Seen) \in Flags /\ Filled(AfterApe(Seen))
      /\ Seen.hdr_end = HeaderEnd(file) /\ flags \in Flags /\ Agrees(flags)
      /\ Agrees(Seen) /\ Agrees(AfterApe(Seen))
  BY SeenFilled DEF ChainInv, FlagsOK, Agrees
<1>2. UNCHANGED <<file, sharing, waiting, oggVars>> /\ waiting = {}
  BY DEF CallId3, CallMp3, CallApe, CallFlac, CallMpc, CallWavPack, MayCall
<1>3. CASE CallId3
  <2> DEFINE report == Report(Id3Found, Id3Found, NoTag)
  <2>1. Returns("ID3", report, Seen) /\ "ID3" \notin DOMAIN calls /\ "ID3" \in Parsers
    BY <1>3 DEF CallId3, MayCall, Parsers
  <2>2. ReportOK("ID3", report)
    BY DEF ReportOK, Report
  <2> HIDE DEF report
  <2> QED
    BY <1>1, <1>2, <2>1, <2>2, SimpleReturnInv
<1>4. CASE CallMp3
  <2> DEFINE accepted == Id3Found \/ BodyFound("MP3", file, Seen.hdr_end)
             scans == accepted /\ ~flags.done_ape
             ape == IF scans THEN Footer(file, 0, Seen.done_id3) ELSE NoTag
             left == IF scans THEN AfterApe(Seen) ELSE Seen
             report == Report(accepted, Id3Found, ape)
  <2>1. Returns("MP3", report, left) /\ "MP3" \notin DOMAIN calls /\ "MP3" \in Parsers
    BY <1>4 DEF CallMp3, MayCall, Parsers
  <2>2. ReportOK("MP3", report)
    BY DEF ReportOK, Report
  <2>3. left \in Flags /\ Filled(left) /\ Agrees(left)
    BY <1>1
  <2> HIDE DEF report, left
  <2> QED
    BY <1>2, <2>1, <2>2, <2>3, SimpleReturnInv
<1>5. CASE CallApe
  <2> DEFINE ape == IF At(file, Seen.hdr_end) = "APE header"
                    THEN Items(Seen.hdr_end + ApeFooterLen, Seen.hdr_end + BodyLen)
                    ELSE Footer(file, Seen.hdr_end, Seen.done_id3)
             found == BodyFound("APE", file, Seen.hdr_end)
             report == IF found THEN Report(TRUE, Id3Found, ape) ELSE Rejected
  <2>1. Returns("APE", report, AfterApe(Seen)) /\ "APE" \notin DOMAIN calls /\ "APE" \in Parsers
    BY <1>5 DEF CallApe, MayCall, Parsers
  <2> HIDE DEF ape
  <2>2. ReportOK("APE", report)
    BY <1>1 DEF ReportOK, Report, Rejected, BodyFound
  <2> HIDE DEF report
  <2> QED
    BY <1>1, <1>2, <2>1, <2>2, SimpleReturnInv
<1>6. CASE CallFlac
  <2> DEFINE report == IF BodyFound("FLAC", file, Seen.hdr_end)
                       THEN Report(TRUE, Id3Found, NoTag) ELSE Rejected
  <2>1. Returns("FLAC", report, Seen) /\ "FLAC" \notin DOMAIN calls /\ "FLAC" \in Parsers
    BY <1>6 DEF CallFlac, MayCall, Parsers
  <2>2. ReportOK("FLAC", report)
    BY <1>1 DEF ReportOK, Report, Rejected, BodyFound
  <2> HIDE DEF report
  <2> QED
    BY <1>1, <1>2, <2>1, <2>2, SimpleReturnInv
<1>7. CASE CallMpc
  <2> DEFINE found == BodyFound("MPC", file, Seen.hdr_end)
             ape == Footer(file, 0, Seen.done_id3)
             report == IF found THEN Report(TRUE, Id3Found, ape) ELSE Rejected
             left == IF found THEN AfterApe(Seen) ELSE Seen
  <2>1. Returns("MPC", report, left) /\ "MPC" \notin DOMAIN calls /\ "MPC" \in Parsers
    BY <1>7 DEF CallMpc, MayCall, Parsers
  <2> HIDE DEF ape
  <2>2. ReportOK("MPC", report)
    BY <1>1 DEF ReportOK, Report, Rejected, BodyFound
  <2>3. left \in Flags /\ Filled(left) /\ Agrees(left)
    BY <1>1
  <2> HIDE DEF report, left
  <2> QED
    BY <1>2, <2>1, <2>2, <2>3, SimpleReturnInv
<1>8. CASE CallWavPack
  <2> DEFINE found == BodyFound("WV", file, 0)
             ape == Footer(file, 0, Seen.done_id3)
             report == IF found THEN Report(TRUE, Id3Found, ape) ELSE Rejected
             left == IF found THEN AfterApe(Seen) ELSE flags
  <2>1. Returns("WV", report, left) /\ "WV" \notin DOMAIN calls /\ "WV" \in Parsers
    BY <1>8 DEF CallWavPack, MayCall, Parsers
  <2> HIDE DEF ape
  <2>2. ReportOK("WV", report)
    BY WavPackBody DEF ReportOK, Report, Rejected, BodyFound
  <2>3. /\ left \in Flags /\ Agrees(left)
        /\ report.id3 => Filled(left)
        /\ Filled(flags) => Filled(left)
    BY <1>1 DEF Rejected, Report
  <2> HIDE DEF report, left
  <2> QED
    BY <1>2, <2>1, <2>2, <2>3, SimpleReturnInv
<1> QED
  BY <1>3, <1>4, <1>5, <1>6, <1>7, <1>8

-----------------------------------------------------------------------------
(* The Ogg parser, which returns only after its page loop.                  *)

LEMMA CallOggInv ==
  ASSUME ChainInv, CallOgg
  PROVE  ChainInv'
<1>1. /\ waiting = {} /\ "OGG" \notin DOMAIN calls /\ pageLoop = "idle"
      /\ waiting' = {[id3 |-> Id3Found, left |-> Seen]} /\ pageLoop' = "reading"
      /\ UNCHANGED <<file, sharing, flags, calls>>
      /\ UNCHANGED <<success, packetCount, streamCount, streamPage, val, override,
                     oggWarnings, pagesRead, packets, cut>>
  BY DEF ChainInv, OggStands, CallOgg, MayCall
<1>2. OggInv'
  BY <1>1, OggInvStart DEF ChainInv
<1>3. Seen \in Flags /\ Filled(Seen)
  BY SeenFilled DEF ChainInv
<1>4. FlagsOK'
  <2>1. Id3Found' <=> Id3Found
    BY <1>1 DEF Id3Found
  <2>2. \A w \in waiting' : w.left = Seen /\ (w.id3 <=> Id3Found)
    BY <1>1
  <2> QED
    BY <1>1, <1>3, <2>1, <2>2 DEF ChainInv, FlagsOK, Agrees, Filled
<1>5. OggStands'
  <2>1. success = FALSE
    BY <1>1 DEF ChainInv, OggInv, OggTypeOK, Accepting
  <2> QED
    BY <1>1, <2>1 DEF OggStands
<1>6. FileOK' /\ BodyDecides' /\ Id3Once'
  BY <1>1 DEF ChainInv, FileOK, BodyDecides, Id3Once, Reporting
<1> QED
  BY <1>2, <1>4, <1>5, <1>6 DEF ChainInv

LEMMA RunPageLoopInv ==
  ASSUME ChainInv, RunPageLoop
  PROVE  ChainInv'
<1>1. UNCHANGED <<file, sharing, flags, calls, waiting>>
  BY DEF RunPageLoop
<1>2. PICK w \in waiting :
        IF BodyFound("OGG", file, w.left.hdr_end)
        THEN \/ \E page \in Pages, end \in {"whole", "table", "data"} : ReadPage(page, end)
             \/ pagesRead # <<>> /\ EndOfPages(Rest(file, w.left.hdr_end + BodyLen) >= 28)
        ELSE EndOfPages(FALSE)
  BY DEF RunPageLoop
<1>3. w.left.hdr_end = HeaderEnd(file)
  BY DEF ChainInv, FlagsOK, Filled
<1> DEFINE found == BodyFound("OGG", file, HeaderEnd(file))
<1>4. found' <=> found
  BY <1>1
<1>5. FileOK' /\ FlagsOK' /\ BodyDecides' /\ Id3Once'
  <2>1. FileOK' /\ BodyDecides' /\ Id3Once'
    BY <1>1 DEF ChainInv, FileOK, BodyDecides, Id3Once, Reporting
  <2>2. FlagsOK'
    BY <1>1 DEF ChainInv, FlagsOK, Agrees, Filled, Id3Found
  <2> QED
    BY <2>1, <2>2
<1>6. OggInv' /\ (success' => found) /\ (found => success')
  <2>1. ASSUME NEW page \in Pages, NEW end, ReadPage(page, end), found
        PROVE  OggInv' /\ success'
    BY <2>1, ReadPageInv DEF ChainInv
  <2>2. ASSUME NEW lost, EndOfPages(lost)
        PROVE  OggInv' /\ success' = success
    BY <2>2, EndOfPagesInv DEF ChainInv, EndOfPages
  <2>3. CASE found
    <3>1. CASE \E page \in Pages, end \in {"whole", "table", "data"} : ReadPage(page, end)
      BY <2>1, <2>3, <3>1
    <3>2. CASE pagesRead # <<>> /\ EndOfPages(Rest(file, w.left.hdr_end + BodyLen) >= 28)
      BY <2>2, <2>3, <3>2 DEF ChainInv, OggInv, Accepting
    <3> QED
      BY <1>2, <1>3, <2>3, <3>1, <3>2
  <2>4. CASE ~found
    BY <1>2, <1>3, <2>2, <2>4 DEF ChainInv, OggStands
  <2> QED
    BY <2>3, <2>4
<1>7. OggStands'
  <2>1. ~(waiting' = {})
    BY <1>1
  <2> QED
    BY <1>1, <1>4, <1>6, <2>1 DEF ChainInv, OggStands
<1> QED
  BY <1>5, <1>6, <1>7 DEF ChainInv

LEMMA OggReturnsInv ==
  ASSUME ChainInv, OggReturns
  PROVE  ChainInv'
<1>1. /\ pageLoop = "finished" /\ waiting' = {} /\ UNCHANGED <<file, sharing, oggVars>>
  BY DEF OggReturns
<1>2. PICK w \in waiting :
        Returns("OGG", IF success THEN Report(TRUE, w.id3, NoTag) ELSE Rejected, w.left)
  BY DEF OggReturns
<1> DEFINE report == IF success THEN Report(TRUE, w.id3, NoTag) ELSE Rejected
<1>3. w.left \in Flags /\ Filled(w.left) /\ (w.id3 <=> Id3Found) /\ "OGG" \notin DOMAIN calls
  BY DEF ChainInv, FlagsOK, OggStands
<1>4. ReportOK("OGG", report)
  <2>1. success <=> BodyFound("OGG", file, HeaderEnd(file))
    BY <1>1 DEF ChainInv, OggStands
  <2>2. success \in BOOLEAN
    BY DEF ChainInv, OggInv, OggTypeOK
  <2> QED
    BY <1>3, <2>1, <2>2 DEF ReportOK, Report, Rejected, BodyFound
<1> HIDE DEF report
<1>5. FileOK' /\ FlagsOK' /\ BodyDecides' /\ Id3Once'
  BY <1>1, <1>2, <1>3, <1>4, ReturnsInv DEF ChainInv, Agrees, Parsers, report
<1>6. OggInv'
  BY <1>1, OggInvStutter DEF ChainInv
<1>7. OggStands'
  <2>1. DOMAIN calls' = DOMAIN calls \cup {"OGG"}
    BY <1>2, CallsNext
  <2> QED
    BY <1>1, <2>1 DEF ChainInv, OggStands, oggVars
<1> QED
  BY <1>5, <1>6, <1>7 DEF ChainInv

-----------------------------------------------------------------------------
LEMMA ChainInvInit == Init => ChainInv
<1> SUFFICES ASSUME Init PROVE ChainInv
  OBVIOUS
<1>1. PICK f \in Files : file = Laid(f)
  BY DEF Init
<1>2. FileOK
  <2>1. f.v2.size \in Nat
    BY AudioChainAssumption
  <2>2. file.v2 = f.v2
    BY <1>1 DEF Laid
  <2> QED
    BY <2>1, <2>2 DEF FileOK
<1>3. /\ sharing \in BOOLEAN /\ flags = NoFlags /\ waiting = {} /\ OggInit
      /\ calls = [p \in {} |-> Rejected]
  BY DEF Init
<1>4. DOMAIN calls = {}
  BY <1>3, Zenon
<1>5. FlagsOK
  BY <1>3, <1>4, NoFlagsOK DEF FlagsOK, Agrees
<1>6. OggStands
  BY <1>3 DEF OggStands, OggInit
<1>7. BodyDecides /\ Id3Once
  BY <1>4 DEF BodyDecides, Id3Once, Reporting
<1>8. OggInv
  BY <1>3, OggInvInit
<1> QED
  BY <1>2, <1>5, <1>6, <1>7, <1>8 DEF ChainInv

LEMMA ChainInvNext == ChainInv /\ [Next]_vars => ChainInv'
<1> SUFFICES ASSUME ChainInv, [Next]_vars PROVE ChainInv'
  OBVIOUS
<1>1. CASE CallId3 \/ CallMp3 \/ CallApe \/ CallFlac \/ CallMpc \/ CallWavPack
  BY <1>1, SimpleCallInv
<1>2. CASE CallOgg
  BY <1>2, CallOggInv
<1>3. CASE RunPageLoop
  BY <1>3, RunPageLoopInv
<1>4. CASE OggReturns
  BY <1>4, OggReturnsInv
<1>5. CASE UNCHANGED vars
  <2>1. OggInv'
    BY <1>5, OggInvStutter DEF ChainInv, vars
  <2>2. FileOK' /\ FlagsOK'
    BY <1>5 DEF ChainInv, vars, FileOK, FlagsOK, Agrees, Filled, Id3Found
  <2>3. OggStands'
    BY <1>5 DEF ChainInv, vars, oggVars, OggStands
  <2>4. BodyDecides' /\ Id3Once'
    BY <1>5 DEF ChainInv, vars, BodyDecides, Id3Once, Reporting
  <2> QED
    BY <2>1, <2>2, <2>3, <2>4 DEF ChainInv
<1> QED
  BY <1>1, <1>2, <1>3, <1>4, <1>5 DEF Next

LEMMA ChainInvAlways == Spec => []ChainInv
BY ChainInvInit, ChainInvNext, PTL DEF Spec

LEMMA AtMostOne ==
  ASSUME NEW S, S = {} \/ \E x : S = {x}
  PROVE  Cardinality(S) <= 1
<1>1. CASE S = {}
  <2>1. Cardinality(S) = 0
    BY <1>1, FS_EmptySet, Zenon
  <2> QED
    BY <2>1
<1>2. CASE \E x : S = {x}
  <2>1. Cardinality(S) = 1
    BY <1>2, FS_Singleton, Zenon
  <2> QED
    BY <2>1
<1> QED
  BY <1>1, <1>2

\* The flags and the history of the calls keep their types, and the two sizes that
\* ID3 leaves in the flags are those of the file, or both unknown.
THEOREM TypeCorrect == Spec => []TypeOK
<1>1. ChainInv => TypeOK
  <2> SUFFICES ASSUME ChainInv PROVE TypeOK
    OBVIOUS
  <2>1. Cardinality(waiting) <= 1
    BY AtMostOne DEF ChainInv, FlagsOK
  <2>2. (flags.done_id3 = Absent) = (flags.hdr_end = Absent)
    BY SizesNotAbsent DEF ChainInv, FlagsOK, Agrees, Filled
  <2> QED
    BY <2>1, <2>2 DEF TypeOK, ChainInv, FlagsOK, Agrees, Filled, OggInv, OggTypeOK
<1> QED
  BY <1>1, ChainInvAlways, PTL

\* A parser whose body decides claims the same files in every order of calls, on
\* shared flags and on fresh ones.
THEOREM BodyAlwaysDecides == Spec => []BodyDecides
BY ChainInvAlways, PTL DEF ChainInv

\* The ID3 tags of a file are reported once, and by whoever claims it when the
\* flags are fresh.
THEOREM Id3AlwaysReportedOnce == Spec => []Id3ReportedOnce
<1>1. ChainInv => Id3ReportedOnce
  <2> SUFFICES ASSUME ChainInv PROVE Id3ReportedOnce
    OBVIOUS
  <2>1. CASE sharing
    <3>1. Reporting = {} \/ \E p : Reporting = {p}
      BY <2>1 DEF ChainInv, Id3Once
    <3>2. Cardinality(Reporting) <= 1
      BY <3>1, AtMostOne
    <3> QED
      BY <2>1, <3>2 DEF Id3ReportedOnce, Reporting
  <2>2. CASE ~sharing
    BY <2>2 DEF ChainInv, Id3Once, Id3ReportedOnce, Reporting
  <2> QED
    BY <2>1, <2>2
<1> QED
  BY <1>1, ChainInvAlways, PTL

\* The packets of Ogg are whole and of one stream, however its pages interleave.
THEOREM PacketsAlwaysWellFormed == Spec => []PacketsWellFormed
BY ChainInvAlways, PTL DEF ChainInv, OggInv

\* A packet of a stream that began has no hole that was not warned of.
THEOREM HolesAlwaysReported == Spec => []HolesReported
BY ChainInvAlways, PTL DEF ChainInv, OggInv

\* At the end of a file at most the packets of later streams are left behind, and
\* none in a file of one stream.
THEOREM NothingEverLeftBehind == Spec => []NothingLeftBehind
BY ChainInvAlways, PTL DEF ChainInv, OggInv

-----------------------------------------------------------------------------
(* A file as it lies.                                                       *)

Kinds == Bodies \cup {"ID3", "items", "APETAGEX", "TAG"}
ASegment == [kind : Kinds, len : Int]

\* The ends of a row of segments, as Laid defines them.
EndsOf(row, end) == end = [i \in 0..Len(row) |-> IF i = 0 THEN 0 ELSE end[i - 1] + row[i].len]

Placed(row, end) ==
  {[kind |-> row[i].kind, start |-> end[i - 1], end |-> end[i]] : i \in DOMAIN row}

\* A row has ends, and they are such that it is `size` bytes long and its segments
\* lie as in `plan`.
LaidOut(row, plan, size) ==
  /\ row \in Seq(ASegment) /\ size \in Int
  /\ \E end : EndsOf(row, end)
  /\ \A end : EndsOf(row, end) => end[Len(row)] = size /\ Placed(row, end) = plan

LEMMA NothingLaidOut == LaidOut(<<>>, {}, 0)
<1>1. <<>> \in Seq(ASegment) /\ Len(<<>>) = 0 /\ DOMAIN <<>> = {}
  OBVIOUS
<1>2. EndsOf(<<>>, [i \in 0..0 |-> 0])
  BY <1>1 DEF EndsOf
<1>3. \A end : EndsOf(<<>>, end) => end[0] = 0 /\ Placed(<<>>, end) = {}
  BY <1>1 DEF EndsOf, Placed
<1> QED
  BY <1>1, <1>2, <1>3 DEF LaidOut

LEMMA OneMoreLaidOut ==
  ASSUME NEW row, NEW plan, NEW size, LaidOut(row, plan, size), NEW x \in ASegment
  PROVE  LaidOut(row \o <<x>>, plan \cup {[kind |-> x.kind, start |-> size, end |-> size + x.len]},
                 size + x.len)
<1> DEFINE n == Len(row)
           longer == row \o <<x>>
<1>1. row \in Seq(ASegment) /\ size \in Int /\ n \in Nat /\ DOMAIN row = 1..n /\ x.len \in Int
  BY DEF LaidOut, ASegment
<1>2. /\ longer \in Seq(ASegment) /\ Len(longer) = n + 1 /\ DOMAIN longer = 1..(n + 1)
      /\ longer[n + 1] = x /\ \A i \in 1..n : longer[i] = row[i]
  BY <1>1
<1> HIDE DEF n, longer
<1>3. \E end : EndsOf(longer, end)
  <2>1. PICK end : EndsOf(row, end)
    BY DEF LaidOut
  <2>2. /\ \A i \in 0..n : end[i] = IF i = 0 THEN 0 ELSE end[i - 1] + row[i].len
        /\ end[n] = size
    BY <1>1, <2>1 DEF EndsOf, LaidOut, n
  <2> DEFINE to == [i \in 0..(n + 1) |-> IF i = n + 1 THEN size + x.len ELSE end[i]]
  <2>3. \A i \in 0..(n + 1) : to[i] = IF i = 0 THEN 0 ELSE to[i - 1] + longer[i].len
    <3> TAKE i \in 0..(n + 1)
    <3>1. CASE i = n + 1
      <4>1. n \in 0..(n + 1) /\ n # n + 1 /\ i # 0 /\ i - 1 = n
        BY <1>1, <3>1
      <4> QED
        BY <1>2, <2>2, <3>1, <4>1
    <3>2. CASE i # n + 1 /\ i # 0
      <4>1. i \in 1..n /\ i \in 0..n /\ i - 1 \in 0..(n + 1) /\ i - 1 # n + 1
        BY <1>1, <3>2
      <4> QED
        BY <1>2, <2>2, <3>2, <4>1
    <3>3. CASE i = 0
      BY <1>1, <2>2, <3>3
    <3> QED
      BY <3>1, <3>2, <3>3
  <2>4. to = [i \in 0..(n + 1) |-> IF i = 0 THEN 0 ELSE to[i - 1] + longer[i].len]
    BY <2>3
  <2> HIDE DEF to
  <2> QED
    BY <1>2, <2>4 DEF EndsOf
<1>4. ASSUME NEW end, EndsOf(longer, end)
      PROVE  /\ end[n + 1] = size + x.len
             /\ Placed(longer, end)
                  = plan \cup {[kind |-> x.kind, start |-> size, end |-> size + x.len]}
  <2>1. \A i \in 0..(n + 1) : end[i] = IF i = 0 THEN 0 ELSE end[i - 1] + longer[i].len
    BY <1>2, <1>4 DEF EndsOf
  <2> DEFINE from == [i \in 0..n |-> end[i]]
  <2>2. \A i \in 0..n : from[i] = IF i = 0 THEN 0 ELSE from[i - 1] + row[i].len
    <3> TAKE i \in 0..n
    <3>1. i \in 0..(n + 1) /\ (i # 0 => i \in 1..n /\ i - 1 \in 0..n)
      BY <1>1
    <3> QED
      BY <1>2, <2>1, <3>1
  <2>3. EndsOf(row, from)
    <3>1. from = [i \in 0..n |-> IF i = 0 THEN 0 ELSE from[i - 1] + row[i].len]
      BY <2>2
    <3> HIDE DEF from
    <3> QED
      BY <3>1 DEF EndsOf, n
  <2>4. from[n] = size /\ Placed(row, from) = plan
    BY <2>3 DEF LaidOut, n
  <2>5. end[n] = size /\ end[n + 1] = size + x.len
    <3>1. n \in 0..n /\ n + 1 \in 0..(n + 1) /\ n + 1 # 0 /\ (n + 1) - 1 = n
      BY <1>1
    <3> QED
      BY <1>2, <2>1, <2>4, <3>1
  <2>6. \A i \in 1..n : from[i - 1] = end[i - 1] /\ from[i] = end[i]
    BY <1>1
  <2> HIDE DEF from
  <2>7. \A p : p \in Placed(longer, end) <=>
                 \/ p \in Placed(row, from)
                 \/ p = [kind |-> x.kind, start |-> size, end |-> size + x.len]
    <3> TAKE p
    <3>1. p \in Placed(longer, end) <=>
            \E i \in 1..(n + 1) :
              p = [kind |-> longer[i].kind, start |-> end[i - 1], end |-> end[i]]
      BY <1>2 DEF Placed
    <3>2. p \in Placed(row, from) <=>
            \E i \in 1..n : p = [kind |-> longer[i].kind, start |-> end[i - 1], end |-> end[i]]
      BY <1>1, <1>2, <2>6 DEF Placed
    <3>3. \A i \in 1..(n + 1) : i \in 1..n \/ i = n + 1
      BY <1>1
    <3>4. \A i \in 1..n : i \in 1..(n + 1)
      BY <1>1
    <3>5. n + 1 \in 1..(n + 1) /\ (n + 1) - 1 = n
      BY <1>1
    <3> QED
      BY <1>2, <2>5, <3>1, <3>2, <3>3, <3>4, <3>5
  <2> QED
    BY <2>4, <2>5, <2>7
<1> QED
  BY <1>1, <1>2, <1>3, <1>4 DEF LaidOut, longer

LEMMA MaybeLaidOut ==
  ASSUME NEW row, NEW plan, NEW size, LaidOut(row, plan, size), NEW there \in BOOLEAN,
         NEW kind \in Kinds, NEW len \in Int
  PROVE  LaidOut(row \o SegmentIf(there, kind, len),
                 plan \cup (IF there THEN {[kind |-> kind, start |-> size, end |-> size + len]}
                            ELSE {}),
                 IF there THEN size + len ELSE size)
<1>1. CASE there
  <2> DEFINE x == Segment(kind, len)
  <2>1. x \in ASegment /\ x.kind = kind /\ x.len = len
    BY DEF Segment, ASegment
  <2>2. SegmentIf(there, kind, len) = <<x>>
    BY <1>1 DEF SegmentIf
  <2> HIDE DEF x
  <2> QED
    BY <1>1, <2>1, <2>2, OneMoreLaidOut
<1>2. CASE ~there
  <2>1. row \in Seq(ASegment) /\ size \in Int
    BY DEF LaidOut
  <2>2. row \o SegmentIf(there, kind, len) = row
    BY <1>2, <2>1 DEF SegmentIf
  <2>3. plan \cup {} = plan
    OBVIOUS
  <2> QED
    BY <1>2, <2>2, <2>3
<1> QED
  BY <1>1, <1>2

\* What a file has, and where its parts begin.
HasTag(f) == f.v2.len # Absent
HasBody(f) == f.body # ""
HasApe(f) == f.ape # Absent

BodyAt(f) == IF HasTag(f) THEN f.v2.len ELSE 0
ItemsAt(f) == IF HasBody(f) THEN BodyAt(f) + BodyLen ELSE BodyAt(f)
FooterAt(f) == IF HasApe(f) THEN ItemsAt(f) + ApeItemsLen ELSE ItemsAt(f)
EnhancedAt(f) == IF HasApe(f) THEN FooterAt(f) + ApeFooterLen ELSE FooterAt(f)
V1At(f) == IF f.enhanced THEN EnhancedAt(f) + EnhancedLen ELSE EnhancedAt(f)
SizeOf(f) == IF f.v1 THEN V1At(f) + V1Len ELSE V1At(f)

\* A segment of this kind begins there.
PartAt(f, kind, start) ==
  \/ kind = "ID3" /\ start = 0 /\ HasTag(f)
  \/ kind = f.body /\ start = BodyAt(f) /\ HasBody(f)
  \/ kind = "items" /\ start = ItemsAt(f) /\ HasApe(f)
  \/ kind = "APETAGEX" /\ start = FooterAt(f) /\ HasApe(f)
  \/ kind = "TAG" /\ start = EnhancedAt(f) /\ f.enhanced
  \/ kind = "TAG" /\ start = V1At(f) /\ f.v1

PartOf(there, kind, start, len) ==
  IF there THEN {[kind |-> kind, start |-> start, end |-> start + len]} ELSE {}

Plan(f) ==
  {} \cup PartOf(HasTag(f), "ID3", 0, f.v2.len)
     \cup PartOf(HasBody(f), f.body, BodyAt(f), BodyLen)
     \cup PartOf(HasApe(f), "items", ItemsAt(f), ApeItemsLen)
     \cup PartOf(HasApe(f), "APETAGEX", FooterAt(f), ApeFooterLen)
     \cup PartOf(f.enhanced, "TAG", EnhancedAt(f), EnhancedLen)
     \cup PartOf(f.v1, "TAG", V1At(f), V1Len)

LEMMA FileTyped ==
  ASSUME NEW f \in Files
  PROVE  /\ f.v2.len \in Int /\ f.v2.size \in Nat /\ f.ape \in Int
         /\ HasTag(f) => f.v2.len >= 3
         /\ f.body \in Bodies /\ f.enhanced \in BOOLEAN /\ f.v1 \in BOOLEAN
         /\ HasTag(f) \in BOOLEAN /\ HasBody(f) \in BOOLEAN /\ HasApe(f) \in BOOLEAN
<1>1. /\ f.v2.len \in {Absent} \cup {n \in Nat : n >= 3} /\ f.v2.size \in Nat /\ f.ape \in Int
      /\ f.body \in Bodies /\ f.enhanced \in BOOLEAN /\ f.v1 \in BOOLEAN
  BY AudioChainAssumption
<1>2. f.v2.len \in Int /\ (HasTag(f) => f.v2.len >= 3)
  BY <1>1 DEF HasTag, Absent
<1>3. HasTag(f) \in BOOLEAN /\ HasBody(f) \in BOOLEAN /\ HasApe(f) \in BOOLEAN
  BY DEF HasTag, HasBody, HasApe
<1> QED
  BY <1>1, <1>2, <1>3

LEMMA KindsAre ==
  /\ \A body \in Bodies : body \in Kinds
  /\ "ID3" \in Kinds /\ "items" \in Kinds /\ "APETAGEX" \in Kinds /\ "TAG" \in Kinds
BY DEF Kinds

LEMMA RowLaidOut ==
  ASSUME NEW f \in Files
  PROVE  LaidOut(Row(f), Plan(f), SizeOf(f))
<1> DEFINE r1 == <<>> \o SegmentIf(HasTag(f), "ID3", f.v2.len)
           r2 == r1 \o SegmentIf(HasBody(f), f.body, BodyLen)
           r3 == r2 \o SegmentIf(HasApe(f), "items", ApeItemsLen)
           r4 == r3 \o SegmentIf(HasApe(f), "APETAGEX", ApeFooterLen)
           r5 == r4 \o SegmentIf(f.enhanced, "TAG", EnhancedLen)
           r6 == r5 \o SegmentIf(f.v1, "TAG", V1Len)
           p1 == {} \cup PartOf(HasTag(f), "ID3", 0, f.v2.len)
           p2 == p1 \cup PartOf(HasBody(f), f.body, BodyAt(f), BodyLen)
           p3 == p2 \cup PartOf(HasApe(f), "items", ItemsAt(f), ApeItemsLen)
           p4 == p3 \cup PartOf(HasApe(f), "APETAGEX", FooterAt(f), ApeFooterLen)
           p5 == p4 \cup PartOf(f.enhanced, "TAG", EnhancedAt(f), EnhancedLen)
           p6 == p5 \cup PartOf(f.v1, "TAG", V1At(f), V1Len)
<1>0. /\ f.v2.len \in Int /\ f.enhanced \in BOOLEAN /\ f.v1 \in BOOLEAN
      /\ (HasTag(f)) \in BOOLEAN /\ (HasBody(f)) \in BOOLEAN /\ (HasApe(f)) \in BOOLEAN
      /\ f.body \in Kinds
      /\ BodyLen \in Int /\ ApeItemsLen \in Int /\ ApeFooterLen \in Int /\ EnhancedLen \in Int
      /\ V1Len \in Int
  BY FileTyped, KindsAre DEF BodyLen, ApeItemsLen, ApeFooterLen, EnhancedLen, V1Len
<1>1. LaidOut(r1, p1, BodyAt(f))
  <2>1. (IF HasTag(f) THEN 0 + f.v2.len ELSE 0) = BodyAt(f)
    BY <1>0 DEF BodyAt
  <2> DEFINE there == HasTag(f)
             plan == {} \cup (IF there THEN {[kind |-> "ID3", start |-> 0, end |-> 0 + f.v2.len]}
                              ELSE {})
             size == IF there THEN 0 + f.v2.len ELSE 0
  <2>2. there \in BOOLEAN /\ "ID3" \in Kinds /\ f.v2.len \in Int
    BY <1>0, KindsAre
  <2> HIDE DEF there
  <2>3. LaidOut(<<>> \o SegmentIf(there, "ID3", f.v2.len), plan, size)
    BY <2>2, NothingLaidOut, MaybeLaidOut
  <2> HIDE DEF plan, size
  <2>4. plan = p1 /\ size = BodyAt(f)
    BY <2>1 DEF plan, size, there, PartOf
  <2> QED
    BY <2>3, <2>4 DEF there
<1> HIDE DEF r1, p1
<1>2. LaidOut(r2, p2, ItemsAt(f))
  BY <1>0, <1>1, MaybeLaidOut DEF PartOf, ItemsAt
<1> HIDE DEF r2, p2
<1>3. LaidOut(r3, p3, FooterAt(f))
  BY <1>0, <1>2, MaybeLaidOut, KindsAre DEF PartOf, FooterAt
<1> HIDE DEF r3, p3
<1>4. LaidOut(r4, p4, EnhancedAt(f))
  BY <1>0, <1>3, MaybeLaidOut, KindsAre DEF PartOf, EnhancedAt
<1> HIDE DEF r4, p4
<1>5. LaidOut(r5, p5, V1At(f))
  BY <1>0, <1>4, MaybeLaidOut, KindsAre DEF PartOf, V1At
<1> HIDE DEF r5, p5
<1>6. LaidOut(r6, p6, SizeOf(f))
  BY <1>0, <1>5, MaybeLaidOut, KindsAre DEF PartOf, SizeOf
<1>7. p6 = Plan(f)
  BY DEF p1, p2, p3, p4, p5, Plan
<1>8. r6 = Row(f)
  <2>1. r1 = SegmentIf(HasTag(f), "ID3", f.v2.len)
    <3>1. SegmentIf(HasTag(f), "ID3", f.v2.len) \in Seq(ASegment)
      <4>1. Segment("ID3", f.v2.len) \in ASegment
        BY <1>0, KindsAre DEF Segment, ASegment
      <4> QED
        BY <4>1 DEF SegmentIf
    <3> QED
      BY <3>1 DEF r1
  <2> QED
    BY <2>1 DEF r2, r3, r4, r5, Row, HasTag, HasBody, HasApe
<1> QED
  BY <1>6, <1>7, <1>8

\* Where the segments of a file lie, and its size.
LEMMA FilePlan ==
  ASSUME NEW f \in Files, NEW laid, laid = Laid(f)
  PROVE  /\ laid.size = SizeOf(f) /\ laid.v2 = f.v2 /\ laid.ape = f.ape
         /\ laid.enhanced = f.enhanced /\ laid.v1 = f.v1
         /\ {laid.segments[i] : i \in DOMAIN laid.segments} = Plan(f)
<1> DEFINE row == Row(f)
           end == CHOOSE end : EndsOf(row, end)
<1>1. EndsOf(row, end) /\ end[Len(row)] = SizeOf(f) /\ Placed(row, end) = Plan(f)
  BY RowLaidOut DEF LaidOut
<1>2. laid = [segments |-> [i \in DOMAIN row |->
                [kind |-> row[i].kind, start |-> end[i - 1], end |-> end[i]]],
              size |-> end[Len(row)],
              v2 |-> f.v2, ape |-> f.ape, enhanced |-> f.enhanced, v1 |-> f.v1]
  BY DEF Laid, EndsOf
<1> HIDE DEF end, row
<1> QED
  BY <1>1, <1>2 DEF Placed

LEMMA PlanIs ==
  ASSUME NEW f \in Files
  PROVE  /\ \A p \in Plan(f) : PartAt(f, p.kind, p.start)
         /\ \A kind, start : PartAt(f, kind, start) =>
              \E p \in Plan(f) : p.kind = kind /\ p.start = start
         /\ \A p \in Plan(f) : p.kind = "items" => p.end = p.start + ApeItemsLen
<1> DEFINE tag == PartOf(HasTag(f), "ID3", 0, f.v2.len)
           body == PartOf(HasBody(f), f.body, BodyAt(f), BodyLen)
           items == PartOf(HasApe(f), "items", ItemsAt(f), ApeItemsLen)
           footer == PartOf(HasApe(f), "APETAGEX", FooterAt(f), ApeFooterLen)
           enhanced == PartOf(f.enhanced, "TAG", EnhancedAt(f), EnhancedLen)
           v1 == PartOf(f.v1, "TAG", V1At(f), V1Len)
<1>1. Plan(f) = tag \cup body \cup items \cup footer \cup enhanced \cup v1
  BY DEF Plan
<1>2. \A p : p \in tag <=> HasTag(f) /\ p = [kind |-> "ID3", start |-> 0, end |-> 0 + f.v2.len]
  BY DEF PartOf
<1>3. \A p : p \in body <=> HasBody(f) /\ p = [kind |-> f.body, start |-> BodyAt(f), end |-> BodyAt(f) + BodyLen]
  BY DEF PartOf
<1>4. \A p : p \in items <=> HasApe(f) /\ p = [kind |-> "items", start |-> ItemsAt(f), end |-> ItemsAt(f) + ApeItemsLen]
  BY DEF PartOf
<1>5. \A p : p \in footer <=> HasApe(f) /\ p = [kind |-> "APETAGEX", start |-> FooterAt(f), end |-> FooterAt(f) + ApeFooterLen]
  BY DEF PartOf
<1>6. \A p : p \in enhanced <=> f.enhanced /\ p = [kind |-> "TAG", start |-> EnhancedAt(f), end |-> EnhancedAt(f) + EnhancedLen]
  BY DEF PartOf
<1>7. \A p : p \in v1 <=> f.v1 /\ p = [kind |-> "TAG", start |-> V1At(f), end |-> V1At(f) + V1Len]
  BY DEF PartOf
<1> HIDE DEF tag, body, items, footer, enhanced, v1
<1>8. ASSUME NEW p \in Plan(f)
      PROVE  PartAt(f, p.kind, p.start) /\ (p.kind = "items" => p.end = p.start + ApeItemsLen)
  <2>1. f.body # "items"
    BY FileTyped DEF Bodies
  <2>2. CASE p \in tag
    <3>1. HasTag(f) /\ p.kind = "ID3" /\ p.start = 0 /\ p.end = 0 + f.v2.len
      BY <1>2, <2>2
    <3>2. PartAt(f, p.kind, p.start)
      BY <3>1 DEF PartAt
    <3> QED
      BY <2>1, <3>1, <3>2
  <2>3. CASE p \in body
    <3>1. HasBody(f) /\ p.kind = f.body /\ p.start = BodyAt(f) /\ p.end = BodyAt(f) + BodyLen
      BY <1>3, <2>3
    <3>2. PartAt(f, p.kind, p.start)
      BY <3>1 DEF PartAt
    <3> QED
      BY <2>1, <3>1, <3>2
  <2>4. CASE p \in items
    <3>1. HasApe(f) /\ p.kind = "items" /\ p.start = ItemsAt(f) /\ p.end = ItemsAt(f) + ApeItemsLen
      BY <1>4, <2>4
    <3>2. PartAt(f, p.kind, p.start)
      BY <3>1 DEF PartAt
    <3> QED
      BY <2>1, <3>1, <3>2
  <2>5. CASE p \in footer
    <3>1. HasApe(f) /\ p.kind = "APETAGEX" /\ p.start = FooterAt(f) /\ p.end = FooterAt(f) + ApeFooterLen
      BY <1>5, <2>5
    <3>2. PartAt(f, p.kind, p.start)
      BY <3>1 DEF PartAt
    <3> QED
      BY <2>1, <3>1, <3>2
  <2>6. CASE p \in enhanced
    <3>1. f.enhanced /\ p.kind = "TAG" /\ p.start = EnhancedAt(f) /\ p.end = EnhancedAt(f) + EnhancedLen
      BY <1>6, <2>6
    <3>2. PartAt(f, p.kind, p.start)
      BY <3>1 DEF PartAt
    <3> QED
      BY <2>1, <3>1, <3>2
  <2>7. CASE p \in v1
    <3>1. f.v1 /\ p.kind = "TAG" /\ p.start = V1At(f) /\ p.end = V1At(f) + V1Len
      BY <1>7, <2>7
    <3>2. PartAt(f, p.kind, p.start)
      BY <3>1 DEF PartAt
    <3> QED
      BY <2>1, <3>1, <3>2
  <2> QED
    BY <1>1, <2>2, <2>3, <2>4, <2>5, <2>6, <2>7
<1>9. ASSUME NEW kind, NEW start, PartAt(f, kind, start)
      PROVE  \E p \in Plan(f) : p.kind = kind /\ p.start = start
  <2> DEFINE part(len) == [kind |-> kind, start |-> start, end |-> start + len]
  <2>0. \A len : part(len).kind = kind /\ part(len).start = start
    OBVIOUS
  <2>1. CASE kind = "ID3" /\ start = 0 /\ HasTag(f)
    <3>1. part(f.v2.len) \in tag
      BY <1>2, <2>1
    <3>2. part(f.v2.len) \in Plan(f)
      BY <1>1, <3>1
    <3> QED
      BY <2>0, <3>2
  <2>2. CASE kind = f.body /\ start = BodyAt(f) /\ HasBody(f)
    <3>1. part(BodyLen) \in body
      BY <1>3, <2>2
    <3>2. part(BodyLen) \in Plan(f)
      BY <1>1, <3>1
    <3> QED
      BY <2>0, <3>2
  <2>3. CASE kind = "items" /\ start = ItemsAt(f) /\ HasApe(f)
    <3>1. part(ApeItemsLen) \in items
      BY <1>4, <2>3
    <3>2. part(ApeItemsLen) \in Plan(f)
      BY <1>1, <3>1
    <3> QED
      BY <2>0, <3>2
  <2>4. CASE kind = "APETAGEX" /\ start = FooterAt(f) /\ HasApe(f)
    <3>1. part(ApeFooterLen) \in footer
      BY <1>5, <2>4
    <3>2. part(ApeFooterLen) \in Plan(f)
      BY <1>1, <3>1
    <3> QED
      BY <2>0, <3>2
  <2>5. CASE kind = "TAG" /\ start = EnhancedAt(f) /\ f.enhanced
    <3>1. part(EnhancedLen) \in enhanced
      BY <1>6, <2>5
    <3>2. part(EnhancedLen) \in Plan(f)
      BY <1>1, <3>1
    <3> QED
      BY <2>0, <3>2
  <2>6. CASE kind = "TAG" /\ start = V1At(f) /\ f.v1
    <3>1. part(V1Len) \in v1
      BY <1>7, <2>6
    <3>2. part(V1Len) \in Plan(f)
      BY <1>1, <3>1
    <3> QED
      BY <2>0, <3>2
  <2> QED
    BY <1>9, <2>1, <2>2, <2>3, <2>4, <2>5, <2>6 DEF PartAt
<1> QED
  BY <1>8, <1>9

\* What a parser sees at an offset is what lies there.
LEMMA SeenAt ==
  ASSUME NEW f \in Files, NEW laid, laid = Laid(f), NEW start
  PROVE  /\ At(laid, start) # "" => PartAt(f, At(laid, start), start)
         /\ \A kind : PartAt(f, kind, start) /\ (\A k : PartAt(f, k, start) => k = kind)
              => At(laid, start) = kind
<1> DEFINE segments == laid.segments
           found == {i \in DOMAIN segments : segments[i].start = start}
           i == CHOOSE i \in found : TRUE
<1>1. At(laid, start) = IF found = {} THEN "" ELSE segments[i].kind
  BY DEF At
<1>2. found # {} => i \in DOMAIN segments /\ segments[i].start = start
  OBVIOUS
<1>3. \A j \in DOMAIN segments : PartAt(f, segments[j].kind, segments[j].start)
  BY FilePlan, PlanIs
<1>4. \A kind : PartAt(f, kind, start) => found # {}
  <2> SUFFICES ASSUME NEW kind, PartAt(f, kind, start) PROVE found # {}
    OBVIOUS
  <2>1. PICK p \in Plan(f) : p.start = start
    BY PlanIs
  <2>2. PICK j \in DOMAIN segments : segments[j] = p
    BY FilePlan
  <2> QED
    BY <2>1, <2>2
<1> HIDE DEF found, segments, i
<1> QED
  BY <1>1, <1>2, <1>3, <1>4

LEMMA Offsets ==
  ASSUME NEW f \in Files
  PROVE  /\ BodyAt(f) \in Nat /\ (HasTag(f) => BodyAt(f) >= 3)
         /\ ItemsAt(f) \in Nat /\ (HasBody(f) => ItemsAt(f) = BodyAt(f) + 40) /\ (~HasBody(f) => ItemsAt(f) = BodyAt(f))
         /\ FooterAt(f) \in Nat /\ (HasApe(f) => FooterAt(f) = ItemsAt(f) + 8) /\ (~HasApe(f) => FooterAt(f) = ItemsAt(f))
         /\ EnhancedAt(f) \in Nat /\ (HasApe(f) => EnhancedAt(f) = FooterAt(f) + 32) /\ (~HasApe(f) => EnhancedAt(f) = FooterAt(f))
         /\ V1At(f) \in Nat /\ (f.enhanced => V1At(f) = EnhancedAt(f) + 227) /\ (~f.enhanced => V1At(f) = EnhancedAt(f))
         /\ SizeOf(f) \in Nat /\ (f.v1 => SizeOf(f) = V1At(f) + 128) /\ (~f.v1 => SizeOf(f) = V1At(f))
<1>1. /\ BodyAt(f) \in Nat /\ (HasTag(f) => BodyAt(f) >= 3)
      /\ f.enhanced \in BOOLEAN /\ f.v1 \in BOOLEAN
      /\ HasTag(f) \in BOOLEAN /\ HasBody(f) \in BOOLEAN /\ HasApe(f) \in BOOLEAN
  BY FileTyped DEF BodyAt
<1>2. ItemsAt(f) \in Nat /\ (HasBody(f) => ItemsAt(f) = BodyAt(f) + 40) /\ (~HasBody(f) => ItemsAt(f) = BodyAt(f))
  BY <1>1 DEF ItemsAt, BodyLen
<1>3. FooterAt(f) \in Nat /\ (HasApe(f) => FooterAt(f) = ItemsAt(f) + 8) /\ (~HasApe(f) => FooterAt(f) = ItemsAt(f))
  BY <1>2 DEF FooterAt, ApeItemsLen
<1>4. EnhancedAt(f) \in Nat /\ (HasApe(f) => EnhancedAt(f) = FooterAt(f) + 32) /\ (~HasApe(f) => EnhancedAt(f) = FooterAt(f))
  BY <1>3 DEF EnhancedAt, ApeFooterLen
<1>5. V1At(f) \in Nat /\ (f.enhanced => V1At(f) = EnhancedAt(f) + 227) /\ (~f.enhanced => V1At(f) = EnhancedAt(f))
  BY <1>4 DEF V1At, EnhancedLen
<1>6. SizeOf(f) \in Nat /\ (f.v1 => SizeOf(f) = V1At(f) + 128) /\ (~f.v1 => SizeOf(f) = V1At(f))
  BY <1>5 DEF SizeOf, V1Len
<1> QED
  BY <1>1, <1>2, <1>3, <1>4, <1>5, <1>6

\* The size of the ID3v1 tags is found exactly: nothing else is taken for one.
LEMMA TrailerIs ==
  ASSUME NEW f \in Files, NEW laid, laid = Laid(f)
  PROVE  TrailerSize(laid) = IF f.v1 THEN (IF f.enhanced THEN 355 ELSE 128) ELSE 0
<1> DEFINE B == BodyAt(f)
           size == SizeOf(f)
<1>1. /\ B \in Nat /\ (HasTag(f) => B >= 3)
      /\ ItemsAt(f) \in Nat /\ (HasBody(f) => ItemsAt(f) = B + 40) /\ (~HasBody(f) => ItemsAt(f) = B)
      /\ FooterAt(f) \in Nat /\ (HasApe(f) => FooterAt(f) = ItemsAt(f) + 8) /\ (~HasApe(f) => FooterAt(f) = ItemsAt(f))
      /\ EnhancedAt(f) \in Nat /\ (HasApe(f) => EnhancedAt(f) = FooterAt(f) + 32) /\ (~HasApe(f) => EnhancedAt(f) = FooterAt(f))
      /\ V1At(f) \in Nat /\ (f.enhanced => V1At(f) = EnhancedAt(f) + 227) /\ (~f.enhanced => V1At(f) = EnhancedAt(f))
      /\ size \in Nat /\ (f.v1 => size = V1At(f) + 128) /\ (~f.v1 => size = V1At(f))
  BY Offsets
<1>2. f.body # "TAG" /\ f.enhanced \in BOOLEAN /\ f.v1 \in BOOLEAN
  BY FileTyped DEF Bodies
<1>3. laid.size = size
  BY FilePlan
<1> HIDE DEF B, size
<1>4. \A start : PartAt(f, "TAG", start) <=>
                   (start = EnhancedAt(f) /\ f.enhanced) \/ (start = V1At(f) /\ f.v1)
  BY <1>2 DEF PartAt
<1>5. \A start : At(laid, start) = "TAG" => PartAt(f, "TAG", start)
  <2> TAKE start
  <2>1. At(laid, start) # "" => PartAt(f, At(laid, start), start)
    BY SeenAt
  <2>2. "TAG" # ""
    OBVIOUS
  <2> QED
    BY <2>1, <2>2
<1>6. HasV1(laid) <=> f.v1
  <2>1. CASE f.v1
    <3>1. size - 128 = V1At(f) /\ size >= 128
      BY <1>1, <2>1
    <3>2. \A k : PartAt(f, k, V1At(f)) => k = "TAG"
      BY <1>1, <2>1 DEF PartAt, B
    <3>3. At(laid, V1At(f)) = "TAG"
      BY <1>4, <2>1, <3>2, SeenAt
    <3> QED
      BY <1>3, <2>1, <3>1, <3>3 DEF HasV1, V1Len
  <2>2. CASE ~f.v1
    <3>1. ~PartAt(f, "TAG", size - 128)
      BY <1>1, <1>4, <2>2
    <3>2. At(laid, size - 128) # "TAG"
      BY <3>1, <1>5
    <3> QED
      BY <1>3, <2>2, <3>2 DEF HasV1, V1Len
  <2> QED
    BY <1>2, <2>1, <2>2
<1>7. ASSUME f.v1 PROVE HasEnhanced(laid) <=> f.enhanced
  <2>1. CASE f.enhanced
    <3>1. size - 128 - 227 = EnhancedAt(f) /\ size >= 128 + 227
      BY <1>1, <1>7, <2>1
    <3>2. \A k : PartAt(f, k, EnhancedAt(f)) => k = "TAG"
      BY <1>1, <2>1 DEF PartAt, B
    <3>3. At(laid, EnhancedAt(f)) = "TAG"
      BY <1>4, <2>1, <3>2, SeenAt
    <3> QED
      BY <1>3, <1>6, <1>7, <2>1, <3>1, <3>3 DEF HasEnhanced, V1Len, EnhancedLen
  <2>2. CASE ~f.enhanced
    <3>1. ~PartAt(f, "TAG", size - 128 - 227)
      BY <1>1, <1>4, <1>7, <2>2
    <3>2. At(laid, size - 128 - 227) # "TAG"
      BY <3>1, <1>5
    <3> QED
      BY <1>3, <2>2, <3>2 DEF HasEnhanced, V1Len, EnhancedLen
  <2> QED
    BY <1>2, <2>1, <2>2
<1>8. CASE f.v1
  BY <1>6, <1>7, <1>8 DEF TrailerSize, V1Len, EnhancedLen
<1>9. CASE ~f.v1
  BY <1>6, <1>9 DEF TrailerSize, HasEnhanced
<1> QED
  BY <1>2, <1>8, <1>9

\* The APE tag is found past the ID3v1 tags, whatever a parser takes for the start
\* of the file, as long as the tag is behind it.
LEMMA FooterFound ==
  ASSUME NEW f \in Files, NEW laid, laid = Laid(f), HasTrailer(laid),
         NEW from \in Nat, from <= ItemsAt(f)
  PROVE  Footer(laid, from, TrailerSize(laid)) = Trailer(laid)
<1> DEFINE size == SizeOf(f)
           items == ItemsAt(f)
           footer == FooterAt(f)
           done == TrailerSize(laid)
<1>1. f.ape = 40 /\ HasApe(f) /\ (f.enhanced => f.v1)
  BY FilePlan DEF HasTrailer, ApeFooterLen, ApeItemsLen, HasApe, Absent
<1>2. /\ items \in Nat /\ footer = items + 8 /\ footer \in Nat
      /\ size = footer + 32 + (IF f.v1 THEN (IF f.enhanced THEN 355 ELSE 128) ELSE 0)
      /\ size \in Nat /\ from <= items
  <2>1. f.enhanced \in BOOLEAN /\ f.v1 \in BOOLEAN
    BY FileTyped
  <2> QED
    BY <1>1, <2>1, Offsets
<1>3. done = IF f.v1 THEN (IF f.enhanced THEN 355 ELSE 128) ELSE 0
  BY TrailerIs
<1>4. laid.size = size /\ laid.ape = 40
  BY <1>1, FilePlan
<1>5. At(laid, footer) = "APETAGEX"
  <2>1. PartAt(f, "APETAGEX", footer)
    BY <1>1 DEF PartAt
  <2>2. ASSUME NEW k, PartAt(f, k, footer) PROVE k = "APETAGEX"
    BY <1>1, <2>2, Offsets DEF PartAt
  <2> QED
    BY <2>1, <2>2, SeenAt
<1>6. Trailer(laid) = Items(items, footer)
  <2>1. PICK j \in DOMAIN laid.segments : laid.segments[j].kind = "items"
    <3>1. PartAt(f, "items", items)
      BY <1>1 DEF PartAt
    <3>2. PICK p \in Plan(f) : p.kind = "items"
      BY <3>1, PlanIs
    <3> QED
      BY <3>2, FilePlan
  <2> DEFINE i == CHOOSE i \in DOMAIN laid.segments : laid.segments[i].kind = "items"
  <2>2. i \in DOMAIN laid.segments /\ laid.segments[i].kind = "items"
    BY <2>1
  <2>3. Trailer(laid) = Items(laid.segments[i].start, laid.segments[i].end)
    BY DEF Trailer
  <2> HIDE DEF i
  <2>4. laid.segments[i] \in Plan(f)
    BY <2>2, FilePlan
  <2>5. /\ PartAt(f, "items", laid.segments[i].start)
        /\ laid.segments[i].end = laid.segments[i].start + 8
    BY <2>2, <2>4, PlanIs DEF ApeItemsLen
  <2>6. f.body # "items"
    BY FileTyped DEF Bodies
  <2>7. laid.segments[i].start = items
    BY <2>5, <2>6 DEF PartAt
  <2> QED
    BY <1>2, <2>3, <2>5, <2>7
<1> DEFINE shift == IF done > 1 THEN done ELSE 0
           offset == Rest(laid, from) - (ApeFooterLen + shift)
<1>7. offset = footer - from /\ offset >= 8 /\ from + offset = footer
  <2>1. Rest(laid, from) = size - from
    BY <1>2, <1>4 DEF Rest
  <2>2. f.enhanced \in BOOLEAN /\ f.v1 \in BOOLEAN
    BY FileTyped
  <2>3. done \in Nat /\ shift = done /\ size = footer + 32 + done
    BY <1>2, <1>3, <2>2
  <2> HIDE DEF size, footer, done, shift, items
  <2> QED
    BY <1>2, <2>1, <2>3 DEF ApeFooterLen
<1>8. ItemsSize(laid.ape) = 8
  BY <1>4 DEF ItemsSize, ApeFooterLen
<1>9. Footer(laid, from, done) =
        IF offset < 0 \/ At(laid, from + offset) # "APETAGEX" THEN NoTag
        ELSE IF ItemsSize(laid.ape) = Absent \/ offset < ItemsSize(laid.ape) THEN Broken
        ELSE Items(from + offset - ItemsSize(laid.ape), from + offset)
  BY DEF Footer
<1> HIDE DEF size, footer, done, shift, items, offset
<1>10. Footer(laid, from, done) = Items(from + offset - 8, from + offset)
  BY <1>2, <1>5, <1>7, <1>8, <1>9 DEF Absent
<1>11. from + offset - 8 = items
  BY <1>2, <1>7
<1> QED
  BY <1>6, <1>7, <1>10, <1>11 DEF done

\* No parser takes anything else for an APE tag.
LEMMA NoFooterFound ==
  ASSUME NEW f \in Files, NEW laid, laid = Laid(f), laid.ape = Absent, NEW from, NEW done
  PROVE  Footer(laid, from, done) = NoTag
<1>1. f.body # "APETAGEX" /\ ~HasApe(f)
  <2>1. f.body # "APETAGEX"
    BY FileTyped DEF Bodies
  <2>2. ~HasApe(f)
    BY FilePlan DEF HasApe
  <2> QED
    BY <2>1, <2>2
<1>2. \A start : ~PartAt(f, "APETAGEX", start)
  BY <1>1 DEF PartAt
<1>3. ASSUME NEW start PROVE At(laid, start) # "APETAGEX"
  <2>1. At(laid, start) # "" => PartAt(f, At(laid, start), start)
    BY SeenAt
  <2> QED
    BY <1>2, <2>1
<1> QED
  BY <1>3 DEF Footer

LEMMA FromIsBelow == \A m \in Nat : 0 \in Nat /\ 0 <= m /\ m <= m + 40
OBVIOUS

\* A MAC body that a parser sees is in front of the APE tag.
LEMMA MacBefore ==
  ASSUME NEW f \in Files, NEW laid, laid = Laid(f), NEW start, At(laid, start) = "MAC "
  PROVE  start \in Nat /\ start <= ItemsAt(f)
<1>1. PartAt(f, "MAC ", start)
  <2>1. At(laid, start) # "" => PartAt(f, At(laid, start), start)
    BY SeenAt
  <2> QED
    BY <2>1
<1>2. start = BodyAt(f) /\ HasBody(f)
  BY <1>1 DEF PartAt
<1>3. BodyAt(f) \in Nat /\ (HasBody(f) => ItemsAt(f) = BodyAt(f) + 40)
  BY Offsets, ZenonT(60)
<1>4. BodyAt(f) \in Nat /\ ItemsAt(f) = BodyAt(f) + 40
  BY <1>2, <1>3, Zenon
<1>5. start = BodyAt(f)
  BY <1>2
<1> QED
  BY <1>4, <1>5, FromIsBelow, Zenon

-----------------------------------------------------------------------------
(* What the parsers report of the APE tag.                                  *)

Looking == {"MP3", "MPC", "WV", "APE"}

\* A parser that accepts reports what the footer scan found, unless the tag stands
\* at the start of an APE file, or it is MP3 and another parser looked before.
Scanned(p, report) ==
  LET from == IF p = "APE" THEN HeaderEnd(file) ELSE 0
  IN  report.accepted =>
        \/ report.ape = Footer(file, from, TrailerSize(file))
        \/ p = "APE" /\ At(file, from) = "APE header"
        \/ p = "MP3" /\ sharing /\ {"MPC", "WV", "APE"} \cap DOMAIN calls # {}
             /\ report.ape = NoTag

\* Only a parser that looked for the tag leaves the flags so.
LookedFor(fl) == fl.done_ape => sharing /\ Looking \cap DOMAIN calls # {}

ScanInv ==
  /\ ChainInv
  /\ \E f \in Files : file = Laid(f)
  /\ LookedFor(flags) /\ \A w \in waiting : LookedFor(w.left)
  /\ \A p \in Looking \cap DOMAIN calls : Scanned(p, calls[p])

LEMMA ScanReturns ==
  ASSUME ScanInv, ChainInv', NEW p, p \notin DOMAIN calls, NEW report, NEW left,
         Returns(p, report, left), p \in Looking => Scanned(p, report),
         LookedFor(left) \/ p \in Looking,
         UNCHANGED <<file, sharing>>, waiting' = {}
  PROVE  ScanInv'
<1>1. /\ DOMAIN calls' = DOMAIN calls \cup {p} /\ calls'[p] = report
      /\ \A q \in DOMAIN calls : calls'[q] = calls[q]
      /\ flags' = IF sharing THEN left ELSE NoFlags
  BY CallsNext
<1>2. \E f \in Files : file' = Laid(f)
  BY DEF ScanInv
<1>3. LookedFor(flags)'
  <2>1. NoFlags.done_ape = FALSE
    BY DEF NoFlags
  <2> QED
    BY <1>1, <2>1 DEF LookedFor
<1>4. ASSUME NEW q \in Looking \cap DOMAIN calls' PROVE Scanned(q, calls[q])'
  <2>1. Scanned(q, calls'[q])
    BY <1>1, <1>4 DEF ScanInv
  <2>2. {"MPC", "WV", "APE"} \cap DOMAIN calls # {} =>
          {"MPC", "WV", "APE"} \cap DOMAIN calls' # {}
    BY <1>1
  <2> QED
    BY <2>1, <2>2 DEF Scanned
<1> QED
  BY <1>2, <1>3, <1>4 DEF ScanInv

LEMMA ScanCall ==
  ASSUME ScanInv, ChainInv', CallId3 \/ CallMp3 \/ CallApe \/ CallFlac \/ CallMpc \/ CallWavPack
  PROVE  ScanInv'
<1>1. UNCHANGED <<file, sharing, waiting, oggVars>> /\ waiting = {}
  BY DEF CallId3, CallMp3, CallApe, CallFlac, CallMpc, CallWavPack, MayCall
<1>2. /\ Seen.hdr_end = HeaderEnd(file) /\ Seen.done_id3 = TrailerSize(file)
      /\ Seen \in Flags /\ flags \in Flags
  BY SeenFilled DEF ScanInv, ChainInv, FlagsOK, Filled
<1>3. LookedFor(flags) /\ LookedFor(Seen)
  <2>1. Seen.done_ape = flags.done_ape
    BY <1>2 DEF Seen, AfterId3, Flags
  <2> QED
    BY <2>1 DEF ScanInv, LookedFor
<1>4. CASE CallId3
  <2>1. \E report : Returns("ID3", report, Seen) /\ "ID3" \notin DOMAIN calls
    BY <1>4 DEF CallId3, MayCall
  <2>2. "ID3" \notin Looking
    BY DEF Looking
  <2> QED
    BY <1>1, <1>3, <2>1, <2>2, ScanReturns
<1>5. CASE CallFlac
  <2>1. \E report : Returns("FLAC", report, Seen) /\ "FLAC" \notin DOMAIN calls
    BY <1>5 DEF CallFlac, MayCall
  <2>2. "FLAC" \notin Looking
    BY DEF Looking
  <2> QED
    BY <1>1, <1>3, <2>1, <2>2, ScanReturns
<1>6. CASE CallMp3
  <2> DEFINE accepted == Id3Found \/ BodyFound("MP3", file, Seen.hdr_end)
             scans == accepted /\ ~flags.done_ape
             ape == IF scans THEN Footer(file, 0, Seen.done_id3) ELSE NoTag
             left == IF scans THEN AfterApe(Seen) ELSE Seen
             report == Report(accepted, Id3Found, ape)
  <2>1. Returns("MP3", report, left) /\ "MP3" \notin DOMAIN calls /\ "MP3" \in Looking
    BY <1>6 DEF CallMp3, MayCall, Looking
  <2>2. report.accepted = accepted /\ report.ape = ape
    BY DEF Report
  <2>3. CASE scans
    <3>1. report.ape = Footer(file, 0, TrailerSize(file))
      BY <1>2, <2>2, <2>3
    <3>2. Scanned("MP3", report)
      BY <3>1 DEF Scanned
    <3> HIDE DEF report, left
    <3> QED
      BY <1>1, <2>1, <3>2, ScanReturns
  <2>4. CASE ~scans
    <3>1. accepted => sharing /\ {"MPC", "WV", "APE"} \cap DOMAIN calls # {}
      BY <1>3, <2>1, <2>4 DEF LookedFor, Looking
    <3>2. Scanned("MP3", report)
      BY <2>2, <2>4, <3>1 DEF Scanned
    <3> HIDE DEF report, left
    <3> QED
      BY <1>1, <2>1, <3>2, ScanReturns
  <2> QED
    BY <2>3, <2>4
<1>7. CASE CallApe
  <2> DEFINE ape == IF At(file, Seen.hdr_end) = "APE header"
                    THEN Items(Seen.hdr_end + ApeFooterLen, Seen.hdr_end + BodyLen)
                    ELSE Footer(file, Seen.hdr_end, Seen.done_id3)
             found == BodyFound("APE", file, Seen.hdr_end)
             report == IF found THEN Report(TRUE, Id3Found, ape) ELSE Rejected
  <2>1. Returns("APE", report, AfterApe(Seen)) /\ "APE" \notin DOMAIN calls /\ "APE" \in Looking
    BY <1>7 DEF CallApe, MayCall, Looking
  <2>2. report.accepted => report.ape = ape
    BY DEF Report, Rejected
  <2>3. \/ At(file, HeaderEnd(file)) = "APE header"
        \/ ape = Footer(file, HeaderEnd(file), TrailerSize(file))
    BY <1>2
  <2> HIDE DEF ape
  <2>4. Scanned("APE", report)
    BY <2>2, <2>3 DEF Scanned
  <2> HIDE DEF report
  <2> QED
    BY <1>1, <2>1, <2>4, ScanReturns
<1>8. CASE CallMpc
  <2> DEFINE found == BodyFound("MPC", file, Seen.hdr_end)
             report == IF found THEN Report(TRUE, Id3Found, Footer(file, 0, Seen.done_id3))
                       ELSE Rejected
  <2>1. /\ \E left : Returns("MPC", report, left)
        /\ "MPC" \notin DOMAIN calls /\ "MPC" \in Looking
    BY <1>8 DEF CallMpc, MayCall, Looking
  <2>2. report.accepted => report.ape = Footer(file, 0, TrailerSize(file))
    BY <1>2 DEF Report, Rejected
  <2>3. Scanned("MPC", report)
    BY <2>2 DEF Scanned
  <2> HIDE DEF report
  <2> QED
    BY <1>1, <2>1, <2>3, ScanReturns
<1>9. CASE CallWavPack
  <2> DEFINE found == BodyFound("WV", file, 0)
             report == IF found THEN Report(TRUE, Id3Found, Footer(file, 0, Seen.done_id3))
                       ELSE Rejected
  <2>1. /\ \E left : Returns("WV", report, left)
        /\ "WV" \notin DOMAIN calls /\ "WV" \in Looking
    BY <1>9 DEF CallWavPack, MayCall, Looking
  <2>2. report.accepted => report.ape = Footer(file, 0, TrailerSize(file))
    BY <1>2 DEF Report, Rejected
  <2>3. Scanned("WV", report)
    BY <2>2 DEF Scanned
  <2> HIDE DEF report
  <2> QED
    BY <1>1, <2>1, <2>3, ScanReturns
<1> QED
  BY <1>4, <1>5, <1>6, <1>7, <1>8, <1>9

LEMMA ScanNext == ScanInv /\ [Next]_vars => ScanInv'
<1> SUFFICES ASSUME ScanInv, [Next]_vars PROVE ScanInv'
  OBVIOUS
<1>1. ChainInv'
  BY ChainInvNext DEF ScanInv
<1>2. CASE CallId3 \/ CallMp3 \/ CallApe \/ CallFlac \/ CallMpc \/ CallWavPack
  BY <1>1, <1>2, ScanCall
<1>3. CASE CallOgg
  <2>1. /\ UNCHANGED <<file, sharing, flags, calls>>
        /\ waiting' = {[id3 |-> Id3Found, left |-> Seen]}
    BY <1>3 DEF CallOgg
  <2>2. LookedFor(Seen)
    <3>1. Seen.done_ape = flags.done_ape
      BY DEF Seen, AfterId3, ScanInv, ChainInv, FlagsOK, Flags
    <3> QED
      BY <3>1 DEF ScanInv, LookedFor
  <2>3. \A w \in waiting' : w.left = Seen
    BY <2>1
  <2> QED
    BY <1>1, <2>1, <2>2, <2>3 DEF ScanInv, LookedFor, Scanned
<1>4. CASE RunPageLoop
  <2>1. UNCHANGED <<file, sharing, flags, calls, waiting>>
    BY <1>4 DEF RunPageLoop
  <2> QED
    BY <1>1, <2>1 DEF ScanInv, LookedFor, Scanned
<1>5. CASE OggReturns
  <2>1. PICK w \in waiting :
          Returns("OGG", IF success THEN Report(TRUE, w.id3, NoTag) ELSE Rejected, w.left)
    BY <1>5 DEF OggReturns
  <2>2. "OGG" \notin DOMAIN calls /\ "OGG" \notin Looking /\ LookedFor(w.left)
    BY <2>1 DEF ScanInv, ChainInv, OggStands, Looking
  <2>3. UNCHANGED <<file, sharing>> /\ waiting' = {}
    BY <1>5 DEF OggReturns
  <2> QED
    BY <1>1, <2>1, <2>2, <2>3, ScanReturns
<1>6. CASE UNCHANGED vars
  <2>1. UNCHANGED <<file, sharing, flags, calls, waiting>>
    BY <1>6 DEF vars
  <2> QED
    BY <1>1, <2>1 DEF ScanInv, LookedFor, Scanned
<1> QED
  BY <1>2, <1>3, <1>4, <1>5, <1>6 DEF Next

LEMMA ScanInit == Init => ScanInv
<1> SUFFICES ASSUME Init PROVE ScanInv
  OBVIOUS
<1>1. ChainInv
  BY ChainInvInit
<1>2. (\E f \in Files : file = Laid(f)) /\ flags = NoFlags /\ waiting = {}
  BY DEF Init
<1>3. DOMAIN calls = {}
  <2>1. calls = [p \in {} |-> Rejected]
    BY DEF Init
  <2> QED
    BY <2>1, Zenon
<1>4. LookedFor(flags)
  <2>1. NoFlags.done_ape = FALSE
    BY DEF NoFlags
  <2> QED
    BY <1>2, <2>1 DEF LookedFor
<1> QED
  BY <1>1, <1>2, <1>3, <1>4 DEF ScanInv

\* The APE tag at the end of a file is reported by every parser that looks for it,
\* whatever ID3v1 tags follow it and whoever ran ID3, and nothing else is taken for
\* one; MP3 leaves it only to a parser that looked for it before on the same flags.
THEOREM TrailerAlwaysFound == Spec => []TrailerFound
<1>1. ScanInv => TrailerFound
  <2> SUFFICES ASSUME ScanInv, NEW p \in {"MP3", "MPC", "WV", "APE"} \cap DOMAIN calls,
                      calls[p].accepted,
                      p = "APE" => At(file, HeaderEnd(file)) = "MAC "
               PROVE  /\ HasTrailer(file) =>
                           \/ calls[p].ape = Trailer(file)
                           \/ /\ sharing /\ p = "MP3" /\ {"MPC", "WV", "APE"} \cap DOMAIN calls # {}
                              /\ ~calls[p].ape.found
                      /\ file.ape = Absent => ~calls[p].ape.found
    BY DEF TrailerFound
  <2>1. PICK f \in Files : file = Laid(f)
    BY DEF ScanInv
  <2>2. NoTag.found = FALSE
    BY DEF NoTag
  <2> DEFINE from == IF p = "APE" THEN HeaderEnd(file) ELSE 0
  <2>3. from \in Nat /\ from <= ItemsAt(f)
    <3>1. CASE p = "APE"
      BY <2>1, <3>1, MacBefore
    <3>2. CASE p # "APE"
      <4>1. ItemsAt(f) \in Nat
        BY Offsets
      <4>2. from = 0
        BY <3>2
      <4> HIDE DEF from
      <4> QED
        BY <4>1, <4>2, FromIsBelow, Zenon
    <3> QED
      BY <3>1, <3>2
  <2>4. \/ calls[p].ape = Footer(file, from, TrailerSize(file))
        \/ p = "MP3" /\ sharing /\ {"MPC", "WV", "APE"} \cap DOMAIN calls # {}
             /\ calls[p].ape = NoTag
    BY DEF ScanInv, Scanned, Looking
  <2> HIDE DEF from
  <2>5. HasTrailer(file) => Footer(file, from, TrailerSize(file)) = Trailer(file)
    BY <2>1, <2>3, FooterFound
  <2>6. file.ape = Absent => Footer(file, from, TrailerSize(file)) = NoTag
    BY <2>1, NoFooterFound
  <2> QED
    BY <2>2, <2>4, <2>5, <2>6
<1> QED
  BY <1>1, ScanInit, ScanNext, PTL DEF Spec
=============================================================================
