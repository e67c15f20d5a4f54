--------------------------- MODULE ExifFileProofs ---------------------------
(***************************************************************************)
(* Proofs about a file of several EXIF blocks, for every file.             *)
(*                                                                         *)
(* Those of a JPEG are merged: the deferral around a maker note loses and  *)
(* doubles no leaf, it moves none across blocks, every block announces the *)
(* images of one walk, and the maker note is emitted where its pointer     *)
(* stood.                                                                  *)
(*                                                                         *)
(* Those of a PNG are replayed over one guard.  The inflated bytes stay    *)
(* within the budget: what is alive is never more than what was charged,   *)
(* as a level gives its bytes to an event or drops them, and the charge of *)
(* either stays.  And the map of the claimed directories holds exactly     *)
(* those a later block must not walk again, each under the name that       *)
(* claimed it first.  The lists of the meta, their common order and the    *)
(* watermarks of the trailer together tell one story, that of the chunks   *)
(* read, and every chunk goes on with it; diagnostics read it back.        *)
(***************************************************************************)
EXTENDS ExifEmit, PngReplay, ExifWalkProofs

\* Positions lists an interval of positions in their order.
LEMMA PositionsList ==
  ASSUME NEW from \in Nat, NEW to \in Nat, from <= to + 1
  PROVE  /\ Lists(Positions(from, to), from..to)
         /\ \A p \in DOMAIN Positions(from, to) : Positions(from, to)[p] = from + p - 1
<1>1. to - from + 1 \in Nat
  OBVIOUS
<1>2. /\ DOMAIN Positions(from, to) = 1..(to - from + 1)
      /\ \A p \in 1..(to - from + 1) :
           Positions(from, to)[p] = from + p - 1 /\ Positions(from, to)[p] \in from..to
  BY <1>1 DEF Positions
<1>3. Positions(from, to) \in Seq(from..to)
  BY <1>1, <1>2 DEF Positions
<1>4. ASSUME NEW x \in from..to
      PROVE  \E p \in DOMAIN Positions(from, to) : Positions(from, to)[p] = x
  <2>1. x - from + 1 \in 1..(to - from + 1) /\ from + (x - from + 1) - 1 = x
    OBVIOUS
  <2> QED
    BY <1>2, <2>1
<1>5. ASSUME NEW p \in 1..(to - from + 1), NEW q \in 1..(to - from + 1),
             Positions(from, to)[p] = Positions(from, to)[q]
      PROVE  p = q
  BY <1>2, <1>5
<1> QED
  BY <1>2, <1>3, <1>4, <1>5 DEF Lists

\* It rises with whatever rises along the positions.
LEMMA PositionsRise ==
  ASSUME NEW from \in Nat, NEW to \in Nat, from <= to + 1, NEW f,
         \A x, y \in from..to : x <= y => f[x] <= f[y]
  PROVE  Rising(Positions(from, to), f)
<1> SUFFICES ASSUME NEW p \in DOMAIN Positions(from, to), NEW q \in DOMAIN Positions(from, to), p <= q
             PROVE  f[Positions(from, to)[p]] <= f[Positions(from, to)[q]]
  BY DEF Rising
<1>1. /\ DOMAIN Positions(from, to) = 1..(to - from + 1) /\ to - from + 1 \in Nat
      /\ Positions(from, to)[p] = from + p - 1 /\ Positions(from, to)[q] = from + q - 1
  BY PositionsList DEF Positions
<1>2. from + p - 1 \in from..to /\ from + q - 1 \in from..to /\ from + p - 1 <= from + q - 1
  BY <1>1
<1> QED
  BY <1>1, <1>2

-----------------------------------------------------------------------------
(* A merged file m that has a maker note.                                   *)

\* The record of the note kept is the only one of its kind, and all records are
\* those of its block.
OneNote(m, note) ==
  /\ note \in DOMAIN m.deferred_subdirs
  /\ \A k \in DOMAIN m.deferred_subdirs :
       /\ m.deferred_subdirs[k].kind = "MakerNote" <=> k = note
       /\ m.deferred_subdirs[k].source_block = m.deferred_subdirs[note].source_block

\* Where an ExifIFD was entered lies in the block of the note.
AnchorsInside(m) ==
  \A k \in DOMAIN m.deferred_subdirs :
    m.deferred_subdirs[k].kind = "ExifIfdAnchor" =>
      /\ m.deferred_subdirs[k].dispatch_index \in Nat
      /\ \A n \in DOMAIN m.entries :
           IF n <= m.deferred_subdirs[k].dispatch_index
           THEN m.entries[n].source_block <= m.deferred_subdirs[k].source_block
           ELSE m.deferred_subdirs[k].source_block <= m.entries[n].source_block

\* What the emission relies on: the leaves rise with their blocks, and a maker note
\* that was kept has one record.
Sound(m) ==
  /\ DOMAIN m.entries = 1..Len(m.entries) /\ Len(m.entries) \in Nat
  /\ \A n \in DOMAIN m.entries : m.entries[n].source_block \in Nat
  /\ \A n, k \in DOMAIN m.entries : n <= k => m.entries[n].source_block <= m.entries[k].source_block
  /\ DOMAIN m.deferred_subdirs \subseteq Nat
  /\ \A k \in DOMAIN m.deferred_subdirs :
       /\ m.deferred_subdirs[k].kind \in {"ExifIfdAnchor", "MakerNote", "Interop"}
       /\ m.deferred_subdirs[k].pointer_index \in Nat
       /\ m.deferred_subdirs[k].source_block \in Nat
  /\ m.maker_note # NoNote =>
       AnchorsInside(m) /\ \E note \in DOMAIN m.deferred_subdirs : OneNote(m, note)

\* Note is the record of the note kept.
LEMMA NoteIs ==
  ASSUME NEW m, Sound(m), NEW note, OneNote(m, note)
  PROVE  /\ Note(m) = m.deferred_subdirs[note]
         /\ OfNote(m, m.deferred_subdirs[note]) /\ note \in Records(m)
         /\ Note(m).source_block \in Nat
<1> DEFINE notes == {n \in DOMAIN m.deferred_subdirs : m.deferred_subdirs[n].kind = "MakerNote"}
<1>1. notes = {note} /\ notes \in SUBSET Nat /\ notes # {}
  BY DEF OneNote, Sound
<1>2. Min(notes) \in notes
  BY <1>1, MinIs
<1>3. Note(m) = m.deferred_subdirs[note]
  BY <1>1, <1>2 DEF Note
<1> QED
  BY <1>3 DEF OfNote, Records, OneNote, Sound

\* The subtree of the note is a set of positions of leaves.
LEMMA SubtreePlaced ==
  ASSUME NEW m, Sound(m)
  PROVE  Subtree(m) \in SUBSET Nat /\ Subtree(m) \subseteq 1..Len(m.entries)
BY DEF Sound, Subtree

\* The region is the interval from the first leaf of the subtree to the first
\* place where the subtree is interrupted.
LEMMA RegionIs ==
  ASSUME NEW m, Sound(m), Subtree(m) # {}
  PROVE  /\ Min(Region(m)) \in 1..Len(m.entries) /\ Max(Region(m)) \in 1..Len(m.entries)
         /\ Min(Region(m)) <= Max(Region(m))
         /\ Region(m) = Min(Region(m))..Max(Region(m))
         /\ Min(Region(m)) = Min(Subtree(m)) /\ Region(m) \subseteq Subtree(m)
<1> DEFINE low == Min(Subtree(m))
           region == Region(m)
           all == Len(m.entries)
<1>1. low \in Subtree(m) /\ (\A n \in Subtree(m) : low <= n) /\ all \in Nat /\ low \in 1..all /\ low \in Nat
  BY SubtreePlaced, MinIs DEF Sound
<1>2. \A n : n \in region <=> n \in Subtree(m) /\ low..n \subseteq Subtree(m)
  BY DEF Region
<1>3. Subtree(m) \subseteq 1..all
  BY SubtreePlaced
<1> HIDE DEF low, region, all
<1>4. low \in region
  <2>1. low..low = {low}
    BY <1>1
  <2> QED
    BY <1>1, <1>2, <2>1
<1>5. region \in SUBSET Nat /\ region # {} /\ region \subseteq 1..all /\ \A n \in region : n <= all
  BY <1>1, <1>2, <1>3, <1>4
<1>6. Min(region) = low
  <2>1. Min(region) \in region /\ Min(region) <= low
    BY <1>4, <1>5, MinIs
  <2>2. low <= Min(region)
    BY <1>1, <1>2, <2>1
  <2>3. Min(region) \in Nat /\ low \in Nat
    BY <1>1, <1>5, <2>1
  <2> QED
    BY <2>1, <2>2, <2>3
<1> DEFINE high == Max(region)
<1>7. high \in region /\ \A n \in region : n <= high
  BY <1>1, <1>5, MaxIs
<1> HIDE DEF high
<1>8. high \in Nat /\ high \in 1..all /\ low <= high /\ low..high \subseteq Subtree(m)
  BY <1>1, <1>2, <1>4, <1>5, <1>7
<1>9. \A n \in region : n \in Nat /\ low <= n /\ n <= high
  BY <1>1, <1>2, <1>5, <1>7
<1>10. region \subseteq low..high
  BY <1>1, <1>8, <1>9
<1>11. ASSUME NEW n \in low..high PROVE n \in region
  <2>1. low..n \subseteq low..high
    BY <1>1, <1>8
  <2> QED
    BY <1>2, <1>8, <2>1
<1>12. region = low..high
  BY <1>10, <1>11
<1>13. region \subseteq Subtree(m)
  BY <1>2
<1>14. /\ Min(region) \in 1..all /\ high \in 1..all /\ Min(region) <= high
       /\ region = Min(region)..high /\ Min(region) = low /\ region \subseteq Subtree(m)
  BY <1>1, <1>6, <1>8, <1>12, <1>13
<1> QED
  BY <1>14 DEF low, high, region, all

-----------------------------------------------------------------------------
(* What the pointers of the directory of the maker note emit.               *)

\* The deferred leaves of the region, the tags that a record emits, and the slots:
\* the turn of each record with each tag it emits.
Others(m) == {n \in Region(m) : ~Direct(m, n)}
TagsAt(m, k) ==
  IF m.deferred_subdirs[k].kind = "MakerNote" THEN {0}
  ELSE {n \in Others(m) :
          FirstOf(m, k) /\ m.entries[n].own_ifd_start = m.deferred_subdirs[k].subdir_ifd_start}
Slots(m) == UNION {{Turn(m, k) \o <<n>> : n \in TagsAt(m, k)} : k \in Records(m)}
SlotList(m) == Sorted(Slots(m))
Pointed(m) == {n \in Others(m) : m.entries[n].own_ifd_start \in InteropStarts(m)}
Unpointed(m) == {n \in Others(m) : m.entries[n].own_ifd_start \notin InteropStarts(m)}

\* The deferred tags of the model, in the names used below.
LEMMA DeferredAre ==
  ASSUME NEW m
  PROVE  DeferredTags(m) = [p \in DOMAIN SlotList(m) |-> SlotList(m)[p][3]] \o Ascending(Unpointed(m))
BY DEF DeferredTags, SlotList, Slots, TagsAt, Others, Unpointed

\* So are the deferred tags.
LEMMA OthersPlaced ==
  ASSUME NEW m, Sound(m), Subtree(m) # {}
  PROVE  Others(m) \subseteq 1..Len(m.entries) /\ Others(m) \in SUBSET Nat /\ IsFiniteSet(Others(m))
<1>1. Others(m) \subseteq 1..Len(m.entries) /\ Len(m.entries) \in Nat
  BY RegionIs, SubtreePlaced DEF Others, Sound
<1>2. IsFiniteSet(1..Len(m.entries))
  BY <1>1, FS_Interval
<1> QED
  BY <1>1, <1>2, FS_Subset

\* The turn of a record is a pair of numbers.
LEMMA TurnTyped ==
  ASSUME NEW m, Sound(m), NEW k \in DOMAIN m.deferred_subdirs
  PROVE  /\ k \in Nat /\ Turn(m, k) \in [1..2 -> Nat]
         /\ Turn(m, k)[1] = m.deferred_subdirs[k].pointer_index /\ Turn(m, k)[2] = k
<1>1. k \in Nat /\ m.deferred_subdirs[k].pointer_index \in Nat
  BY DEF Sound
<1> QED
  BY <1>1 DEF Turn

\* A turn and the tag that it emits.
LEMMA TripleIs ==
  ASSUME NEW a \in Nat, NEW b \in Nat, NEW c \in Nat
  PROVE  <<a, b>> \o <<c>> = <<a, b, c>> /\ <<a, b, c>> \in [1..3 -> Nat]
<1>1. <<a, b, c>> \in [1..3 -> Nat]
  OBVIOUS
<1>2. <<a, b>> \in Seq(Nat) /\ <<c>> \in Seq(Nat) /\ Len(<<a, b>>) = 2 /\ Len(<<c>>) = 1
  OBVIOUS
<1>3. /\ <<a, b>> \o <<c>> \in Seq(Nat) /\ Len(<<a, b>> \o <<c>>) = 3
      /\ (<<a, b>> \o <<c>>)[1] = a /\ (<<a, b>> \o <<c>>)[2] = b /\ (<<a, b>> \o <<c>>)[3] = c
  BY <1>2
<1>4. PICK s : s = <<a, b>> \o <<c>>
  OBVIOUS
<1>5. s \in Seq(Nat) /\ Len(s) = 3 /\ s[1] = a /\ s[2] = b /\ s[3] = c
  BY <1>3, <1>4
<1>6. s = <<a, b, c>>
  BY <1>5
<1> QED
  BY <1>1, <1>4, <1>6

\* The slots, each by its record and its tag.
LEMMA SlotsAre ==
  ASSUME NEW m, Sound(m), Subtree(m) # {}, NEW slot \in Slots(m)
  PROVE  /\ slot \in [1..3 -> Nat]
         /\ slot[2] \in Records(m) /\ slot[3] \in TagsAt(m, slot[2])
         /\ slot[1] = m.deferred_subdirs[slot[2]].pointer_index
         /\ slot = <<slot[1], slot[2], slot[3]>>
<1>0. PICK k \in Records(m) : \E n \in TagsAt(m, k) : slot = Turn(m, k) \o <<n>>
  BY DEF Slots
<1>1. PICK n \in TagsAt(m, k) : slot = Turn(m, k) \o <<n>>
  BY <1>0
<1>2. n \in Nat /\ k \in DOMAIN m.deferred_subdirs
  BY OthersPlaced DEF TagsAt, Records
<1>3. k \in Nat /\ m.deferred_subdirs[k].pointer_index \in Nat
  BY <1>2 DEF Sound
<1> DEFINE pointer == m.deferred_subdirs[k].pointer_index
<1>4. slot = <<pointer, k>> \o <<n>>
  BY <1>1 DEF Turn
<1> HIDE DEF pointer
<1>5. slot = <<pointer, k, n>> /\ slot \in [1..3 -> Nat]
  BY <1>2, <1>3, <1>4, TripleIs DEF pointer
<1>6. slot[1] = pointer /\ slot[2] = k /\ slot[3] = n
  BY <1>5
<1> QED
  BY <1>1, <1>5, <1>6 DEF pointer

\* A tag that a record emits has a slot with the turn of the record.
LEMMA SlotThere ==
  ASSUME NEW m, Sound(m), Subtree(m) # {}, NEW k \in Records(m), NEW n \in TagsAt(m, k)
  PROVE  <<m.deferred_subdirs[k].pointer_index, k, n>> \in Slots(m)
<1>1. n \in Nat /\ k \in DOMAIN m.deferred_subdirs
  BY OthersPlaced DEF TagsAt, Records
<1>2. k \in Nat /\ m.deferred_subdirs[k].pointer_index \in Nat
  BY <1>1 DEF Sound
<1> DEFINE pointer == m.deferred_subdirs[k].pointer_index
<1>3. Turn(m, k) = <<pointer, k>>
  BY DEF Turn
<1>4. <<pointer, k>> \o <<n>> = <<pointer, k, n>>
  BY <1>1, <1>2, TripleIs DEF pointer
<1>5. Turn(m, k) \o <<n>> \in {Turn(m, k) \o <<t>> : t \in TagsAt(m, k)}
  OBVIOUS
<1>6. Turn(m, k) \o <<n>> \in Slots(m)
  BY <1>5 DEF Slots
<1> QED
  BY <1>3, <1>4, <1>6 DEF pointer

\* Of the records that point to an InteropIFD, one comes first.
LEMMA FirstThere ==
  ASSUME NEW m, Sound(m), NEW start \in InteropStarts(m)
  PROVE  \E k \in Records(m) : /\ m.deferred_subdirs[k].kind = "Interop"
                               /\ m.deferred_subdirs[k].subdir_ifd_start = start /\ FirstOf(m, k)
<1> DEFINE To == {k \in Records(m) : m.deferred_subdirs[k].kind = "Interop"
                                     /\ m.deferred_subdirs[k].subdir_ifd_start = start}
           Index(k) == m.deferred_subdirs[k].pointer_index
           Indices == {Index(k) : k \in To}
<1>1. To # {} /\ To \in SUBSET Nat /\ \A k \in To : k \in DOMAIN m.deferred_subdirs
  BY DEF InteropStarts, Records, Sound
<1>2. Indices # {} /\ Indices \in SUBSET Nat
  BY <1>1 DEF Sound
<1>3. PICK least \in Indices : \A other \in Indices : least <= other
  BY <1>2, LeastNumber
<1> DEFINE Least == {k \in To : Index(k) = least}
<1>4. Least # {} /\ Least \in SUBSET Nat
  BY <1>1, <1>3
<1>5. PICK k \in Least : \A l \in Least : k <= l
  BY <1>4, LeastNumber
<1>6. ASSUME NEW l \in To PROVE ~Precedes(Turn(m, l), Turn(m, k))
  <2>1. /\ DOMAIN Turn(m, l) = 1..2
        /\ Turn(m, l)[1] = Index(l) /\ Turn(m, l)[2] = l
        /\ Turn(m, k)[1] = Index(k) /\ Turn(m, k)[2] = k
    BY <1>1, <1>5, TurnTyped
  <2>2. Index(l) \in Nat /\ Index(k) \in Nat /\ l \in Nat /\ k \in Nat
    BY <1>1, <1>5 DEF Sound
  <2>3. Index(k) <= Index(l)
    BY <1>3, <1>5
  <2>4. Index(l) = Index(k) => k <= l
    BY <1>5
  <2> HIDE DEF Index
  <2>5. ~(Index(l) < Index(k)) /\ (Index(l) = Index(k) => ~(l < k))
    BY <2>2, <2>3, <2>4
  <2>6. SUFFICES ASSUME NEW i \in 1..2, Turn(m, l)[i] < Turn(m, k)[i],
                        \A j \in 1..(i - 1) : Turn(m, l)[j] = Turn(m, k)[j]
                 PROVE  FALSE
    BY <2>1 DEF Precedes
  <2>7. CASE i = 1
    BY <2>1, <2>5, <2>6, <2>7
  <2>8. CASE i = 2
    <3>1. 1 \in 1..(i - 1)
      BY <2>8
    <3> QED
      BY <2>1, <2>5, <2>6, <2>8, <3>1
  <2> QED
    BY <2>7, <2>8
<1>7. FirstOf(m, k)
  BY <1>5, <1>6 DEF FirstOf
<1> QED
  BY <1>5, <1>7

\* Each tag has one slot.
LEMMA OneSlot ==
  ASSUME NEW m, Sound(m), Subtree(m) # {}, NEW note, OneNote(m, note),
         NEW a \in Slots(m), NEW b \in Slots(m), a[3] = b[3]
  PROVE  a = b
<1>1. /\ a = <<a[1], a[2], a[3]>> /\ a[1] = m.deferred_subdirs[a[2]].pointer_index
      /\ b = <<b[1], b[2], b[3]>> /\ b[1] = m.deferred_subdirs[b[2]].pointer_index
      /\ a[2] \in Records(m) /\ b[2] \in Records(m)
      /\ a[3] \in TagsAt(m, a[2]) /\ b[3] \in TagsAt(m, b[2])
  BY SlotsAre
<1>2. 0 \notin Others(m)
  BY OthersPlaced
<1>3. \A k \in Records(m) : k \in DOMAIN m.deferred_subdirs
  BY DEF Records
<1>4. CASE a[3] = 0
  <2>1. a[2] = note /\ b[2] = note
    BY <1>1, <1>2, <1>3, <1>4 DEF TagsAt, OneNote
  <2> QED
    BY <1>1, <2>1
<1>5. CASE a[3] # 0
  <2>1. /\ m.deferred_subdirs[a[2]].kind # "MakerNote" /\ m.deferred_subdirs[b[2]].kind # "MakerNote"
        /\ FirstOf(m, a[2]) /\ FirstOf(m, b[2])
        /\ m.deferred_subdirs[a[2]].subdir_ifd_start = m.deferred_subdirs[b[2]].subdir_ifd_start
    BY <1>1, <1>5 DEF TagsAt
  <2>2. m.deferred_subdirs[a[2]].kind = "Interop" /\ m.deferred_subdirs[b[2]].kind = "Interop"
    BY <1>1, <1>3, <2>1 DEF Records, Sound
  <2>3. ~Precedes(Turn(m, a[2]), Turn(m, b[2])) /\ ~Precedes(Turn(m, b[2]), Turn(m, a[2]))
    BY <1>1, <2>1, <2>2 DEF FirstOf
  <2> DEFINE s == Turn(m, a[2])
             t == Turn(m, b[2])
  <2>4. /\ s \in [1..2 -> Nat] /\ t \in [1..2 -> Nat]
        /\ s[2] = a[2] /\ t[2] = b[2]
    BY <1>1, <1>3, TurnTyped
  <2>5. ~Precedes(s, t) /\ ~Precedes(t, s)
    BY <2>3
  <2> HIDE DEF s, t
  <2>6. PICK T : T = {s, t}
    OBVIOUS
  <2>7. T \in SUBSET [1..2 -> Nat] /\ s \in T /\ t \in T /\ 2 \in Nat
    BY <2>4, <2>6
  <2>8. \A x, y \in T : x = y \/ Precedes(x, y) \/ Precedes(y, x)
    BY <2>7, PrecedesOrders
  <2>9. s = t
    BY <2>5, <2>7, <2>8
  <2> QED
    BY <1>1, <2>4, <2>9
<1> QED
  BY <1>4, <1>5

\* The deferred tags are the maker note and the other leaves of the region, each once:
\* those that a record points to by their turns, the rest by position.
LEMMA DeferredListed ==
  ASSUME NEW m, Sound(m), Subtree(m) # {}, NEW note, OneNote(m, note)
  PROVE  /\ Lists(SlotList(m), Slots(m))
         /\ \A p, q \in DOMAIN SlotList(m) :
              p < q <=> Precedes(SlotList(m)[p], SlotList(m)[q])
         /\ Lists([p \in DOMAIN SlotList(m) |-> SlotList(m)[p][3]], {0} \cup Pointed(m))
         /\ Lists(Ascending(Unpointed(m)), Unpointed(m))
         /\ Lists(DeferredTags(m), {0} \cup Others(m))
<1> DEFINE S == Slots(m)
           third == [slot \in S |-> slot[3]]
           list == SlotList(m)
           tags == [p \in DOMAIN list |-> list[p][3]]
<1>1. /\ S \in SUBSET [1..3 -> Nat]
      /\ \A slot \in S : slot[2] \in Records(m) /\ slot[3] \in TagsAt(m, slot[2])
  BY SlotsAre
<1>2. \A k \in Records(m) : k \in DOMAIN m.deferred_subdirs
  BY DEF Records
<1>3. \A slot \in S : slot[3] \in {0} \cup Pointed(m)
  <2> TAKE slot \in S
  <2>1. slot[2] \in Records(m) /\ slot[3] \in TagsAt(m, slot[2]) /\ slot[2] \in DOMAIN m.deferred_subdirs
    BY <1>1, <1>2
  <2>2. CASE m.deferred_subdirs[slot[2]].kind = "MakerNote"
    BY <2>1, <2>2 DEF TagsAt
  <2>3. CASE m.deferred_subdirs[slot[2]].kind # "MakerNote"
    <3>1. m.deferred_subdirs[slot[2]].kind = "Interop" /\ OfNote(m, m.deferred_subdirs[slot[2]])
      BY <2>1, <2>3 DEF Records, Sound
    <3> QED
      BY <2>1, <2>3, <3>1 DEF TagsAt, Pointed, InteropStarts
  <2> QED
    BY <2>2, <2>3
<1>4. \A n \in {0} \cup Pointed(m) : \E slot \in S : slot[3] = n
  <2> TAKE n \in {0} \cup Pointed(m)
  <2>1. PICK k \in Records(m) : n \in TagsAt(m, k)
    <3>1. CASE n = 0
      BY <3>1, NoteIs DEF TagsAt, OneNote
    <3>2. CASE n \in Pointed(m)
      <4>1. PICK k \in Records(m) : /\ m.deferred_subdirs[k].kind = "Interop"
                                    /\ m.deferred_subdirs[k].subdir_ifd_start = m.entries[n].own_ifd_start
                                    /\ FirstOf(m, k)
        BY <3>2, FirstThere DEF Pointed
      <4> QED
        BY <3>2, <4>1 DEF TagsAt, Pointed
    <3> QED
      BY <3>1, <3>2
  <2> DEFINE slot == <<m.deferred_subdirs[k].pointer_index, k, n>>
  <2>2. slot \in S /\ slot[3] = n
    BY <2>1, SlotThere
  <2> QED
    BY <2>2
<1>5. \A a, b \in S : a[3] = b[3] => a = b
  BY OneSlot
<1>6. IsFiniteSet({0} \cup Pointed(m))
  <2>1. IsFiniteSet({0}) /\ IsFiniteSet(Pointed(m))
    BY OthersPlaced, FS_Singleton, FS_Subset DEF Pointed
  <2> QED
    BY <2>1, FS_Union
<1>7. IsFiniteSet(S)
  <2>1. third \in [S -> {0} \cup Pointed(m)]
    BY <1>3
  <2>2. third \in Injection(S, {0} \cup Pointed(m))
    BY <1>5, <2>1 DEF Injection, IsInjective
  <2> QED
    BY <1>6, <2>2, FS_Injection
<1>8. /\ Lists(list, S)
      /\ \A p, q \in DOMAIN list : p < q <=> Precedes(list[p], list[q])
  BY <1>1, <1>7, SortedLists DEF SlotList
<1> HIDE DEF S, list
<1>9. Lists(tags, {0} \cup Pointed(m))
  <2>1. list \in Seq(S) /\ DOMAIN list = 1..Len(list) /\ Len(list) \in Nat
        /\ \A p \in DOMAIN list : list[p] \in S
    BY <1>8 DEF Lists
  <2>2. tags \in Seq({0} \cup Pointed(m)) /\ DOMAIN tags = DOMAIN list
    BY <1>3, <2>1
  <2>3. \A n \in {0} \cup Pointed(m) : \E p \in DOMAIN tags : tags[p] = n
    BY <1>4, <1>8, <2>2 DEF Lists
  <2>4. \A p, q \in DOMAIN tags : tags[p] = tags[q] => p = q
    BY <1>5, <1>8, <2>1, <2>2 DEF Lists
  <2> QED
    BY <2>2, <2>3, <2>4 DEF Lists
<1>10. Lists(Ascending(Unpointed(m)), Unpointed(m))
  <2>1. Unpointed(m) \in SUBSET Nat /\ IsFiniteSet(Unpointed(m))
    BY OthersPlaced, FS_Subset DEF Unpointed
  <2> QED
    BY <2>1, AscendingLists
<1>11. Lists(DeferredTags(m), {0} \cup Others(m))
  <2>1. ({0} \cup Pointed(m)) \cap Unpointed(m) = {}
    BY OthersPlaced DEF Pointed, Unpointed
  <2>2. ({0} \cup Pointed(m)) \cup Unpointed(m) = {0} \cup Others(m)
    BY DEF Pointed, Unpointed
  <2>3. DeferredTags(m) = tags \o Ascending(Unpointed(m))
    BY DeferredAre DEF list
  <2> HIDE DEF tags
  <2>4. Lists(tags \o Ascending(Unpointed(m)), ({0} \cup Pointed(m)) \cup Unpointed(m))
    BY <1>9, <1>10, <2>1, ListsConcat
  <2> QED
    BY <2>2, <2>3, <2>4
<1> QED
  BY <1>8, <1>9, <1>10, <1>11 DEF S, list

-----------------------------------------------------------------------------
(* The emission of a merged file.                                           *)

\* The tags to emit and the blocks they are from; 0 is the maker note.
Tags(m) == DOMAIN m.entries \cup (IF m.maker_note = NoNote THEN {} ELSE {0})
BlockOf(m) ==
  [n \in {0} \cup DOMAIN m.entries |->
     IF n = 0 THEN Note(m).source_block ELSE m.entries[n].source_block]

\* The blocks of the leaves, and the block of the note.
LEMMA BlocksAre ==
  ASSUME NEW m, Sound(m)
  PROVE  /\ DOMAIN m.entries = 1..Len(m.entries) /\ Len(m.entries) \in Nat
         /\ \A n \in 1..Len(m.entries) :
              BlockOf(m)[n] \in Nat /\ BlockOf(m)[n] = m.entries[n].source_block
         /\ \A x, y \in 1..Len(m.entries) : x <= y => BlockOf(m)[x] <= BlockOf(m)[y]
         /\ BlockOf(m)[0] = Note(m).source_block
         /\ m.maker_note # NoNote => BlockOf(m)[0] \in Nat
<1>1. /\ DOMAIN m.entries = 1..Len(m.entries) /\ Len(m.entries) \in Nat
      /\ \A n \in 1..Len(m.entries) : m.entries[n].source_block \in Nat
      /\ \A x, y \in 1..Len(m.entries) : x <= y => m.entries[x].source_block <= m.entries[y].source_block
  BY DEF Sound
<1>2. \A n \in 1..Len(m.entries) : BlockOf(m)[n] = m.entries[n].source_block
  BY <1>1 DEF BlockOf
<1>3. BlockOf(m)[0] = Note(m).source_block
  BY DEF BlockOf
<1>4. m.maker_note # NoNote => Note(m).source_block \in Nat
  BY NoteIs DEF Sound
<1> QED
  BY <1>1, <1>2, <1>3, <1>4

\* A maker note whose directory has no leaf goes to a place in its block.
LEMMA SplicePlaced ==
  ASSUME NEW m, Sound(m), m.maker_note # NoNote
  PROVE  /\ SpliceAt(m) \in 0..Len(m.entries)
         /\ \A n \in 1..Len(m.entries) :
              IF n <= SpliceAt(m) THEN BlockOf(m)[n] <= BlockOf(m)[0]
              ELSE BlockOf(m)[0] <= BlockOf(m)[n]
<1> DEFINE all == Len(m.entries)
           block == BlockOf(m)
           split == SpliceAt(m)
<1>1. /\ all \in Nat /\ \A n \in 1..all : block[n] \in Nat /\ block[n] = m.entries[n].source_block
      /\ block[0] \in Nat /\ block[0] = Note(m).source_block
      /\ \A x, y \in 1..all : x <= y => block[x] <= block[y]
      /\ DOMAIN m.entries = 1..all
  BY BlocksAre
<1>2. CASE Anchors(m) # {}
  <2> DEFINE first == Min(Anchors(m))
             at == m.deferred_subdirs[first].dispatch_index
             ends == {at, all}
  <2>1. Anchors(m) \in SUBSET Nat
    BY DEF Anchors, Sound
  <2>2. first \in Anchors(m)
    BY <1>2, <2>1, MinIs
  <2>3. /\ m.deferred_subdirs[first].source_block = block[0]
        /\ first \in DOMAIN m.deferred_subdirs
        /\ m.deferred_subdirs[first].kind = "ExifIfdAnchor"
    BY <1>1, <2>2 DEF Anchors, OfNote
  <2>4. at \in Nat
    BY <2>3 DEF Sound, AnchorsInside
  <2>5. \A n \in 1..all :
          IF n <= at THEN m.entries[n].source_block <= block[0]
          ELSE block[0] <= m.entries[n].source_block
    BY <1>1, <2>3 DEF Sound, AnchorsInside
  <2>6. split = Min(ends)
    BY <1>2 DEF SpliceAt
  <2>7. ends \in SUBSET Nat /\ ends # {} /\ at \in ends /\ all \in ends
    BY <1>1, <2>4
  <2>8. ends = {at, all}
    OBVIOUS
  <2> HIDE DEF ends, at, first, all, block, split
  <2>9. split \in ends /\ split <= at /\ split <= all
    BY <2>6, <2>7, MinIs
  <2>10. split = at \/ split = all
    BY <2>8, <2>9
  <2>11. split \in 0..all
    BY <1>1, <2>4, <2>9, <2>10
  <2>12. ASSUME NEW n \in 1..all
         PROVE  IF n <= split THEN block[n] <= block[0] ELSE block[0] <= block[n]
    <3>1. n <= split => n <= at
      BY <1>1, <2>4, <2>9, <2>11
    <3>2. ~(n <= split) => ~(n <= at)
      BY <1>1, <2>4, <2>9, <2>10, <2>11
    <3> QED
      BY <1>1, <2>5, <3>1, <3>2
  <2> QED
    BY <2>11, <2>12 DEF all, block, split
<1>3. CASE Anchors(m) = {}
  <2> DEFINE Earlier(k) == \/ m.entries[k].source_block < Note(m).source_block
                           \/ m.entries[k].source_block = Note(m).source_block /\ m.entries[k].ifd = "IFD0"
             heads == {n \in 0..all : \A k \in 1..n : Earlier(k)}
  <2>1. split = Max(heads)
    BY <1>3 DEF SpliceAt
  <2>2. \A k \in 1..all : /\ Earlier(k) => block[k] <= block[0]
                          /\ ~Earlier(k) => block[0] <= block[k]
    BY <1>1
  <2>3. /\ heads \subseteq 0..all
        /\ \A n \in 0..all : n \in heads <=> \A k \in 1..n : Earlier(k)
    OBVIOUS
  <2> HIDE DEF heads, Earlier, all, block, split
  <2>4. 0 \in heads
    BY <1>1, <2>3
  <2>5. heads \in SUBSET Nat /\ heads # {} /\ \A n \in heads : n <= all
    BY <1>1, <2>3, <2>4
  <2>6. split \in heads /\ \A n \in heads : n <= split
    BY <1>1, <2>1, <2>5, MaxIs
  <2>7. split \in 0..all /\ split \in Nat
    BY <2>3, <2>5, <2>6
  <2>8. ASSUME NEW n \in 1..all, n <= split PROVE block[n] <= block[0]
    BY <2>2, <2>3, <2>6, <2>7, <2>8
  <2>9. ASSUME NEW n \in 1..all, ~(n <= split) PROVE block[0] <= block[n]
    <3>1. split + 1 \in 0..all /\ split + 1 \in 1..all /\ split + 1 <= n
      BY <1>1, <2>7, <2>9
    <3>2. split + 1 \notin heads
      BY <2>6, <2>7
    <3>3. PICK k \in 1..(split + 1) : ~Earlier(k)
      BY <2>3, <3>1, <3>2
    <3>4. k \notin 1..split
      BY <2>3, <2>6, <2>7, <3>3
    <3>5. k = split + 1
      BY <2>7, <3>4
    <3>6. block[0] <= block[split + 1]
      BY <2>2, <3>1, <3>3, <3>5
    <3>7. block[split + 1] <= block[n]
      BY <1>1, <3>1
    <3> QED
      BY <1>1, <3>1, <3>6, <3>7
  <2> QED
    BY <2>7, <2>8, <2>9 DEF all, block, split
<1> QED
  BY <1>2, <1>3

\* Every leaf once and the maker note once, by blocks.
EmittedWell(m) == Lists(Emission(m), Tags(m)) /\ Rising(Emission(m), BlockOf(m))

\* Without a maker note the leaves are emitted as they were found.
LEMMA EmittedWithoutNote ==
  ASSUME NEW m, Sound(m), m.maker_note = NoNote
  PROVE  EmittedWell(m)
<1> DEFINE all == Len(m.entries)
<1>1. all \in Nat /\ 1 <= all + 1 /\ 1 \in Nat
      /\ \A x, y \in 1..all : x <= y => BlockOf(m)[x] <= BlockOf(m)[y]
  BY BlocksAre
<1>2. Emission(m) = Positions(1, all)
  BY DEF Emission
<1>3. Tags(m) = 1..all
  BY BlocksAre DEF Tags
<1> HIDE DEF all
<1>4. Lists(Positions(1, all), 1..all)
  BY <1>1, PositionsList
<1>5. Rising(Positions(1, all), BlockOf(m))
  BY <1>1, PositionsRise
<1> QED
  BY <1>2, <1>3, <1>4, <1>5 DEF EmittedWell

\* A single tag lists itself.
LEMMA OneListed == ASSUME NEW x PROVE Lists(<<x>>, {x})
<1>1. <<x>> \in Seq({x}) /\ DOMAIN <<x>> = 1..1 /\ <<x>>[1] = x
  OBVIOUS
<1> QED
  BY <1>1 DEF Lists

\* A note whose directory emitted nothing is spliced in where its ExifIFD was entered.
LEMMA EmittedSpliced ==
  ASSUME NEW m, Sound(m), m.maker_note # NoNote, Subtree(m) = {}
  PROVE  EmittedWell(m)
<1> DEFINE all == Len(m.entries)
           block == BlockOf(m)
           split == SpliceAt(m)
<1>1. /\ all \in Nat /\ \A n \in 1..all : block[n] \in Nat
      /\ block[0] \in Nat
      /\ \A x, y \in 1..all : x <= y => block[x] <= block[y]
  BY BlocksAre
<1>2. /\ split \in 0..all
      /\ \A n \in 1..all : IF n <= split THEN block[n] <= block[0] ELSE block[0] <= block[n]
  BY SplicePlaced
<1>3. Emission(m) = Positions(1, split) \o <<0>> \o Positions(split + 1, all)
  BY DEF Emission
<1>4. Tags(m) = {0} \cup 1..all
  BY BlocksAre DEF Tags
<1>5. EmittedWell(m) <=> Lists(Emission(m), Tags(m)) /\ Rising(Emission(m), block)
  BY DEF EmittedWell
<1> HIDE DEF all, block, split
<1>6. /\ split \in Nat /\ split + 1 \in Nat /\ 1 \in Nat /\ 1 <= split + 1 /\ split + 1 <= all + 1
      /\ \A x \in 1..split : x \in 1..all /\ x <= split
      /\ \A x \in (split + 1)..all : x \in 1..all /\ ~(x <= split)
      /\ 1..all = 1..split \cup (split + 1)..all
  BY <1>1, <1>2
<1>7. /\ Lists(Positions(1, split), 1..split) /\ Rising(Positions(1, split), block)
      /\ Lists(Positions(split + 1, all), (split + 1)..all) /\ Rising(Positions(split + 1, all), block)
  BY <1>1, <1>6, PositionsList, PositionsRise
<1>8. /\ Lists(<<0>>, {0}) /\ Rising(<<0>>, block)
  BY <1>1, OneListed, LevelRises
<1>9. (1..split) \cap {0} = {} /\ (1..split \cup {0}) \cap (split + 1)..all = {}
  BY <1>1, <1>6
<1>10. /\ Lists(Positions(1, split) \o <<0>>, 1..split \cup {0})
       /\ Rising(Positions(1, split) \o <<0>>, block)
  <2>1. \A x \in 1..split, y \in {0} : block[x] <= block[y]
    BY <1>2, <1>6
  <2> QED
    BY <1>7, <1>8, <1>9, <2>1, ListsConcat, RisingConcat
<1>11. /\ Lists((Positions(1, split) \o <<0>>) \o Positions(split + 1, all), (1..split \cup {0}) \cup (split + 1)..all)
       /\ Rising((Positions(1, split) \o <<0>>) \o Positions(split + 1, all), block)
  <2>1. \A x \in 1..split \cup {0}, y \in (split + 1)..all : block[x] <= block[y]
    <3> SUFFICES ASSUME NEW x \in 1..split \cup {0}, NEW y \in (split + 1)..all
                 PROVE  block[x] <= block[y]
      OBVIOUS
    <3>1. block[0] <= block[y] /\ block[y] \in Nat
      BY <1>1, <1>2, <1>6
    <3>2. block[x] <= block[0] /\ block[x] \in Nat
      BY <1>1, <1>2, <1>6
    <3> QED
      BY <1>1, <3>1, <3>2
  <2> QED
    BY <1>7, <1>9, <1>10, <2>1, ListsConcat, RisingConcat
<1>12. (1..split \cup {0}) \cup (split + 1)..all = {0} \cup 1..all
  BY <1>6
<1> QED
  BY <1>3, <1>4, <1>5, <1>11, <1>12

\* Otherwise it is emitted with the deferred tags of its region, behind the direct ones.
LEMMA EmittedAroundNote ==
  ASSUME NEW m, Sound(m), m.maker_note # NoNote, Subtree(m) # {}
  PROVE  EmittedWell(m)
<1> DEFINE all == Len(m.entries)
           block == BlockOf(m)
           low == Min(Region(m))
           high == Max(Region(m))
           direct == {n \in Region(m) : Direct(m, n)}
           rest == {0} \cup Others(m)
           own == Ascending(direct)
           deferred == DeferredTags(m)
<1>0. PICK note \in DOMAIN m.deferred_subdirs : OneNote(m, note)
  BY DEF Sound
<1>1. /\ all \in Nat /\ \A n \in 1..all : block[n] \in Nat /\ block[n] = m.entries[n].source_block
      /\ block[0] \in Nat /\ block[0] = Note(m).source_block
      /\ \A x, y \in 1..all : x <= y => block[x] <= block[y]
  BY BlocksAre
<1>2. low \in 1..all /\ high \in 1..all /\ low <= high /\ Region(m) = low..high
      /\ Region(m) \subseteq Subtree(m)
  BY RegionIs
<1>3. \A n \in Region(m) : block[n] = block[0]
  BY <1>1, <1>2 DEF Subtree
<1>4. Emission(m) = Positions(1, low - 1) \o own \o deferred \o Positions(high + 1, all)
  BY DEF Emission
<1>5. Tags(m) = {0} \cup 1..all
  BY BlocksAre DEF Tags
<1>6. EmittedWell(m) <=> Lists(Emission(m), Tags(m)) /\ Rising(Emission(m), block)
  BY DEF EmittedWell
<1>7. Lists(deferred, rest)
  BY <1>0, DeferredListed
<1>8. /\ direct \subseteq Region(m) /\ direct \cup Others(m) = Region(m) /\ direct \cap Others(m) = {}
      /\ rest = {0} \cup Others(m)
  BY DEF Others
<1> HIDE DEF direct, rest, deferred, all, block, low, high
<1>9. direct \in SUBSET Nat /\ IsFiniteSet(direct)
  <2>1. direct \subseteq 1..all
    BY <1>1, <1>2, <1>8
  <2>2. IsFiniteSet(1..all)
    BY <1>1, FS_Interval
  <2>3. direct \in SUBSET Nat
    BY <1>1, <2>1
  <2> QED
    BY <2>1, <2>2, <2>3, FS_Subset
<1>10. Lists(own, direct)
  BY <1>9, AscendingLists
<1> HIDE DEF own
<1>11. /\ low - 1 \in Nat /\ high + 1 \in Nat /\ 1 \in Nat /\ 1 <= (low - 1) + 1 /\ high + 1 <= all + 1
       /\ \A x \in 1..(low - 1) : x \in 1..all /\ x <= low
       /\ \A x \in (high + 1)..all : x \in 1..all /\ high <= x
       /\ \A x \in low..high : x \in 1..all
       /\ 1..all = 1..(low - 1) \cup low..high \cup (high + 1)..all
       /\ (1..(low - 1)) \cap (low..high) = {}
       /\ (1..(low - 1)) \cap ((high + 1)..all) = {} /\ (low..high) \cap ((high + 1)..all) = {}
       /\ low \in low..high /\ high \in low..high
       /\ 0 \notin 1..(low - 1) /\ 0 \notin low..high /\ 0 \notin (high + 1)..all
  <2>1. /\ low \in Nat /\ high \in Nat /\ all \in Nat
        /\ 1 <= low /\ low <= high /\ high <= all
    BY <1>1, <1>2
  <2>2. 1..all = 1..(low - 1) \cup low..high \cup (high + 1)..all
    BY <2>1
  <2> QED
    BY <2>1, <2>2
<1> DEFINE before == Positions(1, low - 1)
           after == Positions(high + 1, all)
           head == 1..(low - 1)
           tail == (high + 1)..all
<1>12. /\ Lists(before, head) /\ Rising(before, block)
       /\ Lists(after, tail) /\ Rising(after, block)
  BY <1>1, <1>11, PositionsList, PositionsRise
<1>13. /\ \A x \in head : block[x] <= block[0]
       /\ \A y \in tail : block[0] <= block[y]
       /\ \A x \in direct \cup rest : block[x] = block[0]
  <2>1. \A x \in head : block[x] <= block[low] /\ block[low] = block[0]
    BY <1>1, <1>2, <1>3, <1>11
  <2>2. \A y \in tail : block[high] <= block[y] /\ block[high] = block[0]
    BY <1>1, <1>2, <1>3, <1>11
  <2>3. \A x \in direct \cup rest : x = 0 \/ x \in Region(m)
    BY <1>8
  <2> QED
    BY <1>3, <2>1, <2>2, <2>3
<1>14. /\ \A x \in head : block[x] \in Nat
       /\ \A y \in tail : block[y] \in Nat
  BY <1>1, <1>11
<1>15. /\ head \cap direct = {} /\ (head \cup direct) \cap rest = {}
       /\ (head \cup direct \cup rest) \cap tail = {}
       /\ head \cup direct \cup rest \cup tail = {0} \cup 1..all
  BY <1>2, <1>8, <1>11
<1> HIDE DEF before, after, head, tail
<1>16. Rising(own, block) /\ Rising(deferred, block)
  BY <1>1, <1>7, <1>10, <1>13, LevelRises
<1>17. Lists(before \o own, head \cup direct) /\ Rising(before \o own, block)
  <2>1. \A x \in head, y \in direct : block[x] <= block[y]
    BY <1>13
  <2> QED
    BY <1>10, <1>12, <1>15, <1>16, <2>1, ListsConcat, RisingConcat
<1>18. /\ Lists((before \o own) \o deferred, (head \cup direct) \cup rest)
       /\ Rising((before \o own) \o deferred, block)
  <2>1. \A x \in head \cup direct, y \in rest : block[x] <= block[y]
    BY <1>1, <1>13
  <2> QED
    BY <1>7, <1>15, <1>16, <1>17, <2>1, ListsConcat, RisingConcat
<1>19. /\ Lists(((before \o own) \o deferred) \o after, ((head \cup direct) \cup rest) \cup tail)
       /\ Rising(((before \o own) \o deferred) \o after, block)
  <2>1. ASSUME NEW x \in (head \cup direct) \cup rest, NEW y \in tail PROVE block[x] <= block[y]
    <3>1. block[x] <= block[0] /\ block[x] \in Nat /\ block[0] <= block[y] /\ block[y] \in Nat
      BY <1>1, <1>13, <1>14
    <3> QED
      BY <1>1, <3>1
  <2> QED
    BY <1>12, <1>15, <1>18, <2>1, ListsConcat, RisingConcat
<1>20. Emission(m) = ((before \o own) \o deferred) \o after
  BY <1>4 DEF before, after
<1> QED
  BY <1>5, <1>6, <1>15, <1>19, <1>20

\* The emission of a merged file, with or without a note.
LEMMA Emitted ==
  ASSUME NEW m, Sound(m)
  PROVE  EmittedWell(m)
BY EmittedWithoutNote, EmittedSpliced, EmittedAroundNote

\* What the two properties say of a file.
LEMMA EmittedSays ==
  ASSUME NEW m, Sound(m)
  PROVE  /\ Len(Emission(m)) = Cardinality(Tags(m)) /\ ToSet(Emission(m)) = Tags(m)
         /\ \A p, q \in DOMAIN Emission(m) :
              p <= q => BlockOf(m)[Emission(m)[p]] <= BlockOf(m)[Emission(m)[q]]
         /\ \A p \in DOMAIN Emission(m) : Emission(m)[p] \in Tags(m)
<1>1. Lists(Emission(m), Tags(m)) /\ Rising(Emission(m), BlockOf(m))
  BY Emitted DEF EmittedWell
<1>2. Len(Emission(m)) = Cardinality(Tags(m)) /\ ToSet(Emission(m)) = Tags(m)
  BY <1>1, ListsCounts
<1> QED
  BY <1>1, <1>2 DEF Rising, Lists

-----------------------------------------------------------------------------
(* The merge of one block into the file.                                    *)

\* A leaf and a record of the merged file: one of the block it is stamped with.
BlockLeaf == [ifd : Kinds, own_ifd_start : Addresses, what : Whats \cup {"image"}, name : Names,
              value : Nat, source_block : Nat, walk : Nat]
BlockRecord == [kind : {"ExifIfdAnchor", "MakerNote", "Interop"}, parent : Kinds,
                parent_ifd_start : Addresses, pointer_index : Nat,
                subdir_ifd_start : Addresses \cup {NoAddress}, dispatch_index : Nat,
                source_block : Nat]

\* The file of the first b blocks.
FileSound(m, b) ==
  /\ m.entries \in Seq(BlockLeaf) /\ m.deferred_subdirs \in Seq(BlockRecord)
  /\ \A n \in DOMAIN m.entries : m.entries[n].source_block < b
  /\ \A k \in DOMAIN m.deferred_subdirs : m.deferred_subdirs[k].source_block < b
  /\ AnchorsPlaced(m.deferred_subdirs, Len(m.entries))
  /\ Sound(m)

\* A leaf of a block, stamped with the number of the block.
LEMMA StampedLeaf ==
  ASSUME NEW leaf \in Emittable, NEW b \in Nat
  PROVE  LET to == [leaf EXCEPT !.source_block = b]
         IN  /\ to \in BlockLeaf /\ to.source_block = b
             /\ to.ifd = leaf.ifd /\ to.own_ifd_start = leaf.own_ifd_start
BY DEF Emittable, BlockLeaf

\* A record of the same pointer.
SameRecord(to, record) ==
  /\ to.kind = record.kind /\ to.parent = record.parent
  /\ to.parent_ifd_start = record.parent_ifd_start
  /\ to.pointer_index = record.pointer_index
  /\ to.subdir_ifd_start = record.subdir_ifd_start

\* A record of a block, stamped with the number of the block.
LEMMA StampedRecord ==
  ASSUME NEW record \in Deferrals, NEW b \in Nat
  PROVE  LET to == [record EXCEPT !.source_block = b]
         IN  /\ to \in BlockRecord /\ to.source_block = b
             /\ SameRecord(to, record) /\ to.dispatch_index = record.dispatch_index
BY DEF Deferrals, BlockRecord, SameRecord

\* Moving a record behind the leaves merged before moves where an ExifIFD was entered.
LEMMA RebasedRecord ==
  ASSUME NEW record \in BlockRecord, NEW base \in Nat, base = Len(meta.entries)
  PROVE  /\ Rebased(record) \in BlockRecord /\ SameRecord(Rebased(record), record)
         /\ Rebased(record).source_block = record.source_block
         /\ record.kind = "ExifIfdAnchor" =>
              Rebased(record).dispatch_index = record.dispatch_index + base
<1>1. CASE record.kind # "ExifIfdAnchor"
  BY <1>1 DEF Rebased, SameRecord
<1>2. CASE record.kind = "ExifIfdAnchor"
  <2> DEFINE to == [record EXCEPT !.dispatch_index = @ + base]
  <2>1. Rebased(record) = to
    BY <1>2 DEF Rebased
  <2>3. /\ to \in BlockRecord /\ SameRecord(to, record)
        /\ to.source_block = record.source_block
        /\ to.dispatch_index = record.dispatch_index + base
    BY DEF BlockRecord, SameRecord
  <2> HIDE DEF to
  <2> QED
    BY <2>1, <2>3
<1> QED
  BY <1>1, <1>2

\* The leaves of a file with one more block.
LEMMA EntriesMerged ==
  ASSUME Recorded, next_exif_block \in Nat, FileSound(meta, next_exif_block)
  PROVE  /\ Merged.entries = meta.entries \o Stamped(entries)
         /\ Merged.entries \in Seq(BlockLeaf)
         /\ Len(meta.entries) \in Nat /\ Len(entries) \in Nat
         /\ Len(Merged.entries) = Len(meta.entries) + Len(entries)
         /\ \A n \in 1..Len(meta.entries) :
              Merged.entries[n] = meta.entries[n] /\ Merged.entries[n].source_block < next_exif_block
         /\ \A n \in 1..Len(entries) :
              /\ Merged.entries[Len(meta.entries) + n].source_block = next_exif_block
              /\ Merged.entries[Len(meta.entries) + n].ifd = entries[n].ifd
              /\ Merged.entries[Len(meta.entries) + n].own_ifd_start = entries[n].own_ifd_start
         /\ \A n \in 1..Len(Merged.entries) :
              IF n <= Len(meta.entries) THEN Merged.entries[n].source_block < next_exif_block
              ELSE Merged.entries[n].source_block = next_exif_block
<1> DEFINE s == meta.entries
           t == Stamped(entries)
           b == next_exif_block
<1>1. Merged.entries = s \o t
  BY DEF Merged
<1>2. s \in Seq(BlockLeaf) /\ \A n \in DOMAIN s : s[n].source_block < b
  BY DEF FileSound
<1>3. entries \in Seq(Emittable)
  BY DEF Recorded, FoundTyped
<1>4. /\ DOMAIN entries = 1..Len(entries) /\ Len(entries) \in Nat
      /\ \A n \in 1..Len(entries) : entries[n] \in Emittable
  BY <1>3
<1>5. t = [n \in 1..Len(entries) |-> [entries[n] EXCEPT !.source_block = b]]
  BY <1>4 DEF Stamped
<1> HIDE DEF s, t
<1>6. \A n \in 1..Len(entries) :
        /\ t[n] \in BlockLeaf /\ t[n].source_block = b
        /\ t[n].ifd = entries[n].ifd /\ t[n].own_ifd_start = entries[n].own_ifd_start
  BY <1>4, <1>5, StampedLeaf
<1>7. t \in Seq(BlockLeaf) /\ Len(t) = Len(entries) /\ DOMAIN t = 1..Len(entries)
  <2>1. t \in [1..Len(entries) -> BlockLeaf]
    BY <1>5, <1>6
  <2> QED
    BY <1>4, <2>1
<1>20. s \o t \in Seq(BlockLeaf) /\ Glued(s \o t, s, t)
  BY <1>2, <1>7, ConcatIs
<1>8. /\ s \o t \in Seq(BlockLeaf) /\ Len(s) \in Nat /\ Len(s \o t) = Len(s) + Len(entries)
      /\ DOMAIN s = 1..Len(s) /\ DOMAIN (s \o t) = 1..(Len(s) + Len(entries))
      /\ \A p \in DOMAIN s : (s \o t)[p] = s[p]
      /\ \A p \in DOMAIN t : (s \o t)[Len(s) + p] = t[p]
      /\ \A p \in DOMAIN (s \o t) :
              \/ p \in DOMAIN s /\ (s \o t)[p] = s[p]
              \/ p - Len(s) \in DOMAIN t /\ ~(p <= Len(s)) /\ (s \o t)[p] = t[p - Len(s)]
  <2>1. PICK u : u = s \o t
    OBVIOUS
  <2>2. u \in Seq(BlockLeaf) /\ Glued(u, s, t)
    BY <1>20, <2>1
  <2>3. /\ u \in Seq(BlockLeaf) /\ Len(s) \in Nat /\ Len(u) = Len(s) + Len(entries)
        /\ DOMAIN s = 1..Len(s) /\ DOMAIN u = 1..(Len(s) + Len(entries))
        /\ \A p \in DOMAIN s : u[p] = s[p]
        /\ \A p \in DOMAIN t : u[Len(s) + p] = t[p]
        /\ \A p \in DOMAIN u :
              \/ p \in DOMAIN s /\ u[p] = s[p]
              \/ p - Len(s) \in DOMAIN t /\ ~(p <= Len(s)) /\ u[p] = t[p - Len(s)]
    BY <1>7, <2>2 DEF Glued
  <2> QED
    BY <2>1, <2>3
<1>9. \A n \in 1..Len(s \o t) :
              IF n <= Len(s) THEN (s \o t)[n].source_block < b
              ELSE (s \o t)[n].source_block = b
  <2> TAKE n \in 1..Len(s \o t)
  <2>1. n \in DOMAIN (s \o t) /\ n \in Nat
    BY <1>8
  <2>2. CASE n \in DOMAIN s /\ (s \o t)[n] = s[n]
    <3>1. n <= Len(s)
      BY <1>8, <2>2
    <3> QED
      BY <1>2, <2>2, <3>1
  <2>3. CASE n - Len(s) \in DOMAIN t /\ ~(n <= Len(s)) /\ (s \o t)[n] = t[n - Len(s)]
    BY <1>6, <1>7, <2>3
  <2> QED
    BY <1>8, <2>1, <2>2, <2>3
<1>10. \A n \in 1..Len(s) : (s \o t)[n] = s[n] /\ (s \o t)[n].source_block < b
  BY <1>2, <1>8
<1>11. \A n \in 1..Len(entries) :
         /\ (s \o t)[Len(s) + n].source_block = b
         /\ (s \o t)[Len(s) + n].ifd = entries[n].ifd
         /\ (s \o t)[Len(s) + n].own_ifd_start = entries[n].own_ifd_start
  BY <1>6, <1>7, <1>8
<1> DEFINE e == s \o t
<1>12. Merged.entries = e /\ s = meta.entries /\ e = meta.entries \o Stamped(entries)
  BY <1>1 DEF s, t
<1>13. /\ e \in Seq(BlockLeaf) /\ Len(e) = Len(s) + Len(entries) /\ Len(s) \in Nat
  BY <1>8
<1> HIDE DEF e
<1> QED
  BY <1>4, <1>9, <1>10, <1>11, <1>12, <1>13 DEF e

\* The merged leaves rise with their blocks.
LEMMA EntriesInBlocks ==
  ASSUME Recorded, next_exif_block \in Nat, FileSound(meta, next_exif_block)
  PROVE  /\ DOMAIN Merged.entries = 1..Len(Merged.entries) /\ Len(Merged.entries) \in Nat
         /\ \A n \in DOMAIN Merged.entries :
              Merged.entries[n].source_block \in Nat /\ Merged.entries[n].source_block < next_exif_block + 1
         /\ \A n, k \in DOMAIN Merged.entries :
              n <= k => Merged.entries[n].source_block <= Merged.entries[k].source_block
<1> DEFINE e == Merged.entries
           b == next_exif_block
           old == Len(meta.entries)
<1>1. e \in Seq(BlockLeaf) /\ b \in Nat /\ old \in Nat /\ old <= Len(e)
      /\ (\A n \in 1..old : e[n] = meta.entries[n])
      /\ \A n \in 1..Len(e) :
              IF n <= old THEN e[n].source_block < b ELSE e[n].source_block = b
  <2>1. /\ e \in Seq(BlockLeaf) /\ b \in Nat /\ old \in Nat /\ Len(entries) \in Nat
        /\ Len(e) = old + Len(entries)
        /\ (\A n \in 1..old : e[n] = meta.entries[n])
        /\ \A n \in 1..Len(e) :
              IF n <= old THEN e[n].source_block < b ELSE e[n].source_block = b
    BY EntriesMerged
  <2> QED
    BY <2>1
<1>2. DOMAIN meta.entries = 1..old
      /\ \A n, k \in DOMAIN meta.entries : n <= k => meta.entries[n].source_block <= meta.entries[k].source_block
  BY DEF FileSound, Sound
<1> HIDE DEF e, b, old
<1>3. DOMAIN e = 1..Len(e) /\ Len(e) \in Nat /\ \A n \in DOMAIN e : e[n] \in BlockLeaf
  BY <1>1
<1>4. \A n \in DOMAIN e : e[n].source_block \in Nat
  BY <1>3 DEF BlockLeaf
<1>5. \A n \in DOMAIN e : e[n].source_block <= b
  BY <1>1, <1>3, <1>4
<1>6. ASSUME NEW n \in DOMAIN e, NEW k \in DOMAIN e, n <= k
      PROVE  e[n].source_block <= e[k].source_block
  <2>1. CASE k <= old
    <3>1. n \in 1..old /\ k \in 1..old
      BY <1>1, <1>3, <1>6, <2>1
    <3> QED
      BY <1>1, <1>2, <1>6, <3>1
  <2>2. CASE ~(k <= old)
    BY <1>1, <1>3, <1>5, <2>2
  <2> QED
    BY <2>1, <2>2
<1>7. \A n \in DOMAIN e : e[n].source_block < b + 1
  BY <1>1, <1>4, <1>5
<1> QED
  BY <1>3, <1>4, <1>6, <1>7 DEF e, b

\* The records of the block whose maker note is kept.
LEMMA RecordsMerged ==
  ASSUME Recorded, next_exif_block \in Nat, FileSound(meta, next_exif_block),
         meta.maker_note = NoNote, maker_note # NoNote
  PROVE  /\ Merged.maker_note = maker_note
         /\ Merged.deferred_subdirs \in Seq(BlockRecord)
         /\ DOMAIN Merged.deferred_subdirs = DOMAIN deferred_subdirs
         /\ \A k \in DOMAIN deferred_subdirs :
              /\ Merged.deferred_subdirs[k].source_block = next_exif_block
              /\ SameRecord(Merged.deferred_subdirs[k], deferred_subdirs[k])
              /\ deferred_subdirs[k].kind = "ExifIfdAnchor" =>
                   Merged.deferred_subdirs[k].dispatch_index
                     = deferred_subdirs[k].dispatch_index + Len(meta.entries)
<1> DEFINE s == Stamped(deferred_subdirs)
           d == [n \in DOMAIN s |-> Rebased(s[n])]
           b == next_exif_block
<1>1. Merged.deferred_subdirs = d /\ Merged.maker_note = maker_note
  BY DEF Merged
<1>2. deferred_subdirs \in Seq(Deferrals)
  BY DEF Recorded, FoundTyped
<1>3. /\ DOMAIN deferred_subdirs = 1..Len(deferred_subdirs) /\ Len(deferred_subdirs) \in Nat
      /\ \A n \in DOMAIN deferred_subdirs : deferred_subdirs[n] \in Deferrals
  BY <1>2
<1>4. s = [n \in DOMAIN deferred_subdirs |-> [deferred_subdirs[n] EXCEPT !.source_block = b]]
  BY DEF Stamped
<1>5. d = [n \in DOMAIN deferred_subdirs |-> Rebased([deferred_subdirs[n] EXCEPT !.source_block = b])]
  BY <1>4
<1> HIDE DEF s, d
<1>6. Len(meta.entries) \in Nat
  BY EntriesMerged
<1>7. \A k \in DOMAIN deferred_subdirs :
        /\ d[k] \in BlockRecord /\ d[k].source_block = b /\ SameRecord(d[k], deferred_subdirs[k])
        /\ deferred_subdirs[k].kind = "ExifIfdAnchor" =>
             d[k].dispatch_index = deferred_subdirs[k].dispatch_index + Len(meta.entries)
  <2> TAKE k \in DOMAIN deferred_subdirs
  <2>1. PICK record \in Deferrals : record = deferred_subdirs[k]
    BY <1>3
  <2>2. PICK to \in BlockRecord :
          /\ to = [record EXCEPT !.source_block = b] /\ to.source_block = b
          /\ SameRecord(to, record) /\ to.dispatch_index = record.dispatch_index
    BY StampedRecord
  <2>3. PICK base \in Nat : base = Len(meta.entries)
    BY <1>6
  <2>4. /\ Rebased(to) \in BlockRecord /\ SameRecord(Rebased(to), to)
        /\ Rebased(to).source_block = to.source_block
        /\ to.kind = "ExifIfdAnchor" => Rebased(to).dispatch_index = to.dispatch_index + base
    BY <2>3, RebasedRecord
  <2>5. PICK x \in BlockRecord :
        /\ x = Rebased(to) /\ SameRecord(x, to) /\ x.source_block = to.source_block
        /\ to.kind = "ExifIfdAnchor" => x.dispatch_index = to.dispatch_index + base
    BY <2>4
  <2>6. d[k] = x
    BY <1>5, <2>1, <2>2, <2>5
  <2>7. SameRecord(x, record) /\ to.kind = record.kind
    BY <2>2, <2>5 DEF SameRecord
  <2>8. record.kind = "ExifIfdAnchor" => x.dispatch_index = record.dispatch_index + base
    BY <2>2, <2>5, <2>7
  <2> QED
    BY <2>1, <2>2, <2>3, <2>5, <2>6, <2>7, <2>8
<1>8. d \in Seq(BlockRecord) /\ DOMAIN d = DOMAIN deferred_subdirs
  <2>1. d \in [1..Len(deferred_subdirs) -> BlockRecord]
    BY <1>3, <1>5, <1>7
  <2> QED
    BY <1>3, <2>1
<1> QED
  BY <1>1, <1>7, <1>8

\* Merging a block leaves a sound file.
LEMMA MergedSound ==
  ASSUME Recorded, next_exif_block \in Nat, FileSound(meta, next_exif_block)
  PROVE  FileSound(Merged, next_exif_block + 1)
<1> DEFINE m == Merged
           b == next_exif_block
           old == Len(meta.entries)
<1>1. m.entries \in Seq(BlockLeaf) /\ old \in Nat /\ Len(m.entries) = old + Len(entries) /\ Len(entries) \in Nat
      /\ (\A n \in 1..old : m.entries[n] = meta.entries[n])
      /\ \A n \in 1..Len(m.entries) :
              IF n <= old THEN m.entries[n].source_block < b ELSE m.entries[n].source_block = b
  BY EntriesMerged
<1>2. /\ DOMAIN m.entries = 1..Len(m.entries) /\ Len(m.entries) \in Nat
      /\ \A n \in DOMAIN m.entries : m.entries[n].source_block \in Nat /\ m.entries[n].source_block < b + 1
      /\ \A n, k \in DOMAIN m.entries : n <= k => m.entries[n].source_block <= m.entries[k].source_block
  BY EntriesInBlocks
<1>3. DOMAIN meta.entries = 1..old /\ Sound(meta)
  BY DEF FileSound, Sound
<1>4. CASE meta.maker_note = NoNote /\ maker_note # NoNote
  <2> DEFINE d == m.deferred_subdirs
  <2>1. /\ d \in Seq(BlockRecord) /\ DOMAIN d = DOMAIN deferred_subdirs
        /\ \A k \in DOMAIN d :
             /\ d[k].source_block = b /\ d[k].kind = deferred_subdirs[k].kind
             /\ d[k].kind = "ExifIfdAnchor" => d[k].dispatch_index = deferred_subdirs[k].dispatch_index + old
    BY <1>4, RecordsMerged DEF SameRecord
  <2>2. /\ deferred_subdirs \in Seq(Deferrals)
        /\ AnchorsPlaced(deferred_subdirs, Len(entries)) /\ NoteRecorded(deferred_subdirs, maker_note)
    BY DEF Recorded, FoundTyped
  <2>3. \A k \in DOMAIN d : d[k] \in BlockRecord /\ k \in Nat
    BY <2>1
  <2>4. \A k \in DOMAIN d : /\ d[k].kind \in {"ExifIfdAnchor", "MakerNote", "Interop"}
                            /\ d[k].pointer_index \in Nat /\ d[k].source_block \in Nat
                            /\ d[k].dispatch_index \in Nat
    BY <2>3 DEF BlockRecord
  <2>5. PICK note \in DOMAIN d : \A k \in DOMAIN d : d[k].kind = "MakerNote" <=> k = note
    BY <1>4, <2>1, <2>2 DEF NoteRecorded
  <2>6. OneNote(m, note)
    BY <2>1, <2>5 DEF OneNote
  <2>7. AnchorsInside(m)
    <3> SUFFICES ASSUME NEW k \in DOMAIN d, d[k].kind = "ExifIfdAnchor", NEW n \in DOMAIN m.entries
                 PROVE  IF n <= d[k].dispatch_index
                        THEN m.entries[n].source_block <= d[k].source_block
                        ELSE d[k].source_block <= m.entries[n].source_block
      BY <2>4 DEF AnchorsInside
    <3>1. deferred_subdirs[k] \in Deferrals
      BY <2>1, <2>2
    <3>2. deferred_subdirs[k].dispatch_index \in Nat
      BY <3>1 DEF Deferrals
    <3>3. d[k].dispatch_index = deferred_subdirs[k].dispatch_index + old /\ d[k].source_block = b
      BY <2>1
    <3>4. n \in 1..Len(m.entries) /\ m.entries[n].source_block \in Nat
          /\ m.entries[n].source_block < b + 1
      BY <1>2
    <3> HIDE DEF m, d, b
    <3>5. m.entries[n].source_block <= b
      BY <3>4 DEF b
    <3>6. ~(n <= d[k].dispatch_index) => m.entries[n].source_block = b
      BY <1>1, <3>2, <3>3, <3>4
    <3> QED
      BY <3>3, <3>4, <3>5, <3>6 DEF b
  <2>8. \A k \in DOMAIN d : d[k].source_block < b + 1
    BY <2>1
  <2>9. DOMAIN d \subseteq Nat
    BY <2>3
  <2>11. AnchorsPlaced(d, Len(m.entries))
    <3> SUFFICES ASSUME NEW k \in DOMAIN d, d[k].kind = "ExifIfdAnchor"
                 PROVE  d[k].dispatch_index <= Len(m.entries)
      BY DEF AnchorsPlaced
    <3>1. deferred_subdirs[k] \in Deferrals
      BY <2>1, <2>2
    <3>2. deferred_subdirs[k].dispatch_index \in Nat
      BY <3>1 DEF Deferrals
    <3>3. deferred_subdirs[k].dispatch_index <= Len(entries)
      BY <2>1, <2>2 DEF AnchorsPlaced
    <3>4. d[k].dispatch_index = deferred_subdirs[k].dispatch_index + old
      BY <2>1
    <3> HIDE DEF m, d, old
    <3> QED
      BY <1>1, <3>2, <3>3, <3>4
  <2> HIDE DEF m, d
  <2>10. Sound(m)
    BY <1>2, <2>4, <2>6, <2>7, <2>9 DEF Sound, d, OneNote
  <2> QED
    BY <1>1, <1>2, <2>1, <2>8, <2>10, <2>11 DEF FileSound, m, d
<1>5. CASE ~(meta.maker_note = NoNote /\ maker_note # NoNote)
  <2> DEFINE d == m.deferred_subdirs
  <2>1. m.maker_note = meta.maker_note /\ d = meta.deferred_subdirs
    BY <1>5 DEF Merged
  <2>2. /\ d \in Seq(BlockRecord)
        /\ \A k \in DOMAIN d : d[k].source_block < b
    BY <2>1 DEF FileSound
  <2>3. /\ DOMAIN d \subseteq Nat
        /\ \A k \in DOMAIN d :
             /\ d[k].kind \in {"ExifIfdAnchor", "MakerNote", "Interop"}
             /\ d[k].pointer_index \in Nat
             /\ d[k].source_block \in Nat
    BY <1>3, <2>1 DEF Sound
  <2>4. ASSUME m.maker_note # NoNote
        PROVE  AnchorsInside(m) /\ \E note \in DOMAIN d : OneNote(m, note)
    <3>1. AnchorsInside(meta) /\ \E note \in DOMAIN meta.deferred_subdirs : OneNote(meta, note)
      BY <1>3, <2>1, <2>4 DEF Sound
    <3>2. \E note \in DOMAIN d : OneNote(m, note)
      BY <2>1, <3>1 DEF OneNote
    <3>3. ASSUME NEW k \in DOMAIN d, d[k].kind = "ExifIfdAnchor"
          PROVE  /\ d[k].dispatch_index \in Nat
                 /\ \A n \in DOMAIN m.entries :
                      IF n <= d[k].dispatch_index
                      THEN m.entries[n].source_block <= d[k].source_block
                      ELSE d[k].source_block <= m.entries[n].source_block
      <4>1. /\ d[k].dispatch_index \in Nat
            /\ \A n \in DOMAIN meta.entries :
                      IF n <= d[k].dispatch_index
                      THEN meta.entries[n].source_block <= d[k].source_block
                      ELSE d[k].source_block <= meta.entries[n].source_block
        BY <2>1, <3>1, <3>3 DEF AnchorsInside
      <4>2. ASSUME NEW n \in DOMAIN m.entries
            PROVE  IF n <= d[k].dispatch_index
                   THEN m.entries[n].source_block <= d[k].source_block
                   ELSE d[k].source_block <= m.entries[n].source_block
        <5>1. CASE n <= old
          <6>1. n \in 1..old
            BY <1>1, <1>2, <5>1
          <6> QED
            BY <1>1, <1>3, <4>1, <6>1
        <5>2. CASE ~(n <= old)
          <6>1. m.entries[n].source_block = b /\ d[k].source_block < b /\ d[k].source_block \in Nat
            BY <1>1, <1>2, <2>2, <2>3, <5>2
          <6>2. d[k].dispatch_index <= old
            BY <2>1, <3>3 DEF FileSound, AnchorsPlaced
          <6>3. n \in Nat /\ d[k].dispatch_index \in Nat
            BY <1>2, <4>1
          <6>4. ~(n <= d[k].dispatch_index)
            BY <1>1, <5>2, <6>2, <6>3
          <6>5. d[k].source_block <= m.entries[n].source_block
            BY <6>1
          <6> QED
            BY <6>4, <6>5
        <5> QED
          BY <5>1, <5>2
      <4> QED
        BY <4>1, <4>2
    <3> QED
      BY <3>2, <3>3 DEF AnchorsInside
  <2>5. \A k \in DOMAIN d : d[k].source_block < b + 1
    BY <2>2, <2>3
  <2>7. AnchorsPlaced(d, Len(m.entries))
    <3> SUFFICES ASSUME NEW k \in DOMAIN d, d[k].kind = "ExifIfdAnchor"
                 PROVE  d[k].dispatch_index <= Len(m.entries)
      BY DEF AnchorsPlaced
    <3>1. d[k].dispatch_index <= old
      BY <2>1 DEF FileSound, AnchorsPlaced
    <3>2. d[k] \in BlockRecord
      BY <2>2
    <3>3. d[k].dispatch_index \in Nat
      BY <3>2 DEF BlockRecord
    <3> HIDE DEF m, d, old
    <3> QED
      BY <1>1, <3>1, <3>3
  <2> HIDE DEF m, d
  <2>6. Sound(m)
    BY <1>2, <2>3, <2>4 DEF Sound, d
  <2> QED
    BY <1>1, <1>2, <2>2, <2>5, <2>6, <2>7 DEF FileSound, m, d
<1> QED
  BY <1>4, <1>5

-----------------------------------------------------------------------------
(* The blocks of a file, one after the other.                               *)

\* The invariant of the whole file: the block being walked, and those merged before.
EmitInv ==
  /\ WalkInv /\ Recorded
  /\ next_exif_block \in Nat /\ FileSound(meta, next_exif_block)

\* A block that was not walked yet is one where every invariant of the walk holds.
LEMMA FreshWalks ==
  Fresh /\ offset \in Addresses \cup {NoAddress} /\ finished \in BOOLEAN => WalkInv /\ Recorded
BY InitWalks, InitRecorded

\* Before the first block nothing was merged.
LEMMA NothingMerged == FileSound(NoMeta, 0)
<1>1. /\ NoMeta.entries = <<>> /\ NoMeta.deferred_subdirs = <<>> /\ NoMeta.maker_note = NoNote
  BY DEF NoMeta
<1>2. DOMAIN NoMeta.entries = {} /\ DOMAIN NoMeta.deferred_subdirs = {} /\ Len(NoMeta.entries) = 0
      /\ 1..0 = {}
  BY <1>1
<1>3. Sound(NoMeta)
  BY <1>1, <1>2 DEF Sound
<1>4. AnchorsPlaced(NoMeta.deferred_subdirs, Len(NoMeta.entries))
  BY <1>2 DEF AnchorsPlaced
<1>5. NoMeta.entries \in Seq(BlockLeaf) /\ NoMeta.deferred_subdirs \in Seq(BlockRecord)
  BY <1>1
<1> QED
  BY <1>2, <1>3, <1>4, <1>5 DEF FileSound

\* The next block starts with a new walker.
LEMMA NextBlockWalks ==
  ASSUME NextBlock, file_type \in FileTypes
  PROVE  /\ Fresh' /\ offset' \in Addresses /\ finished' = FALSE
<1>1. file_type' \in FileTypes
  BY DEF NextBlock
<1> QED
  BY <1>1 DEF NextBlock, Fresh

\* A step of the walk leaves what was merged alone; the next block merges the one that
\* ended and starts afresh.
LEMMA EmitInductive == EmitInv /\ [EmitNext]_emitVars => EmitInv'
<1> SUFFICES ASSUME EmitInv, [EmitNext]_emitVars PROVE EmitInv'
  OBVIOUS
<1>1. CASE NextBlock
  <2>1. (WalkInv /\ Recorded)'
    <3>1. Fresh' /\ offset' \in Addresses \cup {NoAddress} /\ finished' \in BOOLEAN
      <4>1. file_type \in FileTypes
        BY DEF EmitInv, WalkInv, Typed
      <4> QED
        BY <1>1, <4>1, NextBlockWalks
    <3>2. (Fresh /\ offset \in Addresses \cup {NoAddress} /\ finished \in BOOLEAN => WalkInv /\ Recorded)'
      BY FreshWalks, PTL
    <3> QED
      BY <3>1, <3>2
  <2>2. meta' = Merged /\ next_exif_block' = next_exif_block + 1
    BY <1>1 DEF NextBlock
  <2>3. FileSound(Merged, next_exif_block + 1) /\ next_exif_block \in Nat
    BY MergedSound DEF EmitInv
  <2>4. PICK m, b : m = Merged /\ b = next_exif_block + 1
    OBVIOUS
  <2>5. FileSound(meta', next_exif_block')
    <3>1. FileSound(m, b) /\ meta' = m /\ next_exif_block' = b
      BY <2>2, <2>3, <2>4
    <3> QED
      BY <3>1
  <2>6. (FileSound(meta, next_exif_block))' <=> FileSound(meta', next_exif_block')
    BY DEF FileSound, Sound, AnchorsPlaced, AnchorsInside, OneNote
  <2> QED
    BY <2>1, <2>2, <2>3, <2>5, <2>6 DEF EmitInv
<1>2. CASE [Next]_vars /\ UNCHANGED <<meta, next_exif_block>>
  <2>1. WalkInv' /\ Recorded'
    BY <1>2, NextWalks, RecordedNext DEF EmitInv
  <2>2. (FileSound(meta, next_exif_block))'
    BY <1>2 DEF EmitInv, FileSound, Sound, AnchorsPlaced, AnchorsInside, OneNote
  <2> QED
    BY <1>2, <2>1, <2>2 DEF EmitInv
<1> QED
  BY <1>1, <1>2 DEF EmitNext, emitVars

\* Every state of the walk of all the blocks has the invariant.
LEMMA EmitHolds == EmitSpec => []EmitInv
<1>1. EmitInit => EmitInv
  <2> SUFFICES ASSUME EmitInit PROVE EmitInv
    OBVIOUS
  <2>1. WalkInv /\ Recorded
    BY FreshWalks DEF EmitInit, Init
  <2>2. meta = NoMeta /\ next_exif_block = 0
    BY DEF EmitInit
  <2> QED
    BY <2>1, <2>2, NothingMerged DEF EmitInv
<1> QED
  BY <1>1, EmitInductive, PTL DEF EmitSpec

\* Whatever the blocks hold, every leaf merged is emitted once, and the maker
\* note once if there is one (push_exif_tags).
THEOREM EmissionAlwaysComplete == EmitSpec => []EmissionComplete
<1>1. EmitInv => EmissionComplete
  <2> SUFFICES ASSUME EmitInv
               PROVE  Len(Emission(Merged)) = Cardinality(Tags(Merged)) /\ ToSet(Emission(Merged)) = Tags(Merged)
    BY DEF EmissionComplete, Tags
  <2>1. Sound(Merged)
    BY MergedSound DEF EmitInv, FileSound
  <2> QED
    BY <2>1, EmittedSays
<1> QED
  BY <1>1, EmitHolds, PTL

\* The blocks are emitted one after the other in the order of their segments, and
\* the maker note among the leaves of its own (merge_exif_block, push_exif_tags).
THEOREM BlocksAlwaysInOrder == EmitSpec => []BlocksInOrder
<1>1. EmitInv => BlocksInOrder
  <2> DEFINE m == Merged
             Block(n) == IF n = 0 THEN Note(m).source_block ELSE m.entries[n].source_block
  <2> SUFFICES ASSUME EmitInv
               PROVE  \A p, q \in DOMAIN Emission(m) :
                        p <= q => Block(Emission(m)[p]) <= Block(Emission(m)[q])
    BY DEF BlocksInOrder
  <2>1. Sound(m)
    BY MergedSound DEF EmitInv, FileSound
  <2>2. /\ \A p, q \in DOMAIN Emission(m) :
              p <= q => BlockOf(m)[Emission(m)[p]] <= BlockOf(m)[Emission(m)[q]]
        /\ \A p \in DOMAIN Emission(m) : Emission(m)[p] \in Tags(m)
    BY <2>1, EmittedSays
  <2>3. \A n \in Tags(m) : BlockOf(m)[n] = Block(n)
    BY DEF Tags, BlockOf
  <2> HIDE DEF m, Block
  <2> QED
    BY <2>2, <2>3
<1> QED
  BY <1>1, EmitHolds, PTL

-----------------------------------------------------------------------------
(* The images of every block.                                               *)

\* The invariant of the leaves up to the end of a block, and what it announced then.
ImagesInv == EmitInv /\ (IF finished THEN Announced ELSE LeavesInv)

\* Every step of every block keeps the invariant.
LEMMA ImagesInductive == ImagesInv /\ [EmitNext]_emitVars => ImagesInv'
<1> SUFFICES ASSUME ImagesInv, [EmitNext]_emitVars PROVE ImagesInv'
  OBVIOUS
<1>1. EmitInv'
  BY EmitInductive DEF ImagesInv
<1>2. WalkInv /\ FoundTyped /\ finished \in BOOLEAN
  BY DEF ImagesInv, EmitInv, Recorded, WalkInv, Typed
<1>3. CASE NextBlock
  <2>1. Fresh' /\ finished' = FALSE
    BY <1>2, <1>3, NextBlockWalks DEF WalkInv, Typed
  <2>2. (Fresh => LeavesInv)'
    BY FreshLeaves, PTL
  <2> QED
    BY <1>1, <2>1, <2>2 DEF ImagesInv
<1>4. CASE [Next]_vars
  <2>1. CASE finished
    <3>1. UNCHANGED <<entries, walks, file_type, finished>>
      BY <1>2, <1>4, <2>1, EndedRests
    <3>2. Announced
      BY <2>1 DEF ImagesInv
    <3>3. Announced'
      BY <3>1, <3>2, AnnouncedStays
    <3> QED
      BY <1>1, <2>1, <3>1, <3>3 DEF ImagesInv
  <2>2. CASE ~finished /\ Finalize
    <3>1. LeavesInv /\ finished'
      BY <2>2 DEF ImagesInv, Finalize
    <3>2. Announced'
      BY <1>2, <2>2, <3>1, FinalizeAnnounces
    <3> QED
      BY <1>1, <3>1, <3>2 DEF ImagesInv
  <2>3. CASE ~finished /\ ~Finalize
    <3>1. UNCHANGED finished
      <4>1. CASE EndDirectory
        <5>1. PICK outcome : CloseDir(outcome)
          BY <4>1, EndDirectoryEnds DEF Ends
        <5> QED
          BY <5>1 DEF CloseDir, CloseSubdir, CloseChainDir
      <4>2. CASE PassEntry
        BY <4>2 DEF PassEntry, SkipEntry, FollowPointer, FollowSubIfds, CaptureMakerNote, EmitLeaf
      <4>3. CASE WalkChainDir \/ RefuseChainDir \/ WalkSubdir \/ RefuseSubdir \/ PassOverSubdir
        BY <4>3 DEF WalkChainDir, RefuseChainDir, WalkSubdir, RefuseSubdir, PassOverSubdir
      <4>4. CASE UNCHANGED vars
        BY <4>4 DEF vars
      <4> QED
        BY <1>4, <2>3, <4>1, <4>2, <4>3, <4>4 DEF Next, EndDirectory, PassEntry
    <3>2. LeavesInv'
      BY <1>2, <1>4, <2>3, <3>1, LeavesNext DEF ImagesInv
    <3> QED
      BY <1>1, <2>3, <3>1, <3>2 DEF ImagesInv
  <2> QED
    BY <2>1, <2>2, <2>3
<1> QED
  BY <1>3, <1>4 DEF EmitNext, emitVars

\* Whatever the blocks hold and however their directories share bodies, a thumbnail is
\* announced for exactly the walks that found both of its leaves, every image has the
\* offset and the length of one walk, and none is announced twice (finalize_data_tags).
THEOREM ImagesAlwaysFromOneWalk == EmitSpec => []ImagesFromOneWalk
<1>1. EmitInit => ImagesInv
  <2> SUFFICES ASSUME EmitInit PROVE ImagesInv
    OBVIOUS
  <2>1. EmitInv
    <3>1. WalkInv /\ Recorded
      BY FreshWalks DEF EmitInit, Init
    <3>2. meta = NoMeta /\ next_exif_block = 0
      BY DEF EmitInit
    <3> QED
      BY <3>1, <3>2, NothingMerged DEF EmitInv
  <2>2. ~finished /\ LeavesInv
    BY FreshLeaves DEF EmitInit, Init
  <2> QED
    BY <2>1, <2>2 DEF ImagesInv
<1>2. ImagesInv => ImagesFromOneWalk
  <2> SUFFICES ASSUME ImagesInv PROVE ImagesFromOneWalk
    OBVIOUS
  <2>1. CASE finished
    BY <2>1, AnnouncedSays DEF ImagesInv, EmitInv, WalkInv
  <2>2. CASE ~finished
    BY <2>2 DEF ImagesFromOneWalk
  <2> QED
    BY <2>1, <2>2
<1> QED
  BY <1>1, <1>2, ImagesInductive, PTL DEF EmitSpec

-----------------------------------------------------------------------------
(* The maker note of a merged file, whose block was walked to its end.      *)

\* A record is that of the pointer a walk of an InteropIFD followed.
Tells(record, made, w) ==
  /\ record.kind = "Interop" /\ made[w].kind = "InteropIFD" /\ made[w].parent \in DOMAIN made
  /\ record.parent = made[made[w].parent].kind
  /\ record.parent_ifd_start = made[made[w].parent].start
  /\ record.pointer_index = made[w].index /\ record.subdir_ifd_start = made[w].start

\* The walk of the directory of the maker note kept, and the entry that points to it.
NoteTold(m) ==
  /\ m.walks \in Seq(WalkRecord) /\ m.maker_note.walk \in DOMAIN m.walks
  /\ \A k \in DOMAIN m.deferred_subdirs : m.deferred_subdirs[k].kind = "MakerNote" =>
       /\ m.deferred_subdirs[k].parent = m.walks[m.maker_note.walk].kind
       /\ m.deferred_subdirs[k].parent_ifd_start = m.walks[m.maker_note.walk].start
       /\ m.deferred_subdirs[k].pointer_index = m.maker_note.index

\* The InteropIFDs walked and recorded; none has the pointer of the maker note.
InteropsTold(m) ==
  /\ \A k \in DOMAIN m.deferred_subdirs : m.deferred_subdirs[k].kind = "Interop" =>
       /\ \E w \in DOMAIN m.walks : Tells(m.deferred_subdirs[k], m.walks, w)
       /\ m.deferred_subdirs[k].parent_ifd_start = m.walks[m.maker_note.walk].start =>
            m.deferred_subdirs[k].pointer_index # m.maker_note.index
  /\ \A w \in DOMAIN m.walks : m.walks[w].kind = "InteropIFD" =>
       \E k \in DOMAIN m.deferred_subdirs : Tells(m.deferred_subdirs[k], m.walks, w)

\* The leaves of the blocks before a block.
BaseOf(m, block, base) ==
  /\ base \in 0..Len(m.entries)
  /\ \A n \in DOMAIN m.entries : m.entries[n].source_block < block <=> n <= base

\* The ExifIFD of the maker note was entered where its first record says.
EntryTold(m) ==
  m.walks[m.maker_note.walk].kind = "ExifIFD" =>
    \E base : \A k \in DOMAIN m.deferred_subdirs :
      /\ BaseOf(m, m.deferred_subdirs[k].source_block, base)
      /\ EnteredFirst(m.deferred_subdirs, m.walks[m.maker_note.walk].start,
                      base + m.walks[m.maker_note.walk].before)

\* What is known of the maker note of a merged file.
FileNote(m) == m.maker_note # NoNote => NoteTold(m) /\ InteropsTold(m) /\ EntryTold(m)

\* The file whose maker note is that of the block just walked.
LEMMA NoteWins ==
  ASSUME EmitInv, NoteInv, finished, meta.maker_note = NoNote, maker_note # NoNote
  PROVE  FileNote(Merged)
<1> DEFINE m == Merged
           d == m.deferred_subdirs
           base == Len(meta.entries)
           dir == walks[maker_note.walk]
<1>1. /\ Recorded /\ next_exif_block \in Nat /\ FileSound(meta, next_exif_block) /\ stack = <<>>
      /\ walks \in Seq(WalkRecord)
  BY DEF EmitInv, WalkInv, Typed
<1>2. m.maker_note = maker_note /\ m.walks = walks
  BY DEF Merged
<1>3. /\ DOMAIN d = DOMAIN deferred_subdirs
      /\ \A k \in DOMAIN d :
           /\ d[k].source_block = next_exif_block /\ SameRecord(d[k], deferred_subdirs[k])
           /\ deferred_subdirs[k].kind = "ExifIfdAnchor" =>
                d[k].dispatch_index = deferred_subdirs[k].dispatch_index + base
  BY <1>1, RecordsMerged
<1>4. \A k \in DOMAIN d : /\ d[k].kind = deferred_subdirs[k].kind /\ d[k].parent = deferred_subdirs[k].parent
                          /\ d[k].parent_ifd_start = deferred_subdirs[k].parent_ifd_start
                          /\ d[k].pointer_index = deferred_subdirs[k].pointer_index
                          /\ d[k].subdir_ifd_start = deferred_subdirs[k].subdir_ifd_start
  BY <1>3 DEF SameRecord
<1>5. PlacedAt(disk, walks, deferred_subdirs, maker_note) /\ InteropsRecorded
  BY DEF NoteInv, NotePlaced
<1>6. /\ base \in Nat /\ Len(m.entries) \in Nat /\ base <= Len(m.entries)
      /\ DOMAIN m.entries = 1..Len(m.entries)
      /\ \A n \in 1..Len(m.entries) :
              IF n <= base THEN m.entries[n].source_block < next_exif_block
              ELSE m.entries[n].source_block = next_exif_block
  BY <1>1, EntriesMerged, EntriesInBlocks
<1> HIDE DEF m, d, base
<1>7. NoteTold(m)
  BY <1>1, <1>2, <1>3, <1>4, <1>5 DEF NoteTold, PlacedAt, d
<1>8. InteropsTold(m)
  <2>1. ASSUME NEW k \in DOMAIN d, NEW w \in DOMAIN walks, walks[w].kind = "InteropIFD",
               <<deferred_subdirs[k]>> = RecordOf(walks, w)
        PROVE  /\ Tells(d[k], walks, w)
               /\ d[k].parent_ifd_start = dir.start => d[k].pointer_index # maker_note.index
    <3>1. WalkRecorded(disk, walks, deferred_subdirs, stack, w)
      BY <1>5, <2>1 DEF InteropsRecorded
    <3>2. /\ walks[w].parent \in DOMAIN walks
          /\ EntryAt(disk, walks[walks[w].parent].start, walks[w].index, "InteropIFD")
      BY <3>1 DEF WalkRecorded
    <3>3. deferred_subdirs[k] = InteropOf(walks[walks[w].parent].kind, walks[walks[w].parent].start,
                                          walks[w].index, walks[w].start)
      BY <2>1 DEF RecordOf
    <3>4. Tells(d[k], walks, w)
      BY <1>3, <1>4, <2>1, <3>2, <3>3 DEF Tells, InteropOf, Deferred
    <3>5. EntryAt(disk, dir.start, maker_note.index, "MakerNote")
      BY <1>5 DEF PlacedAt
    <3>6. ~(walks[walks[w].parent].start = dir.start /\ walks[w].index = maker_note.index)
      BY <3>2, <3>5 DEF EntryAt
    <3> QED
      BY <3>4, <3>6 DEF Tells
  <2>2. ASSUME NEW k \in DOMAIN d, d[k].kind = "Interop"
        PROVE  /\ \E w \in DOMAIN walks : Tells(d[k], walks, w)
               /\ d[k].parent_ifd_start = dir.start => d[k].pointer_index # maker_note.index
    <3>1. RecordWalked(walks, deferred_subdirs[k])
      BY <1>3, <1>4, <1>5, <2>2 DEF InteropsRecorded
    <3> QED
      BY <2>1, <3>1 DEF RecordWalked
  <2>3. ASSUME NEW w \in DOMAIN walks, walks[w].kind = "InteropIFD"
        PROVE  \E k \in DOMAIN d : Tells(d[k], walks, w)
    <3>1. IsRecorded(deferred_subdirs, RecordOf(walks, w))
      BY <1>1, <1>5, <2>3 DEF InteropsRecorded, WalkRecorded, IsOpen
    <3> QED
      BY <1>3, <2>1, <2>3, <3>1 DEF IsRecorded
  <2> QED
    BY <1>2, <2>2, <2>3 DEF InteropsTold, d
<1>9. EntryTold(m)
  <2> SUFFICES ASSUME dir.kind = "ExifIFD", NEW k \in DOMAIN d
               PROVE  /\ BaseOf(m, d[k].source_block, base)
                      /\ EnteredFirst(d, dir.start, base + dir.before)
    BY <1>2 DEF EntryTold, d
  <2>1. BaseOf(m, d[k].source_block, base)
    <3>1. d[k].source_block = next_exif_block
      BY <1>3
    <3>2. \A n \in 1..Len(m.entries) : m.entries[n].source_block < next_exif_block <=> n <= base
      BY <1>1, <1>6
    <3> QED
      BY <1>6, <3>1, <3>2 DEF BaseOf
  <2>2. EnteredFirst(deferred_subdirs, dir.start, dir.before)
    BY <1>5 DEF PlacedAt
  <2>3. \A j \in DOMAIN d : AnchorOf(d[j], dir.start) <=> AnchorOf(deferred_subdirs[j], dir.start)
    BY <1>4 DEF AnchorOf
  <2>4. PICK j \in DOMAIN d :
          /\ AnchorOf(deferred_subdirs[j], dir.start) /\ deferred_subdirs[j].dispatch_index = dir.before
          /\ \A i \in DOMAIN d : AnchorOf(deferred_subdirs[i], dir.start) => j <= i
    BY <1>3, <2>2 DEF EnteredFirst
  <2>5. d[j].dispatch_index = dir.before + base
    BY <1>3, <2>4 DEF AnchorOf
  <2>6. dir.before \in Nat
    <3>1. dir \in WalkRecord
      BY <1>1, <1>5 DEF PlacedAt
    <3> QED
      BY <3>1 DEF WalkRecord
  <2>7. d[j].dispatch_index = base + dir.before
    BY <1>6, <2>5, <2>6
  <2> QED
    BY <2>1, <2>3, <2>4, <2>7 DEF EnteredFirst
<1> QED
  BY <1>7, <1>8, <1>9 DEF FileNote, m

\* The file whose maker note was found in an earlier block, or that has none.
LEMMA NoteStands ==
  ASSUME EmitInv, FileNote(meta), ~(meta.maker_note = NoNote /\ maker_note # NoNote)
  PROVE  FileNote(Merged)
<1> DEFINE m == Merged
           old == Len(meta.entries)
<1>1. Recorded /\ next_exif_block \in Nat /\ FileSound(meta, next_exif_block)
  BY DEF EmitInv
<1>2. /\ m.maker_note = meta.maker_note /\ m.deferred_subdirs = meta.deferred_subdirs
      /\ m.walks = meta.walks
  BY DEF Merged
<1>3. SUFFICES ASSUME meta.maker_note # NoNote
               PROVE  NoteTold(m) /\ InteropsTold(m) /\ EntryTold(m)
  BY <1>2 DEF FileNote
<1>4. NoteTold(meta) /\ InteropsTold(meta) /\ EntryTold(meta)
  BY <1>3 DEF FileNote
<1>5. /\ old \in Nat /\ Len(m.entries) \in Nat /\ old <= Len(m.entries)
      /\ DOMAIN m.entries = 1..Len(m.entries) /\ DOMAIN meta.entries = 1..old
      /\ (\A n \in 1..old : m.entries[n] = meta.entries[n])
      /\ \A n \in 1..Len(m.entries) :
              ~(n <= old) => m.entries[n].source_block = next_exif_block
  BY <1>1, EntriesMerged, EntriesInBlocks DEF FileSound, Sound
<1> HIDE DEF m, old
<1>6. ASSUME NEW k \in DOMAIN meta.deferred_subdirs, NEW base,
             BaseOf(meta, meta.deferred_subdirs[k].source_block, base)
      PROVE  BaseOf(m, meta.deferred_subdirs[k].source_block, base)
  <2> DEFINE b == meta.deferred_subdirs[k].source_block
  <2>1. b \in Nat /\ b < next_exif_block /\ base \in 0..old
        /\ \A n \in DOMAIN meta.entries : meta.entries[n].source_block < b <=> n <= base
    BY <1>1, <1>6 DEF FileSound, Sound, BaseOf, old
  <2> HIDE DEF b
  <2>2. ASSUME NEW n \in DOMAIN m.entries PROVE m.entries[n].source_block < b <=> n <= base
    <3>1. CASE n <= old
      <4>1. n \in 1..old
        BY <1>5, <3>1
      <4> QED
        BY <1>5, <2>1, <4>1
    <3>2. CASE ~(n <= old)
      <4>1. m.entries[n].source_block = next_exif_block
        BY <1>5, <3>2
      <4>2. n \in Nat /\ ~(n <= base)
        BY <1>5, <2>1, <3>2
      <4> QED
        BY <1>1, <2>1, <4>1, <4>2
    <3> QED
      BY <3>1, <3>2
  <2>3. base \in 0..Len(m.entries)
    BY <1>5, <2>1
  <2> QED
    BY <2>2, <2>3 DEF BaseOf, b
<1>7. EntryTold(m)
  <2> SUFFICES ASSUME m.walks[m.maker_note.walk].kind = "ExifIFD"
               PROVE  \E base : \A k \in DOMAIN m.deferred_subdirs :
                        /\ BaseOf(m, m.deferred_subdirs[k].source_block, base)
                        /\ EnteredFirst(m.deferred_subdirs, m.walks[m.maker_note.walk].start,
                                        base + m.walks[m.maker_note.walk].before)
    BY DEF EntryTold
  <2>1. PICK base : \A k \in DOMAIN meta.deferred_subdirs :
                        /\ BaseOf(meta, meta.deferred_subdirs[k].source_block, base)
                        /\ EnteredFirst(meta.deferred_subdirs, meta.walks[meta.maker_note.walk].start,
                                        base + meta.walks[meta.maker_note.walk].before)
    BY <1>2, <1>4 DEF EntryTold
  <2> QED
    BY <1>2, <1>6, <2>1
<1>8. NoteTold(m) /\ InteropsTold(m)
  BY <1>2, <1>4 DEF NoteTold, InteropsTold
<1> QED
  BY <1>7, <1>8

-----------------------------------------------------------------------------
(* The order in which two tags are emitted.                                 *)

\* The first of two comes before the second.
Ahead(s, x, y) == \E p, q \in DOMAIN s : p < q /\ s[p] = x /\ s[q] = y

\* It does whatever is listed behind them, or ahead of them.
LEMMA AheadConcat ==
  ASSUME NEW S, NEW s \in Seq(S), NEW t \in Seq(S), NEW x, NEW y
  PROVE  /\ Ahead(s, x, y) \/ Ahead(t, x, y) => Ahead(s \o t, x, y)
         /\ (\E p \in DOMAIN s : s[p] = x) /\ (\E q \in DOMAIN t : t[q] = y) => Ahead(s \o t, x, y)
<1>1. PICK u : u = s \o t
  OBVIOUS
<1>2. /\ Len(s) \in Nat /\ Len(t) \in Nat /\ DOMAIN s = 1..Len(s) /\ DOMAIN t = 1..Len(t)
      /\ \A p \in DOMAIN s : p \in DOMAIN u /\ u[p] = s[p]
      /\ \A p \in DOMAIN t : Len(s) + p \in DOMAIN u /\ u[Len(s) + p] = t[p]
  BY <1>1, ConcatIs DEF Glued
<1>3. ASSUME Ahead(s, x, y) PROVE Ahead(u, x, y)
  BY <1>2, <1>3 DEF Ahead
<1>4. ASSUME Ahead(t, x, y) PROVE Ahead(u, x, y)
  <2>1. PICK p \in 1..Len(t), q \in 1..Len(t) : p < q /\ t[p] = x /\ t[q] = y
    BY <1>2, <1>4 DEF Ahead
  <2>2. Len(s) + p < Len(s) + q
    BY <1>2, <2>1
  <2> QED
    BY <1>2, <2>1, <2>2 DEF Ahead
<1>5. ASSUME NEW p \in DOMAIN s, s[p] = x, NEW q \in DOMAIN t, t[q] = y PROVE Ahead(u, x, y)
  <2>1. p < Len(s) + q
    BY <1>2
  <2> QED
    BY <1>2, <1>5, <2>1 DEF Ahead
<1> QED
  BY <1>1, <1>3, <1>4, <1>5

\* Where a tag is emitted.
LEMMA PlaceIs ==
  ASSUME NEW m, Lists(Emission(m), Tags(m)), NEW p \in DOMAIN Emission(m)
  PROVE  Place(m, Emission(m)[p]) = p
BY DEF Place, Lists

\* A tag that comes before another has the smaller place.
LEMMA PlacesFollow ==
  ASSUME NEW m, Lists(Emission(m), Tags(m)), NEW x, NEW y, Ahead(Emission(m), x, y)
  PROVE  Place(m, x) < Place(m, y) /\ ~(Place(m, y) < Place(m, x))
<1>1. PICK p \in DOMAIN Emission(m), q \in DOMAIN Emission(m) :
        p < q /\ Emission(m)[p] = x /\ Emission(m)[q] = y
  BY DEF Ahead
<1>2. Place(m, x) = p /\ Place(m, y) = q
  BY <1>1, PlaceIs
<1>3. p \in Nat /\ q \in Nat
  BY DEF Lists
<1> QED
  BY <1>1, <1>2, <1>3

-----------------------------------------------------------------------------
(* A maker note whose directory has no leaf.                                *)

\* It is emitted behind the leaves ahead of which it is spliced.
LEMMA SplicedAt ==
  ASSUME NEW m, Sound(m), m.maker_note # NoNote, Subtree(m) = {}
  PROVE  Place(m, 0) = SpliceAt(m) + 1
<1> DEFINE all == Len(m.entries)
           split == SpliceAt(m)
           front == Positions(1, split)
           back == Positions(split + 1, all)
<1>1. all \in Nat /\ split \in 0..all
  BY SplicePlaced DEF Sound
<1>2. Emission(m) = (front \o <<0>>) \o back
  BY DEF Emission
<1>3. Lists(Emission(m), Tags(m))
  BY Emitted DEF EmittedWell
<1> HIDE DEF all, split
<1>4. split \in Nat /\ split + 1 \in Nat
  BY <1>1
<1>5. front \in Seq(Int) /\ Len(front) = split /\ back \in Seq(Int)
  <2> DEFINE behind == all - (split + 1) + 1
  <2>1. split - 1 + 1 = split /\ behind \in Nat
    BY <1>1
  <2>2. front = [n \in 1..split |-> 1 + n - 1]
    BY <2>1 DEF Positions
  <2>3. back = [n \in 1..behind |-> split + 1 + n - 1]
    BY DEF Positions
  <2> HIDE DEF front, back, behind
  <2>4. front \in [1..split -> Int]
    BY <1>4, <2>2
  <2>5. back \in [1..behind -> Int]
    BY <1>4, <2>3
  <2> QED
    BY <1>4, <2>1, <2>4, <2>5
<1> HIDE DEF front, back
<1>6. PICK u : u = front \o <<0>>
  OBVIOUS
<1>7. /\ <<0>> \in Seq(Int) /\ Len(<<0>>) = 1 /\ 1 \in DOMAIN <<0>> /\ <<0>>[1] = 0
  OBVIOUS
<1>8. u \in Seq(Int) /\ split + 1 \in DOMAIN u /\ u[split + 1] = 0
  BY <1>5, <1>6, <1>7, ConcatIs DEF Glued
<1>9. PICK e : e = u \o back
  OBVIOUS
<1>10. split + 1 \in DOMAIN e /\ e[split + 1] = 0
  BY <1>5, <1>8, <1>9, ConcatIs DEF Glued
<1> QED
  BY <1>2, <1>3, <1>6, <1>9, <1>10, PlaceIs DEF split

\* The directory of the maker note, as its record and its walk tell.
LEMMA NoteDir ==
  ASSUME NEW m, Sound(m), NoteTold(m), NEW note, OneNote(m, note)
  PROVE  LET dir == m.walks[m.maker_note.walk]
         IN  /\ Note(m).parent = dir.kind /\ Note(m).parent_ifd_start = dir.start
             /\ m.deferred_subdirs[note].pointer_index = m.maker_note.index
             /\ dir \in WalkRecord /\ dir.before \in Nat
             /\ \A k \in DOMAIN m.deferred_subdirs :
                  OfNote(m, m.deferred_subdirs[k]) <=>
                    /\ m.deferred_subdirs[k].parent = dir.kind
                    /\ m.deferred_subdirs[k].parent_ifd_start = dir.start
<1>1. Note(m) = m.deferred_subdirs[note]
  BY NoteIs
<1>2. m.walks[m.maker_note.walk] \in WalkRecord
  BY DEF NoteTold
<1>3. m.walks[m.maker_note.walk].before \in Nat
  BY <1>2 DEF WalkRecord
<1> QED
  BY <1>1, <1>2, <1>3 DEF NoteTold, OneNote, OfNote

\* It goes where the ExifIFD was entered.
LEMMA EnteredThere ==
  ASSUME NEW m, Sound(m), AnchorsPlaced(m.deferred_subdirs, Len(m.entries)), m.maker_note # NoNote,
         FileNote(m), Note(m).parent = "ExifIFD"
  PROVE  SpliceAt(m) = Cardinality({n \in DOMAIN m.entries :
                                      m.entries[n].source_block < Note(m).source_block})
                         + m.walks[m.maker_note.walk].before
<1> DEFINE all == Len(m.entries)
           dir == m.walks[m.maker_note.walk]
           d == m.deferred_subdirs
<1>1. PICK note \in DOMAIN d : OneNote(m, note)
  BY DEF Sound
<1>2. NoteTold(m) /\ EntryTold(m)
  BY DEF FileNote
<1>3. /\ dir.kind = "ExifIFD" /\ dir.before \in Nat
      /\ \A k \in DOMAIN d : OfNote(m, d[k]) <=> d[k].parent = "ExifIFD" /\ d[k].parent_ifd_start = dir.start
  BY <1>1, <1>2, NoteDir
<1>4. PICK base : \A k \in DOMAIN d : /\ BaseOf(m, d[k].source_block, base)
                                      /\ EnteredFirst(d, dir.start, base + dir.before)
  BY <1>2, <1>3 DEF EntryTold
<1>5. all \in Nat /\ DOMAIN m.entries = 1..all /\ base \in 0..all
      /\ \A n \in 1..all : m.entries[n].source_block < Note(m).source_block <=> n <= base
  <2>1. BaseOf(m, Note(m).source_block, base)
    BY <1>1, <1>4, NoteIs
  <2> QED
    BY <2>1 DEF BaseOf, Sound
<1>6. PICK first \in DOMAIN d :
        /\ AnchorOf(d[first], dir.start) /\ d[first].dispatch_index = base + dir.before
        /\ \A j \in DOMAIN d : AnchorOf(d[j], dir.start) => first <= j
  BY <1>1, <1>4 DEF EnteredFirst
<1>7. \A k : k \in Anchors(m) <=> k \in DOMAIN d /\ AnchorOf(d[k], dir.start)
  BY <1>3 DEF Anchors, AnchorOf
<1>8. Min(Anchors(m)) = first /\ Anchors(m) # {}
  <2>1. Anchors(m) \in SUBSET Nat /\ first \in Anchors(m)
    BY <1>6, <1>7 DEF Sound
  <2>2. Min(Anchors(m)) \in Anchors(m) /\ Min(Anchors(m)) <= first
    BY <2>1, MinIs
  <2>3. first <= Min(Anchors(m))
    BY <1>6, <1>7, <2>2
  <2>4. first \in Nat /\ Min(Anchors(m)) \in Nat
    BY <2>1, <2>2
  <2> QED
    BY <2>1, <2>2, <2>3, <2>4
<1>9. d[first].dispatch_index <= all
  BY <1>6 DEF AnchorsPlaced, AnchorOf
<1> HIDE DEF all, dir, d
<1>10. Min({base + dir.before, all}) = base + dir.before
  <2> DEFINE ends == {base + dir.before, all}
  <2>1. base + dir.before \in Nat /\ base + dir.before <= all
    BY <1>3, <1>5, <1>6, <1>9
  <2>2. ends \in SUBSET Nat /\ ends # {} /\ base + dir.before \in ends
    BY <1>5, <2>1
  <2>3. Min(ends) \in ends /\ Min(ends) <= base + dir.before
    BY <2>2, MinIs
  <2> QED
    BY <1>5, <2>1, <2>3
<1>11. SpliceAt(m) = base + dir.before
  BY <1>6, <1>8, <1>10 DEF SpliceAt, all, d
<1>12. {n \in DOMAIN m.entries : m.entries[n].source_block < Note(m).source_block} = 1..base
  BY <1>5
<1>13. Cardinality(1..base) = base
  <2>1. base \in Int /\ 1 \in Int
    BY <1>5
  <2>2. Cardinality(1..base) = IF 1 > base THEN 0 ELSE base - 1 + 1
    BY <2>1, FS_Interval
  <2> QED
    BY <1>5, <2>2
<1> QED
  BY <1>11, <1>12, <1>13 DEF dir

-----------------------------------------------------------------------------
(* A maker note among the leaves of its directory.                          *)

\* A walk of an InteropIFD that its directory points to ahead of the maker note.
LedEarlier(m, start) ==
  \E w \in DOMAIN m.walks :
    /\ m.walks[w].kind = "InteropIFD" /\ m.walks[w].start = start
    /\ m.walks[w].parent \in DOMAIN m.walks
    /\ m.walks[m.walks[w].parent].start = m.walks[m.maker_note.walk].start
    /\ m.walks[m.walks[w].parent].kind = m.walks[m.maker_note.walk].kind
    /\ m.walks[w].index < m.maker_note.index

\* The first record of an InteropIFD is made ahead of the maker note when a walk is led
\* there ahead of it, and behind it otherwise.
LEMMA FirstTells ==
  ASSUME NEW m, Sound(m), m.maker_note # NoNote, FileNote(m), NEW k \in Records(m), FirstOf(m, k),
         m.deferred_subdirs[k].kind = "Interop"
  PROVE  /\ LedEarlier(m, m.deferred_subdirs[k].subdir_ifd_start) =>
              m.deferred_subdirs[k].pointer_index < m.maker_note.index
         /\ ~LedEarlier(m, m.deferred_subdirs[k].subdir_ifd_start) =>
              m.maker_note.index < m.deferred_subdirs[k].pointer_index
<1> DEFINE d == m.deferred_subdirs
           dir == m.walks[m.maker_note.walk]
           start == d[k].subdir_ifd_start
<1>1. PICK note \in DOMAIN d : OneNote(m, note)
  BY DEF Sound
<1>2. NoteTold(m) /\ InteropsTold(m)
  BY DEF FileNote
<1>3. /\ d[note].pointer_index = m.maker_note.index
      /\ \A l \in DOMAIN d : OfNote(m, d[l]) <=> d[l].parent = dir.kind /\ d[l].parent_ifd_start = dir.start
  BY <1>1, <1>2, NoteDir
<1>4. k \in DOMAIN d /\ OfNote(m, d[k])
  BY DEF Records
<1>5. m.maker_note.index \in Nat /\ \A l \in DOMAIN d : d[l].pointer_index \in Nat
  BY <1>1, <1>3 DEF Sound
<1>6. PICK w \in DOMAIN m.walks : Tells(d[k], m.walks, w)
  BY <1>2, <1>4 DEF InteropsTold
<1>7. d[k].pointer_index # m.maker_note.index
  BY <1>2, <1>3, <1>4 DEF InteropsTold
<1>8. ASSUME LedEarlier(m, start) PROVE d[k].pointer_index < m.maker_note.index
  <2>1. PICK v \in DOMAIN m.walks :
          /\ m.walks[v].kind = "InteropIFD" /\ m.walks[v].start = start
          /\ m.walks[m.walks[v].parent].start = dir.start
          /\ m.walks[m.walks[v].parent].kind = dir.kind
          /\ m.walks[v].index < m.maker_note.index
    BY <1>8 DEF LedEarlier
  <2>2. PICK l \in DOMAIN d : Tells(d[l], m.walks, v)
    BY <1>2, <2>1 DEF InteropsTold
  <2>3. /\ d[l].kind = "Interop" /\ d[l].subdir_ifd_start = start
        /\ d[l].parent = dir.kind /\ d[l].parent_ifd_start = dir.start
        /\ d[l].pointer_index = m.walks[v].index
    BY <2>1, <2>2 DEF Tells
  <2>4. l \in Records(m)
    BY <1>3, <2>3 DEF Records
  <2>5. ~Precedes(Turn(m, l), Turn(m, k))
    BY <2>3, <2>4 DEF FirstOf
  <2>6. /\ DOMAIN Turn(m, l) = 1..2 /\ Turn(m, l)[1] = d[l].pointer_index
        /\ Turn(m, k)[1] = d[k].pointer_index
    BY <1>4, TurnTyped
  <2>7. ~(d[l].pointer_index < d[k].pointer_index)
    <3>1. 1 \in DOMAIN Turn(m, l) /\ 1..(1 - 1) = {}
      BY <2>6
    <3> HIDE DEF d
    <3> QED
      BY <2>5, <2>6, <3>1 DEF Precedes
  <2> HIDE DEF d, start, dir
  <2> QED
    BY <1>4, <1>5, <2>1, <2>3, <2>7
<1>9. ASSUME ~LedEarlier(m, start) PROVE m.maker_note.index < d[k].pointer_index
  <2>1. /\ m.walks[w].kind = "InteropIFD" /\ m.walks[w].start = start
        /\ m.walks[w].parent \in DOMAIN m.walks
        /\ m.walks[m.walks[w].parent].start = dir.start
        /\ m.walks[m.walks[w].parent].kind = dir.kind
        /\ m.walks[w].index = d[k].pointer_index
    BY <1>3, <1>4, <1>6 DEF Tells
  <2>2. ~(d[k].pointer_index < m.maker_note.index)
    BY <1>9, <2>1 DEF LedEarlier
  <2> HIDE DEF d, start, dir
  <2> QED
    BY <1>4, <1>5, <1>7, <2>2
<1> QED
  BY <1>8, <1>9

\* Of two slots the one with the earlier pointer is filled first.
LEMMA SlotsFollow ==
  ASSUME NEW m, Sound(m), Subtree(m) # {}, NEW note, OneNote(m, note),
         NEW k \in Records(m), NEW n \in TagsAt(m, k), NEW l \in Records(m), NEW o \in TagsAt(m, l),
         m.deferred_subdirs[k].pointer_index < m.deferred_subdirs[l].pointer_index
  PROVE  Ahead([p \in DOMAIN SlotList(m) |-> SlotList(m)[p][3]], n, o)
<1> DEFINE list == SlotList(m)
           a == <<m.deferred_subdirs[k].pointer_index, k, n>>
           b == <<m.deferred_subdirs[l].pointer_index, l, o>>
<1>1. a \in Slots(m) /\ b \in Slots(m)
  BY SlotThere
<1>2. /\ Lists(list, Slots(m))
      /\ \A p, q \in DOMAIN list : p < q <=> Precedes(list[p], list[q])
  BY DeferredListed
<1>3. PICK p \in DOMAIN list, q \in DOMAIN list : list[p] = a /\ list[q] = b
  BY <1>1, <1>2 DEF Lists
<1>4. Precedes(a, b)
  <2>1. 1 \in DOMAIN a /\ a[1] < b[1] /\ 1..(1 - 1) = {}
    OBVIOUS
  <2> HIDE DEF a, b
  <2> QED
    BY <2>1 DEF Precedes
<1>5. p < q /\ list[p][3] = n /\ list[q][3] = o
  BY <1>2, <1>3, <1>4
<1> HIDE DEF list, a, b
<1> QED
  BY <1>5 DEF Ahead, list

\* A sequence over a set is one over a larger set.
LEMMA SeqWiden == ASSUME NEW T, NEW S \in SUBSET T, NEW s \in Seq(S) PROVE s \in Seq(T)
OBVIOUS

\* What comes before what among the deferred tags does so in the emission, and the leaves of
\* the directory itself come before the maker note.
LEMMA RegionEmitted ==
  ASSUME NEW m, Sound(m), m.maker_note # NoNote, Subtree(m) # {}, NEW x, NEW y
  PROVE  /\ Ahead([p \in DOMAIN SlotList(m) |-> SlotList(m)[p][3]], x, y) => Ahead(Emission(m), x, y)
         /\ x \in Region(m) /\ Direct(m, x) => Ahead(Emission(m), x, 0)
<1> DEFINE all == Len(m.entries)
           direct == {n \in Region(m) : Direct(m, n)}
           own == Ascending(direct)
           tags == [p \in DOMAIN SlotList(m) |-> SlotList(m)[p][3]]
           rest == Ascending(Unpointed(m))
           front == Positions(1, Min(Region(m)) - 1)
           back == Positions(Max(Region(m)) + 1, all)
<1>1. PICK note \in DOMAIN m.deferred_subdirs : OneNote(m, note)
  BY DEF Sound
<1>2. Emission(m) = front \o own \o DeferredTags(m) \o back
  BY DEF Emission
<1>3. DeferredTags(m) = tags \o rest
  BY DeferredAre
<1>4. /\ Lists(tags, {0} \cup Pointed(m)) /\ Lists(rest, Unpointed(m))
      /\ Lists(DeferredTags(m), {0} \cup Others(m))
  BY <1>1, DeferredListed
<1>5. /\ Min(Region(m)) \in 1..all /\ Max(Region(m)) \in 1..all /\ all \in Nat
      /\ Region(m) \subseteq 1..all
  <2>1. all \in Nat
    BY DEF Sound
  <2>2. /\ Min(Region(m)) \in 1..all /\ Max(Region(m)) \in 1..all
        /\ Region(m) \subseteq Subtree(m) /\ Subtree(m) \subseteq 1..all
    BY RegionIs, SubtreePlaced
  <2> QED
    BY <2>1, <2>2
<1>6. Lists(own, direct) /\ direct \in SUBSET Nat
  <2>0. IsFiniteSet(1..all) /\ direct \subseteq Region(m)
    BY <1>5, FS_Interval
  <2> HIDE DEF direct
  <2>1. direct \subseteq 1..all /\ IsFiniteSet(1..all)
    BY <1>5, <2>0
  <2>2. IsFiniteSet(direct)
    BY <2>1, FS_Subset
  <2>3. direct \in SUBSET Nat
    BY <1>5, <2>1
  <2> QED
    BY <2>2, <2>3, AscendingLists
<1>7. Others(m) \in SUBSET Nat
  BY OthersPlaced
<1>8. front \in Seq(Nat) /\ back \in Seq(Nat)
  <2>1. Lists(front, 1..(Min(Region(m)) - 1)) /\ Lists(back, (Max(Region(m)) + 1)..all)
    <3>1. /\ 1 \in Nat /\ Min(Region(m)) - 1 \in Nat /\ 1 <= (Min(Region(m)) - 1) + 1
          /\ Max(Region(m)) + 1 \in Nat /\ Max(Region(m)) + 1 <= all + 1
      BY <1>5
    <3> QED
      BY <1>5, <3>1, PositionsList
  <2> HIDE DEF front, back
  <2>2. 1..(Min(Region(m)) - 1) \subseteq Nat /\ (Max(Region(m)) + 1)..all \subseteq Nat
    BY <1>5
  <2>3. /\ front \in Seq(1..(Min(Region(m)) - 1)) /\ back \in Seq((Max(Region(m)) + 1)..all)
    BY <2>1 DEF Lists
  <2> QED
    BY <2>2, <2>3, SeqWiden
<1> HIDE DEF all, own, tags, rest, front, back
<1>9. own \in Seq(Nat) /\ tags \in Seq(Nat) /\ rest \in Seq(Nat) /\ tags \o rest \in Seq(Nat)
  <2>1. {0} \cup Pointed(m) \subseteq Nat /\ Unpointed(m) \subseteq Nat /\ {0} \cup Others(m) \subseteq Nat
    BY <1>7 DEF Pointed, Unpointed
  <2>2. own \in Seq(Nat)
    BY <1>6 DEF Lists
  <2>3. tags \in Seq(Nat) /\ rest \in Seq(Nat)
    BY <1>4, <2>1 DEF Lists
  <2>4. DeferredTags(m) \in Seq(Nat)
    BY <1>4, <2>1 DEF Lists
  <2> QED
    BY <1>3, <2>2, <2>3, <2>4
<1>10. PICK deferred \in Seq(Nat) : deferred = tags \o rest
  BY <1>9
<1>11. PICK head \in Seq(Nat) : head = front \o own
  BY <1>8, <1>9, ConcatIs
<1>12. PICK most \in Seq(Nat) : most = head \o deferred
  BY <1>10, <1>11, ConcatIs
<1>13. Emission(m) = most \o back
  BY <1>2, <1>3, <1>10, <1>11, <1>12
<1>14. ASSUME Ahead(tags, x, y) PROVE Ahead(Emission(m), x, y)
  <2>1. Ahead(deferred, x, y)
    BY <1>9, <1>10, <1>14, AheadConcat
  <2>2. Ahead(most, x, y)
    BY <1>11, <1>12, <2>1, AheadConcat
  <2> QED
    BY <1>8, <1>13, <2>2, AheadConcat
<1>15. ASSUME x \in Region(m), Direct(m, x) PROVE Ahead(Emission(m), x, 0)
  <2>1. \E p \in DOMAIN own : own[p] = x
    BY <1>6, <1>15 DEF Lists
  <2>2. \E p \in DOMAIN head : head[p] = x
    <3>1. PICK p \in DOMAIN own : own[p] = x
      BY <2>1
    <3>2. Glued(head, front, own)
      BY <1>8, <1>9, <1>11, ConcatIs
    <3> QED
      BY <3>1, <3>2 DEF Glued
  <2>3. \E q \in DOMAIN deferred : deferred[q] = 0
    BY <1>3, <1>4, <1>10 DEF Lists
  <2>4. Ahead(most, x, 0)
    BY <1>11, <1>12, <2>2, <2>3, AheadConcat
  <2> QED
    BY <1>8, <1>13, <2>4, AheadConcat
<1> QED
  BY <1>14, <1>15 DEF tags

\* A leaf of the subtree is emitted ahead of the maker note if it is of its directory, or of an
\* InteropIFD that a pointer ahead of the maker note led to, and behind it otherwise.
LEMMA LeafAround ==
  ASSUME NEW m, Sound(m), m.maker_note # NoNote, FileNote(m), Subtree(m) = Region(m),
         NEW n \in Subtree(m)
  PROVE  Place(m, n) < Place(m, 0) <=> Direct(m, n) \/ LedEarlier(m, m.entries[n].own_ifd_start)
<1> DEFINE d == m.deferred_subdirs
           start == m.entries[n].own_ifd_start
           tags == [p \in DOMAIN SlotList(m) |-> SlotList(m)[p][3]]
<1>1. PICK note \in DOMAIN d : OneNote(m, note)
  BY DEF Sound
<1>2. Lists(Emission(m), Tags(m)) /\ Subtree(m) # {}
  BY Emitted DEF EmittedWell
<1>3. CASE Direct(m, n)
  <2>1. Ahead(Emission(m), n, 0)
    BY <1>2, <1>3, RegionEmitted
  <2> QED
    BY <1>2, <1>3, <2>1, PlacesFollow
<1>4. CASE ~Direct(m, n)
  <2>1. start \in InteropStarts(m) /\ n \in Others(m)
    BY <1>4 DEF Subtree, Others
  <2>2. PICK k \in Records(m) : d[k].kind = "Interop" /\ d[k].subdir_ifd_start = start /\ FirstOf(m, k)
    BY <2>1, FirstThere
  <2>3. n \in TagsAt(m, k)
    BY <2>1, <2>2 DEF TagsAt
  <2>4. note \in Records(m) /\ 0 \in TagsAt(m, note)
    BY <1>1, NoteIs DEF TagsAt, OneNote
  <2>5. d[note].pointer_index = m.maker_note.index
    BY <1>1, NoteDir DEF FileNote
  <2>6. /\ LedEarlier(m, start) => d[k].pointer_index < d[note].pointer_index
        /\ ~LedEarlier(m, start) => d[note].pointer_index < d[k].pointer_index
    BY <2>2, <2>5, FirstTells
  <2>7. CASE LedEarlier(m, start)
    <3>1. Ahead(tags, n, 0)
      BY <1>1, <1>2, <2>3, <2>4, <2>6, <2>7, SlotsFollow
    <3>2. Ahead(Emission(m), n, 0)
      BY <1>2, <3>1, RegionEmitted
    <3> QED
      BY <1>2, <2>7, <3>2, PlacesFollow
  <2>8. CASE ~LedEarlier(m, start)
    <3>1. Ahead(tags, 0, n)
      BY <1>1, <1>2, <2>3, <2>4, <2>6, <2>8, SlotsFollow
    <3>2. Ahead(Emission(m), 0, n)
      BY <1>2, <3>1, RegionEmitted
    <3> QED
      BY <1>2, <1>4, <2>8, <3>2, PlacesFollow
  <2> QED
    BY <2>7, <2>8
<1> QED
  BY <1>3, <1>4

\* The walks that led to a directory ahead of the maker note, as the property tells them.
LEMMA LedSays ==
  ASSUME NEW m, NoteTold(m), NEW start
  PROVE  LET dir == m.walks[m.maker_note.walk]
             pointers == {w \in ToSet(m.walks) :
                            /\ w.kind = "InteropIFD" /\ w.start = start
                            /\ w.parent # 0
                            /\ m.walks[w.parent].start = dir.start
                            /\ m.walks[w.parent].kind = dir.kind}
         IN  InteropsTold(m) =>
               ((\E w \in pointers : w.index < m.maker_note.index) <=> LedEarlier(m, start))
<1> SUFFICES ASSUME InteropsTold(m)
             PROVE  (\E w \in ToSet(m.walks) :
                       /\ w.kind = "InteropIFD" /\ w.start = start /\ w.parent # 0
                       /\ m.walks[w.parent].start = m.walks[m.maker_note.walk].start
                       /\ m.walks[w.parent].kind = m.walks[m.maker_note.walk].kind
                       /\ w.index < m.maker_note.index) <=> LedEarlier(m, start)
  OBVIOUS
<1>1. DOMAIN m.walks \subseteq Nat \ {0}
  BY DEF NoteTold
<1>2. \A w : w \in ToSet(m.walks) <=> \E v \in DOMAIN m.walks : w = m.walks[v]
  BY DEF ToSet
<1>3. \A v \in DOMAIN m.walks :
        m.walks[v].kind = "InteropIFD" => m.walks[v].parent \in DOMAIN m.walks
  BY DEF InteropsTold, Tells
<1> QED
  BY <1>1, <1>2, <1>3 DEF LedEarlier

\* A set of positions without a gap is its own first run.
LEMMA WholeRegion ==
  ASSUME NEW m, Sound(m), Subtree(m) # {}, Min(Subtree(m))..Max(Subtree(m)) = Subtree(m)
  PROVE  Region(m) = Subtree(m)
<1> DEFINE S == Subtree(m)
<1>1. S \in SUBSET Nat /\ S \subseteq 1..Len(m.entries) /\ Len(m.entries) \in Nat
  BY SubtreePlaced DEF Sound
<1>2. \A n \in S : n \in Nat /\ n <= Len(m.entries)
  BY <1>1
<1> HIDE DEF S
<1>3. Min(S) \in S /\ Max(S) \in S /\ \A n \in S : n <= Max(S)
  <2>1. S # {} /\ Min(S)..Max(S) = S
    BY DEF S
  <2> QED
    BY <1>1, <1>2, <2>1, MinIs, MaxIs
<1>4. Min(S)..Max(S) = S
  BY DEF S
<1>5. ASSUME NEW n \in S PROVE Min(S)..n \subseteq S
  <2>1. n <= Max(S) /\ n \in Nat /\ Max(S) \in Nat /\ Min(S) \in Nat
    BY <1>2, <1>3
  <2>2. Min(S)..n \subseteq Min(S)..Max(S)
    BY <2>1
  <2> QED
    BY <1>4, <2>2
<1> QED
  BY <1>5 DEF Region, S

-----------------------------------------------------------------------------
(* The maker note of every file.                                            *)

\* The invariant of the maker note: of the block being walked, and of those merged.
FileNoteInv == ImagesInv /\ NoteInv /\ FileNote(meta)

\* At the end of a block the merged file knows where its maker note was.
LEMMA NoteMerged == ASSUME FileNoteInv, finished PROVE FileNote(Merged)
BY NoteWins, NoteStands DEF FileNoteInv, ImagesInv

\* Every step of every block keeps the invariant.
LEMMA FileNoteInductive == FileNoteInv /\ [EmitNext]_emitVars => FileNoteInv'
<1> SUFFICES ASSUME FileNoteInv, [EmitNext]_emitVars PROVE FileNoteInv'
  OBVIOUS
<1>1. ImagesInv'
  BY ImagesInductive DEF FileNoteInv
<1>2. EmitInv /\ WalkInv /\ Recorded
      /\ (~finished => \A a \in Addresses : Passable(disk[a].entries))
  BY DEF FileNoteInv, ImagesInv, EmitInv, LeavesInv
<1>3. CASE NextBlock
  <2>1. Fresh'
    <3>1. file_type \in FileTypes
      BY <1>2 DEF WalkInv, Typed
    <3> QED
      BY <1>3, <3>1, NextBlockWalks
  <2>2. (Fresh => NoteInv)'
    BY FreshNote, PTL
  <2>3. FileNote(Merged) /\ meta' = Merged
    BY <1>3, NoteMerged DEF NextBlock
  <2>4. PICK m : m = Merged
    OBVIOUS
  <2>5. FileNote(m) /\ meta' = m
    BY <2>3, <2>4
  <2>6. FileNote(meta')
    BY <2>5
  <2>7. (FileNote(meta))' <=> FileNote(meta')
    BY DEF FileNote, NoteTold, InteropsTold, EntryTold, BaseOf, Tells, EnteredFirst
  <2> QED
    BY <1>1, <2>1, <2>2, <2>6, <2>7 DEF FileNoteInv
<1>4. CASE [Next]_vars /\ UNCHANGED <<meta, next_exif_block>>
  <2>1. NoteInv'
    BY <1>2, <1>4, NoteNext DEF FileNoteInv
  <2>2. (FileNote(meta))'
    BY <1>4 DEF FileNoteInv, FileNote, NoteTold, InteropsTold, EntryTold, BaseOf, Tells, EnteredFirst
  <2> QED
    BY <1>1, <2>1, <2>2 DEF FileNoteInv
<1> QED
  BY <1>3, <1>4 DEF EmitNext, emitVars

\* What the invariant says at the end of a block.
LEMMA NoteSays ==
  ASSUME NEW m, Sound(m), AnchorsPlaced(m.deferred_subdirs, Len(m.entries)), FileNote(m),
         m.maker_note # NoNote, Note(m).parent = "ExifIFD"
  PROVE  LET dir == m.walks[m.maker_note.walk]
             pointers(n) == {w \in ToSet(m.walks) :
                               /\ w.kind = "InteropIFD" /\ w.start = m.entries[n].own_ifd_start
                               /\ w.parent # 0
                               /\ m.walks[w.parent].start = dir.start
                               /\ m.walks[w.parent].kind = dir.kind}
             earlier == Cardinality({n \in DOMAIN m.entries :
                                       m.entries[n].source_block < Note(m).source_block})
             mn == Place(m, 0)
         IN  IF Subtree(m) = {} THEN mn = earlier + dir.before + 1
             ELSE Min(Subtree(m))..Max(Subtree(m)) = Subtree(m) =>
                    \A n \in Subtree(m) :
                      Place(m, n) < mn <=>
                        \/ Direct(m, n)
                        \/ \E w \in pointers(n) : w.index < m.maker_note.index
<1>1. Subtree(m) = {} =>
        Place(m, 0) = Cardinality({n \in DOMAIN m.entries :
                                     m.entries[n].source_block < Note(m).source_block})
                        + m.walks[m.maker_note.walk].before + 1
  BY SplicedAt, EnteredThere
<1>2. NoteTold(m) /\ InteropsTold(m)
  BY DEF FileNote
<1>3. ASSUME Subtree(m) # {}, Min(Subtree(m))..Max(Subtree(m)) = Subtree(m), NEW n \in Subtree(m)
      PROVE  Place(m, n) < Place(m, 0) <=>
               \/ Direct(m, n)
               \/ \E w \in {w \in ToSet(m.walks) :
                              /\ w.kind = "InteropIFD" /\ w.start = m.entries[n].own_ifd_start
                              /\ w.parent # 0
                              /\ m.walks[w.parent].start = m.walks[m.maker_note.walk].start
                              /\ m.walks[w.parent].kind = m.walks[m.maker_note.walk].kind} :
                    w.index < m.maker_note.index
  <2>1. Subtree(m) = Region(m)
    BY <1>3, WholeRegion
  <2>2. Place(m, n) < Place(m, 0) <=> Direct(m, n) \/ LedEarlier(m, m.entries[n].own_ifd_start)
    BY <2>1, LeafAround
  <2> QED
    BY <1>2, <2>2, LedSays
<1> QED
  BY <1>1, <1>3

\* Whatever the blocks hold, the maker note of an ExifIFD is emitted where its pointer stood:
\* if the leaves of the directory lie together, after those of the directory itself and of
\* the InteropIFDs that an earlier pointer led to, and before the others; and where the ExifIFD
\* was first entered if it has no leaf (push_exif_tags).
THEOREM MakerNoteAlwaysAtItsPointer == EmitSpec => []MakerNoteAtItsPointer
<1>1. EmitInit => FileNoteInv
  <2> SUFFICES ASSUME EmitInit PROVE FileNoteInv
    OBVIOUS
  <2>1. Fresh /\ ~finished /\ WalkInv /\ Recorded
    BY FreshWalks DEF EmitInit, Init
  <2>2. meta = NoMeta /\ next_exif_block = 0
    BY DEF EmitInit
  <2>3. ImagesInv
    BY <2>1, <2>2, NothingMerged, FreshLeaves DEF ImagesInv, EmitInv
  <2>4. FileNote(meta)
    BY <2>2 DEF FileNote, NoMeta
  <2> QED
    BY <2>1, <2>3, <2>4, FreshNote DEF FileNoteInv
<1>2. FileNoteInv => MakerNoteAtItsPointer
  <2> SUFFICES ASSUME FileNoteInv, finished, Merged.maker_note # NoNote, Note(Merged).parent = "ExifIFD"
               PROVE  MakerNoteAtItsPointer
    BY DEF MakerNoteAtItsPointer
  <2>1. /\ Sound(Merged) /\ AnchorsPlaced(Merged.deferred_subdirs, Len(Merged.entries))
        /\ FileNote(Merged)
    BY MergedSound, NoteMerged DEF FileNoteInv, ImagesInv, EmitInv, FileSound
  <2>2. PICK m : m = Merged
    OBVIOUS
  <2> QED
    BY <2>1, <2>2, NoteSays DEF MakerNoteAtItsPointer
<1> QED
  BY <1>1, <1>2, FileNoteInductive, PTL DEF EmitSpec

-----------------------------------------------------------------------------
(* The inflated bytes of a PNG.                                             *)

BudgetOK ==
  /\ owned \in Nat /\ zxif_inflated_total \in Nat /\ retained \in Nat /\ peak \in Nat
  /\ zxif_inflated_total <= MAX_ZXIF_INFLATE_TOTAL

AliveIsCharged == retained + owned <= zxif_inflated_total

BudgetInv == BudgetOK /\ AliveIsCharged /\ InflationBounded

LEMMA RemainingBytes ==
  ASSUME BudgetOK
  PROVE  Remaining \in Nat /\ Remaining = MAX_ZXIF_INFLATE_TOTAL - zxif_inflated_total
BY InflateAssumption DEF BudgetOK, Remaining

\* An inflation that fits into what remains keeps the charge and the peak within
\* the budget, beside whatever is alive.
LEMMA InflatesWithin ==
  ASSUME BudgetInv, NEW bytes \in Nat, Inflates(bytes)
  PROVE  /\ retained' = retained
         /\ zxif_inflated_total' \in Nat /\ peak' \in Nat
         /\ zxif_inflated_total' <= MAX_ZXIF_INFLATE_TOTAL
         /\ peak' <= MAX_ZXIF_INFLATE_TOTAL
         /\ zxif_inflated_total' = zxif_inflated_total + bytes
<1>1. bytes <= MAX_ZXIF_INFLATE_TOTAL - zxif_inflated_total
  BY RemainingBytes DEF BudgetInv, Inflates
<1>2. retained + owned + bytes <= MAX_ZXIF_INFLATE_TOTAL
  BY <1>1, InflateAssumption DEF BudgetInv, BudgetOK, AliveIsCharged
<1> QED
  BY <1>1, <1>2, InflateAssumption DEF BudgetInv, BudgetOK, InflationBounded, Inflates

LEMMA BudgetKept ==
  ASSUME BudgetInv, UNCHANGED budget
  PROVE  BudgetInv'
BY DEF BudgetInv, BudgetOK, AliveIsCharged, InflationBounded, budget

LEMMA BudgetInductive == BudgetInv /\ [ChunkNext]_chunkVars => BudgetInv'
<1> SUFFICES ASSUME BudgetInv, [ChunkNext]_chunkVars PROVE BudgetInv'
  OBVIOUS
<1>1. CASE EndOfData \/ OversizeChunk \/ CutChunk \/ EndChunk
  BY <1>1, BudgetKept DEF EndOfData, OversizeChunk, CutChunk, EndChunk
<1>2. CASE PlainChunk \/ TextChunk \/ BoxChunk
  BY <1>2, BudgetKept DEF PlainChunk, TextChunk, BoxChunk
<1>3. CASE ExifChunk
  BY <1>3 DEF ExifChunk, BudgetInv, BudgetOK, AliveIsCharged, InflationBounded
<1>4. CASE RetainLevel
  BY <1>4 DEF RetainLevel, LeavesBlock, BudgetInv, BudgetOK, AliveIsCharged, InflationBounded
<1>5. CASE RefuseLevel
  <2>1. owned' = 0 /\ UNCHANGED <<zxif_inflated_total, retained, peak>>
    BY <1>5 DEF RefuseLevel, LeavesBlock
  <2> QED
    BY <2>1 DEF BudgetInv, BudgetOK, AliveIsCharged, InflationBounded
<1>6. CASE InflateLevel
  <2>1. PICK bytes \in Inflations : Inflates(bytes) /\ owned' = bytes
    BY <1>6 DEF InflateLevel
  <2>2. bytes \in Nat
    BY InflateAssumption
  <2>3. /\ retained' = retained
        /\ zxif_inflated_total' \in Nat /\ peak' \in Nat
        /\ zxif_inflated_total' <= MAX_ZXIF_INFLATE_TOTAL
        /\ peak' <= MAX_ZXIF_INFLATE_TOTAL
        /\ zxif_inflated_total' = zxif_inflated_total + bytes
    BY <2>1, <2>2, InflatesWithin
  <2> QED
    BY <2>1, <2>2, <2>3 DEF BudgetInv, BudgetOK, AliveIsCharged, InflationBounded
<1>7. CASE FailToInflate
  <2>1. PICK bytes \in {0, Remaining} : Inflates(bytes)
    BY <1>7 DEF FailToInflate
  <2>2. bytes \in Nat
    BY <2>1, RemainingBytes DEF BudgetInv
  <2>3. /\ retained' = retained
        /\ zxif_inflated_total' \in Nat /\ peak' \in Nat
        /\ zxif_inflated_total' <= MAX_ZXIF_INFLATE_TOTAL
        /\ peak' <= MAX_ZXIF_INFLATE_TOTAL
        /\ zxif_inflated_total' = zxif_inflated_total + bytes
    BY <2>1, <2>2, InflatesWithin
  <2>4. owned' = 0
    BY <1>7 DEF FailToInflate, LeavesBlock
  <2> QED
    BY <2>2, <2>3, <2>4 DEF BudgetInv, BudgetOK, AliveIsCharged, InflationBounded
<1>8. CASE UNCHANGED chunkVars
  BY <1>8, BudgetKept DEF chunkVars
<1> QED
  BY <1>1, <1>2, <1>3, <1>4, <1>5, <1>6, <1>7, <1>8 DEF ChunkNext

\* The chunk loop alone, whatever the file holds.
LEMMA ChunksBounded == ChunkSpec => []InflationBounded
<1>1. ChunkInit => BudgetInv
  BY InflateAssumption DEF ChunkInit, BudgetInv, BudgetOK, AliveIsCharged, InflationBounded
<1>2. BudgetInv => InflationBounded
  BY DEF BudgetInv
<1> QED
  BY <1>1, <1>2, BudgetInductive, PTL DEF ChunkSpec

-----------------------------------------------------------------------------
(* The walks of one block.                                                  *)

\* The walks of a list that a later one keeps as they are: the same places are
\* chain directories, with the same addresses, names and refusals.
SameChainDirs(old, new) ==
  LET Chain(list) == {n \in DOMAIN list : IsChain(list[n].kind)}
  IN  /\ Chain(new) = Chain(old)
      /\ \A n \in Chain(old) : /\ new[n].start = old[n].start /\ new[n].kind = old[n].kind
                               /\ (new[n].outcome = "refused" <=> old[n].outcome = "refused")

LEMMA SameDirs ==
  ASSUME NEW old, NEW new, SameChainDirs(old, new)
  PROVE  \A e : ChainDirsOf(e, new) = ChainDirsOf(e, old)
BY DEF SameChainDirs, ChainDirsOf

\* A chain directory was refused in the block at hand.
HasRefused(list) == \E n \in DOMAIN list : IsChain(list[n].kind) /\ list[n].outcome = "refused"

\* A refusal ends the chain.
RefusalEnds == HasRefused(walks) => stack = <<>> /\ offset = NoAddress

\* What a step of the walker other than at a chain directory does not touch.
Aside ==
  /\ SameChainDirs(walks, walks')
  /\ UNCHANGED <<chain_guard, cycle_guard_warnings>>
  /\ stack = <<>> /\ offset = NoAddress => stack' = <<>> /\ offset' = NoAddress

\* One more walk at the end of a list.
LEMMA OneMoreWalk ==
  ASSUME Typed, NEW walk \in WalkRecord, walks' = Append(walks, walk)
  PROVE  /\ DOMAIN walks = 1..Len(walks) /\ DOMAIN walks' = 1..(Len(walks) + 1) /\ Len(walks) \in Nat
         /\ walks'[Len(walks) + 1] = walk
         /\ \A n \in DOMAIN walks : n \in DOMAIN walks' /\ walks'[n] = walks[n]
         /\ \A n \in DOMAIN walks' : n \in DOMAIN walks \/ n = Len(walks) + 1
BY DEF Typed

LEMMA OneMoreSub ==
  ASSUME Typed, NEW walk \in WalkRecord, ~IsChain(walk.kind), walks' = Append(walks, walk)
  PROVE  SameChainDirs(walks, walks')
<1>1. /\ \A n \in DOMAIN walks : n \in DOMAIN walks' /\ walks'[n] = walks[n]
      /\ \A n \in DOMAIN walks' : n \in DOMAIN walks \/ ~IsChain(walks'[n].kind)
  BY OneMoreWalk
<1> QED
  BY <1>1 DEF SameChainDirs

LEMMA WalkChanged ==
  ASSUME Typed, NEW k \in DOMAIN walks, NEW walk \in WalkRecord,
         walks' = [walks EXCEPT ![k] = walk],
         walk.start = walks[k].start, walk.kind = walks[k].kind,
         walk.outcome = "refused" <=> walks[k].outcome = "refused"
  PROVE  SameChainDirs(walks, walks')
<1>1. /\ DOMAIN walks' = DOMAIN walks
      /\ \A n \in DOMAIN walks : /\ walks'[n].start = walks[n].start /\ walks'[n].kind = walks[n].kind
                                 /\ (walks'[n].outcome = "refused" <=> walks[n].outcome = "refused")
  BY DEF Typed
<1> QED
  BY <1>1 DEF SameChainDirs

LEMMA StillSame == ASSUME UNCHANGED walks PROVE SameChainDirs(walks, walks')
BY DEF SameChainDirs

\* The walk of the innermost directory is not a refused one.
LEMMA TopWalk ==
  ASSUME WalkInv, stack # <<>>
  PROVE  /\ Typed /\ Len(active_ifd_offsets) = Len(stack)
         /\ Top.walk \in DOMAIN walks /\ walks[Top.walk].outcome = "open"
         /\ walks[Top.walk] \in WalkRecord
<1>1. Typed /\ DirsOpen /\ PathNeverRepeats
  BY DEF WalkInv
<1>2. Top = stack[Len(stack)] /\ Len(stack) \in DOMAIN stack
  BY <1>1, TopTyped
<1>3. Top.walk \in DOMAIN walks /\ walks[Top.walk].outcome = "open"
  BY <1>1, <1>2 DEF DirsOpen
<1>4. Len(active_ifd_offsets) = Len(stack)
  BY <1>1 DEF PathNeverRepeats, Typed
<1> QED
  BY <1>1, <1>3, <1>4, WalksTyped

LEMMA PassEntryAside == ASSUME WalkInv, PassEntry PROVE Aside
<1>1. Typed
  BY DEF WalkInv
<1>2. PICK entry \in Shapes, pending \in Seq(Sub) : Passes(entry, pending)
  BY <1>1, PassEntryPasses
<1>3. stack # <<>> /\ UNCHANGED <<chain_guard, cycle_guard_warnings>>
  BY <1>2 DEF Passes, ReadEntry, context
<1>4. SameChainDirs(walks, walks')
  <2>1. CASE UNCHANGED walks
    BY <2>1, StillSame
  <2>2. CASE walks' = [walks EXCEPT ![Top.walk].counted = @ + 1]
    <3> DEFINE more == [walks[Top.walk] EXCEPT !.counted = @ + 1]
    <3>1. Top.walk \in DOMAIN walks /\ walks[Top.walk] \in WalkRecord
      BY <1>3, TopWalk
    <3>2. /\ more \in WalkRecord /\ more.start = walks[Top.walk].start
          /\ more.kind = walks[Top.walk].kind /\ more.outcome = walks[Top.walk].outcome
      BY <3>1, CountedTypedWalk
    <3>3. walks' = [walks EXCEPT ![Top.walk] = more]
      BY <2>2
    <3> HIDE DEF more
    <3> QED
      BY <1>1, <3>1, <3>2, <3>3, WalkChanged
  <2> QED
    BY <1>2, <2>1, <2>2 DEF Passes
<1> QED
  BY <1>3, <1>4 DEF Aside

LEMMA EndDirectoryAside == ASSUME WalkInv, EndDirectory PROVE Aside
<1>1. PICK outcome \in {"whole", "aborted"} : Ends(outcome)
  BY EndDirectoryEnds
<1>2. stack # <<>> /\ CloseDir(outcome)
  BY <1>1 DEF Ends
<1>3. Close(outcome) /\ UNCHANGED <<chain_guard, cycle_guard_warnings>>
  BY <1>2 DEF CloseDir, CloseSubdir, CloseChainDir, context
<1>4. /\ Typed /\ Top.walk \in DOMAIN walks /\ walks[Top.walk].outcome = "open"
      /\ walks[Top.walk] \in WalkRecord
  BY <1>2, TopWalk
<1> DEFINE closed == [walks[Top.walk] EXCEPT !.outcome = outcome]
<1>5. outcome # "refused" /\ outcome \in Outcomes
  BY DEF Outcomes
<1>6. /\ closed \in WalkRecord /\ closed.start = walks[Top.walk].start
      /\ closed.kind = walks[Top.walk].kind /\ closed.outcome = outcome
  BY <1>4, <1>5 DEF WalkRecord
<1>7. walks' = [walks EXCEPT ![Top.walk] = closed]
  BY <1>3 DEF Close
<1> HIDE DEF closed
<1>8. SameChainDirs(walks, walks')
  BY <1>4, <1>5, <1>6, <1>7, WalkChanged
<1> QED
  BY <1>2, <1>3, <1>8 DEF Aside

LEMMA SubdirAside ==
  ASSUME WalkInv, RefuseSubdir \/ WalkSubdir \/ PassOverSubdir
  PROVE  Aside
<1> DEFINE sub == Head(Top.pending)
<1>1. /\ Typed /\ stack # <<>> /\ Pending /\ UNCHANGED <<chain_guard, cycle_guard_warnings>>
  BY DEF WalkInv, RefuseSubdir, WalkSubdir, PassOverSubdir, Pending, context
<1>2. /\ sub.kind \in SubKinds /\ sub.kind \in Kinds /\ ~finished
      /\ sub.start \in Addresses \cup {NoAddress}
      /\ OnPath(sub.start) => sub.start \in Addresses
  BY <1>1, PathTyped
<1>3. UNCHANGED walks \/ \E outcome \in Outcomes :
        sub.start \in Addresses /\ walks' = Append(walks, Walk(sub.start, sub.kind, outcome))
  <2>1. CASE PassOverSubdir
    BY <2>1 DEF PassOverSubdir
  <2>2. CASE RefuseSubdir
    <3>1. OnPath(sub.start) /\ walks' = Append(walks, Walk(sub.start, sub.kind, "refused"))
      BY <2>2 DEF RefuseSubdir
    <3> QED
      BY <1>2, <3>1 DEF Outcomes
  <2>3. CASE WalkSubdir
    <3>1. sub.start # NoAddress /\ \E body \in Bodies(sub.start) : Open(sub.start, sub.kind, body)
      BY <2>3 DEF WalkSubdir
    <3>2. \E outcome \in {"open", "broken"} :
            walks' = Append(walks, Walk(sub.start, sub.kind, outcome))
      BY <3>1 DEF Open
    <3> QED
      BY <1>2, <3>1, <3>2 DEF Outcomes
  <2> QED
    BY <2>1, <2>2, <2>3
<1> HIDE DEF sub
<1>4. SameChainDirs(walks, walks')
  <2>1. CASE UNCHANGED walks
    BY <2>1, StillSame
  <2>2. CASE \E outcome \in Outcomes :
               sub.start \in Addresses /\ walks' = Append(walks, Walk(sub.start, sub.kind, outcome))
    <3>1. PICK outcome \in Outcomes :
            sub.start \in Addresses /\ walks' = Append(walks, Walk(sub.start, sub.kind, outcome))
      BY <2>2
    <3>2. /\ Walk(sub.start, sub.kind, outcome) \in WalkRecord
          /\ Walk(sub.start, sub.kind, outcome).kind = sub.kind
      BY <1>1, <1>2, <3>1, WalkTyped
    <3>3. ~IsChain(Walk(sub.start, sub.kind, outcome).kind)
      BY <1>2, <3>2, KindsApart
    <3> QED
      BY <1>1, <3>1, <3>2, <3>3, OneMoreSub
  <2> QED
    BY <1>3, <2>1, <2>2
<1> QED
  BY <1>1, <1>4 DEF Aside

LEMMA OthersAside ==
  ASSUME WalkInv, [Next]_vars
  PROVE  WalkChainDir \/ RefuseChainDir \/ Aside
<1>1. CASE Finalize
  <2>1. UNCHANGED <<walks, stack, offset, chain_guard, cycle_guard_warnings>>
    BY <1>1 DEF Finalize, context
  <2> QED
    BY <2>1, StillSame DEF Aside
<1>2. CASE UNCHANGED vars
  <2>1. UNCHANGED <<walks, stack, offset, chain_guard, cycle_guard_warnings>>
    BY <1>2 DEF vars, context
  <2> QED
    BY <2>1, StillSame DEF Aside
<1> QED
  BY <1>1, <1>2, PassEntryAside, EndDirectoryAside, SubdirAside DEF Next, PassEntry, EndDirectory

-----------------------------------------------------------------------------
(* The events of the file.                                                  *)

Sources == {"ResetOnlyProfile", "ExifProfile", "NativeTiff"}
ChainNames == ToSet(ChainKinds)
Refusal == [dir : ChainNames, prev : ChainNames]
EventRecord == [event : Sources, walks : Seq(WalkRecord), warnings : Seq(Refusal)]

Now == Len(replayed) + 1
Past == UNION {ChainDirsOf(e, replayed[e].walks) : e \in DOMAIN replayed}

EventsTyped ==
  /\ replayed \in Seq(EventRecord) /\ event \in Sources
  /\ walks \in Seq(WalkRecord) /\ cycle_guard_warnings \in Seq(Refusal)

\* The chain directories under the present map at an address.
Since(a) == {c \in ChainDirs : c.start = a /\ SameMap(c.event, Now)}

\* The map of the guard holds them, under the names that came first.
Guarded ==
  /\ \A a : a \in DOMAIN chain_guard <=> Since(a) # {}
  /\ \A a \in DOMAIN chain_guard : \E c \in Since(a) :
       /\ \A other \in Since(a) : other = c \/ CameBefore(c, other)
       /\ chain_guard[a] = c.kind

ReplayInv ==
  /\ WalkInv
  /\ EventsTyped
  /\ RefusalEnds
  /\ Guarded
  /\ RefusedIfClaimed
  /\ WarningsNameFirstClaim

\* Where the events stand.
EventsLaid ==
  /\ Len(replayed) \in Nat /\ Now \in Nat /\ Now > 0
  /\ DOMAIN replayed = 1..Len(replayed) /\ DOMAIN Events = 1..Now
  /\ \A e \in DOMAIN replayed : e \in 1..Now /\ Events[e] = replayed[e] /\ e # Now /\ e < Now
  /\ Events[Now].event = event /\ Events[Now].walks = walks
  /\ Events[Now].warnings = cycle_guard_warnings
  /\ \A e \in 1..Now : e \in DOMAIN replayed \/ e = Now
  /\ Events \in Seq(EventRecord)

LEMMA EventsAre == EventsTyped => EventsLaid
<1> HAVE EventsTyped
<1> DEFINE present == [event |-> event, walks |-> walks, warnings |-> cycle_guard_warnings]
<1>1. /\ present \in EventRecord /\ present.event = event /\ present.walks = walks
      /\ present.warnings = cycle_guard_warnings
  BY DEF EventsTyped, EventRecord
<1>2. Events = Append(replayed, present)
  BY DEF Events
<1> HIDE DEF present
<1>3. replayed \in Seq(EventRecord) /\ Len(replayed) \in Nat /\ DOMAIN replayed = 1..Len(replayed)
  BY DEF EventsTyped
<1>4. /\ Events \in Seq(EventRecord) /\ DOMAIN Events = 1..(Len(replayed) + 1)
      /\ \A e \in 1..Len(replayed) : Events[e] = replayed[e]
      /\ Events[Len(replayed) + 1] = present
  BY <1>1, <1>2, <1>3
<1> QED
  BY <1>1, <1>3, <1>4 DEF Now, EventsLaid

LEMMA PlaceOf ==
  ASSUME NEW e, NEW list, NEW c \in ChainDirsOf(e, list)
  PROVE  /\ c.event = e /\ c.place \in DOMAIN list /\ IsChain(c.kind)
         /\ c.start = list[c.place].start /\ c.kind = list[c.place].kind
         /\ c.refused <=> list[c.place].outcome = "refused"
<1>1. PICK n \in DOMAIN list :
        /\ IsChain(list[n].kind)
        /\ c = [event |-> e, place |-> n, start |-> list[n].start, kind |-> list[n].kind,
                refused |-> list[n].outcome = "refused"]
  BY DEF ChainDirsOf
<1>2. c.event = e /\ c.place = n /\ c.start = list[n].start /\ c.kind = list[n].kind
  BY <1>1
<1>3. c.refused <=> list[n].outcome = "refused"
  BY <1>1
<1> QED
  BY <1>1, <1>2, <1>3

LEMMA DirsSplit == EventsTyped => ChainDirs = Past \cup ChainDirsOf(Now, walks)
<1> HAVE EventsTyped
<1>1. ChainDirs = UNION {ChainDirsOf(e, Events[e].walks) : e \in 1..Now}
  BY EventsAre DEF ChainDirs, EventsLaid
<1>2. \A e \in DOMAIN replayed : Events[e].walks = replayed[e].walks /\ e \in 1..Now
  BY EventsAre DEF EventsLaid
<1>3. \A c : c \in ChainDirs <=> \E e \in 1..Now : c \in ChainDirsOf(e, Events[e].walks)
  BY <1>1
<1>4. \A c : c \in Past <=> \E e \in DOMAIN replayed : c \in ChainDirsOf(e, replayed[e].walks)
  BY DEF Past
<1>5. Events[Now].walks = walks /\ Now \in 1..Now /\ \A e \in 1..Now : e \in DOMAIN replayed \/ e = Now
  BY EventsAre DEF EventsLaid
<1>6. \A c : c \in ChainDirs <=> c \in Past \/ c \in ChainDirsOf(Now, walks)
  BY <1>2, <1>3, <1>4, <1>5
<1> QED
  BY <1>6

LEMMA DirsPlaced ==
  ASSUME EventsTyped
  PROVE  /\ \A c \in Past : c.event \in 1..Now /\ c.event < Now /\ c.place \in Nat
         /\ \A c \in ChainDirsOf(Now, walks) :
              c.event = Now /\ c.place \in Nat /\ c.place <= Len(walks)
         /\ \A c \in ChainDirs : c.event \in 1..Now /\ c.place \in Nat /\ c.kind \in ChainNames
<1>1. \A e \in DOMAIN replayed : DOMAIN replayed[e].walks \subseteq Nat
  <2> TAKE e \in DOMAIN replayed
  <2>1. replayed[e] \in EventRecord
    BY DEF EventsTyped
  <2>2. replayed[e].walks \in Seq(WalkRecord)
    BY <2>1 DEF EventRecord
  <2> QED
    BY <2>2
<1>2. \A c \in Past : c.event \in 1..Now /\ c.event < Now /\ c.place \in Nat /\ c.kind \in ChainNames
  <2> TAKE c \in Past
  <2>1. PICK e \in DOMAIN replayed : c \in ChainDirsOf(e, replayed[e].walks)
    BY DEF Past
  <2>2. c.event = e /\ c.place \in DOMAIN replayed[e].walks /\ IsChain(c.kind)
    BY <2>1, PlaceOf
  <2>3. e \in 1..Now /\ e < Now
    BY EventsAre DEF EventsLaid
  <2> QED
    BY <1>1, <2>2, <2>3 DEF IsChain, ChainNames
<1>3. \A c \in ChainDirsOf(Now, walks) :
        c.event = Now /\ c.place \in 1..Len(walks) /\ c.kind \in ChainNames
  <2> TAKE c \in ChainDirsOf(Now, walks)
  <2>1. c.event = Now /\ c.place \in DOMAIN walks /\ IsChain(c.kind)
    BY PlaceOf
  <2> QED
    BY <2>1 DEF EventsTyped, IsChain, ChainNames
<1>4. Now \in 1..Now /\ Len(walks) \in Nat
  BY EventsAre DEF EventsTyped, EventsLaid
<1> QED
  BY <1>2, <1>3, <1>4, DirsSplit

-----------------------------------------------------------------------------
(* A step of the walker of the present block.                               *)

LEMMA SameEvents ==
  ASSUME EventsTyped, EventsTyped', UNCHANGED <<replayed, event>>
  PROVE  /\ Now' = Now /\ Past' = Past /\ DOMAIN Events' = DOMAIN Events
         /\ \A e \in 1..Now : Events'[e].event = Events[e].event
         /\ \A e \in 1..Now : e # Now => Events'[e].warnings = Events[e].warnings
         /\ Events'[Now].warnings = cycle_guard_warnings'
         /\ \A i \in Nat, j \in 1..Now : SameMap(i, j)' <=> SameMap(i, j)
<1>1. Now' = Now /\ Past' = Past
  BY DEF Now, Past
<1>2. /\ Now \in Nat /\ DOMAIN Events = 1..Now
      /\ \A e \in DOMAIN replayed : Events[e] = replayed[e]
      /\ Events[Now].event = event
      /\ \A e \in 1..Now : e \in DOMAIN replayed \/ e = Now
  BY EventsAre DEF EventsLaid
<1>0. EventsLaid'
  BY EventsAre, PTL
<1>3. /\ DOMAIN Events' = 1..Now' /\ \A e \in DOMAIN replayed' : Events'[e] = replayed'[e]
      /\ Events'[Now'].event = event' /\ Events'[Now'].warnings = cycle_guard_warnings'
  BY <1>0 DEF EventsLaid
<1>4. \A e \in 1..Now : Events'[e].event = Events[e].event
  BY <1>1, <1>2, <1>3
<1>5. \A i \in Nat, j \in 1..Now : SameMap(i, j)' <=> SameMap(i, j)
  <2> TAKE i \in Nat, j \in 1..Now
  <2>1. \A e \in (i + 1)..j : e \in 1..Now
    BY <1>2
  <2> QED
    BY <1>4, <2>1 DEF SameMap
<1> QED
  BY <1>1, <1>2, <1>3, <1>4, <1>5

LEMMA AsideTyped == ASSUME EventsTyped, Aside, WalkInv', UNCHANGED <<replayed, event>> PROVE EventsTyped'
<1>1. Typed'
  BY DEF WalkInv
<1> QED
  BY <1>1 DEF EventsTyped, Aside, Typed

LEMMA AsideKeeps ==
  ASSUME ReplayInv, Aside, WalkInv', UNCHANGED <<replayed, event>>
  PROVE  ReplayInv'
<1>1. /\ EventsTyped /\ EventsTyped' /\ Guarded /\ RefusedIfClaimed /\ WarningsNameFirstClaim
      /\ SameChainDirs(walks, walks') /\ UNCHANGED <<chain_guard, cycle_guard_warnings>>
  BY AsideTyped DEF ReplayInv, Aside
<1>2. /\ Now' = Now /\ Past' = Past /\ DOMAIN Events' = DOMAIN Events
      /\ \A e \in 1..Now : e # Now => Events'[e].warnings = Events[e].warnings
      /\ Events'[Now].warnings = cycle_guard_warnings'
      /\ \A i \in Nat, j \in 1..Now : SameMap(i, j)' <=> SameMap(i, j)
  BY <1>1, SameEvents
<1>3. /\ DOMAIN Events = 1..Now /\ Now \in 1..Now
      /\ Events[Now].warnings = cycle_guard_warnings
  BY <1>1, EventsAre DEF EventsLaid
<1>4. ChainDirs' = ChainDirs
  <2>1. ChainDirsOf(Now, walks') = ChainDirsOf(Now, walks)
    BY <1>1, SameDirs
  <2>2. ChainDirs = Past \cup ChainDirsOf(Now, walks)
    BY <1>1, DirsSplit
  <2>3. ChainDirs' = Past' \cup ChainDirsOf(Now', walks')
    <3>1. (ChainDirs = Past \cup ChainDirsOf(Now, walks))'
      BY <1>1, DirsSplit, PTL
    <3> QED
      BY <3>1
  <2> QED
    BY <1>2, <2>1, <2>2, <2>3
<1>5. \A c \in ChainDirs : c.event \in Nat /\ c.event \in 1..Now
  BY <1>1, DirsPlaced
<1>6. \A d \in ChainDirs : Claimants(d)' = Claimants(d)
  <2> TAKE d \in ChainDirs
  <2>1. \A c \in ChainDirs : SameMap(c.event, d.event)' <=> SameMap(c.event, d.event)
    BY <1>2, <1>5
  <2> QED
    BY <1>4, <2>1 DEF Claimants, CameBefore
<1>7. \A a : Since(a)' = Since(a)
  <2> TAKE a
  <2>1. \A c \in ChainDirs : SameMap(c.event, Now)' <=> SameMap(c.event, Now)
    BY <1>2, <1>3, <1>5 DEF SameMap
  <2> QED
    BY <1>4, <2>1 DEF Since
<1>8. RefusedIfClaimed'
  BY <1>1, <1>4, <1>6 DEF RefusedIfClaimed
<1>9. Guarded'
  BY <1>1, <1>7 DEF Guarded, CameBefore
<1>10. WarningsNameFirstClaim'
  <2>1. \A e \in DOMAIN Events : Events'[e].warnings = Events[e].warnings
    BY <1>1, <1>2, <1>3
  <2> QED
    <3> DEFINE At(e) == {d \in ChainDirs : d.event = e /\ d.refused}
    <3>1. \A e \in DOMAIN Events : At(e) = {} => Events[e].warnings = <<>>
      BY <1>1 DEF WarningsNameFirstClaim
    <3>2. \A e \in DOMAIN Events : \A d \in At(e) : \E c \in Claimants(d) :
            /\ \A other \in Claimants(d) : other = c \/ CameBefore(c, other)
            /\ Events[e].warnings = <<[dir |-> d.kind, prev |-> c.kind]>>
      BY <1>1 DEF WarningsNameFirstClaim
    <3>3. \A e : At(e)' = At(e) /\ \A d \in At(e) : Claimants(d)' = Claimants(d)
      BY <1>4, <1>6
    <3> HIDE DEF At
    <3>4. \A e \in DOMAIN Events' : At(e) = {} => Events'[e].warnings = <<>>
      BY <1>2, <2>1, <3>1
    <3>5. \A e \in DOMAIN Events' : \A d \in At(e) : \E c \in Claimants(d) :
            /\ \A other \in Claimants(d) : other = c \/ CameBefore(c, other)
            /\ Events'[e].warnings = <<[dir |-> d.kind, prev |-> c.kind]>>
      BY <1>2, <2>1, <3>2
    <3>6. \A e \in DOMAIN Events' : \A d \in At(e) : \E c \in Claimants(d)' :
            /\ \A other \in Claimants(d)' : other = c \/ CameBefore(c, other)
            /\ Events'[e].warnings = <<[dir |-> d.kind, prev |-> c.kind]>>
      BY <3>3, <3>5
    <3> QED
      BY <3>3, <3>4, <3>6, ZenonT(60) DEF WarningsNameFirstClaim, CameBefore, At
<1>11. RefusalEnds'
  <2>1. HasRefused(walks') => HasRefused(walks)
    BY <1>1 DEF HasRefused, SameChainDirs
  <2> QED
    BY <2>1 DEF ReplayInv, RefusalEnds, Aside
<1> QED
  BY <1>1, <1>8, <1>9, <1>10, <1>11 DEF ReplayInv

\* One more chain directory, behind all the others.
LEMMA NewDir ==
  ASSUME EventsTyped, EventsTyped', UNCHANGED <<replayed, event>>,
         NEW walk \in WalkRecord, IsChain(walk.kind), walks' = Append(walks, walk)
  PROVE  \E d : /\ d.event = Now /\ d.start = walk.start /\ d.kind = walk.kind
                /\ (d.refused <=> walk.outcome = "refused")
                /\ ChainDirs' = ChainDirs \cup {d}
                /\ \A c \in ChainDirs : CameBefore(c, d) /\ ~CameBefore(d, c) /\ c # d
                /\ \A c \in ChainDirs : Claimants(c)' = Claimants(c)
                /\ Claimants(d)' = Since(d.start)
                /\ \A a : Since(a)' = Since(a) \cup (IF a = d.start THEN {d} ELSE {})
<1>0. PICK place : place = Len(walks) + 1
  OBVIOUS
<1>b. PICK d : d = [event |-> Now, place |-> place, start |-> walk.start, kind |-> walk.kind,
                    refused |-> walk.outcome = "refused"]
  OBVIOUS
<1>1. /\ d.event = Now /\ d.place = place /\ d.start = walk.start /\ d.kind = walk.kind
      /\ (d.refused <=> walk.outcome = "refused")
  BY <1>b
<1>2. /\ DOMAIN walks' = 1..place /\ walks'[place] = walk /\ DOMAIN walks = 1..Len(walks)
      /\ \A n \in DOMAIN walks : walks'[n] = walks[n]
      /\ Len(walks) \in Nat
  BY <1>0 DEF EventsTyped
<1>3. ChainDirsOf(Now, walks') = ChainDirsOf(Now, walks) \cup {d}
  <2> DEFINE Row(n, w) == [event |-> Now, place |-> n, start |-> w.start, kind |-> w.kind,
                           refused |-> w.outcome = "refused"]
             Chain(list) == {n \in DOMAIN list : IsChain(list[n].kind)}
  <2>1. ChainDirsOf(Now, walks) = {Row(n, walks[n]) : n \in Chain(walks)}
    BY DEF ChainDirsOf
  <2>2. ChainDirsOf(Now, walks') = {Row(n, walks'[n]) : n \in Chain(walks')}
    BY DEF ChainDirsOf
  <2>3. \A n \in 1..place : n \in DOMAIN walks \/ n = place
    BY <1>0, <1>2
  <2>4. DOMAIN walks \subseteq 1..place /\ place \in 1..place
    BY <1>0, <1>2
  <2>5. Chain(walks') = Chain(walks) \cup {place}
    BY <1>2, <2>3, <2>4
  <2>6. d = Row(place, walk)
    BY <1>b
  <2>7. \A n \in Chain(walks) : walks'[n] = walks[n]
    BY <1>2
  <2> HIDE DEF Row, Chain
  <2> QED
    BY <1>2, <2>1, <2>2, <2>5, <2>6, <2>7
<1>4. /\ Now' = Now /\ Past' = Past
      /\ \A i \in Nat, j \in 1..Now : SameMap(i, j)' <=> SameMap(i, j)
  BY SameEvents
<1>5. ChainDirs' = ChainDirs \cup {d}
  <2>1. ChainDirs = Past \cup ChainDirsOf(Now, walks)
    BY DirsSplit
  <2>2. (ChainDirs = Past \cup ChainDirsOf(Now, walks))'
    BY DirsSplit, PTL
  <2>3. ChainDirs' = Past' \cup ChainDirsOf(Now', walks')
    BY <2>2
  <2> QED
    BY <1>3, <1>4, <2>1, <2>3
<1>6. /\ \A c \in ChainDirs : c.event \in Nat /\ c.event \in 1..Now /\ c.place \in Nat
      /\ Now \in Nat /\ Now \in 1..Now
  BY DirsPlaced, EventsAre DEF EventsLaid
<1>7. \A c \in ChainDirs : CameBefore(c, d) /\ ~CameBefore(d, c) /\ c # d
  <2> TAKE c \in ChainDirs
  <2>1. c \in Past \/ c \in ChainDirsOf(Now, walks)
    BY DirsSplit
  <2>2. c.event < Now \/ (c.event = Now /\ c.place <= Len(walks))
    BY <2>1, DirsPlaced
  <2>3. c.event < Now \/ (c.event = Now /\ c.place < place)
    BY <1>0, <1>2, <1>6, <2>2
  <2>4. ~(Now < c.event) /\ (c.event = Now => ~(place < c.place)) /\ (c.event < Now \/ c.place # place)
    BY <1>0, <1>2, <1>6, <2>3
  <2>5. c # d
    <3> SUFFICES ASSUME c = d PROVE FALSE
      OBVIOUS
    <3> QED
      BY <1>1, <1>6, <2>4
  <2> QED
    BY <1>1, <2>3, <2>4, <2>5 DEF CameBefore
<1>8. \A c, e \in ChainDirs : SameMap(e.event, c.event)' <=> SameMap(e.event, c.event)
  BY <1>4, <1>6
<1>9. \A c \in ChainDirs : Claimants(c)' = Claimants(c)
  <2> TAKE c \in ChainDirs
  <2>1. Claimants(c)' = {e \in ChainDirs' : e.start = c.start /\ CameBefore(e, c)
                                           /\ SameMap(e.event, c.event)'}
    BY DEF Claimants, CameBefore
  <2> QED
    BY <1>5, <1>7, <1>8, <2>1 DEF Claimants
<1>10. \A c \in ChainDirs : SameMap(c.event, Now)' <=> SameMap(c.event, Now)
  BY <1>4, <1>6 DEF SameMap
<1>11. Claimants(d)' = Since(d.start)
  <2>1. Claimants(d)' = {e \in ChainDirs' : e.start = d.start /\ CameBefore(e, d)
                                           /\ SameMap(e.event, d.event)'}
    BY DEF Claimants, CameBefore
  <2>2. ~CameBefore(d, d)
    BY <1>0, <1>1, <1>2, <1>6 DEF CameBefore
  <2>3. \A e \in ChainDirs : SameMap(e.event, d.event)' <=> SameMap(e.event, Now)
    BY <1>1, <1>4, <1>6
  <2> QED
    BY <1>5, <1>7, <2>1, <2>2, <2>3 DEF Since
<1>12. \A a : Since(a)' = Since(a) \cup (IF a = d.start THEN {d} ELSE {})
  <2> TAKE a
  <2>1. Since(a)' = {e \in ChainDirs' : e.start = a /\ SameMap(e.event, Now)'}
    BY DEF Since
  <2>2. SameMap(d.event, Now)'
    <3>1. \A n \in (Now + 1)..Now : FALSE
      BY <1>6
    <3> QED
      BY <1>1, <1>4, <3>1 DEF SameMap
  <2> QED
    BY <1>5, <1>10, <2>1, <2>2 DEF Since
<1> QED
  BY <1>1, <1>5, <1>7, <1>9, <1>11, <1>12

\* What NewDir says of the directory that a step adds.
Added(d) ==
  /\ d.event = Now
  /\ ChainDirs' = ChainDirs \cup {d}
  /\ \A c \in ChainDirs : CameBefore(c, d) /\ ~CameBefore(d, c) /\ c # d
  /\ \A c \in ChainDirs : Claimants(c)' = Claimants(c)
  /\ Claimants(d)' = Since(d.start)
  /\ \A a : Since(a)' = Since(a) \cup (IF a = d.start THEN {d} ELSE {})

\* The refused of an event, and the warning that is due for one of them.
RefusedAt(e) == {d \in ChainDirs : d.event = e /\ d.refused}
NamesFirst(d, warnings) ==
  \E c \in Claimants(d) :
    /\ \A other \in Claimants(d) : other = c \/ CameBefore(c, other)
    /\ warnings = <<[dir |-> d.kind, prev |-> c.kind]>>
WarnedRight(e) ==
  /\ RefusedAt(e) = {} => Events[e].warnings = <<>>
  /\ \A d \in RefusedAt(e) : NamesFirst(d, Events[e].warnings)

LEMMA WarningsMean == WarningsNameFirstClaim <=> \A e \in DOMAIN Events : WarnedRight(e)
BY DEF WarningsNameFirstClaim, WarnedRight, RefusedAt, NamesFirst

\* The directories that were there are named as before.
LEMMA SameNames ==
  ASSUME NEW d, Claimants(d)' = Claimants(d), NEW warnings, NamesFirst(d, warnings)
  PROVE  \E c \in Claimants(d)' :
           /\ \A other \in Claimants(d)' : other = c \/ CameBefore(c, other)
           /\ warnings = <<[dir |-> d.kind, prev |-> c.kind]>>
BY DEF NamesFirst

LEMMA AddedKeeps ==
  ASSUME EventsTyped, EventsTyped', UNCHANGED <<replayed, event>>, RefusedIfClaimed,
         WarningsNameFirstClaim, NEW d, Added(d)
  PROVE  /\ (d.refused <=> Since(d.start) # {}) => RefusedIfClaimed'
         /\ \A e \in DOMAIN Events : e # Now => WarnedRight(e)'
         /\ ~d.refused /\ UNCHANGED cycle_guard_warnings => WarnedRight(Now)'
<1>1. (d.refused <=> Since(d.start) # {}) => RefusedIfClaimed'
  BY DEF RefusedIfClaimed, Added
<1>2. /\ Now' = Now
      /\ \A e \in 1..Now : e # Now => Events'[e].warnings = Events[e].warnings
      /\ Events'[Now].warnings = cycle_guard_warnings'
  BY SameEvents
<1>3. DOMAIN Events = 1..Now /\ Now \in 1..Now /\ Events[Now].warnings = cycle_guard_warnings
  BY EventsAre DEF EventsLaid
<1>4. \A e \in DOMAIN Events : WarnedRight(e)
  BY WarningsMean
<1>5. \A e \in DOMAIN Events :
        RefusedAt(e)' = RefusedAt(e) /\ Events'[e].warnings = Events[e].warnings => WarnedRight(e)'
  <2> TAKE e \in DOMAIN Events
  <2> HAVE RefusedAt(e)' = RefusedAt(e) /\ Events'[e].warnings = Events[e].warnings
  <2>1. RefusedAt(e) = {} => Events[e].warnings = <<>>
    BY <1>4 DEF WarnedRight
  <2>2. \A c \in RefusedAt(e) : NamesFirst(c, Events[e].warnings) /\ c \in ChainDirs
    BY <1>4 DEF WarnedRight, RefusedAt
  <2>3. \A c \in RefusedAt(e) : \E first \in Claimants(c)' :
          /\ \A other \in Claimants(c)' : other = first \/ CameBefore(first, other)
          /\ Events[e].warnings = <<[dir |-> c.kind, prev |-> first.kind]>>
    BY <2>2, SameNames DEF Added
  <2> QED
    BY <2>1, <2>3 DEF WarnedRight, NamesFirst, CameBefore
<1>6. \A e : e # Now \/ ~d.refused => RefusedAt(e)' = RefusedAt(e)
  BY DEF RefusedAt, Added
<1> QED
  BY <1>1, <1>2, <1>3, <1>5, <1>6

\* The refused of the present event are those of the walks at hand.
LEMMA NoneRefused ==
  ASSUME EventsTyped, ~HasRefused(walks), WarningsNameFirstClaim
  PROVE  RefusedAt(Now) = {} /\ cycle_guard_warnings = <<>>
<1>1. RefusedAt(Now) = {}
  <2> SUFFICES ASSUME NEW c \in ChainDirs, c.event = Now, c.refused PROVE FALSE
    BY DEF RefusedAt
  <2>1. c \in ChainDirsOf(Now, walks)
    BY DirsSplit, DirsPlaced, EventsAre DEF EventsLaid
  <2>2. c.place \in DOMAIN walks /\ IsChain(walks[c.place].kind) /\ walks[c.place].outcome = "refused"
    BY <2>1, PlaceOf
  <2> QED
    BY <2>2 DEF HasRefused
<1>2. Now \in DOMAIN Events /\ Events[Now].warnings = cycle_guard_warnings
  BY EventsAre DEF EventsLaid
<1>3. WarnedRight(Now)
  BY <1>2, WarningsMean
<1> QED
  BY <1>1, <1>2, <1>3 DEF WarnedRight

LEMMA NewDirAdded ==
  ASSUME EventsTyped, EventsTyped', UNCHANGED <<replayed, event>>,
         NEW walk \in WalkRecord, IsChain(walk.kind), walks' = Append(walks, walk)
  PROVE  \E d : /\ Added(d) /\ d.start = walk.start /\ d.kind = walk.kind
                /\ (d.refused <=> walk.outcome = "refused")
BY NewDir DEF Added

\* The walk of a chain directory is added behind the others.
LEMMA ChainStep ==
  ASSUME WalkInv, InChain, NEW outcome \in Outcomes,
         walks' = Append(walks, Walk(offset, ChainKind, outcome))
  PROVE  /\ Walk(offset, ChainKind, outcome) \in WalkRecord
         /\ Walk(offset, ChainKind, outcome).start = offset
         /\ Walk(offset, ChainKind, outcome).kind = ChainKind
         /\ Walk(offset, ChainKind, outcome).outcome = outcome
         /\ IsChain(ChainKind) /\ ChainKind \in ChainNames
         /\ walks' \in Seq(WalkRecord)
<1>1. Typed /\ ~finished /\ offset # NoAddress
  BY DEF WalkInv, InChain
<1>2. offset \in Addresses /\ ChainKind \in Kinds /\ IsChain(ChainKind)
  BY <1>1, ChainKindIsChain DEF Typed
<1> QED
  BY <1>1, <1>2, WalkTyped DEF IsChain, ChainNames

\* A directory whose address a chain directory of the present map has.
LEMMA RefuseStep ==
  ASSUME Shared, ReplayInv, RefuseChainDir, WalkInv', UNCHANGED <<replayed, event>>
  PROVE  ReplayInv'
<1>1. /\ WalkInv /\ EventsTyped /\ RefusalEnds /\ Guarded /\ RefusedIfClaimed
      /\ WarningsNameFirstClaim
  BY DEF ReplayInv
<1>2. /\ InChain /\ stack = <<>> /\ offset # NoAddress /\ offset \in DOMAIN chain_guard
      /\ cycle_guard_warnings' =
           Append(cycle_guard_warnings, [dir |-> ChainKind, prev |-> chain_guard[offset]])
      /\ walks' = Append(walks, Walk(offset, ChainKind, "refused"))
      /\ offset' = NoAddress /\ stack' = stack /\ chain_guard' = chain_guard
  BY DEF RefuseChainDir, InChain
<1> DEFINE walk == Walk(offset, ChainKind, "refused")
<1>3. /\ walk \in WalkRecord /\ walk.start = offset /\ walk.kind = ChainKind
      /\ walk.outcome = "refused" /\ IsChain(walk.kind) /\ ChainKind \in ChainNames
      /\ walks' \in Seq(WalkRecord) /\ walks' = Append(walks, walk)
  <2>1. "refused" \in Outcomes
    BY DEF Outcomes
  <2> QED
    BY <1>1, <1>2, <2>1, ChainStep
<1> HIDE DEF walk
<1>4. PICK first \in Since(offset) :
        /\ \A other \in Since(offset) : other = first \/ CameBefore(first, other)
        /\ chain_guard[offset] = first.kind
  BY <1>1, <1>2 DEF Guarded
<1>5. first \in ChainDirs /\ first.kind \in ChainNames
  BY <1>1, <1>4, DirsPlaced DEF Since
<1>6. PICK warning \in Refusal : warning = [dir |-> ChainKind, prev |-> first.kind]
  BY <1>3, <1>5 DEF Refusal
<1>7. cycle_guard_warnings = <<>> /\ RefusedAt(Now) = {}
  BY <1>1, <1>2, NoneRefused DEF RefusalEnds
<1>8. cycle_guard_warnings' = <<warning>> /\ cycle_guard_warnings' \in Seq(Refusal)
  BY <1>2, <1>4, <1>6, <1>7
<1>9. EventsTyped'
  BY <1>1, <1>3, <1>8 DEF EventsTyped
<1>10. PICK d : Added(d) /\ d.start = offset /\ d.kind = ChainKind /\ d.refused
  BY <1>1, <1>3, <1>9, NewDirAdded
<1>11. RefusedIfClaimed' /\ \A e \in DOMAIN Events : e # Now => WarnedRight(e)'
  BY <1>1, <1>4, <1>9, <1>10, AddedKeeps
<1>12. WarningsNameFirstClaim'
  <2>1. RefusedAt(Now)' = {d} /\ d \in RefusedAt(Now)'
    <3>1. Now' = Now
      BY DEF Now
    <3> QED
      BY <1>7, <1>10, <3>1 DEF RefusedAt, Added
  <2>2. Claimants(d)' = Since(offset)
    BY <1>10 DEF Added
  <2>3. DOMAIN Events' = DOMAIN Events /\ Events'[Now].warnings = <<warning>>
    BY <1>1, <1>8, <1>9, SameEvents
  <2>4. \E c \in Claimants(d)' :
          /\ \A other \in Claimants(d)' : other = c \/ CameBefore(c, other)
          /\ Events'[Now].warnings = <<[dir |-> d.kind, prev |-> c.kind]>>
    BY <1>4, <1>6, <1>10, <2>2, <2>3
  <2>5. WarnedRight(Now)'
    BY <2>1, <2>4 DEF WarnedRight, NamesFirst, CameBefore, Now
  <2>6. (\A e \in DOMAIN Events : WarnedRight(e))'
    <3>1. Now' = Now
      BY DEF Now
    <3>2. \A e \in DOMAIN Events' : WarnedRight(e)'
      BY <1>11, <2>3, <2>5, <3>1
    <3> QED
      BY <3>2
  <2> QED
    BY <2>6, WarningsMean, PTL
<1>13. Guarded'
  <2>1. \A a : Since(a)' = Since(a) \cup (IF a = offset THEN {d} ELSE {})
    BY <1>10 DEF Added
  <2>2. \A a \in DOMAIN chain_guard : \A c \in Since(a) : CameBefore(c, d)
    BY <1>10 DEF Added, Since
  <2>3. \A a : a \in DOMAIN chain_guard' <=> Since(a)' # {}
    BY <1>1, <1>2, <2>1 DEF Guarded
  <2>4. \A a \in DOMAIN chain_guard' : \E c \in Since(a)' :
          /\ \A other \in Since(a)' : other = c \/ CameBefore(c, other)
          /\ chain_guard'[a] = c.kind
    <3> TAKE a \in DOMAIN chain_guard'
    <3>1. PICK c \in Since(a) :
            /\ \A other \in Since(a) : other = c \/ CameBefore(c, other)
            /\ chain_guard[a] = c.kind
      BY <1>1, <1>2 DEF Guarded
    <3>2. c \in Since(a)' /\ \A other \in Since(a)' : other = c \/ CameBefore(c, other)
      BY <1>2, <2>1, <2>2, <3>1
    <3> QED
      BY <1>2, <3>1, <3>2
  <2> QED
    BY <2>3, <2>4 DEF Guarded, CameBefore
<1>14. RefusalEnds'
  BY <1>2 DEF RefusalEnds
<1> QED
  BY <1>9, <1>11, <1>12, <1>13, <1>14 DEF ReplayInv

\* A directory whose address no chain directory of the present map has.
LEMMA WalkStep ==
  ASSUME ReplayInv, WalkChainDir, WalkInv', UNCHANGED <<replayed, event>>
  PROVE  ReplayInv'
<1>1. /\ WalkInv /\ EventsTyped /\ RefusalEnds /\ Guarded /\ RefusedIfClaimed
      /\ WarningsNameFirstClaim
  BY DEF ReplayInv
<1>2. /\ InChain /\ stack = <<>> /\ offset # NoAddress /\ offset \notin DOMAIN chain_guard
      /\ cycle_guard_warnings' = cycle_guard_warnings
      /\ \E body \in Bodies(offset) : Open(offset, ChainKind, body) /\ Claim(offset)
  BY DEF WalkChainDir, InChain
<1>3. PICK outcome \in {"broken", "open"} : walks' = Append(walks, Walk(offset, ChainKind, outcome))
  BY <1>2 DEF Open
<1>4. Claim(offset)
  BY <1>2
<1> DEFINE walk == Walk(offset, ChainKind, outcome)
<1>5. /\ walk \in WalkRecord /\ walk.start = offset /\ walk.kind = ChainKind
      /\ walk.outcome # "refused" /\ IsChain(walk.kind)
      /\ walks' \in Seq(WalkRecord) /\ walks' = Append(walks, walk)
  <2>1. outcome \in Outcomes /\ outcome # "refused"
    BY DEF Outcomes
  <2> QED
    BY <1>1, <1>2, <1>3, <2>1, ChainStep
<1> HIDE DEF walk
<1>6. EventsTyped'
  BY <1>1, <1>2, <1>5 DEF EventsTyped
<1>7. PICK d : Added(d) /\ d.start = offset /\ d.kind = ChainKind /\ ~d.refused
  BY <1>1, <1>5, <1>6, NewDirAdded
<1>8. Since(offset) = {}
  BY <1>1, <1>2 DEF Guarded
<1>9. /\ RefusedIfClaimed'
      /\ \A e \in DOMAIN Events : e # Now => WarnedRight(e)'
      /\ WarnedRight(Now)'
  BY <1>1, <1>2, <1>6, <1>7, <1>8, AddedKeeps
<1>10. WarningsNameFirstClaim'
  <2>1. DOMAIN Events' = DOMAIN Events
    BY <1>1, <1>6, SameEvents
  <2>2. (\A e \in DOMAIN Events : WarnedRight(e))'
    <3>1. Now' = Now
      BY DEF Now
    <3>2. \A e \in DOMAIN Events' : WarnedRight(e)'
      BY <1>9, <2>1, <3>1
    <3> QED
      BY <3>2
  <2> QED
    BY <2>2, WarningsMean, PTL
<1>11. Guarded'
  <2>1. \A a : Since(a)' = Since(a) \cup (IF a = offset THEN {d} ELSE {})
    BY <1>7 DEF Added
  <2>2. /\ DOMAIN chain_guard' = DOMAIN chain_guard \cup {offset}
        /\ chain_guard'[offset] = ChainKind
        /\ \A a \in DOMAIN chain_guard : chain_guard'[a] = chain_guard[a] /\ a # offset
    BY <1>2, <1>4 DEF Claim
  <2>3. \A a : a \in DOMAIN chain_guard' <=> Since(a)' # {}
    BY <1>1, <2>1, <2>2 DEF Guarded
  <2>4. \A a \in DOMAIN chain_guard' : \E c \in Since(a)' :
          /\ \A other \in Since(a)' : other = c \/ CameBefore(c, other)
          /\ chain_guard'[a] = c.kind
    <3> TAKE a \in DOMAIN chain_guard'
    <3>1. CASE a = offset
      <4>1. Since(a)' = {d}
        BY <1>8, <2>1, <3>1
      <4> QED
        BY <1>7, <2>2, <3>1, <4>1
    <3>2. CASE a # offset
      <4>1. PICK c \in Since(a) :
              /\ \A other \in Since(a) : other = c \/ CameBefore(c, other)
              /\ chain_guard[a] = c.kind
        BY <1>1, <2>2, <3>2 DEF Guarded
      <4>2. Since(a)' = Since(a) /\ chain_guard'[a] = chain_guard[a]
        BY <2>1, <2>2, <3>2
      <4> QED
        BY <4>1, <4>2
    <3> QED
      BY <3>1, <3>2
  <2> QED
    BY <2>3, <2>4 DEF Guarded, CameBefore
<1>12. RefusalEnds'
  <2>1. ~HasRefused(walks)
    BY <1>1, <1>2 DEF RefusalEnds
  <2>2. ~HasRefused(walks')
    BY <1>1, <1>5, <2>1, OneMoreWalk DEF HasRefused, WalkInv
  <2> QED
    BY <2>2 DEF RefusalEnds
<1> QED
  BY <1>6, <1>9, <1>10, <1>11, <1>12 DEF ReplayInv

\* A step of the walker of the present block.
LEMMA WalkerStep ==
  ASSUME Shared, ReplayInv, [Next]_vars, UNCHANGED <<replayed, event>>
  PROVE  ReplayInv'
<1>1. WalkInv /\ WalkInv'
  BY NextWalks DEF ReplayInv
<1>2. WalkChainDir \/ RefuseChainDir \/ Aside
  BY <1>1, OthersAside
<1> QED
  BY <1>1, <1>2, WalkStep, RefuseStep, AsideKeeps

-----------------------------------------------------------------------------
(* The next event.                                                          *)

\* A new walker starts, on another block or on none.
LEMMA NewWalker ==
  ASSUME WalkInv, finished, NEW kind, Replay(kind),
         ReplayNothing \/ ReplayBlock
  PROVE  WalkInv'
<1>1. /\ Typed /\ ReadSoFar /\ PutAside /\ warn_count <= MaxWarnings + 1 /\ PathNeverRepeats
      /\ ChainSound
  BY DEF WalkInv
<1>2. stack = <<>> /\ active_ifd_offsets = <<>> /\ active_table = "Exif"
  <2>1. stack = <<>>
    BY <1>1 DEF Typed
  <2>2. Len(active_ifd_offsets) = 0
    BY <1>1, <2>1 DEF PathNeverRepeats
  <2> QED
    BY <1>1, <2>1, <2>2 DEF PutAside, Typed
<1>3. walks' = <<>> /\ chain_guard' = Processed(kind)
  BY DEF Replay
<1>4. DOMAIN chain_guard' \subseteq Addresses
  BY <1>1, <1>3 DEF Processed, Typed
<1>5. /\ file_type' = file_type /\ offset' \in Addresses \cup {NoAddress} /\ hops' \in Nat
      /\ stack' = <<>> /\ active_ifd_offsets' = <<>> /\ active_table' = "Exif"
      /\ warn_count' \in Nat /\ warn_count' <= MaxWarnings + 1
      /\ finished' \in BOOLEAN /\ (~finished' => entries' = <<>>)
      /\ disk' = disk \/ disk' = [a \in Addresses |-> Unseen]
  <2>1. CASE ReplayNothing
    BY <1>1, <1>2, <2>1 DEF ReplayNothing, Typed, found
  <2>2. CASE ReplayBlock
    <3>1. table_for_ifd_kind("IFD0") = "Exif" /\ 0 \in Nat /\ 0 <= MaxWarnings + 1
      BY LimitsAssumption DEF table_for_ifd_kind
    <3>2. /\ UNCHANGED file_type /\ offset' \in Addresses /\ hops' = 0 /\ stack' = <<>>
          /\ active_ifd_offsets' = <<>> /\ warn_count' = 0 /\ finished' = FALSE /\ entries' = <<>>
          /\ active_table' = table_for_ifd_kind("IFD0") /\ disk' = [a \in Addresses |-> Unseen]
      BY <2>2 DEF ReplayBlock
    <3> QED
      BY <3>1, <3>2
  <2> QED
    BY <2>1, <2>2
<1>6. Unseen \in Body /\ Read(Unseen)
  BY DEF Unseen, Body, Read
<1>7. disk' \in [Addresses -> Body] /\ \A a \in Addresses : Read(disk'[a])
  BY <1>1, <1>5, <1>6 DEF Typed, ReadSoFar
<1>8. Typed'
  <2>1. /\ stack' \in Seq(Dir) /\ active_ifd_offsets' \in Seq(Addresses)
        /\ walks' \in Seq(WalkRecord)
    BY <1>3, <1>5
  <2>2. ~finished' => entries' \in Seq(ALeaf)
    <3>1. <<>> \in Seq(ALeaf)
      OBVIOUS
    <3> QED
      BY <1>5, <3>1
  <2>3. file_type' \in FileTypes /\ active_table' \in Tables
    BY <1>1, <1>5 DEF Typed, Tables
  <2> QED
    BY <1>4, <1>5, <1>7, <2>1, <2>2, <2>3 DEF Typed
<1>9. DOMAIN stack' = {} /\ DOMAIN walks' = {} /\ \A n \in 2..0 : FALSE
  BY <1>3, <1>5
<1>10. (PathNeverRepeats /\ DirsOpen /\ Nested)'
  BY <1>5, <1>9 DEF PathNeverRepeats, DirsOpen, Nested
<1>11. ReadSoFar'
  BY <1>7, <1>9 DEF ReadSoFar, Read
<1>12. (PutAside /\ EndedByEntries /\ ChainSound)'
  BY <1>3, <1>5, <1>9 DEF PutAside, EndedByEntries, ChainSound
<1> QED
  BY <1>5, <1>8, <1>9, <1>10, <1>11, <1>12 DEF WalkInv

\* The events before the new one stay, and it has walked nothing yet.
LEMMA EventEnds ==
  ASSUME EventsTyped, NEW kind \in Sources, Replay(kind)
  PROVE  /\ EventsTyped'
         /\ Now' = Now + 1 /\ Now \in Nat
         /\ ChainDirs' = ChainDirs
         /\ DOMAIN Events = 1..Now /\ DOMAIN Events' = 1..(Now + 1)
         /\ \A e \in 1..Now : Events'[e] = Events[e]
         /\ Events'[Now + 1].event = kind /\ Events'[Now + 1].warnings = <<>>
<1>1. /\ replayed' = Events /\ event' = kind /\ walks' = <<>> /\ cycle_guard_warnings' = <<>>
  BY DEF Replay, Events
<1>2. EventsLaid
  BY EventsAre
<1>3. EventsTyped'
  <2>1. replayed' \in Seq(EventRecord)
    BY <1>1, <1>2 DEF EventsLaid
  <2> QED
    BY <1>1, <2>1 DEF EventsTyped
<1>4. EventsLaid'
  BY <1>3, EventsAre, PTL
<1>5. Now' = Now + 1 /\ Now \in Nat /\ DOMAIN Events = 1..Now
  <2>1. Len(Events) = Now /\ Now \in Nat
    BY <1>2 DEF EventsLaid
  <2> QED
    BY <1>1, <1>2, <2>1 DEF Now, EventsLaid
<1>6. /\ DOMAIN Events' = 1..Now' /\ \A e \in DOMAIN replayed' : Events'[e] = replayed'[e]
      /\ Events'[Now'].event = event' /\ Events'[Now'].warnings = cycle_guard_warnings'
  BY <1>4 DEF EventsLaid
<1>7. ChainDirs' = ChainDirs
  <2>1. (ChainDirs = Past \cup ChainDirsOf(Now, walks))'
    BY <1>3, DirsSplit, PTL
  <2>2. Past' = ChainDirs
    BY <1>1 DEF Past, ChainDirs
  <2>3. ChainDirsOf(Now', walks') = {}
    BY <1>1 DEF ChainDirsOf
  <2> QED
    BY <2>1, <2>2, <2>3
<1> QED
  BY <1>1, <1>3, <1>5, <1>6, <1>7

LEMMA ReplayStep ==
  ASSUME ReplayInv, WalkInv', NEW kind \in Sources, Replay(kind)
  PROVE  ReplayInv'
<1>1. /\ EventsTyped /\ Guarded /\ RefusedIfClaimed /\ WarningsNameFirstClaim
  BY DEF ReplayInv
<1>2. /\ EventsTyped' /\ Now' = Now + 1 /\ Now \in Nat /\ ChainDirs' = ChainDirs
      /\ DOMAIN Events = 1..Now /\ DOMAIN Events' = 1..(Now + 1)
      /\ \A e \in 1..Now : Events'[e] = Events[e]
      /\ Events'[Now + 1].event = kind /\ Events'[Now + 1].warnings = <<>>
  BY <1>1, EventEnds
<1>3. \A c \in ChainDirs : c.event \in Nat /\ c.event \in 1..Now
  BY <1>1, DirsPlaced
<1>4. \A i \in Nat, j \in 1..Now : SameMap(i, j)' <=> SameMap(i, j)
  <2> TAKE i \in Nat, j \in 1..Now
  <2>1. \A e \in (i + 1)..j : e \in 1..Now
    BY <1>2
  <2> QED
    BY <1>2, <2>1 DEF SameMap
<1>5. \A i \in 1..Now : SameMap(i, Now)' <=> SameMap(i, Now) /\ kind = "NativeTiff"
  <2> TAKE i \in 1..Now
  <2>1. /\ \A e \in (i + 1)..Now : e \in 1..Now /\ e \in (i + 1)..(Now + 1)
        /\ \A e \in (i + 1)..(Now + 1) : e \in (i + 1)..Now \/ e = Now + 1
        /\ Now + 1 \in (i + 1)..(Now + 1)
    BY <1>2
  <2>2. SameMap(i, Now)' <=> \A e \in (i + 1)..(Now + 1) : Events'[e].event = "NativeTiff"
    BY <1>2 DEF SameMap
  <2> QED
    BY <1>2, <2>1, <2>2 DEF SameMap
<1>6. \A c, d \in ChainDirs : SameMap(c.event, d.event)' <=> SameMap(c.event, d.event)
  BY <1>3, <1>4
<1>7. \A d \in ChainDirs : Claimants(d)' = Claimants(d)
  BY <1>2, <1>6 DEF Claimants, CameBefore
<1>8. \A a : Since(a)' = IF kind = "NativeTiff" THEN Since(a) ELSE {}
  <2> TAKE a
  <2>1. \A c \in ChainDirs : SameMap(c.event, Now)' <=> SameMap(c.event, Now) /\ kind = "NativeTiff"
    BY <1>3, <1>5
  <2>2. Since(a)' = {c \in ChainDirs' : c.start = a /\ SameMap(c.event, Now)'}
    BY DEF Since
  <2> QED
    BY <1>2, <2>1, <2>2 DEF Since
<1>9. RefusedIfClaimed'
  BY <1>1, <1>2, <1>7 DEF RefusedIfClaimed
<1>10. Guarded'
  <2>1. chain_guard' = IF kind = "NativeTiff" THEN chain_guard ELSE <<>>
    BY DEF Replay, Processed
  <2>2. CASE kind = "NativeTiff"
    BY <1>1, <1>8, <2>1, <2>2 DEF Guarded, CameBefore
  <2>3. CASE kind # "NativeTiff"
    <3>1. DOMAIN chain_guard' = {}
      BY <2>1, <2>3
    <3> QED
      BY <1>8, <2>3, <3>1 DEF Guarded
  <2> QED
    BY <2>2, <2>3
<1>11. WarningsNameFirstClaim'
  <2>1. \A e : RefusedAt(e)' = RefusedAt(e)
    BY <1>2 DEF RefusedAt
  <2>2. \A e \in 1..Now : WarnedRight(e)'
    <3> TAKE e \in 1..Now
    <3>1. WarnedRight(e)
      BY <1>1, <1>2, WarningsMean
    <3>2. RefusedAt(e) = {} => Events'[e].warnings = <<>>
      BY <1>2, <3>1 DEF WarnedRight
    <3>3. \A d \in RefusedAt(e) : \E c \in Claimants(d)' :
            /\ \A other \in Claimants(d)' : other = c \/ CameBefore(c, other)
            /\ Events'[e].warnings = <<[dir |-> d.kind, prev |-> c.kind]>>
      <4> TAKE d \in RefusedAt(e)
      <4>1. NamesFirst(d, Events[e].warnings) /\ d \in ChainDirs
        BY <3>1 DEF WarnedRight, RefusedAt
      <4>2. Claimants(d)' = Claimants(d)
        BY <1>7, <4>1
      <4>3. Events'[e].warnings = Events[e].warnings
        BY <1>2
      <4>4. \E c \in Claimants(d)' :
              /\ \A other \in Claimants(d)' : other = c \/ CameBefore(c, other)
              /\ Events[e].warnings = <<[dir |-> d.kind, prev |-> c.kind]>>
        BY <4>1, <4>2, SameNames, Zenon
      <4> QED
        BY <4>3, <4>4, ZenonT(60)
    <3> QED
      BY <2>1, <3>2, <3>3 DEF WarnedRight, NamesFirst, CameBefore
  <2>3. WarnedRight(Now)'
    <3>1. RefusedAt(Now)' = {}
      BY <1>2, <1>3 DEF RefusedAt
    <3> QED
      BY <1>2, <3>1 DEF WarnedRight
  <2>4. (\A e \in DOMAIN Events : WarnedRight(e))'
    <3>1. \A e \in DOMAIN Events' : e \in 1..Now \/ e = Now'
      BY <1>2
    <3>2. \A e \in DOMAIN Events' : WarnedRight(e)'
      BY <2>2, <2>3, <3>1
    <3> QED
      BY <3>2
  <2> QED
    BY <2>4, WarningsMean, PTL
<1>12. RefusalEnds'
  <2>1. walks' = <<>>
    BY DEF Replay
  <2> QED
    BY <2>1 DEF RefusalEnds, HasRefused
<1> QED
  BY <1>2, <1>9, <1>10, <1>11, <1>12 DEF ReplayInv

-----------------------------------------------------------------------------
(* The file.                                                                *)

LEMMA ReplayStarts == ReplayInit => ReplayInv
<1> SUFFICES ASSUME ReplayInit PROVE ReplayInv
  OBVIOUS
<1>1. /\ Fresh /\ offset = NoAddress /\ finished \in BOOLEAN
      /\ event = "ResetOnlyProfile" /\ replayed = <<>> /\ walks = <<>>
      /\ chain_guard = <<>> /\ cycle_guard_warnings = <<>>
  BY DEF ReplayInit, Fresh
<1>2. WalkInv
  BY <1>1, InitWalks
<1>3. EventsTyped
  BY <1>1 DEF EventsTyped, Sources
<1>4. ChainDirs = {}
  <2>1. Past = {} /\ ChainDirsOf(Now, walks) = {}
    BY <1>1 DEF Past, ChainDirsOf
  <2> QED
    BY <1>3, <2>1, DirsSplit
<1>5. RefusedIfClaimed
  BY <1>4 DEF RefusedIfClaimed
<1>6. Guarded
  BY <1>1, <1>4 DEF Guarded, Since
<1>7. RefusalEnds
  BY <1>1 DEF RefusalEnds, HasRefused
<1>8. WarningsNameFirstClaim
  <2>1. DOMAIN Events = 1..Now /\ Now = 1 /\ Events[Now].warnings = <<>>
    BY <1>1, <1>3, EventsAre DEF EventsLaid, Now
  <2>2. \A e \in DOMAIN Events : e = Now
    BY <2>1
  <2>3. \A e \in DOMAIN Events : WarnedRight(e)
    BY <1>4, <2>1, <2>2 DEF WarnedRight, RefusedAt
  <2> QED
    BY <2>3, WarningsMean
<1> QED
  BY <1>2, <1>3, <1>5, <1>6, <1>7, <1>8 DEF ReplayInv

LEMMA ReplayInductive ==
  ASSUME Shared
  PROVE  ReplayInv /\ [ReplayNext]_replayVars => ReplayInv'
<1> SUFFICES ASSUME ReplayInv, [ReplayNext]_replayVars PROVE ReplayInv'
  OBVIOUS
<1>1. CASE [Next]_vars /\ UNCHANGED <<replayed, event>>
  BY <1>1, WalkerStep
<1>2. CASE ReplayNothing \/ ReplayBlock
  <2>1. PICK kind \in Sources : Replay(kind)
    BY <1>2 DEF ReplayNothing, ReplayBlock, Sources
  <2>2. WalkInv /\ finished
    BY <2>1 DEF ReplayInv, Replay
  <2>3. WalkInv'
    BY <1>2, <2>1, <2>2, NewWalker
  <2> QED
    BY <2>1, <2>3, ReplayStep
<1> QED
  BY <1>1, <1>2 DEF ReplayNext, replayVars

LEMMA ReplayHolds ==
  ASSUME Shared
  PROVE  ReplaySpec => []ReplayInv
<1>1. ReplayInv /\ [ReplayNext]_replayVars => ReplayInv'
  BY ReplayInductive
<1> QED
  BY <1>1, ReplayStarts, PTL DEF ReplaySpec

\* Over any number of blocks of a PNG, a chain directory is refused exactly when
\* one of the present map stood at its address before it: native eXIf blocks
\* share the map, a profile clears it (walk_shared, replay_exif_events).
THEOREM RefusalsAreJustified ==
  ASSUME Shared
  PROVE  ReplaySpec => []RefusedIfClaimed
<1>1. ReplayInv => RefusedIfClaimed
  BY DEF ReplayInv
<1>2. ReplaySpec => []ReplayInv
  BY ReplayHolds
<1> QED
  BY <1>1, <1>2, PTL

\* The warning of a refusal names the directory that came to the address first,
\* in its own block or in an earlier one (walk_ifd_chain).
THEOREM WarningsAreJust ==
  ASSUME Shared
  PROVE  ReplaySpec => []WarningsNameFirstClaim
<1>1. ReplayInv => WarningsNameFirstClaim
  BY DEF ReplayInv
<1>2. ReplaySpec => []ReplayInv
  BY ReplayHolds
<1> QED
  BY <1>1, <1>2, PTL

\* Whatever a file holds, the inflated bytes alive at once are within the budget
\* of the file (process_exif_block), also while its blocks are replayed.
THEOREM InflationAlwaysBounded == ReplaySpec => []InflationBounded
<1>1. ReplayInit => ChunkInit
  BY DEF ReplayInit
<1>2. [ReplayNext]_replayVars => [ChunkNext]_chunkVars
  BY DEF ReplayNext, ReplayNothing, ReplayBlock, Replay, replayVars
<1> QED
  BY <1>1, <1>2, ChunksBounded, PTL DEF ReplaySpec, ChunkSpec

-----------------------------------------------------------------------------
(* Sequences of anything, and functions by recursion over their places.     *)

\* A sequence of anything.
Listed(s) == \E T : s \in Seq(T)

\* Induction over numbers, for a set of them.
LEMMA Induction ==
  ASSUME NEW S, 0 \in S, \A n \in Nat : n \in S => n + 1 \in S
  PROVE  Nat \subseteq S
<1> SUFFICES ASSUME Nat \ S # {} PROVE FALSE
  OBVIOUS
<1>1. PICK n \in Nat \ S : \A m \in Nat \ S : n <= m
  BY LeastNumber
<1>2. n - 1 \in Nat
  BY <1>1
<1>3. n - 1 \notin Nat \ S
  BY <1>1, <1>2
<1> QED
  BY <1>1, <1>2, <1>3

\* The length and the places of a sequence.
LEMMA ListedIs ==
  ASSUME NEW s, Listed(s)
  PROVE  Len(s) \in Nat /\ DOMAIN s = 1..Len(s)
BY DEF Listed

\* The empty sequence, and one of one element.
LEMMA ListedFew ==
  /\ Listed(<<>>) /\ Len(<<>>) = 0
  /\ \A x : Listed(<<x>>) /\ Len(<<x>>) = 1 /\ <<x>>[1] = x
<1>1. <<>> \in Seq({})
  OBVIOUS
<1>2. \A x : <<x>> \in Seq({x}) /\ Len(<<x>>) = 1 /\ <<x>>[1] = x
  OBVIOUS
<1> QED
  BY <1>1, <1>2 DEF Listed

\* What Append makes of a sequence.
LEMMA ListedAppend ==
  ASSUME NEW s, Listed(s), NEW x
  PROVE  /\ Listed(Append(s, x)) /\ Len(Append(s, x)) = Len(s) + 1
         /\ \A k \in 1..Len(s) : Append(s, x)[k] = s[k]
         /\ Append(s, x)[Len(s) + 1] = x
<1>1. PICK T : s \in Seq(T)
  BY DEF Listed
<1>2. s \in Seq(T \cup {x}) /\ x \in T \cup {x}
  BY <1>1
<1>3. Append(s, x) \in Seq(T \cup {x})
  BY <1>2
<1> QED
  BY <1>2, <1>3 DEF Listed

\* What a concatenation makes of two.
LEMMA ListedConcat ==
  ASSUME NEW s, NEW t, Listed(s), Listed(t)
  PROVE  Listed(s \o t) /\ Glued(s \o t, s, t)
<1>1. PICK T : s \in Seq(T)
  BY DEF Listed
<1>2. PICK U : t \in Seq(U)
  BY DEF Listed
<1>3. s \in Seq(T \cup U) /\ t \in Seq(T \cup U)
  BY <1>1, <1>2
<1>4. s \o t \in Seq(T \cup U) /\ Glued(s \o t, s, t)
  BY <1>3, ConcatIs
<1> QED
  BY <1>4 DEF Listed

\* Two sequences with the same elements at the same places.
LEMMA ListedSame ==
  ASSUME NEW s, NEW t, Listed(s), Listed(t), Len(s) = Len(t), \A k \in 1..Len(s) : s[k] = t[k]
  PROVE  s = t
<1>1. PICK T : s \in Seq(T)
  BY DEF Listed
<1>2. PICK U : t \in Seq(U)
  BY DEF Listed
<1>3. s \in Seq(T \cup U) /\ t \in Seq(T \cup U)
  BY <1>1, <1>2
<1> QED
  BY <1>3, SeqEqual

\* A function on the first n numbers is a sequence.
LEMMA ListedFunction ==
  ASSUME NEW n \in Nat, NEW s, s = [k \in 1..n |-> s[k]]
  PROVE  Listed(s) /\ Len(s) = n
<1>1. s \in [1..n -> {s[k] : k \in 1..n}]
  OBVIOUS
<1>2. s \in Seq({s[k] : k \in 1..n})
  BY <1>1, IsASeq
<1>3. Len(s) = n
  BY <1>1, <1>2
<1> QED
  BY <1>2, <1>3 DEF Listed

\* Concatenation is associative, and the empty sequence adds nothing.
LEMMA ListedRegroup ==
  ASSUME NEW s, NEW t, NEW u, Listed(s), Listed(t), Listed(u)
  PROVE  (s \o t) \o u = s \o (t \o u) /\ s \o <<>> = s
<1>1. PICK T : s \in Seq(T)
  BY DEF Listed
<1>2. PICK U : t \in Seq(U)
  BY DEF Listed
<1>3. PICK V : u \in Seq(V)
  BY DEF Listed
<1>4. s \in Seq(T \cup U \cup V) /\ t \in Seq(T \cup U \cup V) /\ u \in Seq(T \cup U \cup V)
  BY <1>1, <1>2, <1>3
<1> QED
  BY <1>4, ConcatAssociative, ConcatEmptySeq

\* A sequence with one more element is the sequence with <<element>> behind it.
LEMMA ListedOneMore ==
  ASSUME NEW s, Listed(s), NEW x
  PROVE  s \o <<x>> = Append(s, x)
<1>1. PICK T : s \in Seq(T)
  BY DEF Listed
<1>2. s \in Seq(T \cup {x})
  BY <1>1
<1> QED
  BY <1>2, AppendIsConcat

\* PushAll pushes one after the other.
LEMMA PushAllSteps ==
  ASSUME NEW p, NEW says, Len(says) \in Nat
  PROVE  \E f : /\ f[0] = p /\ PushAll(p, says) = f[Len(says)]
                /\ \A n \in 1..Len(says) : f[n] = Push(f[n - 1], says[n])
<1> DEFINE Step(q, k) == Push(q, says[k])
           Is(f, n) == f = [k \in 0..n |-> IF k = 0 THEN p ELSE Step(f[k - 1], k)]
           Reached == {n \in Nat : \E f : Is(f, n)}
<1> HIDE DEF Step
<1>1. 0 \in Reached
  <2> DEFINE f == [k \in 0..0 |-> p]
  <2>1. Is(f, 0)
    OBVIOUS
  <2> QED
    BY <2>1
<1>2. ASSUME NEW n \in Nat, \E f : Is(f, n)
      PROVE  \E g : Is(g, n + 1)
  <2>1. PICK f : Is(f, n)
    BY <1>2
  <2> DEFINE g == [k \in 0..(n + 1) |-> IF k = n + 1 THEN Step(f[n], n + 1) ELSE f[k]]
  <2>2. \A k \in 0..(n + 1) : g[k] = IF k = 0 THEN p ELSE Step(g[k - 1], k)
    <3> TAKE k \in 0..(n + 1)
    <3>1. CASE k = n + 1
      BY <3>1
    <3>2. CASE k = 0
      BY <2>1, <3>2
    <3>3. CASE k # 0 /\ k # n + 1
      <4>1. k \in 0..n /\ k - 1 \in 0..n /\ k - 1 # n + 1
        BY <3>3
      <4> QED
        BY <2>1, <3>3, <4>1
    <3> QED
      BY <3>1, <3>2, <3>3
  <2>3. Is(g, n + 1)
    BY <2>2
  <2> QED
    BY <2>3
<1>3. Len(says) \in Reached
  <2>1. \A n \in Nat : (\E f : Is(f, n)) => \E g : Is(g, n + 1)
    BY <1>2
  <2> HIDE DEF Is
  <2>2. \A n \in Nat : n \in Reached => n + 1 \in Reached
    BY <2>1
  <2> HIDE DEF Reached
  <2> QED
    BY <1>1, <2>2, Induction
<1>4. \E f : Is(f, Len(says))
  BY <1>3
<1> DEFINE after == CHOOSE f : f = [k \in 0..Len(says) |-> IF k = 0 THEN p ELSE Step(f[k - 1], k)]
<1>5. PushAll(p, says) = after[Len(says)]
  BY DEF PushAll, Step
<1>6. Is(after, Len(says))
  BY <1>4
<1> HIDE DEF after
<1>7. after[0] = p /\ \A n \in 1..Len(says) : after[n] = Step(after[n - 1], n)
  BY <1>6
<1> QED
  BY <1>5, <1>7 DEF Step

-----------------------------------------------------------------------------
(* The meta of a PNG tells a story: a sequence of what was said, with its   *)
(* group.                                                                   *)

\* The lists something can be said to, and the fields of the meta.
Outlets == Watermarked \cup Boxes
MetaFields == Outlets \cup {"diag_order", "is_apng", "in_trailer", "trailer_start"}

\* What is drawn at place k of diag_order is this entry.
Drawn(p, entry, k) ==
  LET source == entry.say.source
      n == Nth(p.diag_order, k)
  IN  /\ source \in Outlets /\ p.diag_order[k] = source
      /\ n \in 1..Len(p[source]) /\ p[source][n] = entry.say.item
      /\ entry.group = IF source \in Watermarked /\ IsTrailing(p, source, n)
                       THEN "Trailer" ELSE "document"

\* The fields of the meta are what they are for.
Meta(p) ==
  /\ p = [field \in MetaFields |-> p[field]]
  /\ Listed(p.diag_order) /\ \A source \in Outlets : Listed(p[source])
  /\ p.in_trailer \in BOOLEAN /\ p.is_apng \in BOOLEAN
  /\ \A source \in Watermarked :
       p.trailer_start[source] \in Nat /\ (p.in_trailer => p.trailer_start[source] <= Len(p[source]))

\* How many items of a source were said.
Count(order, source) == Cardinality({k \in DOMAIN order : order[k] = source})

\* The meta tells story s, and nothing else.
Told(p, s) ==
  /\ Meta(p)
  /\ Listed(s) /\ Len(p.diag_order) = Len(s)
  /\ \A k \in 1..Len(s) : Drawn(p, s[k], k)
  /\ \A source \in Outlets : Len(p[source]) = Count(p.diag_order, source)

\* The group of what is said now.
GroupNow(p, say) == IF p.in_trailer /\ say.source \in Watermarked THEN "Trailer" ELSE "document"

\* The lists are apart from the other fields.
LEMMA FieldsApart ==
  /\ \A source \in Outlets : source \notin {"diag_order", "is_apng", "in_trailer", "trailer_start"}
  /\ Outlets \subseteq MetaFields /\ Watermarked \subseteq Outlets
  /\ {"diag_order", "is_apng", "in_trailer", "trailer_start"} \subseteq MetaFields
BY DEF Outlets, MetaFields, Watermarked, Boxes

\* What Push changes.
LEMMA PushIs ==
  ASSUME NEW p, Meta(p), NEW say, say.source \in Outlets
  PROVE  LET q == Push(p, say)
         IN  /\ Meta(q)
             /\ q.diag_order = Append(p.diag_order, say.source)
             /\ q[say.source] = Append(p[say.source], say.item)
             /\ \A source \in Outlets : source # say.source => q[source] = p[source]
             /\ q.in_trailer = p.in_trailer /\ q.is_apng = p.is_apng
             /\ q.trailer_start = p.trailer_start
<1> DEFINE q == Push(p, say)
           source == say.source
<1>1. p = [field \in MetaFields |-> p[field]]
  BY DEF Meta
<1>2. q = [[p EXCEPT ![source] = Append(@, say.item)]
             EXCEPT !["diag_order"] = Append(p["diag_order"], source)]
  BY DEF Push
<1>3. source \in MetaFields /\ "diag_order" \in MetaFields /\ source # "diag_order"
  BY FieldsApart
<1>4. /\ q = [field \in MetaFields |-> q[field]]
      /\ q["diag_order"] = Append(p["diag_order"], source)
      /\ q[source] = Append(p[source], say.item)
      /\ \A field \in MetaFields : field # source /\ field # "diag_order" => q[field] = p[field]
  <2> HIDE DEF source
  <2> DEFINE first == [p EXCEPT ![source] = Append(@, say.item)]
  <2>1. /\ first = [field \in MetaFields |-> first[field]]
        /\ first[source] = Append(p[source], say.item)
        /\ \A field \in MetaFields : field # source => first[field] = p[field]
    BY <1>1, <1>3
  <2>2. q = [first EXCEPT !["diag_order"] = Append(p["diag_order"], source)]
    BY <1>2
  <2> HIDE DEF q, first, MetaFields
  <2>3. /\ q = [field \in MetaFields |-> q[field]]
        /\ q["diag_order"] = Append(p["diag_order"], source)
        /\ \A field \in MetaFields : field # "diag_order" => q[field] = first[field]
    BY <1>3, <2>1, <2>2
  <2> QED
    BY <1>3, <2>1, <2>3
<1> HIDE DEF q, source
<1>5. q.diag_order = Append(p.diag_order, source)
  BY <1>4
<1>6. \A other \in Outlets : other # source => q[other] = p[other]
  BY <1>4, FieldsApart
<1>7. q.in_trailer = p.in_trailer /\ q.is_apng = p.is_apng /\ q.trailer_start = p.trailer_start
  <2>1. source \notin {"is_apng", "in_trailer", "trailer_start"}
    BY FieldsApart DEF source
  <2>2. /\ "is_apng" # source /\ "is_apng" # "diag_order" /\ "is_apng" \in MetaFields
        /\ "in_trailer" # source /\ "in_trailer" # "diag_order" /\ "in_trailer" \in MetaFields
        /\ "trailer_start" # source /\ "trailer_start" # "diag_order" /\ "trailer_start" \in MetaFields
    BY <2>1, FieldsApart
  <2>3. q["is_apng"] = p["is_apng"] /\ q["in_trailer"] = p["in_trailer"]
        /\ q["trailer_start"] = p["trailer_start"]
    BY <1>4, <2>2
  <2> QED
    BY <2>3
<1>8. Meta(q)
  <2>1. Listed(q.diag_order)
    BY <1>5, ListedAppend DEF Meta
  <2>2. ASSUME NEW other \in Outlets
        PROVE  Listed(q[other]) /\ Len(q[other]) >= Len(p[other]) /\ Len(p[other]) \in Nat
               /\ Len(q[other]) \in Nat
    <3>1. Listed(p[other])
      BY DEF Meta
    <3>2. CASE other = source
      <4>1. q[other] = Append(p[other], say.item) /\ Len(p[other]) \in Nat
        BY <1>4, <3>1, <3>2, ListedIs
      <4>2. Listed(q[other]) /\ Len(q[other]) = Len(p[other]) + 1
        BY <3>1, <4>1, ListedAppend
      <4> QED
        BY <4>1, <4>2
    <3>3. CASE other # source
      BY <1>6, <3>1, <3>3, ListedIs
    <3> QED
      BY <3>2, <3>3
  <2>3. ASSUME NEW other \in Watermarked
        PROVE  q.trailer_start[other] \in Nat /\ (q.in_trailer => q.trailer_start[other] <= Len(q[other]))
    <3>1. other \in Outlets
      BY FieldsApart
    <3>2. p.trailer_start[other] \in Nat /\ (p.in_trailer => p.trailer_start[other] <= Len(p[other]))
      BY DEF Meta
    <3> QED
      BY <1>7, <2>2, <3>1, <3>2
  <2> QED
    BY <1>4, <1>7, <2>1, <2>2, <2>3 DEF Meta
<1> QED
  BY <1>4, <1>5, <1>6, <1>7, <1>8 DEF q, source

\* One more element of a list: the places before keep their numbers, and the new
\* one comes after those of its source.
LEMMA OneMore ==
  ASSUME NEW order, Listed(order), NEW source
  PROVE  LET more == Append(order, source)
             last == Len(order) + 1
         IN  /\ \A k \in 1..Len(order) : Nth(more, k) = Nth(order, k)
             /\ Nth(more, last) = Count(order, source) + 1
             /\ Count(order, source) \in Nat
             /\ Count(more, source) = Count(order, source) + 1
             /\ \A other : other # source => Count(more, other) = Count(order, other)
<1> DEFINE more == Append(order, source)
           last == Len(order) + 1
           said == {k \in DOMAIN order : order[k] = source}
<1>1. /\ Len(order) \in Nat /\ DOMAIN order = 1..Len(order)
      /\ Listed(more) /\ Len(more) = last /\ DOMAIN more = 1..last
      /\ \A k \in 1..Len(order) : more[k] = order[k]
      /\ more[last] = source
  BY ListedIs, ListedAppend
<1> HIDE DEF more
<1>2. last \notin 1..Len(order) /\ 1..last = 1..Len(order) \cup {last} /\ last \in Nat
  BY <1>1
<1>3. IsFiniteSet(said) /\ Cardinality(said) \in Nat
  <2>1. IsFiniteSet(1..Len(order))
    BY <1>1, FS_Interval
  <2>2. said \in SUBSET (1..Len(order))
    BY <1>1
  <2>3. IsFiniteSet(said)
    BY <2>1, <2>2, FS_Subset
  <2> QED
    BY <2>3, FS_CardinalityType
<1>4. last \notin said /\ Cardinality(said \cup {last}) = Cardinality(said) + 1
  <2>1. last \notin said
    BY <1>1, <1>2
  <2> QED
    BY <2>1, <1>3, FS_AddElement
<1>5. ASSUME NEW k \in 1..Len(order) PROVE Nth(more, k) = Nth(order, k)
  <2>1. \A j \in 1..k : j \in 1..Len(order)
    BY <1>1
  <2>2. {j \in 1..k : more[j] = more[k]} = {j \in 1..k : order[j] = order[k]}
    BY <1>1, <2>1
  <2> QED
    BY <2>2 DEF Nth
<1>6. {j \in 1..last : more[j] = more[last]} = said \cup {last}
  BY <1>1, <1>2
<1>7. {k \in DOMAIN more : more[k] = source} = said \cup {last}
  BY <1>1, <1>2
<1>8. ASSUME NEW other, other # source
      PROVE  {k \in DOMAIN more : more[k] = other} = {k \in DOMAIN order : order[k] = other}
  BY <1>1, <1>2, <1>8
<1>9. Nth(more, last) = Cardinality(said) + 1
  BY <1>4, <1>6 DEF Nth
<1>10. Count(order, source) = Cardinality(said) /\ Count(more, source) = Cardinality(said) + 1
  BY <1>4, <1>7 DEF Count
<1>11. \A other : other # source => Count(more, other) = Count(order, other)
  BY <1>8 DEF Count
<1> HIDE DEF said
<1> QED
  BY <1>3, <1>5, <1>9, <1>10, <1>11 DEF more

\* What is said goes behind the story, in the group of the moment.
LEMMA PushTold ==
  ASSUME NEW p, NEW s, Told(p, s), NEW say, say.source \in Outlets
  PROVE  /\ Told(Push(p, say), Append(s, [say |-> say, group |-> GroupNow(p, say)]))
         /\ Push(p, say).in_trailer = p.in_trailer /\ Push(p, say).is_apng = p.is_apng
<1> DEFINE source == say.source
           entry == [say |-> say, group |-> GroupNow(p, say)]
           l == Len(s)
<1>0. entry.say = say /\ entry.group = GroupNow(p, say) /\ source \in Outlets
  OBVIOUS
<1>1. PICK q : q = Push(p, say)
  OBVIOUS
<1>2. PICK told : told = Append(s, entry)
  OBVIOUS
<1>3. /\ Meta(q) /\ Meta(p)
      /\ q.diag_order = Append(p.diag_order, source)
      /\ q[source] = Append(p[source], say.item)
      /\ \A other \in Outlets : other # source => q[other] = p[other]
      /\ q.in_trailer = p.in_trailer /\ q.is_apng = p.is_apng
      /\ q.trailer_start = p.trailer_start
  BY <1>1, PushIs DEF Told
<1>4. /\ Listed(s) /\ l \in Nat /\ Listed(told) /\ Len(told) = l + 1
      /\ \A k \in 1..l : told[k] = s[k]
      /\ told[l + 1] = entry
  BY <1>2, ListedAppend, ListedIs DEF Told
<1>5. /\ Listed(p.diag_order) /\ Len(p.diag_order) = l
      /\ Listed(q.diag_order) /\ Len(q.diag_order) = l + 1
      /\ \A k \in 1..l : q.diag_order[k] = p.diag_order[k]
      /\ q.diag_order[l + 1] = source
  <2>1. Listed(p.diag_order) /\ Len(p.diag_order) = l
    BY DEF Told, Meta
  <2>2. q.diag_order = Append(p.diag_order, source)
    BY <1>3
  <2> QED
    BY <2>1, <2>2, ListedAppend
<1>6. /\ \A k \in 1..l : Nth(q.diag_order, k) = Nth(p.diag_order, k)
      /\ Nth(q.diag_order, l + 1) = Count(p.diag_order, source) + 1
      /\ Count(p.diag_order, source) \in Nat
      /\ Count(q.diag_order, source) = Count(p.diag_order, source) + 1
      /\ \A other : other # source => Count(q.diag_order, other) = Count(p.diag_order, other)
  BY <1>3, <1>5, OneMore
<1>7. ASSUME NEW other \in Outlets
      PROVE  /\ Listed(p[other]) /\ Len(p[other]) = Count(p.diag_order, other)
             /\ Len(p[other]) \in Nat /\ Len(q[other]) \in Nat /\ Len(p[other]) <= Len(q[other])
             /\ \A n \in 1..Len(p[other]) : q[other][n] = p[other][n]
             /\ Len(q[other]) = Count(q.diag_order, other)
             /\ other = source => Len(q[other]) = Len(p[other]) + 1 /\ q[other][Len(p[other]) + 1] = say.item
  <2>1. Listed(p[other]) /\ Len(p[other]) = Count(p.diag_order, other) /\ Len(p[other]) \in Nat
    BY <1>3, ListedIs DEF Told, Meta
  <2>2. CASE other = source
    <3>1. q[other] = Append(p[other], say.item)
      BY <1>3, <2>2
    <3>2. /\ Len(q[other]) = Len(p[other]) + 1
          /\ \A k \in 1..Len(p[other]) : q[other][k] = p[other][k]
          /\ q[other][Len(p[other]) + 1] = say.item
      BY <2>1, <3>1, ListedAppend
    <3> QED
      BY <1>6, <2>1, <2>2, <3>2
  <2>3. CASE other # source
    BY <1>3, <1>6, <2>1, <2>3
  <2> QED
    BY <2>2, <2>3
<1>8. \A other, n : IsTrailing(q, other, n) <=> IsTrailing(p, other, n)
  BY <1>3 DEF IsTrailing
<1>9. ASSUME NEW k \in 1..l PROVE Drawn(q, s[k], k)
  <2>1. Drawn(p, s[k], k)
    BY DEF Told
  <2> DEFINE from == s[k].say.source
             n == Nth(p.diag_order, k)
  <2>2. /\ from \in Outlets /\ p.diag_order[k] = from
        /\ n \in 1..Len(p[from]) /\ p[from][n] = s[k].say.item
        /\ s[k].group = IF from \in Watermarked /\ IsTrailing(p, from, n)
                        THEN "Trailer" ELSE "document"
    BY <2>1 DEF Drawn
  <2>3. Nth(q.diag_order, k) = n /\ q.diag_order[k] = from
    BY <1>5, <1>6, <2>2
  <2>4. n \in 1..Len(q[from]) /\ q[from][n] = s[k].say.item
    <3> HIDE DEF n, from
    <3>1. Len(p[from]) \in Nat /\ Len(q[from]) \in Nat /\ Len(p[from]) <= Len(q[from])
          /\ q[from][n] = p[from][n]
      BY <1>7, <2>2
    <3> QED
      BY <2>2, <3>1
  <2>5. s[k].group = IF from \in Watermarked /\ IsTrailing(q, from, n) THEN "Trailer" ELSE "document"
    BY <1>8, <2>2
  <2> QED
    BY <2>2, <2>3, <2>4, <2>5 DEF Drawn
<1>10. Drawn(q, entry, l + 1)
  <2> DEFINE n == Len(p[source]) + 1
  <2>1. Nth(q.diag_order, l + 1) = n /\ q.diag_order[l + 1] = source
    BY <1>0, <1>5, <1>6, <1>7
  <2>2. n \in 1..Len(q[source]) /\ q[source][n] = say.item
    BY <1>0, <1>7
  <2>3. source \in Watermarked => (IsTrailing(q, source, n) <=> p.in_trailer)
    <3> SUFFICES ASSUME source \in Watermarked PROVE IsTrailing(p, source, n) <=> p.in_trailer
      BY <1>8
    <3>1. /\ p.trailer_start[source] \in Nat
          /\ p.in_trailer => p.trailer_start[source] <= Len(p[source])
          /\ Len(p[source]) \in Nat
      BY <1>0, <1>3, <1>7 DEF Meta
    <3> QED
      BY <3>1 DEF IsTrailing
  <2>4. entry.group = IF source \in Watermarked /\ IsTrailing(q, source, n) THEN "Trailer" ELSE "document"
    BY <1>0, <2>3 DEF GroupNow
  <2> HIDE DEF n
  <2>5. /\ entry.say.source = source /\ entry.say.item = say.item
    BY <1>0
  <2> HIDE DEF entry, source
  <2> QED
    BY <1>0, <2>1, <2>2, <2>4, <2>5 DEF Drawn
<1>11. Told(q, told)
  <2>1. \A k \in 1..Len(told) : Drawn(q, told[k], k)
    <3> TAKE k \in 1..Len(told)
    <3>1. CASE k \in 1..l
      BY <1>4, <1>9, <3>1
    <3>2. CASE k = l + 1
      BY <1>4, <1>10, <3>2
    <3> QED
      BY <1>4, <3>1, <3>2
  <2>2. \A other \in Outlets : Len(q[other]) = Count(q.diag_order, other)
    BY <1>7
  <2> QED
    BY <1>3, <1>4, <1>5, <2>1, <2>2 DEF Told
<1> QED
  BY <1>1, <1>2, <1>3, <1>11

\* The trailer begins behind everything that was said.
LEMMA BeginTold ==
  ASSUME NEW p, NEW s, Told(p, s)
  PROVE  /\ Told(begin_trailer(p), s)
         /\ begin_trailer(p).in_trailer = TRUE /\ begin_trailer(p).is_apng = p.is_apng
<1> DEFINE q == begin_trailer(p)
           start == [source \in Watermarked |-> Len(p[source])]
<1>0. p.in_trailer \in BOOLEAN /\ p = [field \in MetaFields |-> p[field]]
  BY DEF Told, Meta
<1>1. CASE p.in_trailer
  <2>1. q = p
    BY <1>1 DEF begin_trailer
  <2> QED
    BY <1>0, <1>1, <2>1
<1>2. CASE ~p.in_trailer
  <2>1. q = [[p EXCEPT !["in_trailer"] = TRUE] EXCEPT !["trailer_start"] = start]
    BY <1>2 DEF begin_trailer
  <2>2. /\ q = [field \in MetaFields |-> q[field]]
        /\ q["in_trailer"] = TRUE /\ q["trailer_start"] = start
        /\ \A field \in MetaFields : field # "in_trailer" /\ field # "trailer_start" => q[field] = p[field]
    <3>1. "in_trailer" \in MetaFields /\ "trailer_start" \in MetaFields /\ "in_trailer" # "trailer_start"
      BY FieldsApart
    <3> HIDE DEF q, start, MetaFields
    <3> QED
      BY <1>0, <2>1, <3>1
  <2> HIDE DEF q, start
  <2>3. /\ q.in_trailer = TRUE /\ q.trailer_start = start
        /\ q.diag_order = p.diag_order /\ q.is_apng = p.is_apng
        /\ \A source \in Outlets : q[source] = p[source]
    <3>1. /\ "diag_order" \in MetaFields /\ "diag_order" # "in_trailer" /\ "diag_order" # "trailer_start"
          /\ "is_apng" \in MetaFields /\ "is_apng" # "in_trailer" /\ "is_apng" # "trailer_start"
      BY FieldsApart
    <3>2. q["diag_order"] = p["diag_order"] /\ q["is_apng"] = p["is_apng"]
      BY <2>2, <3>1
    <3>3. ASSUME NEW source \in Outlets PROVE q[source] = p[source]
      BY <2>2, FieldsApart
    <3> QED
      BY <2>2, <3>2, <3>3
  <2>4. ASSUME NEW source \in Watermarked
        PROVE  start[source] = Len(p[source]) /\ Len(p[source]) \in Nat /\ source \in Outlets
    BY ListedIs, FieldsApart DEF start, Told, Meta
  <2>5. Meta(q)
    <3>1. Listed(q.diag_order) /\ \A source \in Outlets : Listed(q[source])
      BY <2>3 DEF Told, Meta
    <3>2. q.in_trailer \in BOOLEAN /\ q.is_apng \in BOOLEAN
      BY <2>3 DEF Told, Meta
    <3>3. ASSUME NEW source \in Watermarked
          PROVE  q.trailer_start[source] \in Nat
                 /\ (q.in_trailer => q.trailer_start[source] <= Len(q[source]))
      BY <2>3, <2>4
    <3> QED
      BY <2>2, <3>1, <3>2, <3>3 DEF Meta
  <2>6. ASSUME NEW k \in 1..Len(s) PROVE Drawn(q, s[k], k)
    <3>1. Drawn(p, s[k], k)
      BY DEF Told
    <3> DEFINE from == s[k].say.source
               n == Nth(p.diag_order, k)
    <3>2. /\ from \in Outlets /\ p.diag_order[k] = from
          /\ n \in 1..Len(p[from]) /\ p[from][n] = s[k].say.item
          /\ s[k].group = "document"
      BY <1>2, <3>1 DEF Drawn, IsTrailing
    <3> HIDE DEF from, n
    <3>3. from \in Watermarked => ~IsTrailing(q, from, n)
      BY <2>3, <2>4, <3>2 DEF IsTrailing
    <3>4. Nth(q.diag_order, k) = n /\ q.diag_order[k] = from /\ q[from] = p[from]
      BY <2>3, <3>2 DEF n
    <3> QED
      BY <3>2, <3>3, <3>4 DEF Drawn, from
  <2>7. Told(q, s)
    BY <2>3, <2>5, <2>6 DEF Told
  <2> QED
    BY <2>3, <2>7 DEF q
<1> QED
  BY <1>0, <1>1, <1>2

\* Whether the image is animated is no part of the story.
WithApng(p, is) == [p EXCEPT !.is_apng = is]

\* Setting the flag of the animation leaves the story as it is.
LEMMA ApngTold ==
  ASSUME NEW p, NEW s, Told(p, s), NEW is \in BOOLEAN
  PROVE  /\ Told(WithApng(p, is), s)
         /\ WithApng(p, is).in_trailer = p.in_trailer /\ WithApng(p, is).is_apng = is
<1> DEFINE q == [p EXCEPT !["is_apng"] = is]
<1>1. p = [field \in MetaFields |-> p[field]]
  BY DEF Told, Meta
<1>2. /\ q = [field \in MetaFields |-> q[field]] /\ q["is_apng"] = is
      /\ \A field \in MetaFields : field # "is_apng" => q[field] = p[field]
  <2>1. "is_apng" \in MetaFields
    BY FieldsApart
  <2> HIDE DEF MetaFields
  <2> QED
    BY <1>1, <2>1
<1> HIDE DEF q
<1>3. /\ q.in_trailer = p.in_trailer /\ q.trailer_start = p.trailer_start
      /\ q.diag_order = p.diag_order /\ q.is_apng = is
  <2>1. /\ "in_trailer" \in MetaFields /\ "in_trailer" # "is_apng"
        /\ "trailer_start" \in MetaFields /\ "trailer_start" # "is_apng"
        /\ "diag_order" \in MetaFields /\ "diag_order" # "is_apng"
    BY FieldsApart
  <2>2. q["in_trailer"] = p["in_trailer"] /\ q["trailer_start"] = p["trailer_start"]
        /\ q["diag_order"] = p["diag_order"]
    BY <1>2, <2>1
  <2> QED
    BY <1>2, <2>2
<1>4. \A source \in Outlets : q[source] = p[source]
  BY <1>2, FieldsApart
<1>5. Meta(q)
  BY <1>2, <1>3, <1>4, FieldsApart DEF Told, Meta
<1>6. \A k \in 1..Len(s) : Drawn(q, s[k], k)
  <2> TAKE k \in 1..Len(s)
  <2>1. Drawn(p, s[k], k)
    BY DEF Told
  <2> QED
    BY <1>3, <1>4, <2>1 DEF Drawn, IsTrailing
<1>7. Told(q, s)
  BY <1>3, <1>4, <1>5, <1>6 DEF Told
<1> QED
  BY <1>3, <1>7 DEF q, WithApng

-----------------------------------------------------------------------------
(* What the chunks of a list have to say, as the property tells it.         *)

\* The parts of what chunk i of a list says, as the property states them.
SeenIn(list, name, i) == \E j \in 1..i : list[j].name = name
EndedIn(list, i) == SeenIn(list, "IEND", i - 1)
When(condition, say) == IF condition THEN <<say>> ELSE <<>>

AfterDataIn(list, i) ==
  Warning(<<"after image data", IF SeenIn(list, "acTL", i - 1) THEN "APNG" ELSE "by name">>)

HeadsIn(list, i) ==
  LET chunk == list[i]
      named == chunk.fate \in {"whole", "cut"}
      whole == chunk.fate = "whole"
  IN  When(EndedIn(list, i) /\ chunk.fate # "empty", TrailerData)
        \o When(named /\ ~SeenIn(list, "IHDR", i), HeaderWarning(chunk.name))
        \o When(~whole /\ ~EndedIn(list, i), Warns(Ending(chunk)))
        \o When(whole /\ chunk.name \in TextChunks /\ SeenIn(list, "IDAT", i - 1), AfterDataIn(list, i))
        \o When(whole /\ chunk.name = "exif", Warns("should be eXIf"))
SaysIn(list, i) == HeadsIn(list, i) \o list[i].says

\* The entries of a story that chunk i makes.
GroupIn(list, i, say) ==
  IF EndedIn(list, i) /\ say.source \notin Boxes /\ ~(say = TrailerData /\ ~EndedIn(list, i - 1))
  THEN "Trailer" ELSE "document"
EntriesIn(list, i, says) ==
  [k \in DOMAIN says |-> [say |-> says[k], group |-> GroupIn(list, i, says[k])]]
SpokenIn(list, i) == EntriesIn(list, i, SaysIn(list, i))

\* What the property says a chunk says, told of the list of the chunks.
LEMMA SpokenIs == \A i : SpokenBy(i) = SpokenIn(chunks, i)
<1>1. \A i, name : Seen(name, i) <=> SeenIn(chunks, name, i)
  BY DEF Seen, SeenIn
<1>2. \A i : InTrailer(i) <=> EndedIn(chunks, i)
  BY <1>1 DEF InTrailer, EndedIn
<1>3. ASSUME NEW i PROVE Says(i) = SaysIn(chunks, i)
  <2> DEFINE when(condition, say) == IF condition THEN <<say>> ELSE <<>>
             chunk == chunks[i]
             named == chunk.fate \in {"whole", "cut"}
             whole == chunk.fate = "whole"
  <2>1. Says(i) =
          when(InTrailer(i) /\ chunk.fate # "empty", TrailerData)
            \o when(named /\ ~Seen("IHDR", i), HeaderWarning(chunk.name))
            \o when(~whole /\ ~InTrailer(i), Warns(Ending(chunk)))
            \o when(whole /\ chunk.name \in TextChunks /\ Seen("IDAT", i - 1),
                    Warning(<<"after image data", IF Seen("acTL", i - 1) THEN "APNG" ELSE "by name">>))
            \o when(whole /\ chunk.name = "exif", Warns("should be eXIf"))
            \o chunk.says
    BY DEF Says
  <2>2. \A condition, say : when(condition, say) = When(condition, say)
    BY DEF When
  <2>3. when(InTrailer(i) /\ chunk.fate # "empty", TrailerData)
          = When(EndedIn(chunks, i) /\ chunk.fate # "empty", TrailerData)
    BY <1>2 DEF When
  <2>4. when(named /\ ~Seen("IHDR", i), HeaderWarning(chunk.name))
          = When(named /\ ~SeenIn(chunks, "IHDR", i), HeaderWarning(chunk.name))
    BY <1>1 DEF When
  <2>5. when(~whole /\ ~InTrailer(i), Warns(Ending(chunk)))
          = When(~whole /\ ~EndedIn(chunks, i), Warns(Ending(chunk)))
    BY <1>2 DEF When
  <2>6. when(whole /\ chunk.name \in TextChunks /\ Seen("IDAT", i - 1),
                    Warning(<<"after image data", IF Seen("acTL", i - 1) THEN "APNG" ELSE "by name">>))
          = When(whole /\ chunk.name \in TextChunks /\ SeenIn(chunks, "IDAT", i - 1), AfterDataIn(chunks, i))
    <3>1. Warning(<<"after image data", IF Seen("acTL", i - 1) THEN "APNG" ELSE "by name">>)
            = AfterDataIn(chunks, i)
      BY <1>1 DEF AfterDataIn
    <3> QED
      BY <1>1, <3>1 DEF When
  <2>7. when(whole /\ chunk.name = "exif", Warns("should be eXIf"))
          = When(whole /\ chunk.name = "exif", Warns("should be eXIf"))
    BY DEF When
  <2> HIDE DEF when
  <2>8. SaysIn(chunks, i) =
          When(EndedIn(chunks, i) /\ chunk.fate # "empty", TrailerData)
            \o When(named /\ ~SeenIn(chunks, "IHDR", i), HeaderWarning(chunk.name))
            \o When(~whole /\ ~EndedIn(chunks, i), Warns(Ending(chunk)))
            \o When(whole /\ chunk.name \in TextChunks /\ SeenIn(chunks, "IDAT", i - 1), AfterDataIn(chunks, i))
            \o When(whole /\ chunk.name = "exif", Warns("should be eXIf"))
            \o chunk.says
    BY DEF SaysIn, HeadsIn
  <2> QED
    BY <2>1, <2>3, <2>4, <2>5, <2>6, <2>7, <2>8
<1>4. \A i, say : Group(i, say) = GroupIn(chunks, i, say)
  BY <1>2 DEF Group, GroupIn
<1> QED
  BY <1>3, <1>4 DEF SpokenBy, SpokenIn, EntriesIn

\* What a chunk says is a sequence.
LEMMA EntriesListed ==
  ASSUME NEW list, NEW i, NEW says, Listed(says)
  PROVE  /\ Listed(EntriesIn(list, i, says)) /\ Len(EntriesIn(list, i, says)) = Len(says)
         /\ \A k \in 1..Len(says) :
              EntriesIn(list, i, says)[k] = [say |-> says[k], group |-> GroupIn(list, i, says[k])]
<1>1. Len(says) \in Nat /\ DOMAIN says = 1..Len(says)
  BY ListedIs
<1>2. PICK e : e = EntriesIn(list, i, says)
  OBVIOUS
<1>3. e = [k \in 1..Len(says) |-> [say |-> says[k], group |-> GroupIn(list, i, says[k])]]
  BY <1>1, <1>2 DEF EntriesIn
<1>4. e = [k \in 1..Len(says) |-> e[k]]
  BY <1>3
<1> QED
  BY <1>1, <1>2, <1>3, <1>4, ListedFunction

\* What a condition lets be said is a sequence, and so is all before the body.
LEMMA WhenListed == \A condition, say : Listed(When(condition, say))
BY ListedFew DEF When

LEMMA HeadsListed == \A list, i : Listed(HeadsIn(list, i))
<1> SUFFICES ASSUME NEW list, NEW i PROVE Listed(HeadsIn(list, i))
  OBVIOUS
<1>1. \A a, b, c, d, e : Listed(a) /\ Listed(b) /\ Listed(c) /\ Listed(d) /\ Listed(e)
        => Listed(a \o b \o c \o d \o e)
  BY ListedConcat
<1> QED
  BY <1>1, WhenListed DEF HeadsIn

\* Entries of one sequence after another.
LEMMA EntriesConcat ==
  ASSUME NEW list, NEW i, NEW a, NEW b, Listed(a), Listed(b)
  PROVE  EntriesIn(list, i, a \o b) = EntriesIn(list, i, a) \o EntriesIn(list, i, b)
<1>1. PICK u : u = a \o b
  OBVIOUS
<1>2. Listed(u) /\ Glued(u, a, b)
  BY <1>1, ListedConcat
<1>3. PICK x : x = EntriesIn(list, i, a)
  OBVIOUS
<1>4. PICK y : y = EntriesIn(list, i, b)
  OBVIOUS
<1>5. PICK z : z = EntriesIn(list, i, u)
  OBVIOUS
<1>6. PICK v : v = x \o y
  OBVIOUS
<1>7. /\ Listed(x) /\ Len(x) = Len(a) /\ Listed(y) /\ Len(y) = Len(b)
      /\ Listed(z) /\ Len(z) = Len(u)
  BY <1>2, <1>3, <1>4, <1>5, EntriesListed
<1>12. ASSUME NEW k \in 1..Len(a)
       PROVE  x[k] = [say |-> a[k], group |-> GroupIn(list, i, a[k])]
  BY <1>3, EntriesListed
<1>13. ASSUME NEW k \in 1..Len(b)
       PROVE  y[k] = [say |-> b[k], group |-> GroupIn(list, i, b[k])]
  BY <1>4, EntriesListed
<1>8. Listed(v) /\ Glued(v, x, y)
  BY <1>6, <1>7, ListedConcat
<1>9. Len(z) = Len(v) /\ Len(a) \in Nat /\ Len(b) \in Nat /\ Len(v) = Len(a) + Len(b)
  BY <1>2, <1>7, <1>8 DEF Glued
<1>10. ASSUME NEW k \in 1..Len(z) PROVE z[k] = v[k]
  <2>1. z[k] = [say |-> u[k], group |-> GroupIn(list, i, u[k])]
    BY <1>2, <1>5, <1>7, EntriesListed
  <2>2. CASE k <= Len(a)
    <3>1. k \in 1..Len(a) /\ k \in DOMAIN a /\ k \in DOMAIN x
      BY <1>2, <1>7, <1>9, <2>2, ListedIs
    <3>2. u[k] = a[k] /\ v[k] = x[k]
      BY <1>2, <1>8, <3>1 DEF Glued
    <3>3. x[k] = [say |-> a[k], group |-> GroupIn(list, i, a[k])]
      BY <1>12, <3>1
    <3> QED
      BY <2>1, <3>2, <3>3
  <2>3. CASE ~(k <= Len(a))
    <3> DEFINE n == k - Len(a)
    <3>1. n \in 1..Len(b) /\ n \in DOMAIN b /\ n \in DOMAIN y /\ k = Len(a) + n
      BY <1>2, <1>7, <1>9, <2>3, ListedIs
    <3>2. u[k] = b[n] /\ v[k] = y[n]
      BY <1>2, <1>7, <1>8, <3>1, SMTT(30) DEF Glued
    <3>3. y[n] = [say |-> b[n], group |-> GroupIn(list, i, b[n])]
      BY <1>13, <3>1
    <3> QED
      BY <2>1, <3>2, <3>3
  <2> QED
    BY <2>2, <2>3
<1>11. z = v
  BY <1>7, <1>8, <1>9, <1>10, ListedSame
<1> QED
  BY <1>1, <1>3, <1>4, <1>5, <1>6, <1>11

-----------------------------------------------------------------------------
(* A chunk at hand: what it has said so far stands behind the story of the  *)
(* chunks before.                                                           *)

Telling(list, i, p, t, said) ==
  Listed(t) /\ Listed(said) /\ Told(p, t \o EntriesIn(list, i, said))

\* The flags that saying something leaves alone.
SameFlags(q, p) == q.in_trailer = p.in_trailer /\ q.is_apng = p.is_apng

\* One thing said goes behind what the chunk has said, in the group of the moment.
LEMMA SayOne ==
  ASSUME NEW list, NEW i, NEW p, NEW t, NEW said, Telling(list, i, p, t, said),
         NEW say, say.source \in Outlets, GroupIn(list, i, say) = GroupNow(p, say)
  PROVE  /\ Telling(list, i, Push(p, say), t, said \o <<say>>) /\ SameFlags(Push(p, say), p)
         /\ said \o <<say>> = Append(said, say)
<1> DEFINE e == [say |-> say, group |-> GroupIn(list, i, say)]
           u == EntriesIn(list, i, said)
<1>1. Listed(t) /\ Listed(said) /\ Told(p, t \o u)
  BY DEF Telling
<1>2. /\ Told(Push(p, say), Append(t \o u, e)) /\ SameFlags(Push(p, say), p)
  BY <1>1, PushTold DEF SameFlags
<1>3. Listed(u)
  BY <1>1, EntriesListed
<1>4. EntriesIn(list, i, <<say>>) = <<e>>
  <2>1. PICK one : one = <<say>>
    OBVIOUS
  <2>2. Listed(one) /\ Len(one) = 1 /\ one[1] = say
    BY <2>1, ListedFew
  <2>3. PICK f : f = EntriesIn(list, i, one)
    OBVIOUS
  <2>4. Listed(f) /\ Len(f) = 1 /\ f[1] = e
    BY <2>2, <2>3, EntriesListed
  <2>5. Listed(<<e>>) /\ Len(<<e>>) = 1 /\ <<e>>[1] = e
    BY ListedFew
  <2> HIDE DEF e
  <2>6. \A k \in 1..Len(f) : f[k] = <<e>>[k]
    BY <2>4, <2>5
  <2>7. f = <<e>>
    BY <2>4, <2>5, <2>6, ListedSame
  <2> QED
    BY <2>1, <2>3, <2>7
<1> HIDE DEF e
<1>5. Listed(<<say>>) /\ Listed(<<e>>)
  BY ListedFew
<1>6. EntriesIn(list, i, said \o <<say>>) = u \o <<e>>
  BY <1>1, <1>4, <1>5, EntriesConcat
<1> HIDE DEF u
<1>7. t \o (u \o <<e>>) = Append(t \o u, e)
  <2>1. Listed(t \o u)
    BY <1>1, <1>3, ListedConcat
  <2>2. (t \o u) \o <<e>> = Append(t \o u, e)
    BY <2>1, ListedOneMore
  <2> QED
    BY <1>1, <1>3, <1>5, <2>2, ListedRegroup
<1>8. Listed(said \o <<say>>)
  BY <1>1, <1>5, ListedConcat
<1>9. said \o <<say>> = Append(said, say)
  BY <1>1, ListedOneMore
<1> QED
  BY <1>1, <1>2, <1>6, <1>7, <1>8, <1>9 DEF Telling

\* The words that name what follows an ended image.
Sayable(says) ==
  Listed(says) /\ \A k \in 1..Len(says) : says[k].source \in Outlets /\ says[k] # TrailerData

\* Everything but the first warning of a trailer has the group of its chunk.
LEMMA GroupRight ==
  ASSUME NEW list, NEW i, NEW p, p.in_trailer \in BOOLEAN, p.in_trailer <=> EndedIn(list, i),
         NEW say, say.source \in Outlets, say # TrailerData
  PROVE  GroupIn(list, i, say) = GroupNow(p, say)
<1>1. say.source \notin Boxes <=> say.source \in Watermarked
  BY DEF Outlets, Watermarked, Boxes
<1> QED
  BY <1>1 DEF GroupIn, GroupNow

\* A chunk says all it has to say.
LEMMA SayAll ==
  ASSUME NEW list, NEW i, NEW p, NEW t, NEW said, Telling(list, i, p, t, said),
         p.in_trailer <=> EndedIn(list, i), NEW says, Sayable(says)
  PROVE  /\ Telling(list, i, PushAll(p, says), t, said \o says)
         /\ SameFlags(PushAll(p, says), p)
<1>1. Len(says) \in Nat /\ Listed(says) /\ Listed(said) /\ DOMAIN says = 1..Len(says)
  BY ListedIs DEF Sayable, Telling
<1>2. PICK f : /\ f[0] = p /\ PushAll(p, says) = f[Len(says)]
               /\ \A n \in 1..Len(says) : f[n] = Push(f[n - 1], says[n])
  BY <1>1, PushAllSteps
<1> DEFINE Upto(n) == [k \in 1..n |-> says[k]]
           Done(n) == n <= Len(says) => /\ Telling(list, i, f[n], t, said \o Upto(n))
                                        /\ SameFlags(f[n], p)
           S == {n \in Nat : Done(n)}
<1>3. 0 \in S
  <2>1. Upto(0) = <<>>
    OBVIOUS
  <2>2. said \o <<>> = said
    BY <1>1, ListedRegroup
  <2>3. Done(0)
    BY <1>2, <2>1, <2>2 DEF SameFlags
  <2> HIDE DEF Done
  <2> QED
    BY <2>3
<1>4. ASSUME NEW n \in Nat, Done(n)
      PROVE  Done(n + 1)
  <2> SUFFICES ASSUME n + 1 <= Len(says) PROVE Done(n + 1)
    OBVIOUS
  <2>1. n + 1 \in 1..Len(says) /\ n <= Len(says) /\ (n + 1) - 1 = n
    BY <1>1
  <2>2. Telling(list, i, f[n], t, said \o Upto(n)) /\ SameFlags(f[n], p)
    BY <1>4, <2>1
  <2> DEFINE say == says[n + 1]
  <2>3. say.source \in Outlets /\ say # TrailerData
    BY <2>1 DEF Sayable
  <2>4. f[n].in_trailer \in BOOLEAN /\ (f[n].in_trailer <=> EndedIn(list, i))
    <3>1. f[n].in_trailer \in BOOLEAN
      BY <2>2 DEF Telling, Told, Meta
    <3> QED
      BY <2>2, <3>1 DEF SameFlags
  <2>5. GroupIn(list, i, say) = GroupNow(f[n], say)
    BY <2>3, <2>4, GroupRight
  <2>6. f[n + 1] = Push(f[n], say)
    BY <1>2, <2>1
  <2>7. /\ Telling(list, i, f[n + 1], t, (said \o Upto(n)) \o <<say>>)
        /\ SameFlags(f[n + 1], f[n])
    <3> HIDE DEF Upto, say, Done
    <3> QED
      BY <2>2, <2>3, <2>5, <2>6, SayOne
  <2>8. (said \o Upto(n)) \o <<say>> = said \o Upto(n + 1)
    <3>1. Listed(Upto(n)) /\ Len(Upto(n)) = n /\ Listed(Upto(n + 1)) /\ Len(Upto(n + 1)) = n + 1
      <4>1. \A m \in Nat : Upto(m) = [k \in 1..m |-> Upto(m)[k]]
        OBVIOUS
      <4> HIDE DEF Upto
      <4> QED
        BY <4>1, ListedFunction
    <3>2. Append(Upto(n), say) = Upto(n + 1)
      <4>1. \A k \in 1..n : Upto(n + 1)[k] = Upto(n)[k]
        OBVIOUS
      <4>2. Upto(n + 1)[n + 1] = say
        OBVIOUS
      <4> HIDE DEF Upto, say
      <4>3. /\ Listed(Append(Upto(n), say)) /\ Len(Append(Upto(n), say)) = n + 1
            /\ \A k \in 1..n : Append(Upto(n), say)[k] = Upto(n)[k]
            /\ Append(Upto(n), say)[n + 1] = say
        BY <3>1, ListedAppend
      <4>4. \A k \in 1..(n + 1) : Append(Upto(n), say)[k] = Upto(n + 1)[k]
        BY <4>1, <4>2, <4>3
      <4> QED
        BY <3>1, <4>3, <4>4, ListedSame
    <3> HIDE DEF Upto, say, Done
    <3>3. Upto(n) \o <<say>> = Upto(n + 1)
      BY <3>1, <3>2, ListedOneMore
    <3>4. Listed(<<say>>)
      BY ListedFew
    <3>5. PICK one : one = <<say>>
      OBVIOUS
    <3>6. PICK upto : upto = Upto(n)
      OBVIOUS
    <3>7. (said \o upto) \o one = said \o (upto \o one)
      <4>1. Listed(said) /\ Listed(upto) /\ Listed(one)
        BY <1>1, <3>1, <3>4, <3>5, <3>6
      <4> QED
        BY <4>1, ListedRegroup, SMTT(30)
    <3> QED
      BY <3>3, <3>5, <3>6, <3>7
  <2> HIDE DEF Upto
  <2> QED
    BY <2>2, <2>7, <2>8 DEF SameFlags
<1>5. Len(says) \in S
  <2>1. \A n \in Nat : Done(n) => Done(n + 1)
    BY <1>4
  <2> HIDE DEF Done
  <2>2. \A n \in Nat : n \in S => n + 1 \in S
    BY <2>1
  <2> HIDE DEF S
  <2> QED
    BY <1>1, <1>3, <2>2, Induction
<1> HIDE DEF S
<1>6. Done(Len(says))
  BY <1>5 DEF S
<1>7. Upto(Len(says)) = says
  <2>1. Upto(Len(says)) = [k \in 1..Len(says) |-> Upto(Len(says))[k]]
        /\ \A k \in 1..Len(says) : Upto(Len(says))[k] = says[k]
    OBVIOUS
  <2> HIDE DEF Upto
  <2>2. Listed(Upto(Len(says))) /\ Len(Upto(Len(says))) = Len(says)
    BY <1>1, <2>1, ListedFunction
  <2> QED
    BY <1>1, <2>1, <2>2, ListedSame
<1> HIDE DEF Upto
<1> QED
  BY <1>1, <1>2, <1>6, <1>7

-----------------------------------------------------------------------------
(* What the bodies of the chunks say.                                       *)

\* A profile says at most two things.
LEMMA ProfileIs ==
  ASSUME NEW body
  PROVE  \/ ProfileSays(body) = <<Event("ExifProfile")>>
         \/ ProfileSays(body) = <<Say("xmp_profiles", body.warnings), Event("ResetOnlyProfile")>>
         \/ ProfileSays(body) = <<Warns("unknown raw profile"), Event("ResetOnlyProfile")>>
         \/ ProfileSays(body) = <<Event("ResetOnlyProfile")>>
         \/ ProfileSays(body) = <<>>
BY DEF ProfileSays

\* A warning, an event and an item of another list.
LEMMA SaysApart ==
  /\ \A words : words[1] # "trailer data" =>
       Warning(words).source \in Outlets /\ Warning(words) # TrailerData
  /\ \A word : word # "trailer data" =>
       Warns(word).source \in Outlets /\ Warns(word) # TrailerData
  /\ \A kind : Event(kind).source \in Outlets /\ Event(kind) # TrailerData
  /\ \A source \in Outlets \ {"warnings"} : \A item :
       Say(source, item).source \in Outlets /\ Say(source, item) # TrailerData
  /\ TrailerData.source \in Outlets
<1>1. "warnings" \in Outlets /\ "exif_events" \in Outlets
  BY DEF Outlets, Watermarked
<1>2. \A source, item : Say(source, item).source = source /\ Say(source, item).item = item
  BY DEF Say
<1>3. \A words : Warning(words).source = "warnings" /\ Warning(words).item[1] = words
  BY <1>2 DEF Warning
<1>4. \A word : Warns(word).source = "warnings" /\ Warns(word).item[1][1] = word
  BY <1>3 DEF Warns
<1>5. TrailerData.source = "warnings" /\ TrailerData.item[1][1] = "trailer data"
  BY <1>4 DEF TrailerData
<1> QED
  <2>1. \A words : words[1] # "trailer data" => Warning(words) # TrailerData
    BY <1>3, <1>5
  <2>2. \A word : word # "trailer data" => Warns(word) # TrailerData
    BY <1>4, <1>5
  <2>3. \A kind : Event(kind).source = "exif_events"
    BY <1>2 DEF Event
  <2>4. \A kind : Event(kind) # TrailerData
    BY <1>5, <2>3
  <2>5. \A source \in Outlets \ {"warnings"} : \A item : Say(source, item) # TrailerData
    BY <1>2, <1>5, ZenonT(60)
  <2>6. \A word : Warns(word).source \in Outlets
    BY <1>1, <1>4
  <2>7. \A words : Warning(words).source \in Outlets
    BY <1>1, <1>3
  <2>8. \A kind : Event(kind).source \in Outlets
    BY <1>1, <2>3
  <2>9. \A source \in Outlets : \A item : Say(source, item).source \in Outlets
    BY <1>2
  <2>10. TrailerData.source \in Outlets
    BY <1>1, <1>5
  <2> QED
    BY <2>1, <2>2, <2>4, <2>5, <2>6, <2>7, <2>8, <2>9, <2>10

\* What may be said in parts.
LEMMA SayableParts ==
  /\ Sayable(<<>>)
  /\ \A say : say.source \in Outlets /\ say # TrailerData => Sayable(<<say>>)
  /\ \A a, b : Sayable(a) /\ Sayable(b) => Sayable(a \o b)
<1>1. Sayable(<<>>)
  BY ListedFew DEF Sayable
<1>2. ASSUME NEW say, say.source \in Outlets, say # TrailerData PROVE Sayable(<<say>>)
  <2>1. PICK one : one = <<say>>
    OBVIOUS
  <2>2. Listed(one) /\ Len(one) = 1 /\ one[1] = say
    BY <2>1, ListedFew
  <2>3. \A k \in 1..Len(one) : one[k] = say
    BY <2>2
  <2> QED
    BY <1>2, <2>1, <2>2, <2>3 DEF Sayable
<1>3. ASSUME NEW a, NEW b, Sayable(a), Sayable(b) PROVE Sayable(a \o b)
  <2>1. Listed(a) /\ Listed(b)
    BY <1>3 DEF Sayable
  <2>2. PICK u : u = a \o b
    OBVIOUS
  <2>3. Listed(u) /\ Glued(u, a, b)
    BY <2>1, <2>2, ListedConcat
  <2>4. DOMAIN a = 1..Len(a) /\ DOMAIN b = 1..Len(b) /\ DOMAIN u = 1..Len(u)
    BY <2>1, <2>3, ListedIs
  <2>5. ASSUME NEW k \in 1..Len(u) PROVE u[k].source \in Outlets /\ u[k] # TrailerData
    <3>1. \/ k \in 1..Len(a) /\ u[k] = a[k]
          \/ k - Len(a) \in 1..Len(b) /\ u[k] = b[k - Len(a)]
      BY <2>3, <2>4 DEF Glued
    <3>2. /\ \A n \in 1..Len(a) : a[n].source \in Outlets /\ a[n] # TrailerData
          /\ \A n \in 1..Len(b) : b[n].source \in Outlets /\ b[n] # TrailerData
      BY <1>3 DEF Sayable
    <3> QED
      BY <3>1, <3>2
  <2> QED
    BY <2>2, <2>3, <2>5 DEF Sayable
<1> QED
  BY <1>1, <1>2, <1>3

\* A single say, two of them.
LEMMA SayablePair ==
  \A x, y : /\ x.source \in Outlets /\ x # TrailerData
            /\ y.source \in Outlets /\ y # TrailerData
            => Sayable(<<x, y>>)
<1> SUFFICES ASSUME NEW x, NEW y, x.source \in Outlets, x # TrailerData,
                    y.source \in Outlets, y # TrailerData
             PROVE  Sayable(<<x, y>>)
  OBVIOUS
<1>1. PICK two : two = <<x, y>>
  OBVIOUS
<1>2. two \in Seq({x, y}) /\ Len(two) = 2 /\ two[1] = x /\ two[2] = y
  BY <1>1
<1>3. Listed(two)
  BY <1>2 DEF Listed
<1>4. \A k \in 1..Len(two) : k = 1 \/ k = 2
  BY <1>2
<1>5. \A k \in 1..Len(two) : two[k].source \in Outlets /\ two[k] # TrailerData
  BY <1>2, <1>4
<1> QED
  BY <1>1, <1>3, <1>5 DEF Sayable

\* What a text chunk holds.
LEMMA TextSayable == \A body : Sayable(TextSays(body))
<1> SUFFICES ASSUME NEW body PROVE Sayable(TextSays(body))
  OBVIOUS
<1>1. \A word : word # "trailer data" => Sayable(<<Warns(word)>>)
  BY SaysApart, SayableParts
<1>2. Sayable(ProfileSays(body))
  <2>1. \A kind : Sayable(<<Event(kind)>>)
    BY SaysApart, SayableParts
  <2>2. Sayable(<<Warns("unknown raw profile"), Event("ResetOnlyProfile")>>)
    BY SaysApart, SayablePair
  <2>3. Sayable(<<Say("xmp_profiles", body.warnings), Event("ResetOnlyProfile")>>)
    <3>1. "xmp_profiles" \in Outlets \ {"warnings"}
      BY DEF Outlets, Watermarked
    <3> QED
      BY <3>1, SaysApart, SayablePair
  <2> QED
    BY <2>1, <2>2, <2>3, SayableParts, ProfileIs
<1>3. Sayable(<<Warns("error inflating")>>) /\ Sayable(<<Warns("wrong size")>>)
  BY <1>1
<1>4. Sayable(IF body.wrong_size THEN <<Warns("wrong size")>> ELSE <<>>)
  BY <1>3, SayableParts
<1>5. CASE body.what = "bad zlib"
  BY <1>3, <1>5 DEF TextSays
<1>6. CASE body.what # "bad zlib"
  <2>1. TextSays(body) =
          (IF body.wrong_size THEN <<Warns("wrong size")>> ELSE <<>>) \o ProfileSays(body)
    BY <1>6 DEF TextSays
  <2> QED
    BY <1>2, <1>4, <2>1, SayableParts
<1> QED
  BY <1>5, <1>6

\* What a caBX or cpIp chunk holds.
LEMMA BoxSayable ==
  ASSUME NEW box \in Boxes, NEW holds, NEW warnings
  PROVE  Sayable(IF holds THEN <<Say(box, warnings)>> ELSE <<>>)
<1>1. box \in Outlets \ {"warnings"}
  BY DEF Boxes, Outlets
<1>2. Sayable(<<Say(box, warnings)>>)
  BY <1>1, SaysApart, SayableParts
<1> QED
  BY <1>2, SayableParts

\* A level of an eXIf chunk.
LEMMA LevelSayable ==
  ASSUME NEW prefix \in Prefix
  PROVE  /\ Sayable(prefix)
         /\ Sayable(prefix \o <<Event("NativeTiff")>>)
         /\ \A word : word # "trailer data" => Sayable(prefix \o <<Warns(word)>>)
<1>1. Sayable(prefix)
  <2>1. Sayable(<<Warns("improper Exif00 header")>>)
    BY SaysApart, SayableParts
  <2> QED
    BY <2>1, SayableParts DEF Prefix
<1>2. Sayable(<<Event("NativeTiff")>>)
  BY SaysApart, SayableParts
<1>3. \A word : word # "trailer data" => Sayable(<<Warns(word)>>)
  BY SaysApart, SayableParts
<1> QED
  BY <1>1, <1>2, <1>3, SayableParts

-----------------------------------------------------------------------------
(* The story of the chunks of a list.                                       *)

\* Every chunk of the list says a sequence.
ChunksTyped(list) ==
  /\ Listed(list)
  /\ \A j \in 1..Len(list) :
       Listed(list[j].says) /\ list[j] = Chunk(list[j].name, list[j].fate, list[j].says)

\* t[i] is the story of the first i chunks, and the meta tells that of them all.
Unfolds(list, t) ==
  /\ t = [i \in 0..Len(list) |-> IF i = 0 THEN <<>> ELSE t[i - 1] \o SpokenIn(list, i)]
  /\ \A i \in 0..Len(list) : Listed(t[i])

Story(list, p) == \E t : Unfolds(list, t) /\ Told(p, t[Len(list)])

\* A chunk says the same whatever comes behind it.
LEMMA HeadsSame ==
  ASSUME NEW old, NEW new, NEW i \in Nat, i >= 1, \A j \in 1..i : new[j].name = old[j].name,
         new[i].fate = old[i].fate
  PROVE  /\ HeadsIn(new, i) = HeadsIn(old, i)
         /\ \A say : GroupIn(new, i, say) = GroupIn(old, i, say)
<1>1. ASSUME NEW j \in Int, j <= i, NEW name PROVE SeenIn(new, name, j) <=> SeenIn(old, name, j)
  <2>1. \A k \in 1..j : k \in 1..i
    BY <1>1
  <2> QED
    BY <2>1 DEF SeenIn
<1>2. i \in Int /\ i - 1 \in Int /\ i - 2 \in Int /\ i - 1 <= i /\ i - 2 <= i /\ (i - 1) - 1 = i - 2
  OBVIOUS
<1>3. \A name : /\ SeenIn(new, name, i) <=> SeenIn(old, name, i)
                /\ SeenIn(new, name, i - 1) <=> SeenIn(old, name, i - 1)
                /\ SeenIn(new, name, i - 2) <=> SeenIn(old, name, i - 2)
  BY <1>1, <1>2
<1>4. (EndedIn(new, i) <=> EndedIn(old, i)) /\ (EndedIn(new, i - 1) <=> EndedIn(old, i - 1))
  BY <1>2, <1>3 DEF EndedIn
<1>5. AfterDataIn(new, i) = AfterDataIn(old, i)
  BY <1>3 DEF AfterDataIn
<1>6. new[i].name = old[i].name /\ new[i].fate = old[i].fate
  OBVIOUS
<1>7. HeaderWarning(new[i].name) = HeaderWarning(old[i].name)
  BY <1>6
<1>8. Ending(new[i]) = Ending(old[i])
  BY <1>6 DEF Ending
<1>9. HeadsIn(new, i) = HeadsIn(old, i)
  <2> DEFINE fate == old[i].fate
             name == old[i].name
  <2>1. When(EndedIn(new, i) /\ new[i].fate # "empty", TrailerData)
          = When(EndedIn(old, i) /\ old[i].fate # "empty", TrailerData)
    BY <1>4, <1>6 DEF When
  <2>2. When(new[i].fate \in {"whole", "cut"} /\ ~SeenIn(new, "IHDR", i), HeaderWarning(new[i].name))
          = When(old[i].fate \in {"whole", "cut"} /\ ~SeenIn(old, "IHDR", i), HeaderWarning(old[i].name))
    BY <1>3, <1>6, <1>7 DEF When
  <2>3. When(~(new[i].fate = "whole") /\ ~EndedIn(new, i), Warns(Ending(new[i])))
          = When(~(old[i].fate = "whole") /\ ~EndedIn(old, i), Warns(Ending(old[i])))
    BY <1>4, <1>6, <1>8 DEF When
  <2>4. When(new[i].fate = "whole" /\ new[i].name \in TextChunks /\ SeenIn(new, "IDAT", i - 1),
             AfterDataIn(new, i))
          = When(old[i].fate = "whole" /\ old[i].name \in TextChunks /\ SeenIn(old, "IDAT", i - 1),
                 AfterDataIn(old, i))
    BY <1>3, <1>5, <1>6 DEF When
  <2>5. When(new[i].fate = "whole" /\ new[i].name = "exif", Warns("should be eXIf"))
          = When(old[i].fate = "whole" /\ old[i].name = "exif", Warns("should be eXIf"))
    BY <1>6 DEF When
  <2> QED
    BY <2>1, <2>2, <2>3, <2>4, <2>5 DEF HeadsIn
<1>10. ASSUME NEW say PROVE GroupIn(new, i, say) = GroupIn(old, i, say)
  BY <1>4 DEF GroupIn
<1> QED
  BY <1>9, <1>10

\* Sequences of the same groups have the same entries.
LEMMA EntriesSame ==
  ASSUME NEW old, NEW new, NEW i, \A say : GroupIn(new, i, say) = GroupIn(old, i, say)
  PROVE  \A says : EntriesIn(new, i, says) = EntriesIn(old, i, says)
BY DEF EntriesIn

\* The same of the last chunk, when it has come to say more.
LEMMA LastSame ==
  ASSUME NEW old, NEW new, NEW l \in Nat, l >= 1, \A j \in 1..l : new[j].name = old[j].name,
         new[l].fate = old[l].fate
  PROVE  /\ HeadsIn(new, l) = HeadsIn(old, l)
         /\ \A says : EntriesIn(new, l, says) = EntriesIn(old, l, says)
<1>1. /\ HeadsIn(new, l) = HeadsIn(old, l)
      /\ \A say : GroupIn(new, l, say) = GroupIn(old, l, say)
  BY HeadsSame
<1> QED
  BY <1>1, EntriesSame

\* An earlier chunk keeps its story.
LEMMA SpokenSame ==
  ASSUME NEW old, NEW new, NEW i \in Nat, i >= 1, \A j \in 1..i : new[j] = old[j]
  PROVE  SpokenIn(new, i) = SpokenIn(old, i)
<1>1. new[i] = old[i] /\ \A j \in 1..i : new[j].name = old[j].name
  OBVIOUS
<1>2. /\ HeadsIn(new, i) = HeadsIn(old, i)
      /\ \A say : GroupIn(new, i, say) = GroupIn(old, i, say)
  BY <1>1, HeadsSame
<1>3. SaysIn(new, i) = SaysIn(old, i)
  BY <1>1, <1>2 DEF SaysIn
<1> QED
  BY <1>2, <1>3, EntriesSame DEF SpokenIn

\* A chunk more, when it has said all.
LEMMA StoryGrows ==
  ASSUME NEW old, ChunksTyped(old), NEW t, Unfolds(old, t), NEW c, Listed(c.says),
         c = Chunk(c.name, c.fate, c.says), NEW new, new = Append(old, c),
         NEW p, Telling(new, Len(old) + 1, p, t[Len(old)], SaysIn(new, Len(old) + 1))
  PROVE  ChunksTyped(new) /\ Story(new, p)
<1> DEFINE l == Len(old)
<1>1. /\ Listed(old) /\ l \in Nat /\ Listed(new) /\ Len(new) = l + 1
      /\ \A j \in 1..l : new[j] = old[j]
      /\ new[l + 1] = c
  BY ListedIs, ListedAppend DEF ChunksTyped
<1>2. ChunksTyped(new)
  <2>1. ASSUME NEW j \in 1..Len(new)
        PROVE  Listed(new[j].says) /\ new[j] = Chunk(new[j].name, new[j].fate, new[j].says)
    <3>1. CASE j \in 1..l
      BY <1>1, <3>1 DEF ChunksTyped
    <3>2. CASE j = l + 1
      BY <1>1, <3>2
    <3> QED
      BY <1>1, <3>1, <3>2
  <2> QED
    BY <1>1, <2>1 DEF ChunksTyped
<1>3. ASSUME NEW i \in 1..l PROVE SpokenIn(new, i) = SpokenIn(old, i)
  <2>1. i \in Nat /\ i >= 1 /\ \A j \in 1..i : new[j] = old[j]
    BY <1>1
  <2> QED
    BY <2>1, SpokenSame
<1> DEFINE more == t[l] \o SpokenIn(new, l + 1)
           u == [i \in 0..(l + 1) |-> IF i = l + 1 THEN more ELSE t[i]]
<1>4. Listed(more) /\ Told(p, more)
  <2>1. Listed(SpokenIn(new, l + 1))
    <3>1. Listed(SaysIn(new, l + 1))
      BY <1>1, HeadsListed, ListedConcat DEF SaysIn
    <3> QED
      BY <3>1, EntriesListed DEF SpokenIn
  <2>2. Listed(t[l])
    BY <1>1 DEF Unfolds
  <2> QED
    BY <2>1, <2>2, ListedConcat DEF Telling, SpokenIn
<1>5. \A i \in 0..l : t[i] = (IF i = 0 THEN <<>> ELSE t[i - 1] \o SpokenIn(old, i)) /\ Listed(t[i])
  BY DEF Unfolds
<1>6. \A i \in 0..(l + 1) : u[i] = IF i = 0 THEN <<>> ELSE u[i - 1] \o SpokenIn(new, i)
  <2> TAKE i \in 0..(l + 1)
  <2>1. CASE i = l + 1
    <3>1. i - 1 = l /\ i # 0 /\ l \in 0..(l + 1) /\ l # l + 1
      BY <1>1, <2>1
    <3>2. u[l] = t[l]
      BY <3>1
    <3>3. u[i] = more
      BY <2>1
    <3> QED
      BY <2>1, <3>1, <3>2, <3>3
  <2>2. CASE i = 0
    <3>1. u[i] = t[0] /\ 0 \in 0..l
      BY <1>1, <2>2
    <3> QED
      BY <1>5, <2>2, <3>1
  <2>3. CASE i # 0 /\ i # l + 1
    <3>1. i \in 1..l /\ i \in 0..l /\ i - 1 \in 0..(l + 1) /\ i - 1 # l + 1
      BY <1>1, <2>3
    <3>2. u[i] = t[i] /\ u[i - 1] = t[i - 1]
      BY <2>3, <3>1
    <3> HIDE DEF u
    <3> QED
      BY <1>3, <1>5, <2>3, <3>1, <3>2
  <2> QED
    BY <2>1, <2>2, <2>3
<1>7. \A i \in 0..(l + 1) : Listed(u[i])
  <2> TAKE i \in 0..(l + 1)
  <2>1. i = l + 1 \/ i \in 0..l
    BY <1>1
  <2> HIDE DEF more
  <2> QED
    BY <1>4, <1>5, <2>1
<1>8. Unfolds(new, u)
  <2>1. u = [i \in 0..(l + 1) |-> IF i = 0 THEN <<>> ELSE u[i - 1] \o SpokenIn(new, i)]
    <3>1. u = [i \in 0..(l + 1) |-> u[i]]
      OBVIOUS
    <3> HIDE DEF u
    <3> QED
      BY <1>6, <3>1
  <2> HIDE DEF u
  <2> QED
    BY <1>1, <1>7, <2>1 DEF Unfolds
<1>9. u[Len(new)] = more
  BY <1>1
<1> QED
  <2> HIDE DEF u, more
  <2> QED
    BY <1>2, <1>4, <1>8, <1>9 DEF Story

\* A chunk that says more keeps its name and its fate.
LEMMA MoreSaid ==
  \A name, fate, said, more :
    [[name |-> name, fate |-> fate, says |-> said] EXCEPT !.says = more]
      = [name |-> name, fate |-> fate, says |-> more]
OBVIOUS

\* The last chunk says more.
Lengthened(list, says) == [list EXCEPT ![Len(list)].says = @ \o says]

\* The story of a list whose last chunk has said more.
LEMMA StoryLengthens ==
  ASSUME NEW old, ChunksTyped(old), NEW t, Unfolds(old, t), Len(old) > 0,
         NEW says, Sayable(says), NEW new, new = Lengthened(old, says),
         NEW p, Told(p, t[Len(old)]), p.in_trailer <=> EndedIn(old, Len(old))
  PROVE  /\ ChunksTyped(new) /\ Len(new) = Len(old)
         /\ \A j \in 1..Len(old) : new[j].name = old[j].name
         /\ Story(new, PushAll(p, says)) /\ SameFlags(PushAll(p, says), p)
<1>0. PICK l : l = Len(old)
  OBVIOUS
<1> DEFINE c == [old[l] EXCEPT !.says = @ \o says]
<1>1. /\ Listed(old) /\ l \in Nat /\ DOMAIN old = 1..l /\ l \in 1..l /\ l - 1 \in 0..l
      /\ l # 0 /\ l - 1 # l /\ l \in 0..l
  BY <1>0, ListedIs DEF ChunksTyped
<1>2. Listed(old[l].says) /\ Listed(says) /\ old[l] = Chunk(old[l].name, old[l].fate, old[l].says)
  BY <1>0, <1>1 DEF ChunksTyped, Sayable
<1>3. /\ c.name = old[l].name /\ c.fate = old[l].fate /\ c.says = old[l].says \o says
      /\ c = Chunk(c.name, c.fate, c.says) /\ Listed(c.says)
  <2>1. PICK name, fate, said : old[l] = [name |-> name, fate |-> fate, says |-> said]
    BY <1>2 DEF Chunk
  <2>2. c = [name |-> name, fate |-> fate, says |-> said \o says]
    <3>1. PICK last : last = old[l]
      OBVIOUS
    <3>2. PICK more : more = said \o says
      OBVIOUS
    <3>3. last.says = said
      BY <2>1, <3>1
    <3>4. c = [last EXCEPT !.says = more]
      BY <3>1, <3>2, <3>3
    <3>5. [last EXCEPT !.says = more] = [name |-> name, fate |-> fate, says |-> more]
      BY <2>1, <3>1, MoreSaid
    <3> QED
      BY <3>2, <3>4, <3>5
  <2> HIDE DEF c
  <2>3. c.name = old[l].name /\ c.fate = old[l].fate /\ c.says = old[l].says \o says
    BY <2>1, <2>2
  <2>4. c = Chunk(c.name, c.fate, c.says)
    BY <2>2 DEF Chunk
  <2> QED
    BY <1>2, <2>3, <2>4, ListedConcat
<1>4. new = [old EXCEPT ![l] = c]
  BY <1>0 DEF Lengthened
<1> HIDE DEF c
<1>5. /\ Listed(new) /\ Len(new) = l /\ new[l] = c
      /\ \A j \in 1..l : j # l => new[j] = old[j]
  <2>1. PICK T : old \in Seq(T)
    BY <1>1 DEF Listed
  <2>2. old \in Seq(T \cup {c})
    BY <2>1
  <2>3. new \in Seq(T \cup {c}) /\ Len(new) = l
    BY <1>0, <1>1, <1>4, <2>2, ExceptSeq
  <2>4. new[l] = c /\ \A j \in 1..l : j # l => new[j] = old[j]
    BY <1>1, <1>4
  <2> QED
    BY <2>3, <2>4 DEF Listed
<1>6. \A j \in 1..l : new[j].name = old[j].name
  BY <1>3, <1>5
<1>7. ChunksTyped(new)
  BY <1>0, <1>3, <1>5 DEF ChunksTyped
<1>8. /\ HeadsIn(new, l) = HeadsIn(old, l)
      /\ \A a : EntriesIn(new, l, a) = EntriesIn(old, l, a)
  <2>1. l \in Nat /\ l >= 1 /\ new[l].fate = old[l].fate
    BY <1>1, <1>3, <1>5
  <2>2. PICK later : later = new
    OBVIOUS
  <2>3. /\ \A j \in 1..l : later[j].name = old[j].name
        /\ later[l].fate = old[l].fate
    BY <1>6, <2>1, <2>2
  <2>4. /\ HeadsIn(later, l) = HeadsIn(old, l)
        /\ \A a : EntriesIn(later, l, a) = EntriesIn(old, l, a)
    BY <2>1, <2>3, LastSame
  <2> QED
    BY <2>2, <2>4
<1>9. SaysIn(new, l) = SaysIn(old, l) \o says /\ Listed(SaysIn(old, l))
  <2>1. Listed(HeadsIn(old, l))
    BY HeadsListed
  <2>2. SaysIn(new, l) = HeadsIn(old, l) \o (old[l].says \o says)
    BY <1>3, <1>5, <1>8 DEF SaysIn
  <2>3. PICK heads, body : heads = HeadsIn(old, l) /\ body = old[l].says
    OBVIOUS
  <2>4. Listed(heads) /\ Listed(body) /\ Listed(says)
    BY <1>2, <2>1, <2>3
  <2>5. heads \o (body \o says) = (heads \o body) \o says /\ Listed(heads \o body)
    BY <2>4, ListedRegroup, ListedConcat, SMTT(30)
  <2> QED
    BY <2>2, <2>3, <2>5 DEF SaysIn
<1>10. \A i \in 0..l : t[i] = (IF i = 0 THEN <<>> ELSE t[i - 1] \o SpokenIn(old, i)) /\ Listed(t[i])
  BY <1>0 DEF Unfolds
<1> DEFINE before == t[l - 1]
<1>11. Listed(before) /\ t[l] = before \o EntriesIn(old, l, SaysIn(old, l))
  <2>1. Listed(t[l - 1])
    BY <1>1, <1>10
  <2>2. t[l] = t[l - 1] \o SpokenIn(old, l)
    BY <1>1, <1>10
  <2> QED
    BY <2>1, <2>2 DEF SpokenIn
<1>12. Telling(old, l, p, before, SaysIn(old, l))
  BY <1>0, <1>9, <1>11 DEF Telling
<1>13. /\ Telling(old, l, PushAll(p, says), before, SaysIn(old, l) \o says)
       /\ SameFlags(PushAll(p, says), p)
  BY <1>0, <1>12, SayAll
<1>14. EntriesIn(old, l, SaysIn(new, l)) = SpokenIn(new, l)
  BY <1>8 DEF SpokenIn
<1> DEFINE more == before \o SpokenIn(new, l)
           u == [i \in 0..l |-> IF i = l THEN more ELSE t[i]]
<1>15. Told(PushAll(p, says), more) /\ Listed(more)
  <2>1. Told(PushAll(p, says), before \o EntriesIn(old, l, SaysIn(new, l)))
    BY <1>9, <1>13 DEF Telling
  <2>2. Listed(SpokenIn(new, l))
    <3>1. Listed(SaysIn(new, l))
      BY <1>9, <1>2, ListedConcat
    <3> QED
      BY <3>1, EntriesListed DEF SpokenIn
  <2> QED
    BY <1>11, <1>14, <2>1, <2>2, ListedConcat
<1>16. ASSUME NEW i \in 1..(l - 1) PROVE SpokenIn(new, i) = SpokenIn(old, i)
  <2>1. i \in Nat /\ i >= 1 /\ \A j \in 1..i : new[j] = old[j]
    BY <1>1, <1>5
  <2> QED
    BY <2>1, SpokenSame
<1> HIDE DEF before, more
<1>17. \A i \in 0..l : u[i] = IF i = 0 THEN <<>> ELSE u[i - 1] \o SpokenIn(new, i)
  <2> TAKE i \in 0..l
  <2>1. CASE i = l
    <3>1. u[l] = more /\ u[l - 1] = t[l - 1]
      BY <1>1
    <3> HIDE DEF u
    <3> QED
      BY <1>1, <2>1, <3>1 DEF more, before
  <2>2. CASE i # l
    <3>1. u[i] = t[i]
      BY <2>2
    <3>2. CASE i = 0
      BY <1>10, <3>1, <3>2
    <3>3. CASE i # 0
      <4>1. i \in 1..(l - 1) /\ i - 1 \in 0..l /\ i - 1 # l
        BY <1>1, <2>2, <3>3
      <4>2. u[i - 1] = t[i - 1]
        BY <4>1
      <4> HIDE DEF u
      <4> QED
        BY <1>10, <1>16, <3>1, <3>3, <4>1, <4>2
    <3> QED
      BY <3>2, <3>3
  <2> QED
    BY <2>1, <2>2
<1>18. \A i \in 0..l : Listed(u[i])
  BY <1>10, <1>15
<1>19. Unfolds(new, u) /\ u[Len(new)] = more
  <2>1. u = [i \in 0..l |-> u[i]] /\ u[l] = more
    BY <1>1
  <2> HIDE DEF u
  <2> QED
    BY <1>5, <1>17, <1>18, <2>1 DEF Unfolds
<1> HIDE DEF u
<1>20. Story(new, PushAll(p, says))
  BY <1>15, <1>19 DEF Story
<1> QED
  BY <1>0, <1>5, <1>6, <1>7, <1>13, <1>20

\* Nothing said changes nothing.
LEMMA PushNothing == \A p : PushAll(p, <<>>) = p
<1> SUFFICES ASSUME NEW p PROVE PushAll(p, <<>>) = p
  OBVIOUS
<1>1. PICK none : none = <<>>
  OBVIOUS
<1>2. Len(none) = 0
  BY <1>1
<1>3. PICK f : f[0] = p /\ PushAll(p, none) = f[Len(none)]
  <2>1. Len(none) \in Nat
    BY <1>2
  <2> QED
    BY <2>1, PushAllSteps, SMTT(30)
<1> QED
  BY <1>1, <1>2, <1>3

\* What was seen before a chunk, and with it.
OneChunkOn(old, c, list, i) ==
  /\ i \in Nat /\ i >= 1 /\ Len(list) = i /\ list[i] = c
  /\ \A name : SeenIn(list, name, i - 1) <=> SeenIn(old, name, Len(old))
  /\ \A name : SeenIn(list, name, i) <=> SeenIn(old, name, Len(old)) \/ c.name = name
  /\ EndedIn(list, i) <=> SeenIn(old, "IEND", Len(old))
  /\ EndedIn(list, i - 1) <=> EndedIn(old, Len(old))
  /\ EndedIn(list, i - 1) => EndedIn(list, i)

\* One more chunk in the list.
LEMMA SeenNow == \A old, c : Listed(old) => OneChunkOn(old, c, Append(old, c), Len(old) + 1)
<1> SUFFICES ASSUME NEW old, NEW c, Listed(old)
             PROVE  \A list, i : list = Append(old, c) /\ i = Len(old) + 1 => OneChunkOn(old, c, list, i)
  OBVIOUS
<1> TAKE list, i
<1> HAVE list = Append(old, c) /\ i = Len(old) + 1
<1>1. PICK l : l = Len(old)
  OBVIOUS
<1>2. /\ l \in Nat /\ i = l + 1 /\ i - 1 = l /\ Len(list) = i /\ list[i] = c
      /\ \A j \in 1..l : list[j] = old[j]
  BY <1>1, ListedIs, ListedAppend
<1>3. \A name : SeenIn(list, name, l) <=> SeenIn(old, name, l)
  BY <1>2 DEF SeenIn
<1>4. \A name : SeenIn(list, name, i) <=> SeenIn(list, name, l) \/ c.name = name
  BY <1>2 DEF SeenIn
<1>5. \A name : SeenIn(list, name, l - 1) <=> SeenIn(old, name, l - 1)
  <2>1. \A j \in 1..(l - 1) : j \in 1..l
    BY <1>2
  <2> QED
    BY <1>2, <2>1 DEF SeenIn
<1>6. \A name : SeenIn(list, name, l - 1) => SeenIn(list, name, l)
  BY <1>2 DEF SeenIn
<1> QED
  BY <1>1, <1>2, <1>3, <1>4, <1>5, <1>6 DEF EndedIn, OneChunkOn

\* A chunk at hand has said nothing yet.
LEMMA SaidNothing ==
  ASSUME NEW list, NEW i, NEW p, NEW t, Told(p, t)
  PROVE  Telling(list, i, p, t, <<>>)
<1>1. Listed(t) /\ Listed(<<>>) /\ Len(<<>>) = 0
  BY ListedFew DEF Told
<1>2. PICK e : e = EntriesIn(list, i, <<>>)
  OBVIOUS
<1>3. Listed(e) /\ Len(e) = 0
  BY <1>1, <1>2, EntriesListed
<1>4. e = <<>>
  BY <1>1, <1>3, ListedSame
<1>5. t \o <<>> = t
  BY <1>1, ListedRegroup
<1> QED
  BY <1>1, <1>2, <1>4, <1>5 DEF Telling

\* The warning of a trailer, and the trailer it opens.
LEMMA TrailerTold ==
  ASSUME NEW list, NEW i, NEW p, NEW t, Telling(list, i, p, t, <<>>),
         p.in_trailer <=> EndedIn(list, i - 1), EndedIn(list, i - 1) => EndedIn(list, i),
         NEW warned \in BOOLEAN, warned => EndedIn(list, i),
         NEW q, q = IF warned THEN begin_trailer(Push(p, TrailerData)) ELSE p
  PROVE  /\ Telling(list, i, q, t, When(warned, TrailerData))
         /\ q.is_apng = p.is_apng /\ q.in_trailer \in BOOLEAN
         /\ warned => q.in_trailer
         /\ ~EndedIn(list, i) => ~q.in_trailer
<1>0. p.in_trailer \in BOOLEAN
  BY DEF Telling, Told, Meta
<1>1. CASE warned
  <2>1. GroupIn(list, i, TrailerData) = GroupNow(p, TrailerData)
    <3>1. TrailerData.source \in Watermarked /\ TrailerData.source \notin Boxes
      BY DEF TrailerData, Warns, Warning, Say, Watermarked, Boxes
    <3> QED
      BY <1>0, <1>1, <3>1 DEF GroupIn, GroupNow
  <2>2. PICK r : r = Push(p, TrailerData)
    OBVIOUS
  <2>3. Telling(list, i, r, t, <<>> \o <<TrailerData>>) /\ SameFlags(r, p)
    BY <2>1, <2>2, SaysApart, SayOne
  <2>4. <<>> \o <<TrailerData>> = When(warned, TrailerData)
    <3>1. Listed(<<>>) /\ Append(<<>>, TrailerData) = <<TrailerData>>
      BY ListedFew
    <3>2. <<>> \o <<TrailerData>> = Append(<<>>, TrailerData)
      BY <3>1, ListedOneMore
    <3> QED
      BY <1>1, <3>1, <3>2 DEF When
  <2>5. q = begin_trailer(r)
    BY <1>1, <2>2
  <2>6. Telling(list, i, q, t, When(warned, TrailerData)) /\ q.in_trailer = TRUE /\ q.is_apng = r.is_apng
    BY <2>3, <2>4, <2>5, BeginTold DEF Telling
  <2> QED
    BY <1>1, <2>3, <2>6 DEF SameFlags
<1>2. CASE ~warned
  <2>1. q = p /\ When(warned, TrailerData) = <<>>
    BY <1>2 DEF When
  <2> QED
    BY <1>0, <1>2, <2>1
<1> QED
  BY <1>1, <1>2

\* What may be said now.
MaySay(list, i, q, w, say) ==
  w => say.source \in Outlets /\ say # TrailerData /\ (q.in_trailer <=> EndedIn(list, i))
SaidIf(q, w, say) == IF w THEN Push(q, say) ELSE q

\* Whatever may be said now gets the group of its chunk.
LEMMA SayRight ==
  ASSUME NEW list, NEW i, NEW q, NEW told, NEW h, NEW w \in BOOLEAN, NEW say,
         Telling(list, i, q, told, h), MaySay(list, i, q, w, say)
  PROVE  /\ Telling(list, i, SaidIf(q, w, say), told, h \o When(w, say))
         /\ SameFlags(SaidIf(q, w, say), q)
<1>1. CASE w
  <2>1. say.source \in Outlets /\ say # TrailerData /\ (q.in_trailer <=> EndedIn(list, i))
    BY <1>1 DEF MaySay
  <2>2. q.in_trailer \in BOOLEAN
    BY DEF Telling, Told, Meta
  <2>3. GroupIn(list, i, say) = GroupNow(q, say)
    BY <2>1, <2>2, GroupRight
  <2>4. Telling(list, i, Push(q, say), told, h \o <<say>>) /\ SameFlags(Push(q, say), q)
    BY <2>1, <2>3, SayOne
  <2> QED
    BY <1>1, <2>4 DEF SaidIf, When
<1>2. CASE ~w
  <2>1. h \o <<>> = h
    BY ListedRegroup DEF Telling
  <2> QED
    BY <1>2, <2>1 DEF SaidIf, When, SameFlags
<1> QED
  BY <1>1, <1>2

\* The conditions under which a chunk heads what it says with a warning.
IsTrailer(list, i) == EndedIn(list, i) /\ list[i].fate # "empty"
IsHeadless(list, i) == list[i].fate \in {"whole", "cut"} /\ ~SeenIn(list, "IHDR", i)
IsLast(list, i) == ~(list[i].fate = "whole") /\ ~EndedIn(list, i)
IsLateText(list, i) ==
  list[i].fate = "whole" /\ list[i].name \in TextChunks /\ SeenIn(list, "IDAT", i - 1)
IsCaseVariant(list, i) == list[i].fate = "whole" /\ list[i].name = "exif"

\* The meta when the loop has come so far with a chunk.
PastTrailer(list, i, p) ==
  IF IsTrailer(list, i) THEN begin_trailer(Push(p, TrailerData)) ELSE p
PastHeader(list, i, p) ==
  SaidIf(PastTrailer(list, i, p), IsHeadless(list, i), HeaderWarning(list[i].name))
PastEnd(list, i, p) == SaidIf(PastHeader(list, i, p), IsLast(list, i), Warns(Ending(list[i])))
PastText(list, i, p) == SaidIf(PastEnd(list, i, p), IsLateText(list, i), AfterDataIn(list, i))
PastCase(list, i, p) == SaidIf(PastText(list, i, p), IsCaseVariant(list, i), Warns("should be eXIf"))
PastBody(list, i, p) == PushAll(PastCase(list, i, p), list[i].says)

\* The warnings of the loop are no warnings of a trailer.
LEMMA HeadsApart ==
  \A list, i : /\ HeaderWarning(list[i].name).source \in Outlets /\ HeaderWarning(list[i].name) # TrailerData
               /\ Warns(Ending(list[i])).source \in Outlets /\ Warns(Ending(list[i])) # TrailerData
               /\ AfterDataIn(list, i).source \in Outlets /\ AfterDataIn(list, i) # TrailerData
               /\ Warns("should be eXIf").source \in Outlets /\ Warns("should be eXIf") # TrailerData
<1> SUFFICES ASSUME NEW list, NEW i
             PROVE  /\ HeaderWarning(list[i].name).source \in Outlets /\ HeaderWarning(list[i].name) # TrailerData
                    /\ Warns(Ending(list[i])).source \in Outlets /\ Warns(Ending(list[i])) # TrailerData
                    /\ AfterDataIn(list, i).source \in Outlets /\ AfterDataIn(list, i) # TrailerData
                    /\ Warns("should be eXIf").source \in Outlets /\ Warns("should be eXIf") # TrailerData
  OBVIOUS
<1>1. \A word : word # "trailer data" => Warns(word).source \in Outlets /\ Warns(word) # TrailerData
  BY SaysApart
<1>2. Ending(list[i]) # "trailer data"
  BY DEF Ending
<1>3. HeaderWarning(list[i].name).source \in Outlets /\ HeaderWarning(list[i].name) # TrailerData
  BY <1>1 DEF HeaderWarning
<1>4. AfterDataIn(list, i).source \in Outlets /\ AfterDataIn(list, i) # TrailerData
  <2>1. \A x : <<"after image data", x>>[1] # "trailer data"
    OBVIOUS
  <2> QED
    BY <2>1, SaysApart DEF AfterDataIn
<1> QED
  BY <1>1, <1>2, <1>3, <1>4

\* All of a chunk was said, and nothing else was changed but for the trailer.
HasSaid(list, i, p, told) ==
  LET q == PastBody(list, i, p)
  IN  /\ Telling(list, i, q, told, SaysIn(list, i))
      /\ q.is_apng = p.is_apng /\ PastEnd(list, i, p).is_apng = p.is_apng
      /\ list[i].fate # "empty" => (q.in_trailer <=> EndedIn(list, i))

\* A chunk says what it has to say, in the order of the code.
LEMMA BodyTold ==
  ASSUME NEW list, NEW i, NEW p, NEW told, Told(p, told),
         p.in_trailer <=> EndedIn(list, i - 1), EndedIn(list, i - 1) => EndedIn(list, i),
         Sayable(list[i].says), list[i].fate = "empty" => list[i].says = <<>>
  PROVE  HasSaid(list, i, p, told)
<1>1. PICK q1, q2, q3, q4, q5, q6 :
        /\ q1 = PastTrailer(list, i, p) /\ q2 = PastHeader(list, i, p)
        /\ q3 = PastEnd(list, i, p) /\ q4 = PastText(list, i, p)
        /\ q5 = PastCase(list, i, p) /\ q6 = PastBody(list, i, p)
  OBVIOUS
<1>2. /\ IsTrailer(list, i) \in BOOLEAN /\ IsHeadless(list, i) \in BOOLEAN
      /\ IsLast(list, i) \in BOOLEAN /\ IsLateText(list, i) \in BOOLEAN
      /\ IsCaseVariant(list, i) \in BOOLEAN
  BY DEF IsTrailer, IsHeadless, IsLast, IsLateText, IsCaseVariant
<1>3. PICK h1, h2, h3, h4, h5 :
        /\ h1 = When(IsTrailer(list, i), TrailerData)
        /\ h2 = h1 \o When(IsHeadless(list, i), HeaderWarning(list[i].name))
        /\ h3 = h2 \o When(IsLast(list, i), Warns(Ending(list[i])))
        /\ h4 = h3 \o When(IsLateText(list, i), AfterDataIn(list, i))
        /\ h5 = h4 \o When(IsCaseVariant(list, i), Warns("should be eXIf"))
  OBVIOUS
<1>4. SaysIn(list, i) = h5 \o list[i].says
  BY <1>3, Zenon DEF SaysIn, HeadsIn, IsTrailer, IsHeadless, IsLast, IsLateText, IsCaseVariant
<1>5. Telling(list, i, p, told, <<>>)
  BY SaidNothing
<1>6. /\ Telling(list, i, q1, told, h1)
      /\ q1.is_apng = p.is_apng /\ q1.in_trailer \in BOOLEAN
      /\ IsTrailer(list, i) => q1.in_trailer
      /\ ~EndedIn(list, i) => ~q1.in_trailer
  <2>1. q1 = IF IsTrailer(list, i) THEN begin_trailer(Push(p, TrailerData)) ELSE p
    BY <1>1 DEF PastTrailer
  <2>2. IsTrailer(list, i) => EndedIn(list, i)
    BY DEF IsTrailer
  <2> QED
    BY <1>2, <1>3, <1>5, <2>1, <2>2, TrailerTold
<1>7. /\ list[i].fate # "empty" => (q1.in_trailer <=> EndedIn(list, i))
      /\ ~EndedIn(list, i) => (q1.in_trailer <=> EndedIn(list, i))
  BY <1>6 DEF IsTrailer
<1>8. Telling(list, i, q2, told, h2) /\ SameFlags(q2, q1)
  <2>1. MaySay(list, i, q1, IsHeadless(list, i), HeaderWarning(list[i].name))
    BY <1>7, HeadsApart DEF MaySay, IsHeadless
  <2>2. q2 = SaidIf(q1, IsHeadless(list, i), HeaderWarning(list[i].name))
    BY <1>1 DEF PastHeader
  <2> QED
    BY <1>2, <1>3, <1>6, <2>1, <2>2, SayRight
<1>9. Telling(list, i, q3, told, h3) /\ SameFlags(q3, q1)
  <2>1. MaySay(list, i, q2, IsLast(list, i), Warns(Ending(list[i])))
    BY <1>7, <1>8, HeadsApart DEF MaySay, IsLast, SameFlags
  <2>2. q3 = SaidIf(q2, IsLast(list, i), Warns(Ending(list[i])))
    BY <1>1 DEF PastEnd
  <2>3. Telling(list, i, q3, told, h3) /\ SameFlags(q3, q2)
    BY <1>2, <1>3, <1>8, <2>1, <2>2, SayRight
  <2> QED
    BY <1>8, <2>3 DEF SameFlags
<1>10. Telling(list, i, q4, told, h4) /\ SameFlags(q4, q1)
  <2>1. MaySay(list, i, q3, IsLateText(list, i), AfterDataIn(list, i))
    BY <1>7, <1>9, HeadsApart DEF MaySay, IsLateText, SameFlags
  <2>2. q4 = SaidIf(q3, IsLateText(list, i), AfterDataIn(list, i))
    BY <1>1 DEF PastText
  <2>3. Telling(list, i, q4, told, h4) /\ SameFlags(q4, q3)
    BY <1>2, <1>3, <1>9, <2>1, <2>2, SayRight
  <2> QED
    BY <1>9, <2>3 DEF SameFlags
<1>11. Telling(list, i, q5, told, h5) /\ SameFlags(q5, q1)
  <2>1. MaySay(list, i, q4, IsCaseVariant(list, i), Warns("should be eXIf"))
    BY <1>7, <1>10, HeadsApart DEF MaySay, IsCaseVariant, SameFlags
  <2>2. q5 = SaidIf(q4, IsCaseVariant(list, i), Warns("should be eXIf"))
    BY <1>1 DEF PastCase
  <2>3. Telling(list, i, q5, told, h5) /\ SameFlags(q5, q4)
    BY <1>2, <1>3, <1>10, <2>1, <2>2, SayRight
  <2> QED
    BY <1>10, <2>3 DEF SameFlags
<1>12. Telling(list, i, q6, told, h5 \o list[i].says) /\ SameFlags(q6, q5)
  <2>1. q6 = PushAll(q5, list[i].says)
    BY <1>1 DEF PastBody
  <2>2. CASE list[i].fate = "empty"
    <3>1. h5 \o <<>> = h5
      BY <1>11, ListedRegroup DEF Telling
    <3>2. q6 = q5 /\ list[i].says = <<>>
      BY <2>1, <2>2, PushNothing
    <3> QED
      BY <1>11, <3>1, <3>2 DEF SameFlags
  <2>3. CASE list[i].fate # "empty"
    <3>1. q5.in_trailer <=> EndedIn(list, i)
      BY <1>7, <1>11, <2>3 DEF SameFlags
    <3> QED
      BY <1>11, <2>1, <3>1, SayAll
  <2> QED
    BY <2>2, <2>3
<1> QED
  BY <1>1, <1>4, <1>6, <1>7, <1>9, <1>11, <1>12 DEF SameFlags, HasSaid

\* A chunk is read, and the story goes on.
Speaks(c) ==
  /\ c = Chunk(c.name, c.fate, c.says) /\ Sayable(c.says)
  /\ c.fate = "empty" => c.says = <<>>
ReadWell(list, i, p, fate) ==
  LET q == PastBody(list, i, p)
  IN  /\ ChunksTyped(list) /\ Story(list, q)
      /\ q.is_apng = p.is_apng /\ PastEnd(list, i, p).is_apng = p.is_apng
      /\ fate # "empty" => (q.in_trailer <=> EndedIn(list, i))

\* The list and the meta after a chunk, told of any list and meta.
LEMMA ChunkTold ==
  ASSUME NEW old, ChunksTyped(old), NEW p, Story(old, p),
         p.in_trailer <=> EndedIn(old, Len(old)),
         NEW c, Speaks(c), NEW list, list = Append(old, c), NEW i, i = Len(old) + 1
  PROVE  ReadWell(list, i, p, c.fate)
<1>0. c = Chunk(c.name, c.fate, c.says) /\ Sayable(c.says) /\ (c.fate = "empty" => c.says = <<>>)
  BY DEF Speaks
<1>1. PICK t : Unfolds(old, t) /\ Told(p, t[Len(old)])
  BY DEF Story
<1>2. PICK told : told = t[Len(old)]
  OBVIOUS
<1>3. Listed(old) /\ Listed(c.says)
  BY <1>0 DEF ChunksTyped, Sayable
<1>4. OneChunkOn(old, c, list, i)
  BY <1>3, SeenNow
<1>5. PICK q : q = PastBody(list, i, p)
  OBVIOUS
<1>6. HasSaid(list, i, p, told)
  <2>1. /\ list[i] = c
        /\ EndedIn(list, i - 1) <=> EndedIn(old, Len(old))
        /\ EndedIn(list, i - 1) => EndedIn(list, i)
    BY <1>4 DEF OneChunkOn
  <2>2. Told(p, told)
    BY <1>1, <1>2
  <2>3. p.in_trailer <=> EndedIn(list, i - 1)
    BY <2>1
  <2>4. Sayable(list[i].says) /\ (list[i].fate = "empty" => list[i].says = <<>>)
    BY <1>0, <2>1
  <2>5. HasSaid(list, i, p, told)
    BY <2>1, <2>2, <2>3, <2>4, BodyTold
  <2> QED
    BY <2>5
<1>7. ChunksTyped(list) /\ Story(list, q)
  <2>1. Telling(list, Len(old) + 1, q, t[Len(old)], SaysIn(list, Len(old) + 1))
    BY <1>2, <1>5, <1>6 DEF HasSaid
  <2> QED
    BY <1>0, <1>1, <1>3, <2>1, StoryGrows
<1>8. c.fate # "empty" => (q.in_trailer <=> EndedIn(list, i))
  BY <1>4, <1>5, <1>6 DEF HasSaid, OneChunkOn
<1> QED
  BY <1>5, <1>6, <1>7, <1>8 DEF HasSaid, ReadWell

-----------------------------------------------------------------------------
(* The chunk loop tells the story of its chunks.                            *)

\* The flags of the loop and of the meta say what the chunks were.
Position(list, p, hdr, dat, end) ==
  /\ hdr <=> SeenIn(list, "IHDR", Len(list))
  /\ dat <=> SeenIn(list, "IDAT", Len(list))
  /\ end <=> SeenIn(list, "IEND", Len(list))
  /\ p.is_apng <=> SeenIn(list, "acTL", Len(list))
  /\ p.in_trailer <=> EndedIn(list, Len(list))

\* The loop so far: its list, its meta, its flags and its level.
StoryHolds(list, p, hdr, dat, end, loops, level) ==
  /\ ChunksTyped(list) /\ Story(list, p)
  /\ hdr \in BOOLEAN /\ dat \in BOOLEAN /\ end \in BOOLEAN /\ loops \in BOOLEAN
  /\ level # NoLevel => loops /\ Len(list) > 0
  /\ loops => Position(list, p, hdr, dat, end)

StoryInv == StoryHolds(chunks, png, was_hdr, was_dat, was_end, walking, depth)

\* The parts of a chunk.
LEMMA ChunkIs ==
  \A name, fate, says :
    LET c == Chunk(name, fate, says)
    IN  c.name = name /\ c.fate = fate /\ c.says = says /\ c = Chunk(c.name, c.fate, c.says)
BY DEF Chunk

\* The meta of a story is one.
LEMMA StoryMeta == \A list, p : Story(list, p) => p.is_apng \in BOOLEAN /\ p.in_trailer \in BOOLEAN
BY DEF Story, Told, Meta

\* The meta when the loop has stopped at a chunk.
Fates == {"empty", "short", "oversize", "cut"}
Stopped(name, fate) ==
  IF fate = "empty" THEN StopsWith(png, "truncated")
  ELSE IF fate = "short" THEN StopsWith(AtTrailer(png), "truncated")
  ELSE IF fate = "oversize" THEN StopsWith(AtTrailer(png), "invalid chunk size")
  ELSE StopsWith(AtHeader(AtTrailer(png), name),
                 IF name = "IEND" THEN "truncated IEND" ELSE "corrupted")

\* What the code does with a chunk is what the story says of it.
LEMMA BodyIs ==
  ASSUME NEW name, NEW fate, NEW says, NEW list, NEW i,
         OneChunkOn(chunks, Chunk(name, fate, says), list, i),
         Position(chunks, png, was_hdr, was_dat, was_end),
         was_hdr \in BOOLEAN, was_dat \in BOOLEAN, was_end \in BOOLEAN,
         png.is_apng \in BOOLEAN, PastEnd(list, i, png).is_apng = png.is_apng
  PROVE  /\ fate = "whole" => PastBody(list, i, png) = PushAll(Before(name), says)
         /\ fate \in Fates /\ says = <<>> => PastBody(list, i, png) = Stopped(name, fate)
<1>1. list[i].name = name /\ list[i].fate = fate /\ list[i].says = says
  BY ChunkIs DEF OneChunkOn
<1>2. /\ EndedIn(list, i) <=> was_end
      /\ SeenIn(list, "IHDR", i) <=> was_hdr \/ name = "IHDR"
      /\ SeenIn(list, "IDAT", i - 1) <=> was_dat
      /\ SeenIn(list, "acTL", i - 1) <=> png.is_apng
  BY ChunkIs DEF OneChunkOn, Position
<1>3. PastTrailer(list, i, png) = IF fate # "empty" THEN AtTrailer(png) ELSE png
  BY <1>1, <1>2 DEF PastTrailer, IsTrailer, AtTrailer
<1>4. PICK q1 : q1 = PastTrailer(list, i, png)
  OBVIOUS
<1>5. PastHeader(list, i, png) = IF fate \in {"whole", "cut"} THEN AtHeader(q1, name) ELSE q1
  BY <1>1, <1>2, <1>4 DEF PastHeader, IsHeadless, SaidIf, AtHeader
<1>6. PICK q2 : q2 = PastHeader(list, i, png)
  OBVIOUS
<1>7. PastEnd(list, i, png) =
        IF fate = "whole" THEN q2 ELSE StopsWith(q2, Ending(list[i]))
  BY <1>1, <1>2, <1>6 DEF PastEnd, IsLast, SaidIf, StopsWith
<1>8. PICK q3 : q3 = PastEnd(list, i, png)
  OBVIOUS
<1>9. PastText(list, i, png) = IF fate = "whole" THEN AtText(q3, name) ELSE q3
  <2>1. AfterDataIn(list, i) = AfterData(q3)
    BY <1>2, <1>8 DEF AfterDataIn, AfterData
  <2> QED
    BY <1>1, <1>2, <1>8, <2>1 DEF PastText, IsLateText, SaidIf, AtText
<1>10. PICK q4 : q4 = PastText(list, i, png)
  OBVIOUS
<1>11. PastCase(list, i, png) = IF fate = "whole" THEN AtCase(q4, name) ELSE q4
  BY <1>1, <1>10 DEF PastCase, IsCaseVariant, SaidIf, AtCase
<1>12. PICK q5 : q5 = PastCase(list, i, png)
  OBVIOUS
<1>13. PastBody(list, i, png) = PushAll(q5, says)
  BY <1>1, <1>12 DEF PastBody
<1>14. ASSUME fate = "whole" PROVE PastBody(list, i, png) = PushAll(Before(name), says)
  <2>1. /\ q1 = AtTrailer(png) /\ q2 = AtHeader(q1, name) /\ q3 = q2
        /\ q4 = AtText(q3, name) /\ q5 = AtCase(q4, name)
    BY <1>3, <1>4, <1>5, <1>6, <1>7, <1>8, <1>9, <1>10, <1>11, <1>12, <1>14
  <2>2. q5 = Before(name)
    BY <2>1 DEF Before
  <2> QED
    BY <1>13, <2>2
<1>15. ASSUME fate # "whole", says = <<>>
       PROVE  PastBody(list, i, png) = StopsWith(q2, Ending(list[i]))
  <2>1. q5 = StopsWith(q2, Ending(list[i]))
    BY <1>7, <1>8, <1>9, <1>10, <1>11, <1>12, <1>15
  <2>2. PushAll(q5, says) = q5
    BY <1>15, PushNothing
  <2> QED
    BY <1>13, <2>1, <2>2
<1>16. Ending(list[i]) = IF fate = "cut" THEN IF name = "IEND" THEN "truncated IEND" ELSE "corrupted"
                         ELSE IF fate = "oversize" THEN "invalid chunk size" ELSE "truncated"
  BY <1>1 DEF Ending
<1>17. /\ fate = "empty" => q2 = png
       /\ fate \in {"short", "oversize"} => q2 = AtTrailer(png)
       /\ fate = "cut" => q2 = AtHeader(AtTrailer(png), name)
  BY <1>3, <1>4, <1>5, <1>6
<1>18. ASSUME fate \in Fates, says = <<>> PROVE PastBody(list, i, png) = Stopped(name, fate)
  <2>1. fate = "empty" \/ fate = "short" \/ fate = "oversize" \/ fate = "cut"
    BY <1>18 DEF Fates
  <2>2. PastBody(list, i, png) = StopsWith(q2, Ending(list[i]))
    BY <1>15, <1>18, <2>1
  <2> QED
    BY <1>16, <1>17, <2>1, <2>2 DEF Stopped
<1> QED
  BY <1>14, <1>18

\* A chunk is read.
LEMMA ReadTold ==
  ASSUME StoryInv, walking, NEW name, NEW fate, NEW says, Sayable(says), fate = "empty" => says = <<>>,
         NEW list, list = Append(chunks, Chunk(name, fate, says)), NEW i, i = Len(chunks) + 1
  PROVE  /\ ReadWell(list, i, png, fate)
         /\ OneChunkOn(chunks, Chunk(name, fate, says), list, i)
<1>1. PICK c : c = Chunk(name, fate, says)
  OBVIOUS
<1>2. Speaks(c) /\ c.fate = fate
  BY <1>1, ChunkIs DEF Speaks
<1>3. ChunksTyped(chunks) /\ Story(chunks, png) /\ (png.in_trailer <=> EndedIn(chunks, Len(chunks)))
  BY DEF StoryInv, StoryHolds, Position
<1>4. OneChunkOn(chunks, c, list, i)
  BY <1>1, <1>3, SeenNow DEF ChunksTyped
<1>5. list = Append(chunks, c)
  BY <1>1
<1> QED
  BY <1>1, <1>2, <1>3, <1>4, <1>5, ChunkTold

\* The loop ends with a chunk.
LEMMA LastChunkTold ==
  ASSUME StoryInv, walking, depth = NoLevel, NEW name, NEW fate \in Fates,
         NEW list, list = Append(chunks, Chunk(name, fate, <<>>)),
         NEW q, q = Stopped(name, fate),
         NEW hdr \in BOOLEAN
  PROVE  StoryHolds(list, q, hdr, was_dat, was_end, FALSE, depth)
<1>1. PICK i : i = Len(chunks) + 1
  OBVIOUS
<1>2. Sayable(<<>>)
  BY SayableParts
<1>3. /\ ChunksTyped(list) /\ Story(list, PastBody(list, i, png))
      /\ PastEnd(list, i, png).is_apng = png.is_apng
      /\ OneChunkOn(chunks, Chunk(name, fate, <<>>), list, i)
  <2>1. ReadWell(list, i, png, fate) /\ OneChunkOn(chunks, Chunk(name, fate, <<>>), list, i)
    BY <1>1, <1>2, ReadTold
  <2> QED
    BY <2>1 DEF ReadWell
<1>4. /\ Position(chunks, png, was_hdr, was_dat, was_end)
      /\ was_hdr \in BOOLEAN /\ was_dat \in BOOLEAN /\ was_end \in BOOLEAN
      /\ png.is_apng \in BOOLEAN
  BY StoryMeta DEF StoryInv, StoryHolds
<1>5. PICK says : says = <<>>
  OBVIOUS
<1>6. OneChunkOn(chunks, Chunk(name, fate, says), list, i)
  BY <1>3, <1>5
<1>7. q = PastBody(list, i, png)
  BY <1>3, <1>4, <1>5, <1>6, BodyIs
<1> QED
  BY <1>3, <1>4, <1>7 DEF StoryHolds

\* The loop goes on after a chunk.
LEMMA WholeChunkTold ==
  ASSUME StoryInv, walking, NEW name, NEW says, Sayable(says),
         NEW list, list = Append(chunks, Chunk(name, "whole", says)),
         NEW q, q = [PushAll(Before(name), says) EXCEPT !.is_apng = png.is_apng \/ name = "acTL"],
         NEW level
  PROVE  /\ StoryHolds(list, q, was_hdr \/ name = "IHDR", was_dat \/ name = "IDAT",
                       was_end \/ name = "IEND", TRUE, level)
         /\ PushAll(Before(name), says).is_apng = png.is_apng
<1>1. PICK i : i = Len(chunks) + 1
  OBVIOUS
<1>2. PICK p : p = PastBody(list, i, png)
  OBVIOUS
<1>3. /\ ChunksTyped(list) /\ Story(list, p) /\ p.is_apng = png.is_apng
      /\ PastEnd(list, i, png).is_apng = png.is_apng
      /\ p.in_trailer <=> EndedIn(list, i)
      /\ OneChunkOn(chunks, Chunk(name, "whole", says), list, i)
  <2>1. PICK fate : fate = "whole"
    OBVIOUS
  <2>2. list = Append(chunks, Chunk(name, fate, says)) /\ (fate = "empty" => says = <<>>)
    BY <2>1
  <2>3. ReadWell(list, i, png, fate) /\ OneChunkOn(chunks, Chunk(name, fate, says), list, i)
    BY <1>1, <2>2, ReadTold
  <2> QED
    BY <1>2, <2>1, <2>3 DEF ReadWell
<1>4. /\ Position(chunks, png, was_hdr, was_dat, was_end)
      /\ was_hdr \in BOOLEAN /\ was_dat \in BOOLEAN /\ was_end \in BOOLEAN
      /\ png.is_apng \in BOOLEAN
  BY StoryMeta DEF StoryInv, StoryHolds
<1>5. p = PushAll(Before(name), says)
  BY <1>2, <1>3, <1>4, BodyIs
<1>6. PICK is : is = (png.is_apng \/ name = "acTL")
  OBVIOUS
<1>7. is \in BOOLEAN /\ q = WithApng(p, is)
  BY <1>5, <1>6 DEF WithApng
<1>8. Story(list, q) /\ q.in_trailer = p.in_trailer /\ q.is_apng = is
  <2>1. PICK t : Unfolds(list, t) /\ Told(p, t[Len(list)])
    BY <1>3 DEF Story
  <2>2. PICK told : told = t[Len(list)]
    OBVIOUS
  <2>3. \A s : Told(p, s) =>
          /\ Told(WithApng(p, is), s)
          /\ WithApng(p, is).in_trailer = p.in_trailer /\ WithApng(p, is).is_apng = is
    <3>1. is \in BOOLEAN
      BY <1>7
    <3> QED
      BY <3>1, ApngTold
  <2>4. Told(q, told) /\ q.in_trailer = p.in_trailer /\ q.is_apng = is
    BY <1>7, <2>1, <2>2, <2>3
  <2> QED
    BY <2>1, <2>2, <2>4 DEF Story
<1>9. /\ Len(list) = i /\ i >= 1 /\ i \in Nat
      /\ \A seen : SeenIn(list, seen, i) <=> SeenIn(chunks, seen, Len(chunks)) \/ name = seen
  BY <1>3, ChunkIs DEF OneChunkOn
<1>10. Position(list, q, was_hdr \/ name = "IHDR", was_dat \/ name = "IDAT", was_end \/ name = "IEND")
  <2>1. q.is_apng <=> SeenIn(list, "acTL", i)
    BY <1>4, <1>6, <1>8, <1>9 DEF Position
  <2>2. q.in_trailer <=> EndedIn(list, i)
    BY <1>3, <1>8
  <2> QED
    BY <1>4, <1>9, <2>1, <2>2 DEF Position
<1> QED
  BY <1>3, <1>4, <1>5, <1>8, <1>9, <1>10 DEF StoryHolds

\* A level of an eXIf chunk says more.
LEMMA LevelTold ==
  ASSUME StoryInv, depth # NoLevel, NEW says, Sayable(says),
         NEW list, list = Lengthened(chunks, says), NEW level
  PROVE  StoryHolds(list, PushAll(png, says), was_hdr, was_dat, was_end, TRUE, level)
<1>1. PICK old, p : old = chunks /\ p = png
  OBVIOUS
<1>2. /\ ChunksTyped(old) /\ Story(old, p) /\ Len(old) > 0
      /\ Position(old, p, was_hdr, was_dat, was_end)
      /\ was_hdr \in BOOLEAN /\ was_dat \in BOOLEAN /\ was_end \in BOOLEAN
  BY <1>1 DEF StoryInv, StoryHolds
<1>3. PICK t : Unfolds(old, t) /\ Told(p, t[Len(old)])
  BY <1>2 DEF Story
<1>4. p.in_trailer <=> EndedIn(old, Len(old))
  BY <1>2 DEF Position
<1>5. list = Lengthened(old, says)
  BY <1>1
<1>6. PICK q : q = PushAll(p, says)
  OBVIOUS
<1>7. /\ ChunksTyped(list) /\ Len(list) = Len(old)
      /\ \A j \in 1..Len(old) : list[j].name = old[j].name
      /\ Story(list, q) /\ SameFlags(q, p)
  BY <1>2, <1>3, <1>4, <1>5, <1>6, StoryLengthens
<1>8. PICK l : l = Len(old)
  OBVIOUS
<1>9. l \in Nat /\ Len(list) = l
  BY <1>2, <1>7, <1>8, ListedIs DEF ChunksTyped
<1>10. \A name : /\ SeenIn(list, name, l) <=> SeenIn(old, name, l)
                 /\ SeenIn(list, name, l - 1) <=> SeenIn(old, name, l - 1)
  <2>1. \A j \in 1..l : list[j].name = old[j].name
    BY <1>7, <1>8
  <2>2. \A j \in 1..(l - 1) : j \in 1..l
    BY <1>9
  <2> QED
    BY <2>1, <2>2 DEF SeenIn
<1>11. Position(list, q, was_hdr, was_dat, was_end)
  <2>1. Position(old, p, was_hdr, was_dat, was_end) /\ SameFlags(q, p)
    BY <1>2, <1>7
  <2> QED
    BY <1>8, <1>9, <1>10, <2>1 DEF Position, EndedIn, SameFlags
<1> QED
  BY <1>1, <1>2, <1>6, <1>7, <1>11 DEF StoryHolds

\* A file of no chunks has no story.
LEMMA StoryStarts == StoryHolds(<<>>, NoPngMeta, FALSE, FALSE, FALSE, TRUE, NoLevel)
<1>1. PICK none : none = <<>>
  OBVIOUS
<1>2. Listed(none) /\ Len(none) = 0 /\ DOMAIN none = {}
  BY <1>1, ListedFew
<1>3. PICK p : p = NoPngMeta
  OBVIOUS
<1>4. /\ DOMAIN p = MetaFields /\ p = [field \in MetaFields |-> p[field]]
      /\ \A source \in Outlets : p[source] = none
      /\ p.diag_order = none /\ p.is_apng = FALSE /\ p.in_trailer = FALSE
      /\ p.trailer_start = [source \in Watermarked |-> 0]
  <2>1. \A source \in Outlets : p[source] = none
    BY <1>1, <1>3 DEF NoPngMeta, Outlets, Watermarked, Boxes
  <2>2. DOMAIN p = MetaFields
    BY <1>3 DEF NoPngMeta, MetaFields, Outlets, Watermarked, Boxes
  <2>3. p = [field \in DOMAIN p |-> p[field]]
    BY <1>3 DEF NoPngMeta
  <2>4. p.diag_order = none /\ p.is_apng = FALSE /\ p.in_trailer = FALSE
        /\ p.trailer_start = [source \in Watermarked |-> 0]
    BY <1>1, <1>3 DEF NoPngMeta
  <2> QED
    BY <2>1, <2>2, <2>3, <2>4
<1>5. Told(p, none)
  <2>1. Meta(p)
    <3>1. \A source \in Watermarked : p.trailer_start[source] = 0
      BY <1>4
    <3>2. Listed(p.diag_order) /\ \A source \in Outlets : Listed(p[source])
      BY <1>2, <1>4
    <3>3. p.in_trailer \in BOOLEAN /\ p.is_apng \in BOOLEAN /\ ~p.in_trailer
      BY <1>4
    <3>4. \A source \in Watermarked :
            p.trailer_start[source] \in Nat
              /\ (p.in_trailer => p.trailer_start[source] <= Len(p[source]))
      BY <3>1, <3>3
    <3>5. p = [field \in MetaFields |-> p[field]]
      BY <1>4
    <3> QED
      BY <3>2, <3>3, <3>4, <3>5, Zenon DEF Meta
  <2>2. \A source : Count(p.diag_order, source) = 0
    <3> TAKE source
    <3>1. {k \in DOMAIN none : none[k] = source} = {}
      BY <1>2
    <3> QED
      BY <1>4, <3>1, FS_EmptySet DEF Count
  <2>3. \A k \in 1..Len(none) : Drawn(p, none[k], k)
    <3>1. 1..Len(none) = {}
      BY <1>2
    <3> QED
      BY <3>1
  <2>4. Len(p.diag_order) = Len(none) /\ \A source \in Outlets : Len(p[source]) = 0
    BY <1>2, <1>4
  <2>5. \A source \in Outlets : Len(p[source]) = Count(p.diag_order, source)
    BY <2>2, <2>4
  <2> QED
    BY <1>2, <2>1, <2>3, <2>4, <2>5, Zenon DEF Told
<1>6. Story(none, p)
  <2> DEFINE t == [i \in 0..0 |-> none]
  <2>1. \A i \in 0..0 : i = 0 /\ t[i] = none
    OBVIOUS
  <2>2. t = [i \in 0..0 |-> IF i = 0 THEN none ELSE t[i - 1] \o SpokenIn(none, i)]
    <3>1. t = [i \in 0..0 |-> t[i]]
      OBVIOUS
    <3> HIDE DEF t
    <3> QED
      BY <2>1, <3>1
  <2>3. t[0] = none
    OBVIOUS
  <2> HIDE DEF t
  <2>4. Unfolds(none, t)
    BY <1>1, <1>2, <2>1, <2>2 DEF Unfolds
  <2> QED
    BY <1>2, <1>5, <2>3, <2>4 DEF Story
<1>7. ChunksTyped(none)
  BY <1>2 DEF ChunksTyped
<1>8. Position(none, p, FALSE, FALSE, FALSE)
  <2>1. \A name : ~SeenIn(none, name, 0) /\ ~SeenIn(none, name, 0 - 1)
    BY DEF SeenIn
  <2> QED
    BY <1>2, <1>4, <2>1 DEF Position, EndedIn
<1>9. StoryHolds(none, p, FALSE, FALSE, FALSE, TRUE, NoLevel)
  BY <1>6, <1>7, <1>8 DEF StoryHolds
<1> QED
  BY <1>1, <1>3, <1>9

\* A whole chunk, other than the last of the image, goes on with the story.
LEMMA WholeStep ==
  ASSUME StoryInv, NEW name, name # "IEND", NEW says, Sayable(says), WholeChunk(name, says)
  PROVE  StoryInv'
<1>1. PICK list : list = Append(chunks, Chunk(name, "whole", says))
  OBVIOUS
<1>2. PICK q : q = [PushAll(Before(name), says) EXCEPT !.is_apng = png.is_apng \/ name = "acTL"]
  OBVIOUS
<1>3. walking
  BY DEF WholeChunk, Reading
<1>4. /\ \A level : StoryHolds(list, q, was_hdr \/ name = "IHDR", was_dat \/ name = "IDAT",
                               was_end \/ name = "IEND", TRUE, level)
      /\ PushAll(Before(name), says).is_apng = png.is_apng
  BY <1>1, <1>2, <1>3, WholeChunkTold
<1>5. was_end \in BOOLEAN /\ walking \in BOOLEAN
  BY DEF StoryInv, StoryHolds
<1>6. /\ chunks' = list
      /\ was_hdr' = (was_hdr \/ name = "IHDR") /\ was_dat' = (was_dat \/ name = "IDAT")
      /\ was_end' = (was_end \/ name = "IEND") /\ walking' = TRUE
  BY <1>1, <1>3, <1>5 DEF WholeChunk, Reads
<1>7. png' = q
  BY <1>2, <1>4 DEF WholeChunk
<1>8. StoryHolds(list, q, was_hdr \/ name = "IHDR", was_dat \/ name = "IDAT",
                 was_end \/ name = "IEND", TRUE, depth')
  BY <1>4
<1> QED
  BY <1>6, <1>7, <1>8 DEF StoryInv

\* The end chunk goes on with the story.
LEMMA EndStep ==
  ASSUME StoryInv, EndChunk
  PROVE  StoryInv'
<1>1. PICK says : says = <<>>
  OBVIOUS
<1>2. PICK name : name = "IEND"
  OBVIOUS
<1>3. Sayable(says)
  BY <1>1, SayableParts
<1>4. PICK list : list = Append(chunks, Chunk(name, "whole", says))
  OBVIOUS
<1>5. PICK p : p = PushAll(Before(name), says)
  OBVIOUS
<1>6. PICK q : q = [PushAll(Before(name), says) EXCEPT !.is_apng = png.is_apng \/ name = "acTL"]
  OBVIOUS
<1>7. walking /\ depth = NoLevel
  BY DEF EndChunk, Reading
<1>8. /\ StoryHolds(list, q, was_hdr \/ name = "IHDR", was_dat \/ name = "IDAT",
                    was_end \/ name = "IEND", TRUE, depth)
      /\ p.is_apng = png.is_apng
  BY <1>3, <1>4, <1>5, <1>6, <1>7, WholeChunkTold
<1>9. png.is_apng \in BOOLEAN /\ was_hdr \in BOOLEAN /\ was_dat \in BOOLEAN
  BY StoryMeta DEF StoryInv, StoryHolds
<1>10. p = AtHeader(AtTrailer(png), "IEND")
  <2>1. Before(name) = AtHeader(AtTrailer(png), "IEND")
    BY <1>2 DEF Before, AtCase, AtText, TextChunks
  <2> QED
    BY <1>1, <1>5, <2>1, PushNothing
<1>11. q = p
  <2>1. q = WithApng(p, png.is_apng)
    BY <1>2, <1>5, <1>6, <1>9 DEF WithApng
  <2>2. \E is : p.is_apng = is
    OBVIOUS
  <2>3. p = [field \in MetaFields |-> p[field]]
    <3>1. Sayable(says) /\ walking /\ StoryInv
      BY <1>3, <1>7
    <3>2. PICK i : i = Len(chunks) + 1
      OBVIOUS
    <3>3. PICK fate : fate = "whole"
      OBVIOUS
    <3>4. list = Append(chunks, Chunk(name, fate, says)) /\ (fate = "empty" => says = <<>>)
      BY <1>4, <3>3
    <3>5. ReadWell(list, i, png, fate) /\ OneChunkOn(chunks, Chunk(name, fate, says), list, i)
      BY <3>1, <3>2, <3>4, ReadTold
    <3>6. Story(list, PastBody(list, i, png)) /\ PastEnd(list, i, png).is_apng = png.is_apng
      BY <3>5 DEF ReadWell
    <3>7. PastBody(list, i, png) = p
      <4>1. Position(chunks, png, was_hdr, was_dat, was_end)
            /\ was_hdr \in BOOLEAN /\ was_dat \in BOOLEAN /\ was_end \in BOOLEAN
        BY <1>7 DEF StoryInv, StoryHolds
      <4>2. fate = "whole" => PastBody(list, i, png) = PushAll(Before(name), says)
        BY <1>9, <3>5, <3>6, <4>1, BodyIs
      <4> QED
        BY <1>5, <3>3, <4>2
    <3> QED
      BY <3>6, <3>7 DEF Story, Told, Meta
  <2>4. [p EXCEPT !.is_apng = png.is_apng] = p
    BY <1>8, <2>3
  <2> QED
    BY <2>1, <2>4 DEF WithApng
<1>12. /\ chunks' = list /\ png' = q /\ was_end' = (was_end \/ name = "IEND")
       /\ was_hdr' = (was_hdr \/ name = "IHDR") /\ was_dat' = (was_dat \/ name = "IDAT")
       /\ walking' = TRUE /\ depth' = depth
  <2>1. walking \in BOOLEAN
    BY DEF StoryInv, StoryHolds
  <2> QED
    BY <1>1, <1>2, <1>4, <1>7, <1>9, <1>10, <1>11, <2>1 DEF EndChunk, Reads, budget
<1> QED
  BY <1>8, <1>12 DEF StoryInv

\* The loop stops, and the story with it.
LEMMA LastStep ==
  ASSUME StoryInv, EndOfData \/ OversizeChunk \/ CutChunk
  PROVE  StoryInv'
<1>1. walking /\ depth = NoLevel /\ was_hdr \in BOOLEAN
  BY DEF EndOfData, OversizeChunk, CutChunk, Reading, StoryInv, StoryHolds
<1>2. PICK name, fate, hdr :
        /\ fate \in Fates /\ hdr \in BOOLEAN
        /\ png' = Stopped(name, fate)
        /\ chunks' = Append(chunks, Chunk(name, fate, <<>>))
        /\ was_hdr' = hdr
        /\ walking' = FALSE /\ was_dat' = was_dat /\ was_end' = was_end /\ depth' = depth
  <2>1. CASE EndOfData
    <3>1. PICK fate \in {"empty", "short"} :
            /\ png' = StopsWith(IF fate = "short" THEN AtTrailer(png) ELSE png, "truncated")
            /\ Reads(Chunk("", fate, <<>>))
      BY <2>1 DEF EndOfData
    <3>2. fate \in Fates /\ png' = Stopped("", fate)
      BY <3>1 DEF Fates, Stopped
    <3> QED
      BY <1>1, <2>1, <3>1, <3>2 DEF EndOfData, Reads, budget
  <2>2. CASE OversizeChunk
    <3>1. "oversize" \in Fates /\ png' = Stopped("", "oversize")
      BY <2>2 DEF OversizeChunk, Fates, Stopped
    <3> QED
      BY <1>1, <2>2, <3>1 DEF OversizeChunk, Reads, budget
  <2>3. CASE CutChunk
    <3>1. PICK name \in {"IHDR", "CgBI", "IEND"} :
            /\ png' = StopsWith(AtHeader(AtTrailer(png), name),
                                IF name = "IEND" THEN "truncated IEND" ELSE "corrupted")
            /\ was_hdr' = (was_hdr \/ name = "IHDR")
            /\ Reads(Chunk(name, "cut", <<>>))
      BY <2>3 DEF CutChunk
    <3>2. "cut" \in Fates /\ png' = Stopped(name, "cut")
      BY <3>1 DEF Fates, Stopped
    <3>3. was_hdr' \in BOOLEAN
      BY <3>1
    <3> QED
      BY <2>3, <3>1, <3>2, <3>3 DEF CutChunk, Reads, budget
  <2> QED
    BY <2>1, <2>2, <2>3
<1>3. PICK list : list = Append(chunks, Chunk(name, fate, <<>>))
  OBVIOUS
<1>4. PICK q : q = Stopped(name, fate)
  OBVIOUS
<1>5. StoryHolds(list, q, hdr, was_dat, was_end, FALSE, depth)
  BY <1>1, <1>2, <1>3, <1>4, LastChunkTold
<1>6. chunks' = list /\ png' = q
  BY <1>2, <1>3, <1>4
<1>7. was_hdr' = hdr /\ walking' = FALSE /\ was_dat' = was_dat /\ was_end' = was_end /\ depth' = depth
  BY <1>2
<1> QED
  BY <1>5, <1>6, <1>7 DEF StoryInv

\* A level of an eXIf chunk goes on with the story of its chunk.
LEMMA LevelStep ==
  ASSUME StoryInv, NEW says, Sayable(says), LevelSays(says)
  PROVE  StoryInv'
<1>1. PICK list : list = Lengthened(chunks, says)
  OBVIOUS
<1>2. PICK q : q = PushAll(png, says)
  OBVIOUS
<1>3. depth # NoLevel /\ walking = TRUE
  BY DEF LevelSays, StoryInv, StoryHolds
<1>4. \A level : StoryHolds(list, PushAll(png, says), was_hdr, was_dat, was_end, TRUE, level)
  BY <1>1, <1>3, LevelTold
<1>5. StoryHolds(list, q, was_hdr, was_dat, was_end, TRUE, depth')
  BY <1>2, <1>4
<1>6. chunks' = list /\ png' = q
  BY <1>1, <1>2 DEF LevelSays, Lengthened
<1>7. was_hdr' = was_hdr /\ was_dat' = was_dat /\ was_end' = was_end /\ walking' = TRUE
  BY <1>3 DEF LevelSays
<1> QED
  BY <1>5, <1>6, <1>7 DEF StoryInv

\* One step of the loop, or of the walkers that leave it alone.
LEMMA StoryInductive == StoryInv /\ [ReplayNext]_replayVars => StoryInv'
<1> SUFFICES ASSUME StoryInv, [ReplayNext]_replayVars PROVE StoryInv'
  OBVIOUS
<1>1. ASSUME UNCHANGED chunkVars PROVE StoryInv'
  BY <1>1 DEF StoryInv, chunkVars, budget
<1>2. ASSUME NEW name, NEW says, WholeChunk(name, says), name # "IEND", Sayable(says), UNCHANGED budget
      PROVE  StoryInv'
  <2>1. depth' = depth
    BY <1>2 DEF budget
  <2> QED
    BY <1>2, <2>1, WholeStep
<1>3. CASE PlainChunk
  <2>1. PICK name \in {"IHDR", "CgBI", "IDAT", "acTL"} : WholeChunk(name, <<>>)
    BY <1>3 DEF PlainChunk
  <2>2. UNCHANGED budget
    BY <1>3 DEF PlainChunk
  <2> QED
    BY <1>2, <2>1, <2>2, SayableParts
<1>4. CASE TextChunk
  <2>1. PICK body \in TextBodies : WholeChunk("tEXt", TextSays(body))
    BY <1>4 DEF TextChunk
  <2>2. UNCHANGED budget
    BY <1>4 DEF TextChunk
  <2> QED
    BY <1>2, <2>1, <2>2, TextSayable
<1>5. CASE BoxChunk
  <2>1. PICK box \in Boxes, holds \in BOOLEAN, warnings \in BoxWarnings :
          WholeChunk(IF box = "jumbf_diags" THEN "caBX" ELSE "cpIp",
                     IF holds THEN <<Say(box, warnings)>> ELSE <<>>)
    BY <1>5 DEF BoxChunk
  <2>2. PICK name : name = IF box = "jumbf_diags" THEN "caBX" ELSE "cpIp"
    OBVIOUS
  <2>3. PICK says : says = IF holds THEN <<Say(box, warnings)>> ELSE <<>>
    OBVIOUS
  <2>4. WholeChunk(name, says)
    BY <2>1, <2>2, <2>3
  <2>5. name # "IEND"
    BY <2>2
  <2>6. Sayable(says)
    BY <2>3, BoxSayable
  <2>7. UNCHANGED budget
    BY <1>5 DEF BoxChunk
  <2> QED
    BY <1>2, <2>4, <2>5, <2>6, <2>7
<1>6. CASE ExifChunk
  <2>1. PICK name \in {"eXIf", "exif"} : WholeChunk(name, <<>>)
    BY <1>6 DEF ExifChunk
  <2>2. walking /\ depth' # NoLevel
    BY <1>6, <2>1 DEF ExifChunk, WholeChunk, Reading, NoLevel
  <2>3. Sayable(<<>>)
    BY SayableParts
  <2> QED
    BY <2>1, <2>2, <2>3, WholeStep
<1>7. CASE EndChunk
  BY <1>7, EndStep
<1>8. CASE EndOfData \/ OversizeChunk \/ CutChunk
  BY <1>8, LastStep
<1>9. CASE RetainLevel
  <2>1. PICK prefix \in Prefix : LevelSays(prefix \o <<Event("NativeTiff")>>)
    BY <1>9 DEF RetainLevel
  <2> QED
    BY <2>1, LevelSayable, LevelStep
<1>10. CASE RefuseLevel
  <2>1. PICK prefix \in Prefix, text \in {"invalid chunk", "error inflating"} :
          LevelSays(prefix \o <<Warns(text)>>)
    BY <1>10 DEF RefuseLevel
  <2>2. Sayable(prefix \o <<Warns(text)>>)
    BY <2>1, LevelSayable
  <2> QED
    BY <2>1, <2>2, LevelStep
<1>11. CASE InflateLevel
  <2>1. PICK prefix \in Prefix : LevelSays(prefix)
    BY <1>11 DEF InflateLevel
  <2> QED
    BY <2>1, LevelSayable, LevelStep
<1>12. CASE FailToInflate
  <2>1. PICK prefix \in Prefix : LevelSays(prefix \o <<Warns("error inflating")>>)
    BY <1>12 DEF FailToInflate
  <2>2. Sayable(prefix \o <<Warns("error inflating")>>)
    BY LevelSayable
  <2> QED
    BY <2>1, <2>2, LevelStep
<1>13. ASSUME NEW kind, Replay(kind) PROVE UNCHANGED chunkVars
  BY <1>13 DEF Replay
<1>14. CASE ReplayNothing
  BY <1>1, <1>13, <1>14 DEF ReplayNothing
<1>15. CASE ReplayBlock
  BY <1>1, <1>13, <1>15 DEF ReplayBlock
<1>16. CASE UNCHANGED replayVars
  BY <1>1, <1>16 DEF replayVars
<1>17. CASE Next /\ UNCHANGED <<chunkVars, event, replayed>>
  BY <1>1, <1>17
<1> QED
  BY <1>3, <1>4, <1>5, <1>6, <1>7, <1>8, <1>9, <1>10, <1>11, <1>12, <1>14, <1>15, <1>16, <1>17
     DEF ReplayNext, ChunkNext

\* The story of the chunks is what they are to say.
LEMMA SpokenTold == StoryInv => Told(png, Spoken)
<1> SUFFICES ASSUME StoryInv PROVE Told(png, Spoken)
  OBVIOUS
<1>1. PICK l : l = Len(chunks)
  OBVIOUS
<1>2. l \in Nat
  BY <1>1, ListedIs DEF StoryInv, StoryHolds, ChunksTyped
<1>3. PICK t : Unfolds(chunks, t) /\ Told(png, t[l])
  BY <1>1 DEF StoryInv, StoryHolds, Story
<1> DEFINE Is(f) == f = [i \in 0..l |-> IF i = 0 THEN <<>> ELSE f[i - 1] \o SpokenIn(chunks, i)]
           upto == CHOOSE f : Is(f)
<1>4. Is(t)
  BY <1>1, <1>3 DEF Unfolds
<1>5. Is(upto)
  BY <1>4
<1>6. Spoken = upto[l]
  <2> DEFINE was == CHOOSE f : f = [i \in 0..Len(chunks) |-> IF i = 0 THEN <<>> ELSE f[i - 1] \o SpokenBy(i)]
  <2>1. Spoken = was[Len(chunks)]
    BY DEF Spoken
  <2>2. \A f : Is(f) <=> f = [i \in 0..Len(chunks) |-> IF i = 0 THEN <<>> ELSE f[i - 1] \o SpokenBy(i)]
    BY <1>1, SpokenIs
  <2>3. was = upto
    BY <2>2
  <2> QED
    BY <1>1, <2>1, <2>3
<1> HIDE DEF upto
<1>7. \A i \in 0..l : /\ upto[i] = IF i = 0 THEN <<>> ELSE upto[i - 1] \o SpokenIn(chunks, i)
                      /\ t[i] = IF i = 0 THEN <<>> ELSE t[i - 1] \o SpokenIn(chunks, i)
  BY <1>4, <1>5
<1> DEFINE S == {i \in Nat : i <= l => upto[i] = t[i]}
<1>8. 0 \in S
  BY <1>2, <1>7
<1>9. ASSUME NEW i \in Nat, i \in S PROVE i + 1 \in S
  <2> SUFFICES ASSUME i + 1 <= l PROVE upto[i + 1] = t[i + 1]
    OBVIOUS
  <2>1. i + 1 \in 0..l /\ i + 1 # 0 /\ (i + 1) - 1 = i /\ i <= l
    BY <1>2
  <2>2. upto[i] = t[i]
    BY <1>9, <2>1
  <2> QED
    BY <1>7, <2>1, <2>2
<1>10. l \in S
  <2>1. \A i \in Nat : i \in S => i + 1 \in S
    BY <1>9
  <2> HIDE DEF S
  <2> QED
    BY <1>2, <1>8, <2>1, Induction
<1>11. upto[l] = t[l]
  BY <1>2, <1>10
<1> QED
  BY <1>3, <1>6, <1>11

\* Diagnostics put the lists together as they were told.
LEMMA ToldInOrder == StoryInv => InWalkOrder(Replays)
<1> SUFFICES ASSUME StoryInv PROVE InWalkOrder(Replays)
  OBVIOUS
<1>1. PICK spoken : spoken = Spoken
  OBVIOUS
<1>2. PICK p : p = png
  OBVIOUS
<1>3. PICK replays : replays = Replays
  OBVIOUS
<1>4. Told(p, spoken)
  BY <1>1, <1>2, SpokenTold
<1>5. /\ Listed(spoken) /\ DOMAIN spoken = 1..Len(spoken) /\ Len(spoken) \in Nat
      /\ Listed(p.diag_order) /\ Len(p.diag_order) = Len(spoken)
      /\ DOMAIN p.diag_order = 1..Len(spoken)
  BY <1>4, ListedIs DEF Told, Meta
<1> DEFINE order == [k \in DOMAIN spoken |-> spoken[k].say.source]
<1>6. order = p.diag_order
  <2>1. \A k \in 1..Len(spoken) : p.diag_order[k] = spoken[k].say.source
    BY <1>4 DEF Told, Drawn
  <2>2. order = [k \in 1..Len(spoken) |-> order[k]] /\ \A k \in 1..Len(spoken) : order[k] = spoken[k].say.source
    BY <1>5
  <2> HIDE DEF order
  <2>3. Listed(order) /\ Len(order) = Len(spoken)
    BY <1>5, <2>2, ListedFunction
  <2>4. \A k \in 1..Len(order) : order[k] = p.diag_order[k]
    BY <2>1, <2>2, <2>3
  <2> QED
    BY <1>5, <2>3, <2>4, ListedSame
<1> DEFINE Texts(k) == IF order[k] = "exif_events" THEN replays[Nth(order, k)] ELSE spoken[k].say.item
           Shown(k) ==
             LET source == p.diag_order[k]
                 n      == Nth(p.diag_order, k)
             IN  [texts |-> IF source = "exif_events" THEN replays[n] ELSE p[source][n],
                  group |-> IF source \in Watermarked /\ IsTrailing(p, source, n)
                            THEN "Trailer" ELSE "document"]
<1>7. ASSUME NEW k \in 1..Len(spoken)
      PROVE  Shown(k) = [texts |-> Texts(k), group |-> spoken[k].group]
  <2>1. PICK source : source = p.diag_order[k]
    OBVIOUS
  <2>2. PICK n : n = Nth(p.diag_order, k)
    OBVIOUS
  <2>3. /\ source = spoken[k].say.source /\ p[source][n] = spoken[k].say.item
        /\ spoken[k].group = IF source \in Watermarked /\ IsTrailing(p, source, n)
                             THEN "Trailer" ELSE "document"
    <3>1. Drawn(p, spoken[k], k)
      BY <1>4 DEF Told
    <3> QED
      BY <2>1, <2>2, <3>1 DEF Drawn
  <2>4. Texts(k) = IF source = "exif_events" THEN replays[n] ELSE p[source][n]
    <3>1. order[k] = source /\ Nth(order, k) = n
      BY <1>6, <2>1, <2>2
    <3> HIDE DEF order
    <3> QED
      BY <2>3, <3>1
  <2> HIDE DEF Texts
  <2> QED
    BY <2>1, <2>2, <2>3, <2>4
<1>8. Diagnostics(p, replays) = [k \in 1..Len(spoken) |-> Shown(k)]
  BY <1>5 DEF Diagnostics
<1> HIDE DEF Shown
<1>9. [k \in 1..Len(spoken) |-> Shown(k)]
        = [k \in DOMAIN spoken |-> [texts |-> Texts(k), group |-> spoken[k].group]]
  <2> HIDE DEF Texts
  <2> QED
    BY <1>5, <1>7
<1>10. Diagnostics(p, replays)
         = [k \in DOMAIN spoken |-> [texts |-> Texts(k), group |-> spoken[k].group]]
  BY <1>8, <1>9
<1> QED
  BY <1>1, <1>2, <1>3, <1>10, Zenon DEF InWalkOrder

\* Whatever chunks a PNG has, how many, in what order and however the loop ends,
\* and whatever its EXIF blocks warn of, the diagnostics are put together in the
\* order of the chunks: no list is drawn from for another, nothing is lost, and
\* what comes after the end of the image, alone, is in the group of the trailer
\* (parse_inner, begin_trailer, diagnostics).
THEOREM DiagnosticsAlwaysInWalkOrder == ReplaySpec => []DiagnosticsInWalkOrder
<1>1. ReplayInit => StoryInv
  BY StoryStarts DEF ReplayInit, ChunkInit, StoryInv
<1>2. StoryInv => DiagnosticsInWalkOrder
  BY ToldInOrder DEF DiagnosticsInWalkOrder
<1> QED
  BY <1>1, <1>2, StoryInductive, PTL DEF ReplaySpec
=============================================================================
