--------------------------- MODULE ExifWalkProofs ---------------------------
(***************************************************************************)
(* Proofs about the directory walk of a TIFF block, for every set of       *)
(* addresses, every set of entries and every limit: the recursion path     *)
(* never repeats, a directory ends by its own entries alone, the chain     *)
(* ends at the first directory that could not be read to its end, and the  *)
(* images announced are those that one walk found both halves of.  What a  *)
(* block leaves of its leaves, of its images and of its maker note is put  *)
(* together for a file of several blocks in ExifFileProofs.                *)
(***************************************************************************)
EXTENDS ExifWalk, SequenceTheorems, FiniteSetTheorems, WellFoundedInduction, TLAPS

SubKinds == ToSet(SubIfdKinds) \cup PointerKinds
Kinds == ToSet(ChainKinds) \cup SubKinds
Tables == {"Exif", "Gps", "Interop"}

AnEntry == [what : Whats, at : Seq(Addresses \cup {NoAddress}), value : Nat]

Body == [head : {"unseen", "broken", "readable"}, num_entries : Nat, entries : Seq(AnEntry)]

Deferrals == [kind : {"ExifIfdAnchor", "MakerNote", "Interop"}, parent : Kinds,
              parent_ifd_start : Addresses, pointer_index : Nat,
              subdir_ifd_start : Addresses \cup {NoAddress}, dispatch_index : Nat,
              source_block : {0}]

\* The record of a pointer that is followed is that of an InteropIFD.
Record == [kind : {"Interop"}, parent : Kinds, parent_ifd_start : Addresses, pointer_index : Nat,
           subdir_ifd_start : Addresses, dispatch_index : Nat, source_block : {0}]

Sub == [kind : SubKinds, start : Addresses \cup {NoAddress}, record : Seq(Record)]

Dir == [start : Addresses, kind : Kinds, num_entries : Nat, index : Nat, pending : Seq(Sub),
        record : Seq(Record), walk : Nat, saved_warn_count : Nat, saved_table : Tables]

WalkRecord == [start : Addresses, kind : Kinds, outcome : Outcomes, counted : Nat, before : Nat,
               parent : Nat, index : Int]

Names == Whats \cup {"PreviewImage", "JpgFromRaw", "ThumbnailImage"}

ALeaf == [ifd : Kinds, own_ifd_start : Addresses, what : Whats, name : Names, value : Nat,
          source_block : {0}, walk : Nat]

Typed ==
  /\ file_type \in FileTypes
  /\ disk \in [Addresses -> Body]
  /\ offset \in Addresses \cup {NoAddress} /\ hops \in Nat
  /\ DOMAIN chain_guard \subseteq Addresses
  /\ stack \in Seq(Dir)
  /\ active_ifd_offsets \in Seq(Addresses)
  /\ warn_count \in Nat /\ active_table \in Tables
  /\ walks \in Seq(WalkRecord)
  /\ finished \in BOOLEAN
  /\ finished => stack = <<>>
  /\ ~finished => entries \in Seq(ALeaf)

-----------------------------------------------------------------------------
(* The inductive invariant.                                                 *)

\* What can stand at an address.
Read(body) ==
  /\ Len(body.entries) <= body.num_entries
  /\ body.head = "unseen" => body = Unseen
  /\ body.head = "broken" => body = Broken

\* An open directory has been read as far as it was walked, and no further than
\* it has entries.
ReadSoFar ==
  /\ \A n \in DOMAIN stack :
       LET dir == stack[n]
       IN  /\ disk[dir.start].head = "readable"
           /\ dir.num_entries = disk[dir.start].num_entries
           /\ dir.index <= Len(disk[dir.start].entries)
  /\ \A a \in Addresses : Read(disk[a])

\* Each open directory has a walk of its own, which is not over.
DirsOpen ==
  /\ \A n \in DOMAIN stack :
       LET dir == stack[n]
       IN  /\ dir.walk \in DOMAIN walks
           /\ walks[dir.walk].outcome = "open"
           /\ walks[dir.walk].start = dir.start /\ walks[dir.walk].kind = dir.kind
  /\ \A m, n \in DOMAIN stack : stack[m].walk = stack[n].walk => m = n

\* The outermost directory is one of the chain, and the others are not.
Nested ==
  \A n \in DOMAIN stack :
    /\ IsChain(stack[n].kind) <=> n = 1
    /\ Len(stack[n].pending) <= MaxSubdirs

\* The count and the table of a directory are in force or put aside in the next.
PutAside ==
  /\ stack # <<>> => walks[Top.walk].counted = warn_count
  /\ active_table = IF stack = <<>> THEN "Exif" ELSE table_for_ifd_kind(Top.kind)
  /\ \A n \in 2..Len(stack) :
       /\ stack[n].saved_warn_count = walks[stack[n - 1].walk].counted
       /\ stack[n].saved_table = table_for_ifd_kind(stack[n - 1].kind)

\* The counted warnings among the first k entries.
CountedIn(read, k) == {m \in 1..k : read[m].what \in CountedWarning}
Counted(read, k) == Cardinality(CountedIn(read, k))

\* An entry that ends its directory.
Stopper(entry, index) == entry.what = "overrun" \/ (entry.what \in Malformed /\ index = 0)

\* No entry that was passed was a reason to stop, and the count is that of the
\* entries passed.
PassedOver(dir) ==
  LET read == disk[dir.start].entries
  IN  /\ walks[dir.walk].counted = Counted(read, dir.index)
      /\ \A m \in 1..dir.index :
           Counted(read, m - 1) <= MaxWarnings /\ ~Stopper(read[m], m - 1)

\* A directory that ended did so by its entries.
Ended(walk, body) ==
  /\ walk.outcome \in {"whole", "aborted"} => body.head = "readable"
  /\ walk.outcome = "whole" => Len(body.entries) = body.num_entries /\ ~Stops(body)
  /\ walk.outcome = "aborted" => Stops(body)

EndedByEntries == \A n \in DOMAIN walks : Ended(walks[n], disk[walks[n].start])

\* All chain directories but the last are whole, claimed and different; and the
\* last one is, or is being read, while there is a next one to read.
ChainSound ==
  /\ \A n \in DOMAIN walks : IsChain(walks[n].kind) => walks[n].start \in DOMAIN chain_guard
  /\ \A m, n \in DOMAIN walks :
       m < n /\ IsChain(walks[m].kind) /\ IsChain(walks[n].kind) =>
         /\ walks[m].outcome = "whole"
         /\ walks[n].outcome # "refused" => walks[m].start # walks[n].start
  /\ offset # NoAddress =>
       \A n \in DOMAIN walks :
         IsChain(walks[n].kind) =>
           walks[n].outcome = "whole" \/ (stack # <<>> /\ n = stack[1].walk)
  /\ stack # <<>> => offset # NoAddress

WalkInv ==
  /\ Typed
  /\ PathNeverRepeats
  /\ ReadSoFar
  /\ DirsOpen
  /\ Nested
  /\ PutAside
  /\ warn_count <= MaxWarnings + 1
  /\ \A n \in DOMAIN stack : PassedOver(stack[n])
  /\ EndedByEntries
  /\ ChainSound

-----------------------------------------------------------------------------
(* Kinds and bodies.                                                        *)

LEMMA KindsListed ==
  /\ ToSet(ChainKinds) = {"IFD0", "IFD1", "IFD2", "IFD3"}
  /\ ToSet(SubIfdKinds) = {"SubIFD", "SubIFD1", "SubIFD2", "SubIFD3", "SubIFD4", "SubIFD5",
                           "SubIFD6", "SubIFD7", "SubIFD8", "SubIFD9"}
  /\ \A n \in 1..10 : SubIfdKinds[n] \in ToSet(SubIfdKinds)
BY DEF ToSet, ChainKinds, SubIfdKinds

\* No sub-directory is a chain directory.
LEMMA KindsApart == \A kind \in SubKinds : kind \in Kinds /\ ~IsChain(kind)
BY KindsListed DEF SubKinds, Kinds, IsChain, PointerKinds

LEMMA ChainKindIsChain ==
  ASSUME hops \in Nat
  PROVE  IsChain(ChainKind) /\ ChainKind \in Kinds /\ table_for_ifd_kind(ChainKind) = "Exif"
<1>1. ChainKind \in {"IFD0", "IFD1", "IFD2", "IFD3"}
  BY DEF ChainKind, ChainKinds
<1> QED
  BY <1>1, KindsListed DEF IsChain, Kinds, table_for_ifd_kind

LEMMA TableTyped == \A kind : table_for_ifd_kind(kind) \in Tables
BY DEF table_for_ifd_kind, Tables

\* What an address can be read as.
LEMMA BodiesTyped ==
  ASSUME Typed, NEW start \in Addresses, NEW body \in Bodies(start)
  PROVE  /\ body \in Body
         /\ disk[start] # Unseen => body = disk[start]
         /\ disk[start] = Unseen => body.entries = <<>>
<1>1. MaxBlockEntries[file_type] \in Nat
  BY BlockAssumption DEF Typed
<1>2. \A n \in Nat : Readable(n) \in Body
  BY DEF Readable, Body
<1>3. Broken \in Body /\ disk[start] \in Body
  BY DEF Broken, Body, Typed
<1>4. CASE disk[start] # Unseen
  BY <1>3, <1>4 DEF Bodies
<1>5. CASE disk[start] = Unseen
  <2>1. body = Broken \/ \E n \in 0..MaxBlockEntries[file_type] : body = Readable(n)
    BY <1>5 DEF Bodies
  <2> QED
    BY <2>1, <1>1, <1>2, <1>3, <1>5 DEF Readable, Broken
<1> QED
  BY <1>4, <1>5

-----------------------------------------------------------------------------
(* The stack.                                                               *)

LEMMA TopTyped ==
  ASSUME Typed, stack # <<>>
  PROVE  /\ Top = stack[Len(stack)] /\ Top \in Dir
         /\ Len(stack) \in Nat \ {0} /\ Len(stack) \in DOMAIN stack
BY DEF Typed, Top, Last

LEMMA DirsTyped ==
  ASSUME Typed
  PROVE  \A n \in DOMAIN stack :
           /\ stack[n] \in Dir /\ stack[n].start \in Addresses /\ stack[n].walk \in Nat
           /\ stack[n].index \in Nat /\ stack[n].num_entries \in Nat
<1>1. \A n \in DOMAIN stack : stack[n] \in Dir
  BY DEF Typed
<1> QED
  BY <1>1 DEF Dir

LEMMA WalksTyped ==
  ASSUME Typed
  PROVE  \A n \in DOMAIN walks :
           walks[n] \in WalkRecord /\ walks[n].start \in Addresses /\ walks[n].counted \in Nat
<1>1. \A n \in DOMAIN walks : walks[n] \in WalkRecord
  BY DEF Typed
<1> QED
  BY <1>1 DEF WalkRecord

\* A directory with one more entry passed, and a walk with one more warning.
Passed(dir, pending) == [dir EXCEPT !.index = @ + 1, !.pending = pending]

LEMMA PassedTyped ==
  ASSUME NEW dir \in Dir, NEW pending \in Seq(Sub)
  PROVE  /\ Passed(dir, pending) \in Dir
         /\ Passed(dir, pending).start = dir.start /\ Passed(dir, pending).kind = dir.kind
         /\ Passed(dir, pending).num_entries = dir.num_entries
         /\ Passed(dir, pending).index = dir.index + 1
         /\ Passed(dir, pending).pending = pending /\ Passed(dir, pending).walk = dir.walk
         /\ Passed(dir, pending).saved_warn_count = dir.saved_warn_count
         /\ Passed(dir, pending).saved_table = dir.saved_table
<1> DEFINE next == [dir EXCEPT !.index = @ + 1]
           passed == [next EXCEPT !.pending = pending]
<1>1. /\ next \in Dir /\ next.start = dir.start /\ next.kind = dir.kind
      /\ next.num_entries = dir.num_entries /\ next.index = dir.index + 1
      /\ next.walk = dir.walk /\ next.saved_warn_count = dir.saved_warn_count
      /\ next.saved_table = dir.saved_table
  BY SMTT(30) DEF Dir
<1> HIDE DEF next
<1>2. /\ passed \in Dir /\ passed.start = next.start /\ passed.kind = next.kind
      /\ passed.num_entries = next.num_entries /\ passed.index = next.index
      /\ passed.pending = pending /\ passed.walk = next.walk
      /\ passed.saved_warn_count = next.saved_warn_count
      /\ passed.saved_table = next.saved_table
  BY <1>1 DEF Dir
<1>3. passed = Passed(dir, pending)
  BY DEF next, Passed
<1> HIDE DEF passed
<1> QED
  BY <1>1, <1>2, <1>3

LEMMA CountedTypedWalk ==
  ASSUME NEW walk \in WalkRecord
  PROVE  LET more == [walk EXCEPT !.counted = @ + 1]
         IN  /\ more \in WalkRecord /\ more.start = walk.start /\ more.kind = walk.kind
             /\ more.outcome = walk.outcome /\ more.counted = walk.counted + 1
BY DEF WalkRecord

LEMMA WithTopTyped ==
  ASSUME Typed, stack # <<>>, NEW dir \in Dir
  PROVE  /\ WithTop(dir) \in Seq(Dir) /\ Len(WithTop(dir)) = Len(stack)
         /\ DOMAIN WithTop(dir) = DOMAIN stack
         /\ WithTop(dir)[Len(stack)] = dir
         /\ \A n \in DOMAIN stack : n # Len(stack) => WithTop(dir)[n] = stack[n]
BY TopTyped DEF Typed, WithTop

LEMMA ShapeTyped ==
  ASSUME Typed, NEW entry \in Shapes
  PROVE  /\ entry \in AnEntry
         /\ entry.what \in PointerKinds => Len(entry.at) = 1 /\ entry.at[1] \in Addresses
BY ShapesAssumption DEF Typed, Shapes, AnEntry

-----------------------------------------------------------------------------
(* What the actions have in common: an entry is passed, or a directory ends.  *)

\* An entry of the innermost directory is read and is no reason to stop.
Passes(entry, pending) ==
  /\ entry \in Shapes /\ pending \in Seq(Sub) /\ Len(pending) <= MaxSubdirs
  /\ ReadEntry(entry) /\ ~Stopper(entry, Top.index)
  /\ stack' = WithTop([Top EXCEPT !.index = @ + 1, !.pending = pending])
  /\ IF entry.what \in CountedWarning
     THEN warn_count' = warn_count + 1 /\ walks' = [walks EXCEPT ![Top.walk].counted = @ + 1]
     ELSE UNCHANGED <<warn_count, walks>>
  /\ UNCHANGED <<context, active_ifd_offsets, active_table, finished>>

PassEntry == SkipEntry \/ FollowPointer \/ FollowSubIfds \/ CaptureMakerNote \/ EmitLeaf

\* The innermost directory ends, and why.
Ends(outcome) ==
  /\ stack # <<>> /\ Top.pending = <<>>
  /\ \/ outcome = "whole" /\ Top.index = Top.num_entries /\ UNCHANGED disk
     \/ outcome = "aborted" /\ Top.index < Top.num_entries /\ warn_count > MaxWarnings
          /\ UNCHANGED disk
     \/ outcome = "aborted"
          /\ \E entry \in Shapes : ReadEntry(entry) /\ Stopper(entry, Top.index)
  /\ CloseDir(outcome)

EndDirectory == EndOfDirectory \/ TooManyWarnings \/ AbortDir

LEMMA EndDirectoryEnds ==
  ASSUME EndDirectory
  PROVE  \E outcome \in {"whole", "aborted"} : Ends(outcome)
BY DEF EndDirectory, EndOfDirectory, TooManyWarnings, AbortDir, Ends, ReadEntry, Stopper

\* The members of Whats are told apart by what they are.
LEMMA WhatsApart ==
  /\ \A what \in MainLeaves \cup Pointing \cup {"skipped", "wrong format"} :
       what # "overrun" /\ what \notin Malformed
  /\ \A what \in MainLeaves \cup Pointing : what \notin CountedWarning
BY DEF MainLeaves, Pointing, PointerKinds, Malformed, CountedWarning

LEMMA PassEntryPasses ==
  ASSUME Typed, PassEntry
  PROVE  \E entry \in Shapes, pending \in Seq(Sub) : Passes(entry, pending)
<1>0. stack # <<>> /\ Top.pending = <<>> /\ Top \in Dir
  BY TopTyped DEF PassEntry, SkipEntry, FollowPointer, FollowSubIfds, CaptureMakerNote, EmitLeaf,
                  ReadEntry
<1>1. [Top EXCEPT !.index = @ + 1] = [Top EXCEPT !.index = @ + 1, !.pending = <<>>]
  BY <1>0 DEF Dir
<1>2. <<>> \in Seq(Sub) /\ Len(<<>>) <= MaxSubdirs
  BY LimitsAssumption
<1>3. CASE SkipEntry
  <2>1. PICK entry \in Shapes :
          /\ ReadEntry(entry)
          /\ \/ entry.what \in {"skipped", "wrong format"}
             \/ entry.what \in Malformed /\ Top.index > 0
             \/ entry.what = "SubIFD" /\ file_type = "SRW"
             \/ active_table = "Gps" /\ entry.what \in Unknown
          /\ IF entry.what \in CountedWarning
             THEN /\ warn_count' = warn_count + 1
                  /\ walks' = [walks EXCEPT ![Top.walk].counted = @ + 1]
             ELSE UNCHANGED <<warn_count, walks>>
    BY <1>3 DEF SkipEntry
  <2>2. ~Stopper(entry, Top.index)
    <3>1. entry.what = "SubIFD" => entry.what \in Pointing
      BY DEF Pointing
    <3>2. entry.what \in Unknown => entry.what \in MainLeaves \cup Pointing
      BY DEF Unknown
    <3>3. entry.what \in Malformed => entry.what # "overrun"
      BY DEF Malformed
    <3>4. Top.index \in Nat
      BY <1>0 DEF Dir
    <3>5. CASE entry.what \in Malformed /\ Top.index > 0
      BY <3>3, <3>4, <3>5 DEF Stopper
    <3>6. CASE entry.what \in MainLeaves \cup Pointing \cup {"skipped", "wrong format"}
      BY <3>6, WhatsApart DEF Stopper
    <3> QED
      BY <2>1, <3>1, <3>2, <3>5, <3>6
  <2>3. stack' = WithTop([Top EXCEPT !.index = @ + 1]) /\ UNCHANGED <<context, active_ifd_offsets,
          active_table, finished>>
    BY <1>3 DEF SkipEntry, NextEntry
  <2> QED
    BY <1>1, <1>2, <2>1, <2>2, <2>3 DEF Passes
<1>4. CASE FollowPointer
  <2>1. PICK entry \in Shapes :
          /\ ReadEntry(entry) /\ entry.what \in PointerKinds
          /\ stack' = WithTop([Top EXCEPT !.index = @ + 1, !.pending =
               <<[kind |-> entry.what, start |-> entry.at[1],
                  record |-> IF entry.what = "InteropIFD" THEN InteropRecord(entry.at[1])
                             ELSE <<>>]>>])
    BY <1>4 DEF FollowPointer
  <2> DEFINE record == IF entry.what = "InteropIFD" THEN InteropRecord(entry.at[1]) ELSE <<>>
             pending == <<[kind |-> entry.what, start |-> entry.at[1], record |-> record]>>
  <2>2. entry.at[1] \in Addresses
    BY <2>1, ShapeTyped
  <2>3. record \in Seq(Record)
    <3>1. Top.kind \in Kinds /\ Top.start \in Addresses /\ Top.index \in Nat
      BY <1>0 DEF Dir
    <3>2. Deferred("Interop", Top.kind, Top.start, Top.index, entry.at[1], 0) \in Record
      BY <2>2, <3>1 DEF Deferred, Record
    <3> QED
      BY <3>2 DEF InteropRecord
  <2>4. pending \in Seq(Sub) /\ Len(pending) <= MaxSubdirs
    BY <2>1, <2>2, <2>3, LimitsAssumption DEF Sub, SubKinds
  <2>5. ~Stopper(entry, Top.index) /\ entry.what \notin CountedWarning
    BY <2>1, WhatsApart DEF Stopper, Pointing
  <2>6. UNCHANGED <<context, active_ifd_offsets, active_table, finished, warn_count, walks>>
    BY <1>4 DEF FollowPointer
  <2> QED
    BY <2>1, <2>4, <2>5, <2>6 DEF Passes
<1>5. CASE FollowSubIfds
  <2>1. PICK entry \in Shapes :
          /\ ReadEntry(entry) /\ entry.what = "SubIFD"
          /\ stack' = WithTop([Top EXCEPT !.index = @ + 1, !.pending = SubIfds(entry.at)])
    BY <1>5 DEF FollowSubIfds
  <2>2. entry.at \in Seq(Addresses \cup {NoAddress})
    BY ShapeTyped DEF AnEntry
  <2>3. SubIfds(entry.at) \in Seq(Sub) /\ Len(SubIfds(entry.at)) <= MaxSubdirs
    <3> DEFINE count == IF Len(entry.at) > MaxSubdirs THEN MaxSubdirs ELSE Len(entry.at)
    <3>1. count \in Nat /\ count <= MaxSubdirs /\ count <= Len(entry.at)
      BY <2>2, LimitsAssumption
    <3>2. \A n \in 1..count : SubIfd(n, entry.at[n]) \in Sub
      <4> TAKE n \in 1..count
      <4>1. n \in 1..10 /\ n \in 1..Len(entry.at)
        BY <3>1, <2>2, LimitsAssumption
      <4>2. entry.at[n] \in Addresses \cup {NoAddress}
        BY <4>1, <2>2
      <4>3. SubIfdKinds[n] \in SubKinds
        BY <4>1, KindsListed DEF SubKinds
      <4> QED
        BY <4>2, <4>3 DEF SubIfd, Sub
    <3>3. SubIfds(entry.at) = [n \in 1..count |-> SubIfd(n, entry.at[n])]
      BY DEF SubIfds
    <3> HIDE DEF count
    <3> QED
      BY <3>1, <3>2, <3>3
  <2>5. ~Stopper(entry, Top.index) /\ entry.what \notin CountedWarning
    BY <2>1, WhatsApart DEF Stopper, Pointing
  <2>6. UNCHANGED <<context, active_ifd_offsets, active_table, finished, warn_count, walks>>
    BY <1>5 DEF FollowSubIfds
  <2> QED
    BY <2>1, <2>3, <2>5, <2>6 DEF Passes
<1>6. CASE CaptureMakerNote
  <2>1. PICK entry \in Shapes : ReadEntry(entry) /\ entry.what = "MakerNote"
    BY <1>6 DEF CaptureMakerNote
  <2>2. ~Stopper(entry, Top.index) /\ entry.what \notin CountedWarning
    BY <2>1, WhatsApart DEF Stopper, Pointing
  <2>3. /\ UNCHANGED <<context, active_ifd_offsets, active_table, finished, warn_count, walks>>
        /\ stack' = WithTop([Top EXCEPT !.index = @ + 1])
    BY <1>6 DEF CaptureMakerNote, NextEntry
  <2> QED
    BY <1>1, <1>2, <2>1, <2>2, <2>3 DEF Passes
<1>7. CASE EmitLeaf
  <2>1. PICK entry \in Shapes : ReadEntry(entry) /\ entry.what \in LeavesOf(active_table)
    BY <1>7 DEF EmitLeaf
  <2>2. entry.what \in MainLeaves
    BY <2>1 DEF LeavesOf, MainLeaves
  <2>3. ~Stopper(entry, Top.index) /\ entry.what \notin CountedWarning
    BY <2>2, WhatsApart DEF Stopper
  <2>4. /\ UNCHANGED <<context, active_ifd_offsets, active_table, finished, warn_count, walks>>
        /\ stack' = WithTop([Top EXCEPT !.index = @ + 1])
    BY <1>7 DEF EmitLeaf, NextEntry
  <2> QED
    BY <1>1, <1>2, <2>1, <2>3, <2>4 DEF Passes
<1> QED
  BY <1>3, <1>4, <1>5, <1>6, <1>7 DEF PassEntry

-----------------------------------------------------------------------------
(* Types.                                                                   *)

\* Reading an entry adds it to the body at most, behind what was read.
LEMMA ReadShape ==
  ASSUME Typed, NEW entry \in Shapes, ReadEntry(entry),
         Top.index <= Len(disk[Top.start].entries)
  PROVE  /\ disk' \in [Addresses -> Body]
         /\ \A a \in Addresses : a # Top.start => disk'[a] = disk[a]
         /\ disk'[Top.start].head = disk[Top.start].head
         /\ disk'[Top.start].num_entries = disk[Top.start].num_entries
         /\ \/ /\ disk'[Top.start] = disk[Top.start]
               /\ Top.index < Len(disk[Top.start].entries)
            \/ /\ disk'[Top.start].entries = Append(disk[Top.start].entries, entry)
               /\ Top.index = Len(disk[Top.start].entries)
         /\ disk'[Top.start].entries[Top.index + 1] = entry
<1>1. Top.start \in Addresses /\ Top.index \in Nat
  BY TopTyped DEF ReadEntry, Dir
<1>2. disk \in [Addresses -> Body] /\ disk[Top.start].entries \in Seq(AnEntry)
  BY <1>1 DEF Typed, Body
<1>3. entry \in AnEntry
  BY ShapeTyped
<1>4. CASE Top.index < Len(disk[Top.start].entries)
  <2>1. disk' = disk /\ entry = disk[Top.start].entries[Top.index + 1]
    BY <1>4 DEF ReadEntry
  <2> QED
    BY <1>1, <1>2, <1>4, <2>1
<1>5. CASE Top.index = Len(disk[Top.start].entries)
  <2>1. disk' = [disk EXCEPT ![Top.start].entries = Append(@, entry)]
    BY <1>1, <1>5 DEF ReadEntry
  <2>2. Append(disk[Top.start].entries, entry) \in Seq(AnEntry)
    BY <1>2, <1>3
  <2>3. [disk[Top.start] EXCEPT !.entries = Append(@, entry)] \in Body
    BY <1>1, <1>2, <2>2 DEF Body
  <2>4. disk' \in [Addresses -> Body]
    BY <1>1, <1>2, <2>1, <2>3
  <2>5. /\ \A a \in Addresses : a # Top.start => disk'[a] = disk[a]
        /\ disk'[Top.start] = [disk[Top.start] EXCEPT !.entries = Append(@, entry)]
    BY <1>1, <1>2, <2>1
  <2>6. disk[Top.start] \in Body
    BY <1>1, <1>2
  <2>7. /\ disk'[Top.start].head = disk[Top.start].head
        /\ disk'[Top.start].num_entries = disk[Top.start].num_entries
        /\ disk'[Top.start].entries = Append(disk[Top.start].entries, entry)
    BY <2>5, <2>6 DEF Body
  <2>8. Append(disk[Top.start].entries, entry)[Top.index + 1] = entry
    BY <1>2, <1>5
  <2> QED
    BY <1>5, <2>4, <2>5, <2>7, <2>8
<1> QED
  BY <1>1, <1>2, <1>4, <1>5

LEMMA WalkTyped ==
  ASSUME Typed, ~finished, NEW start \in Addresses, NEW kind \in Kinds,
         NEW outcome \in Outcomes
  PROVE  /\ Walk(start, kind, outcome) \in WalkRecord
         /\ Walk(start, kind, outcome).start = start
         /\ Walk(start, kind, outcome).kind = kind
         /\ Walk(start, kind, outcome).outcome = outcome
         /\ Walk(start, kind, outcome).counted = 0
         /\ Append(walks, Walk(start, kind, outcome)) \in Seq(WalkRecord)
<1>1. Len(entries) \in Nat
  BY DEF Typed
<1>2. stack # <<>> => Top.walk \in Nat /\ Top.index - 1 \in Int
  BY TopTyped DEF Dir
<1>3. Walk(start, kind, outcome) \in WalkRecord
  BY <1>1, <1>2 DEF Walk, WalkRecord
<1> QED
  BY <1>3 DEF Walk, Typed

\* A directory is opened or found broken.
LEMMA OpenTyped ==
  ASSUME Typed, ~finished, NEW start \in Addresses, NEW kind \in Kinds,
         NEW body \in Bodies(start), Open(start, kind, body)
  PROVE  /\ disk' \in [Addresses -> Body] /\ disk'[start] = body
         /\ \A a \in Addresses : a # start => disk'[a] = disk[a]
         /\ walks' \in Seq(WalkRecord)
BY BodiesTyped, WalkTyped DEF Open, Typed, Outcomes

LEMMA OpenedTyped ==
  ASSUME Typed, NEW start \in Addresses, NEW kind \in Kinds, NEW body \in Body,
         NEW record \in Seq(Record)
  PROVE  /\ Opened(start, kind, body, record) \in Dir
         /\ Opened(start, kind, body, record).start = start
         /\ Opened(start, kind, body, record).kind = kind
         /\ Opened(start, kind, body, record).num_entries = body.num_entries
         /\ Opened(start, kind, body, record).index = 0
         /\ Opened(start, kind, body, record).pending = <<>>
         /\ Opened(start, kind, body, record).walk = Len(walks) + 1
         /\ Opened(start, kind, body, record).saved_warn_count = warn_count
         /\ Opened(start, kind, body, record).saved_table = active_table
<1>1. body.num_entries \in Nat /\ Len(walks) + 1 \in Nat
  BY DEF Body, Typed
<1>2. warn_count \in Nat /\ active_table \in Tables
  BY DEF Typed
<1> QED
  BY <1>1, <1>2 DEF Opened, Dir

\* The next pointer of the innermost directory, and what is left of it.
LEMMA TakenTyped ==
  ASSUME Typed, Pending
  PROVE  /\ Head(Top.pending) \in Sub /\ Taken \in Dir
         /\ Taken.start = Top.start /\ Taken.kind = Top.kind
         /\ Taken.num_entries = Top.num_entries /\ Taken.index = Top.index
         /\ Taken.walk = Top.walk /\ Taken.saved_warn_count = Top.saved_warn_count
         /\ Taken.saved_table = Top.saved_table
         /\ Len(Taken.pending) < Len(Top.pending)
<1>1. Top \in Dir /\ Top.pending \in Seq(Sub) /\ Top.pending # <<>>
  BY TopTyped DEF Pending, Dir
<1>2. /\ Head(Top.pending) \in Sub /\ Tail(Top.pending) \in Seq(Sub)
      /\ Len(Tail(Top.pending)) < Len(Top.pending)
  BY <1>1
<1> QED
  BY <1>1, <1>2 DEF Taken, Dir

\* The innermost directory is closed.
LEMMA CloseTyped ==
  ASSUME Typed, stack # <<>>, Len(active_ifd_offsets) = Len(stack), NEW outcome \in Outcomes,
         Top.walk \in DOMAIN walks, Close(outcome)
  PROVE  /\ stack' \in Seq(Dir) /\ Len(stack') = Len(stack) - 1
         /\ \A n \in 1..(Len(stack) - 1) : stack'[n] = stack[n]
         /\ active_ifd_offsets' \in Seq(Addresses)
         /\ Len(active_ifd_offsets') = Len(stack) - 1
         /\ \A n \in 1..(Len(stack) - 1) : active_ifd_offsets'[n] = active_ifd_offsets[n]
         /\ walks' \in Seq(WalkRecord) /\ Len(walks') = Len(walks)
         /\ \A n \in DOMAIN walks : n # Top.walk => walks'[n] = walks[n]
         /\ walks'[Top.walk] = [walks[Top.walk] EXCEPT !.outcome = outcome]
<1>1. Len(stack) \in Nat \ {0}
  BY TopTyped
<1>2. walks' = [walks EXCEPT ![Top.walk].outcome = outcome]
  BY DEF Close
<1>0. walks[Top.walk] \in WalkRecord
  BY DEF Typed
<1>3. [walks[Top.walk] EXCEPT !.outcome = outcome] \in WalkRecord
  BY <1>0 DEF WalkRecord
<1>4. /\ walks' \in Seq(WalkRecord) /\ Len(walks') = Len(walks)
      /\ \A n \in DOMAIN walks : n # Top.walk => walks'[n] = walks[n]
      /\ walks'[Top.walk] = [walks[Top.walk] EXCEPT !.outcome = outcome]
  BY <1>2, <1>3 DEF Typed
<1>5. /\ stack' \in Seq(Dir) /\ Len(stack') = Len(stack) - 1
      /\ \A n \in 1..(Len(stack) - 1) : stack'[n] = stack[n]
  BY <1>1 DEF Close, Front, Typed
<1>6. /\ active_ifd_offsets' \in Seq(Addresses)
      /\ Len(active_ifd_offsets') = Len(stack) - 1
      /\ \A n \in 1..(Len(stack) - 1) : active_ifd_offsets'[n] = active_ifd_offsets[n]
  BY <1>1 DEF Close, Front, Typed
<1> QED
  BY <1>4, <1>5, <1>6

-----------------------------------------------------------------------------
(* Counting warnings, and what stops a directory.                           *)

LEMMA CountedTyped ==
  ASSUME NEW read, NEW k \in Nat
  PROVE  IsFiniteSet(CountedIn(read, k)) /\ Counted(read, k) \in Nat
<1>1. IsFiniteSet(1..k)
  BY FS_Interval
<1>2. CountedIn(read, k) \subseteq 1..k
  BY DEF CountedIn
<1> QED
  BY <1>1, <1>2, FS_Subset, FS_CardinalityType DEF Counted

LEMMA CountedZero == \A read : Counted(read, 0) = 0
<1> TAKE read
<1>1. CountedIn(read, 0) = {}
  BY DEF CountedIn
<1> QED
  BY <1>1, FS_EmptySet DEF Counted

LEMMA CountedNext ==
  ASSUME NEW read, NEW k \in Nat
  PROVE  Counted(read, k + 1) =
           IF read[k + 1].what \in CountedWarning THEN Counted(read, k) + 1 ELSE Counted(read, k)
<1>1. CASE read[k + 1].what \in CountedWarning
  <2>1. CountedIn(read, k + 1) = CountedIn(read, k) \cup {k + 1}
    BY <1>1 DEF CountedIn
  <2>2. k + 1 \notin CountedIn(read, k)
    BY DEF CountedIn
  <2> QED
    BY <1>1, <2>1, <2>2, CountedTyped, FS_AddElement DEF Counted
<1>2. CASE read[k + 1].what \notin CountedWarning
  <2>1. CountedIn(read, k + 1) = CountedIn(read, k)
    BY <1>2 DEF CountedIn
  <2> QED
    BY <1>2, <2>1 DEF Counted
<1> QED
  BY <1>1, <1>2

LEMMA CountedSame ==
  ASSUME NEW read, NEW other, NEW k \in Nat, \A m \in 1..k : other[m] = read[m]
  PROVE  Counted(other, k) = Counted(read, k)
<1>1. CountedIn(other, k) = CountedIn(read, k)
  BY DEF CountedIn
<1> QED
  BY <1>1 DEF Counted

\* Stops in the words of the invariant.
LEMMA StopsMeans ==
  ASSUME NEW body \in Body
  PROVE  Stops(body) <=>
           \/ \E n \in DOMAIN body.entries : Stopper(body.entries[n], n - 1)
           \/ \E n \in 1..body.num_entries :
                n <= Len(body.entries) + 1 /\ Counted(body.entries, n - 1) > MaxWarnings
<1>1. body.entries \in Seq(AnEntry) /\ DOMAIN body.entries \subseteq Nat
  BY DEF Body
<1>2. \A n \in DOMAIN body.entries : n = 1 <=> n - 1 = 0
  BY <1>1
<1> QED
  BY <1>2 DEF Stops, Stopper, Counted, CountedIn

\* What was a reason to stop remains one when more is read.
LEMMA StopsStays ==
  ASSUME NEW body \in Body, NEW longer \in Body, NEW entry,
         longer.num_entries = body.num_entries,
         longer.entries = Append(body.entries, entry), Stops(body)
  PROVE  Stops(longer)
<1>1. body.entries \in Seq(AnEntry) /\ body.num_entries \in Nat
  BY DEF Body
<1> DEFINE l == Len(body.entries)
<1>2. /\ l \in Nat /\ Len(longer.entries) = l + 1
      /\ DOMAIN body.entries = 1..l /\ DOMAIN longer.entries = 1..(l + 1)
      /\ \A m \in 1..l : longer.entries[m] = body.entries[m]
  <2>1. longer.entries \in Seq(AnEntry)
    BY DEF Body
  <2>2. Len(Append(body.entries, entry)) = l + 1 /\ \A m \in 1..l : Append(body.entries, entry)[m] = body.entries[m]
    BY <1>1
  <2> QED
    BY <1>1, <2>1, <2>2
<1>3. CASE \E n \in DOMAIN body.entries : Stopper(body.entries[n], n - 1)
  BY <1>2, <1>3, StopsMeans
<1>4. CASE \E n \in 1..body.num_entries :
             n <= l + 1 /\ Counted(body.entries, n - 1) > MaxWarnings
  <2>1. PICK n \in 1..body.num_entries :
               n <= l + 1 /\ Counted(body.entries, n - 1) > MaxWarnings
    BY <1>4
  <2>2. Counted(longer.entries, n - 1) = Counted(body.entries, n - 1)
    <3>1. n - 1 \in Nat /\ \A m \in 1..(n - 1) : longer.entries[m] = body.entries[m]
      BY <1>1, <1>2, <2>1
    <3> QED
      BY <3>1, CountedSame
  <2>3. n <= Len(longer.entries) + 1
    BY <1>1, <1>2, <2>1
  <2> QED
    BY <2>1, <2>2, <2>3, StopsMeans
<1> QED
  BY <1>3, <1>4, StopsMeans

\* A directory whose last entry was passed is whole.
LEMMA PassedIsWhole ==
  ASSUME Typed, NEW dir \in Dir, PassedOver(dir), dir.index = dir.num_entries,
         dir.num_entries = disk[dir.start].num_entries,
         Len(disk[dir.start].entries) = dir.index
  PROVE  ~Stops(disk[dir.start])
<1> DEFINE read == disk[dir.start].entries
<1>1. disk[dir.start] \in Body /\ dir.index \in Nat
  BY DEF Typed, Dir
<1>2. DOMAIN read = 1..dir.index
  BY <1>1 DEF Body
<1>3. \A n \in 1..dir.index : Counted(read, n - 1) <= MaxWarnings /\ ~Stopper(read[n], n - 1)
  BY DEF PassedOver
<1>4. \A n \in 1..dir.index : Counted(read, n - 1) \in Nat
  BY <1>1, CountedTyped
<1>5. \A n \in 1..dir.index : ~(Counted(read, n - 1) > MaxWarnings)
  BY <1>3, <1>4, LimitsAssumption
<1> HIDE DEF read
<1>6. Stops(disk[dir.start]) <=>
        \/ \E n \in DOMAIN read : Stopper(read[n], n - 1)
        \/ \E n \in 1..disk[dir.start].num_entries :
             n <= Len(read) + 1 /\ Counted(read, n - 1) > MaxWarnings
  BY <1>1, StopsMeans DEF read
<1> QED
  BY <1>2, <1>3, <1>5, <1>6

-----------------------------------------------------------------------------
(* An entry is passed.                                                      *)

\* The leaves stay leaves.
LEMMA LeavesTyped ==
  ASSUME Typed, PassEntry
  PROVE  entries' \in Seq(ALeaf)
<1>1. ~finished /\ stack # <<>>
  BY DEF Typed, PassEntry, SkipEntry, FollowPointer, FollowSubIfds, CaptureMakerNote, EmitLeaf,
         ReadEntry
<1>2. CASE UNCHANGED entries
  BY <1>1, <1>2 DEF Typed
<1>3. CASE EmitLeaf
  <2>1. PICK entry \in Shapes :
          /\ entry.what \in LeavesOf(active_table)
          /\ entries' = Append(entries, Leaf(Top.kind, Top.start, entry.what, NameOf(entry.what),
                                             entry.value, Top.walk))
    BY <1>3 DEF EmitLeaf
  <2>2. entry.what \in Whats /\ entry.value \in Nat
    BY ShapeTyped DEF AnEntry
  <2>3. NameOf(entry.what) \in Names
    BY <2>2 DEF NameOf, ImageOf, Names
  <2>4. Leaf(Top.kind, Top.start, entry.what, NameOf(entry.what), entry.value, Top.walk) \in ALeaf
    BY <1>1, <2>2, <2>3, TopTyped DEF Leaf, ALeaf, Dir
  <2> QED
    BY <1>1, <2>1, <2>4 DEF Typed
<1> QED
  BY <1>2, <1>3 DEF PassEntry, SkipEntry, FollowPointer, FollowSubIfds, CaptureMakerNote, found

\* Reading an entry of the innermost directory leaves the other open directories
\* alone, and a directory that ended before still ended by its entries.
LEMMA ReadKeeps ==
  ASSUME WalkInv, NEW entry \in Shapes, ReadEntry(entry)
  PROVE  /\ disk' \in [Addresses -> Body] /\ \A a \in Addresses : Read(disk'[a])
         /\ \A n \in 1..Len(stack) :
              n # Len(stack) => disk'[stack[n].start] = disk[stack[n].start]
         /\ disk'[Top.start].head = "readable"
         /\ disk'[Top.start].num_entries = Top.num_entries
         /\ Top.index + 1 <= Len(disk'[Top.start].entries)
         /\ disk'[Top.start].entries[Top.index + 1] = entry
         /\ \A m \in 1..Top.index : disk'[Top.start].entries[m] = disk[Top.start].entries[m]
         /\ \A n \in DOMAIN walks : Ended(walks[n], disk'[walks[n].start])
<1> DEFINE l == Len(stack)
           read == disk[Top.start].entries
<1> USE DEF WalkInv
<1>1. stack # <<>> /\ Top.index < Top.num_entries
  BY DEF ReadEntry
<1>2. /\ Top = stack[l] /\ Top \in Dir /\ l \in Nat \ {0} /\ l \in DOMAIN stack
      /\ DOMAIN stack = 1..l
  BY <1>1, TopTyped DEF Typed
<1>3. Top.start \in Addresses /\ Top.index \in Nat
  BY <1>2 DEF Dir
<1>4. /\ disk[Top.start].head = "readable" /\ Top.num_entries = disk[Top.start].num_entries
      /\ Top.index <= Len(read)
  BY <1>2 DEF ReadSoFar
<1>5. /\ disk' \in [Addresses -> Body]
      /\ \A a \in Addresses : a # Top.start => disk'[a] = disk[a]
      /\ disk'[Top.start].head = disk[Top.start].head
      /\ disk'[Top.start].num_entries = disk[Top.start].num_entries
      /\ \/ /\ disk'[Top.start] = disk[Top.start]
            /\ Top.index < Len(read)
         \/ /\ disk'[Top.start].entries = Append(read, entry)
            /\ Top.index = Len(read)
      /\ disk'[Top.start].entries[Top.index + 1] = entry
  BY <1>1, <1>4, ReadShape
<1>6. read \in Seq(AnEntry) /\ disk[Top.start] \in Body /\ Read(disk[Top.start])
  BY <1>3 DEF Typed, Body, ReadSoFar
<1> HIDE DEF l
<1>7. \A n \in 1..l : n # l => disk'[stack[n].start] = disk[stack[n].start]
  <2> SUFFICES ASSUME NEW n \in 1..l, n # l PROVE disk'[stack[n].start] = disk[stack[n].start]
    OBVIOUS
  <2>1. stack[n].start = active_ifd_offsets[n] /\ Top.start = active_ifd_offsets[l]
    BY <1>2 DEF PathNeverRepeats
  <2>2. DOMAIN active_ifd_offsets = 1..l
    BY <1>2 DEF PathNeverRepeats
  <2> QED
    BY <1>2, <1>5, <2>1, <2>2, DirsTyped DEF PathNeverRepeats
<1>8. /\ Len(disk'[Top.start].entries) <= Top.num_entries
      /\ Top.index + 1 <= Len(disk'[Top.start].entries)
      /\ \A m \in 1..Top.index : disk'[Top.start].entries[m] = read[m]
  <2>1. Top.num_entries \in Nat /\ Len(read) \in Nat /\ Len(read) <= Top.num_entries
    BY <1>4, <1>6 DEF Body, Read
  <2>2. Len(Append(read, entry)) = Len(read) + 1 /\ \A m \in 1..Len(read) : Append(read, entry)[m] = read[m]
    BY <1>6
  <2>3. CASE disk'[Top.start] = disk[Top.start] /\ Top.index < Len(read)
    BY <1>3, <2>1, <2>3
  <2>4. CASE disk'[Top.start].entries = Append(read, entry) /\ Top.index = Len(read)
    BY <1>1, <1>3, <2>1, <2>2, <2>4
  <2> QED
    BY <1>5, <2>3, <2>4
<1>9. \A a \in Addresses : Read(disk'[a])
  BY <1>4, <1>5, <1>8 DEF ReadSoFar, Read
<1>10. \A n \in DOMAIN walks : Ended(walks[n], disk'[walks[n].start])
  <2> TAKE n \in DOMAIN walks
  <2>1. walks[n].start \in Addresses /\ Ended(walks[n], disk[walks[n].start])
    BY WalksTyped DEF EndedByEntries
  <2>2. CASE walks[n].start # Top.start \/ disk'[Top.start] = disk[Top.start]
    BY <1>5, <2>1, <2>2
  <2>3. CASE /\ walks[n].start = Top.start /\ disk'[Top.start].entries = Append(read, entry)
             /\ Top.index = Len(read)
    <3>1. walks[n].outcome # "whole"
      BY <1>1, <1>3, <1>4, <2>1, <2>3 DEF Ended
    <3>2. Stops(disk[Top.start]) => Stops(disk'[Top.start])
      BY <1>3, <1>5, <1>6, <2>3, StopsStays
    <3> QED
      BY <1>5, <2>1, <2>3, <3>1, <3>2 DEF Ended
  <2> QED
    BY <1>5, <2>2, <2>3
<1> QED
  BY <1>4, <1>5, <1>7, <1>8, <1>9, <1>10 DEF l

LEMMA PassKeeps ==
  ASSUME WalkInv, NEW entry \in Shapes, NEW pending \in Seq(Sub), Passes(entry, pending),
         entries' \in Seq(ALeaf)
  PROVE  WalkInv'
<1> DEFINE l == Len(stack)
           read == disk[Top.start].entries
           passed == Passed(Top, pending)
<1> USE DEF WalkInv
<1>1. /\ stack # <<>> /\ Top.pending = <<>> /\ Top.index < Top.num_entries
      /\ warn_count <= MaxWarnings /\ ReadEntry(entry)
  BY DEF Passes, ReadEntry
<1>2. /\ Top = stack[l] /\ Top \in Dir /\ l \in Nat \ {0} /\ l \in DOMAIN stack
      /\ DOMAIN stack = 1..l
  BY <1>1, TopTyped DEF Typed
<1>3. Top.start \in Addresses /\ Top.index \in Nat /\ Top.walk \in DOMAIN walks
  BY <1>2 DEF Dir, DirsOpen
<1>4. /\ passed \in Dir /\ passed.start = Top.start /\ passed.kind = Top.kind
      /\ passed.num_entries = Top.num_entries /\ passed.index = Top.index + 1
      /\ passed.pending = pending /\ passed.walk = Top.walk
      /\ passed.saved_warn_count = Top.saved_warn_count /\ passed.saved_table = Top.saved_table
  BY <1>2, PassedTyped
<1>5. /\ stack' \in Seq(Dir) /\ Len(stack') = l /\ DOMAIN stack' = 1..l
      /\ stack'[l] = passed /\ \A n \in 1..l : n # l => stack'[n] = stack[n]
  <2>1. stack' = WithTop(passed)
    BY DEF Passes, Passed
  <2> HIDE DEF passed
  <2> QED
    BY <1>1, <1>2, <1>4, <2>1, WithTopTyped
<1>6. stack' # <<>> /\ Top' = passed
  BY <1>2, <1>5 DEF Top, Last
<1>7. /\ disk' \in [Addresses -> Body] /\ \A a \in Addresses : Read(disk'[a])
      /\ \A n \in 1..l : n # l => disk'[stack[n].start] = disk[stack[n].start]
      /\ disk'[Top.start].head = "readable"
      /\ disk'[Top.start].num_entries = Top.num_entries
      /\ Top.index + 1 <= Len(disk'[Top.start].entries)
      /\ disk'[Top.start].entries[Top.index + 1] = entry
      /\ \A m \in 1..Top.index : disk'[Top.start].entries[m] = read[m]
      /\ \A n \in DOMAIN walks : Ended(walks[n], disk'[walks[n].start])
  BY <1>1, ReadKeeps
<1>10. /\ walks' \in Seq(WalkRecord) /\ DOMAIN walks' = DOMAIN walks /\ Len(walks') = Len(walks)
       /\ \A n \in DOMAIN walks : n # Top.walk => walks'[n] = walks[n]
       /\ \A n \in DOMAIN walks :
            /\ walks'[n].start = walks[n].start /\ walks'[n].kind = walks[n].kind
            /\ walks'[n].outcome = walks[n].outcome
       /\ walks'[Top.walk].counted =
            IF entry.what \in CountedWarning THEN walks[Top.walk].counted + 1
            ELSE walks[Top.walk].counted
       /\ warn_count' = IF entry.what \in CountedWarning THEN warn_count + 1 ELSE warn_count
  <2>1. walks[Top.walk] \in WalkRecord /\ walks \in Seq(WalkRecord)
    BY <1>3 DEF Typed
  <2>2. CASE entry.what \in CountedWarning
    <3>1. walks' = [walks EXCEPT ![Top.walk].counted = @ + 1] /\ warn_count' = warn_count + 1
      BY <2>2 DEF Passes
    <3> DEFINE more == [walks[Top.walk] EXCEPT !.counted = @ + 1]
    <3>2. /\ more \in WalkRecord /\ more.start = walks[Top.walk].start
          /\ more.kind = walks[Top.walk].kind /\ more.outcome = walks[Top.walk].outcome
          /\ more.counted = walks[Top.walk].counted + 1
      BY <2>1, CountedTypedWalk
    <3>3. walks' = [walks EXCEPT ![Top.walk] = more]
      BY <3>1
    <3> HIDE DEF more
    <3>4. /\ walks' \in Seq(WalkRecord) /\ DOMAIN walks' = DOMAIN walks /\ Len(walks') = Len(walks)
          /\ \A n \in DOMAIN walks : n # Top.walk => walks'[n] = walks[n]
          /\ walks'[Top.walk] = more
      BY <1>3, <2>1, <3>2, <3>3
    <3> QED
      BY <2>2, <3>1, <3>2, <3>4
  <2>3. CASE entry.what \notin CountedWarning
    <3>1. UNCHANGED <<warn_count, walks>>
      BY <2>3 DEF Passes
    <3> QED
      BY <2>1, <2>3, <3>1
  <2> QED
    BY <2>2, <2>3
<1>11. UNCHANGED <<context, active_ifd_offsets, active_table, finished>>
  BY DEF Passes
<1> HIDE DEF passed, read, l
<1>12. Typed'
  BY <1>1, <1>5, <1>7, <1>10, <1>11, SMTT(30) DEF Typed, context
<1>13. PathNeverRepeats'
  BY <1>2, <1>4, <1>5, <1>11 DEF PathNeverRepeats
<1>15. ReadSoFar'
  <2>1. \A n \in 1..l :
          /\ disk'[stack'[n].start].head = "readable"
          /\ stack'[n].num_entries = disk'[stack'[n].start].num_entries
          /\ stack'[n].index <= Len(disk'[stack'[n].start].entries)
    <3> TAKE n \in 1..l
    <3>1. CASE n = l
      BY <3>1, <1>4, <1>5, <1>7
    <3>2. CASE n # l
      <4>1. stack'[n] = stack[n] /\ disk'[stack[n].start] = disk[stack[n].start]
        BY <3>2, <1>5, <1>7
      <4>2. /\ disk[stack[n].start].head = "readable"
            /\ stack[n].num_entries = disk[stack[n].start].num_entries
            /\ stack[n].index <= Len(disk[stack[n].start].entries)
        BY <1>2 DEF ReadSoFar
      <4> QED
        BY <4>1, <4>2
    <3> QED
      BY <3>1, <3>2
  <2> QED
    BY <1>5, <1>7, <2>1 DEF ReadSoFar
<1>16. DirsOpen'
  <2>1. \A n \in 1..l : stack'[n].walk = stack[n].walk /\ stack'[n].start = stack[n].start
                         /\ stack'[n].kind = stack[n].kind
    BY <1>2, <1>4, <1>5
  <2> QED
    <3>1. \A n \in 1..l : /\ stack'[n].walk \in DOMAIN walks'
                          /\ walks'[stack'[n].walk].outcome = "open"
                          /\ walks'[stack'[n].walk].start = stack'[n].start
                          /\ walks'[stack'[n].walk].kind = stack'[n].kind
      <4> TAKE n \in 1..l
      <4>1. /\ stack[n].walk \in DOMAIN walks /\ walks[stack[n].walk].outcome = "open"
            /\ walks[stack[n].walk].start = stack[n].start
            /\ walks[stack[n].walk].kind = stack[n].kind
        BY <1>2 DEF DirsOpen
      <4> QED
        BY <4>1, <1>10, <2>1
    <3>2. \A m, n \in 1..l : stack'[m].walk = stack'[n].walk => m = n
      BY <1>2, <2>1 DEF DirsOpen
    <3> QED
      BY <1>5, <3>1, <3>2 DEF DirsOpen
<1>17. Nested'
  <2>1. Len(pending) <= MaxSubdirs
    BY DEF Passes
  <2> QED
    BY <1>2, <1>4, <1>5, <2>1 DEF Nested
<1>18. PutAside'
  <2>1. walks[Top.walk].counted = warn_count
    BY <1>1 DEF PutAside
  <2>2. \A n \in 1..l : stack'[n].kind = stack[n].kind /\ stack'[n].walk = stack[n].walk
          /\ stack'[n].saved_warn_count = stack[n].saved_warn_count
          /\ stack'[n].saved_table = stack[n].saved_table
    BY <1>2, <1>4, <1>5
  <2>3. \A n \in 2..l : walks'[stack'[n - 1].walk] = walks[stack[n - 1].walk]
    <3> TAKE n \in 2..l
    <3>1. n - 1 \in 1..l /\ n - 1 # l
      BY <1>2
    <3>2. stack[n - 1].walk # Top.walk /\ stack[n - 1].walk \in DOMAIN walks
      BY <3>1, <1>2 DEF DirsOpen
    <3> QED
      BY <3>1, <3>2, <1>10, <2>2
  <2>4. \A n \in 2..l : n - 1 \in 1..l /\ n \in 1..l
    BY <1>2
  <2>5. walks'[Top'.walk].counted = warn_count'
    BY <1>4, <1>6, <1>10, <2>1
  <2>6. active_table' = table_for_ifd_kind(Top'.kind)
    BY <1>1, <1>4, <1>6, <1>11 DEF PutAside
  <2>7. \A n \in 2..l :
          /\ stack'[n].saved_warn_count = walks'[stack'[n - 1].walk].counted
          /\ stack'[n].saved_table = table_for_ifd_kind(stack'[n - 1].kind)
    BY <2>2, <2>3, <2>4 DEF PutAside, l
  <2> QED
    BY <1>5, <1>6, <2>5, <2>6, <2>7 DEF PutAside
<1>19. warn_count' <= MaxWarnings + 1
  BY <1>1, <1>10, LimitsAssumption DEF Typed
<1>21. (\A n \in DOMAIN stack : PassedOver(stack[n]))'
  <2> DEFINE longer == disk'[Top.start].entries
  <2>1. \A m \in 1..Top.index : longer[m] = read[m]
    BY <1>7
  <2>2. /\ walks[Top.walk].counted = Counted(read, Top.index)
        /\ \A m \in 1..Top.index :
             Counted(read, m - 1) <= MaxWarnings /\ ~Stopper(read[m], m - 1)
    BY <1>2 DEF PassedOver, read
  <2>3. longer[Top.index + 1] = entry
    BY <1>7
  <2>4. Counted(longer, Top.index) = Counted(read, Top.index)
    BY <1>3, <2>1, CountedSame
  <2>5. walks'[Top.walk].counted = Counted(longer, Top.index + 1)
    BY <1>3, <1>10, <2>2, <2>3, <2>4, CountedNext, SMTT(30)
  <2>6. Counted(longer, Top.index) <= MaxWarnings
    BY <1>1, <2>2, <2>4 DEF PutAside
  <2>7. ~Stopper(longer[Top.index + 1], Top.index)
    BY <2>3 DEF Passes
  <2>8. \A m \in 1..(Top.index + 1) :
          Counted(longer, m - 1) <= MaxWarnings /\ ~Stopper(longer[m], m - 1)
    <3> TAKE m \in 1..(Top.index + 1)
    <3>1. CASE m = Top.index + 1
      BY <3>1, <1>3, <2>6, <2>7
    <3>2. CASE m \in 1..Top.index
      <4>1. m - 1 \in Nat /\ \A k \in 1..(m - 1) : longer[k] = read[k]
        BY <1>3, <2>1, <3>2
      <4> QED
        BY <2>1, <2>2, <3>2, <4>1, CountedSame
    <3> QED
      BY <1>3, <3>1, <3>2
  <2>9. \A n \in 1..l : PassedOver(stack[n])'
    <3> TAKE n \in 1..l
    <3>1. CASE n = l
      BY <3>1, <1>4, <1>5, <2>5, <2>8 DEF PassedOver
    <3>2. CASE n # l
      <4>1. stack[n].walk # Top.walk /\ stack[n].walk \in DOMAIN walks
        BY <3>2, <1>2 DEF DirsOpen
      <4>2. walks'[stack[n].walk] = walks[stack[n].walk] /\ disk'[stack[n].start] = disk[stack[n].start]
        BY <3>2, <4>1, <1>7, <1>10
      <4>3. stack'[n] = stack[n]
        BY <3>2, <1>5
      <4> QED
        BY <4>2, <4>3, <1>2 DEF PassedOver
    <3> QED
      BY <3>1, <3>2
  <2> QED
    BY <1>5, <2>9
<1>22. EndedByEntries'
  <2>1. \A n \in DOMAIN walks : Ended(walks'[n], disk'[walks'[n].start])
    BY <1>7, <1>10 DEF Ended
  <2> QED
    BY <1>10, <2>1 DEF EndedByEntries
<1>23. ChainSound'
  <2>1. l # 0 /\ stack'[1].walk = stack[1].walk
    BY <1>2, <1>4, <1>5
  <2> QED
    <3>1. offset' = offset /\ chain_guard' = chain_guard /\ stack # <<>> /\ stack' # <<>>
      BY <1>1, <1>6, <1>11 DEF context
    <3>2. \A n \in DOMAIN walks : IsChain(walks'[n].kind) <=> IsChain(walks[n].kind)
      BY <1>10
    <3>3. \A n \in DOMAIN walks : IsChain(walks'[n].kind) => walks'[n].start \in DOMAIN chain_guard'
      BY <1>10, <3>1, <3>2 DEF ChainSound
    <3>4. \A m, n \in DOMAIN walks :
            m < n /\ IsChain(walks'[m].kind) /\ IsChain(walks'[n].kind) =>
              /\ walks'[m].outcome = "whole"
              /\ walks'[n].outcome # "refused" => walks'[m].start # walks'[n].start
      BY <1>10, <3>2 DEF ChainSound
    <3>5. offset' # NoAddress =>
            \A n \in DOMAIN walks :
              IsChain(walks'[n].kind) =>
                walks'[n].outcome = "whole" \/ (stack' # <<>> /\ n = stack'[1].walk)
      BY <1>10, <2>1, <3>1, <3>2 DEF ChainSound
    <3>6. offset' # NoAddress
      BY <3>1 DEF ChainSound
    <3> QED
      BY <1>10, <3>3, <3>4, <3>5, <3>6 DEF ChainSound
<1> QED
  BY <1>12, <1>13, <1>15, <1>16, <1>17, <1>18, <1>19, <1>21, <1>22, <1>23

-----------------------------------------------------------------------------
(* A directory ends.                                                        *)

\* The count stops one past the cap.
LEMMA PassedBounded ==
  ASSUME Typed, NEW dir \in Dir, PassedOver(dir)
  PROVE  walks[dir.walk].counted <= MaxWarnings + 1
<1> DEFINE read == disk[dir.start].entries
<1>1. dir.index \in Nat
  BY DEF Dir
<1>2. /\ walks[dir.walk].counted = Counted(read, dir.index)
      /\ \A m \in 1..dir.index : Counted(read, m - 1) <= MaxWarnings
  BY DEF PassedOver
<1> HIDE DEF read
<1>3. CASE dir.index = 0
  BY <1>2, <1>3, CountedZero, LimitsAssumption
<1>4. CASE dir.index > 0
  <2>1. dir.index - 1 \in Nat /\ dir.index \in 1..dir.index
    BY <1>1, <1>4
  <2>2. Counted(read, dir.index - 1) \in Nat /\ Counted(read, dir.index - 1) <= MaxWarnings
    BY <1>2, <2>1, CountedTyped
  <2>3. \/ Counted(read, (dir.index - 1) + 1) = Counted(read, dir.index - 1) + 1
        \/ Counted(read, (dir.index - 1) + 1) = Counted(read, dir.index - 1)
    BY <2>1, CountedNext
  <2>4. (dir.index - 1) + 1 = dir.index
    BY <1>1
  <2> QED
    BY <1>2, <2>2, <2>3, <2>4, LimitsAssumption
<1> QED
  BY <1>1, <1>3, <1>4

\* The innermost directory ends for a reason its entries give.
LEMMA EndReason ==
  ASSUME WalkInv, NEW outcome \in {"whole", "aborted"}, Ends(outcome)
  PROVE  /\ disk' \in [Addresses -> Body] /\ \A a \in Addresses : Read(disk'[a])
         /\ \A n \in 1..Len(stack) :
              n # Len(stack) => disk'[stack[n].start] = disk[stack[n].start]
         /\ disk'[Top.start].head = "readable"
         /\ outcome = "whole" =>
              /\ Len(disk'[Top.start].entries) = disk'[Top.start].num_entries
              /\ ~Stops(disk'[Top.start])
         /\ outcome = "aborted" => Stops(disk'[Top.start])
         /\ \A n \in DOMAIN walks : Ended(walks[n], disk'[walks[n].start])
<1> DEFINE l == Len(stack)
           read == disk[Top.start].entries
<1> USE DEF WalkInv
<1>1. stack # <<>>
  BY DEF Ends
<1>2. /\ Top = stack[l] /\ Top \in Dir /\ l \in Nat \ {0} /\ l \in DOMAIN stack
  BY <1>1, TopTyped DEF Typed
<1>3. Top.start \in Addresses /\ Top.index \in Nat
  BY <1>2 DEF Dir
<1>4. /\ disk[Top.start].head = "readable" /\ Top.num_entries = disk[Top.start].num_entries
      /\ Top.index <= Len(read)
  BY <1>2 DEF ReadSoFar
<1>5. disk[Top.start] \in Body /\ read \in Seq(AnEntry) /\ Read(disk[Top.start])
  BY <1>3 DEF Typed, Body, ReadSoFar
<1>6. PassedOver(Top)
  BY <1>2
<1>7. Top.num_entries \in Nat /\ Len(read) \in Nat /\ Len(read) <= Top.num_entries
  BY <1>4, <1>5 DEF Body, Read
<1>8. CASE outcome = "whole" /\ Top.index = Top.num_entries /\ UNCHANGED disk
  <2>1. Len(read) = Top.index
    BY <1>3, <1>4, <1>7, <1>8
  <2>2. ~Stops(disk[Top.start])
    BY <1>2, <1>4, <1>6, <1>8, <2>1, PassedIsWhole
  <2> QED
    BY <1>2, <1>3, <1>4, <1>8, <2>1, <2>2 DEF Typed, ReadSoFar, EndedByEntries
<1>9. CASE /\ outcome = "aborted" /\ Top.index < Top.num_entries /\ warn_count > MaxWarnings
           /\ UNCHANGED disk
  <2>1. Counted(read, Top.index) > MaxWarnings
    BY <1>1, <1>6, <1>9 DEF PutAside, PassedOver
  <2>2. /\ Top.index + 1 \in 1..disk[Top.start].num_entries /\ Top.index + 1 <= Len(read) + 1
        /\ (Top.index + 1) - 1 = Top.index
    BY <1>3, <1>4, <1>7, <1>9
  <2>3. Stops(disk[Top.start])
    BY <1>5, <2>1, <2>2, StopsMeans
  <2> QED
    BY <1>2, <1>3, <1>4, <1>9, <2>3 DEF Typed, ReadSoFar, EndedByEntries
<1>10. CASE /\ outcome = "aborted"
            /\ \E entry \in Shapes : ReadEntry(entry) /\ Stopper(entry, Top.index)
  <2>1. PICK entry \in Shapes : ReadEntry(entry) /\ Stopper(entry, Top.index)
    BY <1>10
  <2> DEFINE after == disk'[Top.start]
  <2>2. /\ disk' \in [Addresses -> Body] /\ \A a \in Addresses : Read(disk'[a])
        /\ \A n \in 1..l : n # l => disk'[stack[n].start] = disk[stack[n].start]
        /\ after.head = "readable" /\ Top.index + 1 <= Len(after.entries)
        /\ after.entries[Top.index + 1] = entry
        /\ \A n \in DOMAIN walks : Ended(walks[n], disk'[walks[n].start])
    BY <2>1, ReadKeeps
  <2>3. after \in Body /\ after.entries \in Seq(AnEntry)
    BY <1>3, <2>2 DEF Body
  <2>4. Top.index + 1 \in DOMAIN after.entries /\ (Top.index + 1) - 1 = Top.index
    BY <1>3, <2>2, <2>3
  <2> HIDE DEF after
  <2>5. Stops(after)
    BY <2>1, <2>2, <2>3, <2>4, StopsMeans
  <2> QED
    BY <1>10, <2>2, <2>5 DEF after
<1> QED
  BY <1>8, <1>9, <1>10 DEF Ends

LEMMA ChainTable == \A kind : IsChain(kind) => table_for_ifd_kind(kind) = "Exif"
BY KindsListed DEF IsChain, table_for_ifd_kind

LEMMA EndKeeps ==
  ASSUME WalkInv, NEW outcome \in {"whole", "aborted"}, Ends(outcome)
  PROVE  WalkInv'
<1> DEFINE l == Len(stack)
           k == Len(stack) - 1
           w == Top.walk
<1> USE DEF WalkInv
<1>1. stack # <<>> /\ CloseDir(outcome)
  BY DEF Ends
<1>0. /\ Top = stack[l] /\ Top \in Dir /\ DOMAIN stack = 1..l
      /\ l \in Nat \ {0}
  BY <1>1, TopTyped DEF Typed
<1>13. k \in Nat /\ l = k + 1
  BY <1>0
<1> HIDE DEF l, k
<1>2. /\ Top = stack[l] /\ Top \in Dir /\ DOMAIN stack = 1..l /\ l \in Nat \ {0}
      /\ l \in 1..l /\ \A n \in 1..k : n \in 1..l /\ n # l
  BY <1>0, <1>13
<1>3. /\ w \in DOMAIN walks /\ walks[w].outcome = "open"
      /\ walks[w].start = Top.start /\ walks[w].kind = Top.kind
      /\ Top.start \in Addresses /\ walks[w] \in WalkRecord
  <2>1. /\ w \in DOMAIN walks /\ walks[w].outcome = "open"
        /\ walks[w].start = Top.start /\ walks[w].kind = Top.kind
    BY <1>2 DEF DirsOpen
  <2> QED
    BY <1>2, <2>1, WalksTyped DEF Dir
<1>4. Close(outcome) /\ ~finished
  BY <1>1 DEF CloseDir, CloseSubdir, CloseChainDir, Typed
<1>5. Len(active_ifd_offsets) = l /\ DOMAIN active_ifd_offsets = 1..l
  <2>1. active_ifd_offsets = [n \in 1..l |-> stack[n].start]
    BY <1>2 DEF PathNeverRepeats
  <2>2. active_ifd_offsets \in Seq(Addresses)
    BY DEF Typed
  <2> QED
    BY <1>2, <2>1, <2>2
<1>6. /\ stack' \in Seq(Dir) /\ Len(stack') = k /\ DOMAIN stack' = 1..k
      /\ \A n \in 1..k : stack'[n] = stack[n]
      /\ active_ifd_offsets' \in Seq(Addresses) /\ DOMAIN active_ifd_offsets' = 1..k
      /\ \A n \in 1..k : active_ifd_offsets'[n] = active_ifd_offsets[n]
      /\ walks' \in Seq(WalkRecord) /\ DOMAIN walks' = DOMAIN walks
      /\ \A n \in DOMAIN walks : n # w => walks'[n] = walks[n]
      /\ walks'[w] = [walks[w] EXCEPT !.outcome = outcome]
  <2>1. outcome \in Outcomes
    BY DEF Outcomes
  <2>2. l - 1 = k
    BY <1>13
  <2>3. /\ stack' \in Seq(Dir) /\ Len(stack') = l - 1
        /\ \A n \in 1..(l - 1) : stack'[n] = stack[n]
        /\ active_ifd_offsets' \in Seq(Addresses)
        /\ Len(active_ifd_offsets') = l - 1
        /\ \A n \in 1..(l - 1) : active_ifd_offsets'[n] = active_ifd_offsets[n]
        /\ walks' \in Seq(WalkRecord) /\ Len(walks') = Len(walks)
        /\ \A n \in DOMAIN walks : n # w => walks'[n] = walks[n]
        /\ walks'[w] = [walks[w] EXCEPT !.outcome = outcome]
    BY <1>1, <1>3, <1>4, <1>5, <2>1, CloseTyped DEF l
  <2> QED
    BY <2>2, <2>3 DEF Typed
<1>7. /\ walks'[w].outcome = outcome /\ walks'[w].start = walks[w].start
      /\ walks'[w].kind = walks[w].kind
  BY <1>3, <1>6 DEF WalkRecord
<1>8. \A n \in DOMAIN walks : walks'[n].start = walks[n].start /\ walks'[n].kind = walks[n].kind
  BY <1>6, <1>7
<1>9. \A n \in 1..k : stack[n].walk # w /\ stack[n].walk \in DOMAIN walks
  <2> TAKE n \in 1..k
  <2> QED
    BY <1>2 DEF DirsOpen
<1>10. \A n \in 1..k : walks'[stack[n].walk] = walks[stack[n].walk]
  BY <1>6, <1>9
<1>11. /\ disk' \in [Addresses -> Body] /\ \A a \in Addresses : Read(disk'[a])
       /\ \A n \in 1..k : disk'[stack[n].start] = disk[stack[n].start]
       /\ disk'[Top.start].head = "readable"
       /\ outcome = "whole" =>
            /\ Len(disk'[Top.start].entries) = disk'[Top.start].num_entries
            /\ ~Stops(disk'[Top.start])
       /\ outcome = "aborted" => Stops(disk'[Top.start])
       /\ \A n \in DOMAIN walks : Ended(walks[n], disk'[walks[n].start])
  BY <1>2, EndReason DEF l
<1>12. \/ k # 0 /\ Restore /\ UNCHANGED <<context, entries, finished>>
       \/ /\ k = 0 /\ offset' \in Addresses \cup {NoAddress} /\ hops' \in Nat
          /\ outcome # "whole" => offset' = NoAddress
          /\ UNCHANGED <<file_type, chain_guard, warn_count, active_table, entries, finished>>
  <2>1. CASE CloseSubdir(outcome)
    <3>1. k # 0
      BY <1>13, <2>1 DEF CloseSubdir, l
    <3> QED
      BY <2>1, <3>1 DEF CloseSubdir
  <2>2. CASE CloseChainDir(outcome)
    <3>0. l = 1
      BY <2>2 DEF CloseChainDir, l
    <3>1. k = 0
      BY <1>13, <3>0
    <3>2. offset' \in Addresses \cup {NoAddress} /\ hops' \in Nat
      BY <2>2 DEF CloseChainDir, Typed
    <3>3. outcome # "whole" => offset' = NoAddress
      BY <2>2 DEF CloseChainDir
    <3>4. UNCHANGED <<file_type, chain_guard, warn_count, active_table, entries, finished>>
      BY <2>2 DEF CloseChainDir, found
    <3> QED
      BY <3>1, <3>2, <3>3, <3>4
  <2> QED
    BY <1>1, <2>1, <2>2 DEF CloseDir
<1>14. k # 0 => Top' = stack[k] /\ k \in 1..k /\ stack[l] = Top /\ l \in 2..l /\ l - 1 = k
  BY <1>2, <1>6, <1>13 DEF Top, Last
<1>15. stack' = <<>> <=> k = 0
  BY <1>6, <1>13
<1>16. /\ Top.saved_warn_count \in Nat /\ Top.saved_table \in Tables
  BY <1>2 DEF Dir
<1>17. k # 0 => /\ warn_count' = walks[stack[k].walk].counted
               /\ active_table' = table_for_ifd_kind(stack[k].kind)
  <2> SUFFICES ASSUME k # 0
               PROVE  /\ warn_count' = walks[stack[k].walk].counted
                      /\ active_table' = table_for_ifd_kind(stack[k].kind)
    OBVIOUS
  <2>1. warn_count' = Top.saved_warn_count /\ active_table' = Top.saved_table
    BY <1>12 DEF Restore
  <2>2. /\ stack[l].saved_warn_count = walks[stack[l - 1].walk].counted
        /\ stack[l].saved_table = table_for_ifd_kind(stack[l - 1].kind)
    BY <1>14 DEF PutAside, l
  <2> QED
    BY <1>14, <2>1, <2>2
<1> HIDE DEF w
<1>18. Typed'
  BY <1>4, <1>6, <1>11, <1>12, <1>16 DEF Typed, context, Restore
<1>19. PathNeverRepeats'
  <2>1. \A n \in 1..k : active_ifd_offsets'[n] = stack'[n].start
    BY <1>2, <1>6, ZenonT(60) DEF PathNeverRepeats
  <2>2. active_ifd_offsets' = [n \in 1..k |-> stack'[n].start]
    BY <1>6, <2>1
  <2>3. \A m, n \in 1..k : active_ifd_offsets'[m] = active_ifd_offsets'[n] => m = n
    <3> TAKE m, n \in 1..k
    <3>1. m \in 1..l /\ n \in 1..l
      BY <1>2
    <3>2. active_ifd_offsets[m] = active_ifd_offsets[n] => m = n
      BY <1>5, <3>1 DEF PathNeverRepeats
    <3> QED
      BY <1>6, <3>2
  <2> QED
    BY <1>6, <2>2, <2>3 DEF PathNeverRepeats
<1>20. ReadSoFar'
  BY <1>2, <1>6, <1>11 DEF ReadSoFar
<1>21. DirsOpen'
  <2>1. \A n \in 1..k :
          /\ stack'[n].walk \in DOMAIN walks' /\ walks'[stack'[n].walk].outcome = "open"
          /\ walks'[stack'[n].walk].start = stack'[n].start
          /\ walks'[stack'[n].walk].kind = stack'[n].kind
    BY <1>2, <1>6, <1>10 DEF DirsOpen
  <2>2. \A m, n \in 1..k : stack'[m].walk = stack'[n].walk => m = n
    BY <1>2, <1>6 DEF DirsOpen
  <2> QED
    BY <1>6, <2>1, <2>2 DEF DirsOpen
<1>22. Nested'
  BY <1>2, <1>6 DEF Nested
<1>23. PutAside'
  <2>1. stack' # <<>> => walks'[Top'.walk].counted = warn_count'
    BY <1>10, <1>14, <1>15, <1>17
  <2>2. active_table' = IF stack' = <<>> THEN "Exif" ELSE table_for_ifd_kind(Top'.kind)
    <3>1. CASE k = 0
      <4>1. IsChain(Top.kind) /\ active_table' = active_table
        BY <3>1, <1>2, <1>12 DEF Nested, k, l
      <4> QED
        BY <1>1, <1>15, <3>1, <4>1, ChainTable DEF PutAside
    <3>2. CASE k # 0
      BY <3>2, <1>14, <1>15, <1>17
    <3> QED
      BY <3>1, <3>2
  <2>3. \A n \in 2..k :
          /\ stack'[n].saved_warn_count = walks'[stack'[n - 1].walk].counted
          /\ stack'[n].saved_table = table_for_ifd_kind(stack'[n - 1].kind)
    <3> TAKE n \in 2..k
    <3>1. n \in 1..k /\ n - 1 \in 1..k /\ n \in 2..l
      BY <1>13
    <3> QED
      BY <3>1, <1>6, <1>10 DEF PutAside, l
  <2> QED
    BY <1>6, <2>1, <2>2, <2>3 DEF PutAside
<1>24. warn_count' <= MaxWarnings + 1
  <2>1. CASE k = 0
    BY <1>12, <2>1
  <2>2. CASE k # 0
    <3>1. k \in DOMAIN stack
      BY <1>2, <1>14, <2>2
    <3>2. stack[k] \in Dir /\ PassedOver(stack[k])
      BY <3>1, DirsTyped
    <3> QED
      BY <1>17, <2>2, <3>2, PassedBounded
  <2> QED
    BY <2>1, <2>2
<1>25. (\A n \in DOMAIN stack : PassedOver(stack[n]))'
  <2>1. \A n \in 1..k : PassedOver(stack[n])'
    <3> TAKE n \in 1..k
    <3>1. PassedOver(stack[n])
      BY <1>2
    <3>2. /\ stack'[n] = stack[n] /\ disk'[stack[n].start] = disk[stack[n].start]
          /\ walks'[stack[n].walk] = walks[stack[n].walk]
      BY <1>6, <1>10, <1>11
    <3> QED
      BY <3>1, <3>2 DEF PassedOver
  <2> QED
    BY <1>6, <2>1
<1>26. EndedByEntries'
  <2>1. \A n \in DOMAIN walks : Ended(walks'[n], disk'[walks'[n].start])
    <3> TAKE n \in DOMAIN walks
    <3>1. CASE n = w
      BY <3>1, <1>3, <1>7, <1>11 DEF Ended
    <3>2. CASE n # w
      BY <3>2, <1>6, <1>11
    <3> QED
      BY <3>1, <3>2
  <2> QED
    BY <1>6, <2>1 DEF EndedByEntries
<1>27. ChainSound'
  <2>1. \A n \in DOMAIN walks : IsChain(walks'[n].kind) <=> IsChain(walks[n].kind)
    BY <1>8
  <2>2. chain_guard' = chain_guard
    BY <1>12 DEF context
  <2>3. \A n \in DOMAIN walks : IsChain(walks'[n].kind) => walks'[n].start \in DOMAIN chain_guard'
    BY <1>8, <2>1, <2>2 DEF ChainSound
  <2>4. \A m, n \in DOMAIN walks :
          m < n /\ IsChain(walks'[m].kind) /\ IsChain(walks'[n].kind) =>
            /\ walks'[m].outcome = "whole"
            /\ walks'[n].outcome # "refused" => walks'[m].start # walks'[n].start
    <3> SUFFICES ASSUME NEW m \in DOMAIN walks, NEW n \in DOMAIN walks,
                        m < n, IsChain(walks'[m].kind), IsChain(walks'[n].kind)
                 PROVE  /\ walks'[m].outcome = "whole"
                        /\ walks'[n].outcome # "refused" => walks'[m].start # walks'[n].start
      OBVIOUS
    <3>1. /\ walks[m].outcome = "whole"
          /\ walks[n].outcome # "refused" => walks[m].start # walks[n].start
      BY <2>1 DEF ChainSound
    <3>2. walks'[m].outcome = "whole"
      BY <1>3, <1>6, <3>1
    <3>3. walks'[n].outcome # "refused" => walks[n].outcome # "refused"
      BY <1>3, <1>6
    <3> QED
      BY <1>8, <3>1, <3>2, <3>3
  <2>5. offset' # NoAddress =>
          \A n \in DOMAIN walks :
            IsChain(walks'[n].kind) =>
              walks'[n].outcome = "whole" \/ (stack' # <<>> /\ n = stack'[1].walk)
    <3> SUFFICES ASSUME offset' # NoAddress, NEW n \in DOMAIN walks, IsChain(walks'[n].kind)
                 PROVE  walks'[n].outcome = "whole" \/ (stack' # <<>> /\ n = stack'[1].walk)
      OBVIOUS
    <3>1. walks[n].outcome = "whole" \/ n = stack[1].walk
      BY <1>1, <2>1 DEF ChainSound
    <3>2. CASE walks[n].outcome = "whole"
      BY <3>2, <1>3, <1>6
    <3>3. CASE n = stack[1].walk /\ k = 0
      <4>1. n = w /\ outcome = "whole"
        BY <3>3, <1>2, <1>12 DEF k, l, w
      <4> QED
        BY <1>7, <4>1
    <3>4. CASE n = stack[1].walk /\ k # 0
      <4>1. 1 \in 1..k
        BY <1>13, <3>4
      <4> QED
        BY <1>6, <1>15, <3>4, <4>1
    <3> QED
      BY <3>1, <3>2, <3>3, <3>4
  <2>6. stack' # <<>> => offset' # NoAddress
    BY <1>1, <1>12, <1>15 DEF ChainSound, context
  <2> QED
    BY <1>6, <2>3, <2>4, <2>5, <2>6 DEF ChainSound
<1> QED
  BY <1>18, <1>19, <1>20, <1>21, <1>22, <1>23, <1>24, <1>25, <1>26, <1>27

-----------------------------------------------------------------------------
(* A directory is walked or refused.                                        *)

\* What stands at an address stays; so what was said of it stays true.
DiskKept ==
  /\ disk' \in [Addresses -> Body] /\ \A a \in Addresses : Read(disk'[a])
  /\ \A a \in Addresses : disk[a].head # "unseen" => disk'[a] = disk[a]

\* One more walk at most, of a directory that has not ended.
WalksKept(start, kind, outcomes) ==
  /\ walks' \in Seq(WalkRecord) /\ DOMAIN walks' = 1..(Len(walks) + 1)
  /\ \A n \in DOMAIN walks : walks'[n] = walks[n]
  /\ walks'[Len(walks) + 1].outcome \in outcomes
  /\ walks'[Len(walks) + 1].start = start /\ walks'[Len(walks) + 1].kind = kind
  /\ walks'[Len(walks) + 1].counted = 0

LEMMA OpenKeeps ==
  ASSUME WalkInv, ~finished, NEW start \in Addresses, NEW kind \in Kinds,
         NEW body \in Bodies(start), Open(start, kind, body)
  PROVE  /\ DiskKept /\ disk'[start] = body /\ body \in Body
         /\ body # Broken => body.head = "readable"
         /\ WalksKept(start, kind, IF body = Broken THEN {"broken"} ELSE {"open"})
<1> USE DEF WalkInv
<1>1. /\ disk' \in [Addresses -> Body] /\ disk'[start] = body
      /\ \A a \in Addresses : a # start => disk'[a] = disk[a]
      /\ walks' \in Seq(WalkRecord)
  BY OpenTyped
<1>2. body \in Body /\ (disk[start] # Unseen => body = disk[start])
  BY BodiesTyped
<1>3. Read(disk[start]) /\ disk[start] \in Body
  BY DEF ReadSoFar, Typed
<1>4. Read(body) /\ (body # Broken => body.head = "readable")
  <2>1. CASE disk[start] # Unseen
    BY <1>2, <1>3, <2>1 DEF Read, Body
  <2>2. CASE disk[start] = Unseen
    <3>1. body = Broken \/ \E n \in Nat : body = Readable(n)
      <4>1. MaxBlockEntries[file_type] \in Nat
        BY BlockAssumption DEF Typed
      <4> QED
        BY <2>2, <4>1 DEF Bodies
    <3> QED
      BY <3>1 DEF Read, Broken, Readable
  <2> QED
    BY <2>1, <2>2
<1>5. DiskKept
  BY <1>1, <1>2, <1>4 DEF DiskKept, ReadSoFar, Unseen
<1>6. WalksKept(start, kind, IF body = Broken THEN {"broken"} ELSE {"open"})
  <2> DEFINE outcome == IF body = Broken THEN "broken" ELSE "open"
  <2>1. walks' = Append(walks, Walk(start, kind, outcome))
    BY DEF Open
  <2>2. outcome \in Outcomes /\ outcome \in (IF body = Broken THEN {"broken"} ELSE {"open"})
    BY DEF Outcomes
  <2> HIDE DEF outcome
  <2>3. walks \in Seq(WalkRecord)
    BY DEF Typed
  <2> QED
    BY <1>1, <2>1, <2>2, <2>3, WalkTyped DEF WalksKept
<1> QED
  BY <1>1, <1>2, <1>4, <1>5, <1>6

LEMMA RefuseWalks ==
  ASSUME Typed, ~finished, NEW start \in Addresses, NEW kind \in Kinds,
         walks' = Append(walks, Walk(start, kind, "refused"))
  PROVE  WalksKept(start, kind, {"refused"})
<1>1. walks \in Seq(WalkRecord) /\ "refused" \in Outcomes
  BY DEF Typed, Outcomes
<1> QED
  BY <1>1, WalkTyped DEF WalksKept

\* What the open directories and the ended ones say of the disk and the walks
\* is not touched.
LEMMA StackKept ==
  ASSUME WalkInv, DiskKept, \A n \in DOMAIN walks : walks'[n] = walks[n]
  PROVE  /\ \A n \in DOMAIN stack :
              /\ disk'[stack[n].start] = disk[stack[n].start]
              /\ walks'[stack[n].walk] = walks[stack[n].walk]
         /\ \A n \in DOMAIN walks : Ended(walks'[n], disk'[walks'[n].start])
<1> USE DEF WalkInv
<1>1. ASSUME NEW n \in DOMAIN stack
      PROVE  /\ disk'[stack[n].start] = disk[stack[n].start]
             /\ walks'[stack[n].walk] = walks[stack[n].walk]
  BY DirsTyped DEF ReadSoFar, DirsOpen, DiskKept
<1>2. ASSUME NEW n \in DOMAIN walks
      PROVE  Ended(walks'[n], disk'[walks'[n].start])
  <2>1. Ended(walks[n], disk[walks[n].start]) /\ walks[n].start \in Addresses
    BY WalksTyped DEF EndedByEntries
  <2>2. CASE disk[walks[n].start].head = "unseen"
    BY <2>1, <2>2 DEF Ended
  <2>3. CASE disk[walks[n].start].head # "unseen"
    BY <2>1, <2>3 DEF DiskKept
  <2> QED
    BY <2>2, <2>3
<1> QED
  BY <1>1, <1>2

LEMMA NewWalkEnded ==
  ASSUME WalkInv, DiskKept, NEW start, NEW kind, NEW outcomes \in SUBSET {"open", "broken", "refused"},
         WalksKept(start, kind, outcomes)
  PROVE  EndedByEntries'
<1>1. \A n \in DOMAIN walks : walks'[n] = walks[n]
  BY DEF WalksKept
<1>2. \A n \in DOMAIN walks : Ended(walks'[n], disk'[walks'[n].start])
  BY <1>1, StackKept
<1>3. walks \in Seq(WalkRecord)
  BY DEF WalkInv, Typed
<1>4. Ended(walks'[Len(walks) + 1], disk'[walks'[Len(walks) + 1].start])
  BY DEF WalksKept, Ended
<1>5. \A n \in 1..(Len(walks) + 1) : n \in DOMAIN walks \/ n = Len(walks) + 1
  BY <1>3
<1>6. DOMAIN walks' = 1..(Len(walks) + 1)
  BY DEF WalksKept
<1> QED
  BY <1>2, <1>4, <1>5, <1>6 DEF EndedByEntries

\* The walks of sub-directories only, behind those there were.
SubWalks ==
  /\ walks' \in Seq(WalkRecord) /\ DOMAIN walks \subseteq DOMAIN walks'
  /\ \A n \in DOMAIN walks : walks'[n] = walks[n]
  /\ \A n \in DOMAIN walks' : n \notin DOMAIN walks => ~IsChain(walks'[n].kind)

LEMMA NewSubWalk ==
  ASSUME Typed, NEW start, NEW kind \in SubKinds, NEW outcomes, WalksKept(start, kind, outcomes)
  PROVE  SubWalks
<1>1. walks \in Seq(WalkRecord) /\ ~IsChain(kind)
  BY KindsApart DEF Typed
<1>2. /\ walks' \in Seq(WalkRecord) /\ DOMAIN walks' = 1..(Len(walks) + 1)
      /\ \A n \in DOMAIN walks : walks'[n] = walks[n]
      /\ walks'[Len(walks) + 1].kind = kind
  BY DEF WalksKept
<1>3. \A n \in 1..(Len(walks) + 1) : n \in DOMAIN walks \/ n = Len(walks) + 1
  BY <1>1
<1>4. DOMAIN walks \subseteq 1..(Len(walks) + 1)
  BY <1>1
<1> QED
  BY <1>1, <1>2, <1>3, <1>4 DEF SubWalks

\* The chain does not change while sub-directories are walked.
LEMMA SubWalksChain ==
  ASSUME WalkInv, SubWalks, stack # <<>>, stack' # <<>>, stack'[1].walk = stack[1].walk,
         UNCHANGED <<offset, chain_guard>>
  PROVE  ChainSound'
<1> USE DEF WalkInv
<1>0. \A n \in DOMAIN walks' : IsChain(walks'[n].kind) =>
        n \in DOMAIN walks /\ walks'[n] = walks[n] /\ IsChain(walks[n].kind)
  BY DEF SubWalks
<1>1. \A n \in DOMAIN walks' : IsChain(walks'[n].kind) => walks'[n].start \in DOMAIN chain_guard'
  BY <1>0 DEF ChainSound
<1>2. \A m, n \in DOMAIN walks' :
        m < n /\ IsChain(walks'[m].kind) /\ IsChain(walks'[n].kind) =>
          /\ walks'[m].outcome = "whole"
          /\ walks'[n].outcome # "refused" => walks'[m].start # walks'[n].start
  BY <1>0 DEF ChainSound
<1>3. offset' # NoAddress =>
        \A n \in DOMAIN walks' :
          IsChain(walks'[n].kind) =>
            walks'[n].outcome = "whole" \/ (stack' # <<>> /\ n = stack'[1].walk)
  BY <1>0 DEF ChainSound
<1>4. stack' # <<>> => offset' # NoAddress
  BY DEF ChainSound
<1> QED
  BY <1>1, <1>2, <1>3, <1>4 DEF ChainSound

\* A pointer of the innermost directory was taken, and nothing was opened.
LEMMA TakenStack ==
  ASSUME WalkInv, Pending
  PROVE  /\ WithTop(Taken) \in Seq(Dir) /\ Len(WithTop(Taken)) = Len(stack)
         /\ DOMAIN WithTop(Taken) = 1..Len(stack) /\ DOMAIN stack = 1..Len(stack)
         /\ \A n \in 1..Len(stack) :
              /\ WithTop(Taken)[n].start = stack[n].start /\ WithTop(Taken)[n].kind = stack[n].kind
              /\ WithTop(Taken)[n].num_entries = stack[n].num_entries
              /\ WithTop(Taken)[n].index = stack[n].index
              /\ WithTop(Taken)[n].walk = stack[n].walk
              /\ WithTop(Taken)[n].saved_warn_count = stack[n].saved_warn_count
              /\ WithTop(Taken)[n].saved_table = stack[n].saved_table
              /\ Len(WithTop(Taken)[n].pending) <= MaxSubdirs
<1>1. Typed /\ stack # <<>> /\ Nested
  BY DEF WalkInv, Pending
<1>2. Top = stack[Len(stack)] /\ Len(stack) \in DOMAIN stack /\ DOMAIN stack = 1..Len(stack)
  BY <1>1, TopTyped DEF Typed
<1>3. /\ Taken \in Dir /\ Taken.start = Top.start /\ Taken.kind = Top.kind
      /\ Taken.num_entries = Top.num_entries /\ Taken.index = Top.index
      /\ Taken.walk = Top.walk /\ Taken.saved_warn_count = Top.saved_warn_count
      /\ Taken.saved_table = Top.saved_table
      /\ Len(Taken.pending) < Len(Top.pending)
  BY <1>1, TakenTyped
<1>4. Len(Taken.pending) \in Nat /\ Len(Top.pending) \in Nat /\ Len(Top.pending) <= MaxSubdirs
  <2>1. Top \in Dir
    BY <1>1, TopTyped
  <2>2. Top.pending \in Seq(Sub) /\ Taken.pending \in Seq(Sub)
    BY <1>3, <2>1 DEF Dir
  <2> QED
    BY <1>1, <1>2, <2>2 DEF Nested
<1>5. Len(Taken.pending) <= MaxSubdirs
  BY <1>3, <1>4, LimitsAssumption
<1>6. /\ WithTop(Taken) \in Seq(Dir) /\ Len(WithTop(Taken)) = Len(stack)
      /\ DOMAIN WithTop(Taken) = DOMAIN stack
      /\ WithTop(Taken)[Len(stack)] = Taken
      /\ \A n \in DOMAIN stack : n # Len(stack) => WithTop(Taken)[n] = stack[n]
  BY <1>1, <1>3, WithTopTyped
<1> QED
  BY <1>1, <1>2, <1>3, <1>5, <1>6 DEF Nested

LEMMA TakenKeeps ==
  ASSUME WalkInv, Pending, stack' = WithTop(Taken), DiskKept, SubWalks, EndedByEntries',
         UNCHANGED <<context, active_ifd_offsets, warn_count, active_table, entries, finished>>
  PROVE  WalkInv'
<1> DEFINE l == Len(stack)
<1> USE DEF WalkInv
<1>1. /\ stack # <<>> /\ Top = stack[l] /\ l \in Nat \ {0} /\ l \in 1..l /\ 1 \in 1..l
  BY TopTyped DEF Pending, Typed
<1>2. /\ stack' \in Seq(Dir) /\ Len(stack') = l
      /\ DOMAIN stack' = 1..l /\ DOMAIN stack = 1..l
      /\ \A n \in 1..l :
           /\ stack'[n].start = stack[n].start /\ stack'[n].kind = stack[n].kind
           /\ stack'[n].num_entries = stack[n].num_entries /\ stack'[n].index = stack[n].index
           /\ stack'[n].walk = stack[n].walk
           /\ stack'[n].saved_warn_count = stack[n].saved_warn_count
           /\ stack'[n].saved_table = stack[n].saved_table
           /\ Len(stack'[n].pending) <= MaxSubdirs
  BY TakenStack
<1>3. \A n \in DOMAIN walks : walks'[n] = walks[n]
  BY DEF SubWalks
<1>4. \A n \in 1..l : /\ disk'[stack[n].start] = disk[stack[n].start]
                      /\ walks'[stack[n].walk] = walks[stack[n].walk]
  BY <1>2, <1>3, StackKept
<1>5. stack' # <<>> /\ Top' = stack'[l]
  BY <1>1, <1>2 DEF Top, Last
<1>6. Typed'
  <2>1. ~finished
    BY <1>1 DEF Typed
  <2> QED
    BY <1>2, <2>1 DEF Typed, context, DiskKept, SubWalks
<1>7. PathNeverRepeats'
  BY <1>2 DEF PathNeverRepeats
<1>8. ReadSoFar'
  <2>1. \A n \in 1..l :
          /\ disk'[stack'[n].start].head = "readable"
          /\ stack'[n].num_entries = disk'[stack'[n].start].num_entries
          /\ stack'[n].index <= Len(disk'[stack'[n].start].entries)
    BY <1>2, <1>4 DEF ReadSoFar
  <2> QED
    BY <1>2, <2>1 DEF ReadSoFar, DiskKept
<1>9. DirsOpen'
  <2>1. \A n \in 1..l :
          /\ stack'[n].walk \in DOMAIN walks' /\ walks'[stack'[n].walk].outcome = "open"
          /\ walks'[stack'[n].walk].start = stack'[n].start
          /\ walks'[stack'[n].walk].kind = stack'[n].kind
    BY <1>2, <1>4 DEF DirsOpen, SubWalks
  <2>2. \A m, n \in 1..l : stack'[m].walk = stack'[n].walk => m = n
    BY <1>2 DEF DirsOpen
  <2> QED
    BY <1>2, <2>1, <2>2 DEF DirsOpen
<1>10. Nested'
  BY <1>2 DEF Nested
<1>11. PutAside'
  <2>1. \A n \in 2..l : n \in 1..l /\ n - 1 \in 1..l
    BY <1>1
  <2>2. walks'[Top'.walk].counted = warn_count' /\ active_table' = table_for_ifd_kind(Top'.kind)
    BY <1>1, <1>2, <1>4, <1>5 DEF PutAside
  <2>3. \A n \in 2..l :
          /\ stack'[n].saved_warn_count = walks'[stack'[n - 1].walk].counted
          /\ stack'[n].saved_table = table_for_ifd_kind(stack'[n - 1].kind)
    BY <1>2, <1>4, <2>1 DEF PutAside
  <2> QED
    BY <1>2, <1>5, <2>2, <2>3 DEF PutAside
<1>12. (\A n \in DOMAIN stack : PassedOver(stack[n]))'
  BY <1>2, <1>4 DEF PassedOver
<1>13. ChainSound'
  BY <1>1, <1>2, <1>5, SubWalksChain DEF context
<1> QED
  BY <1>6, <1>7, <1>8, <1>9, <1>10, <1>11, <1>12, <1>13

LEMMA PassOverKeeps ==
  ASSUME WalkInv, PassOverSubdir
  PROVE  WalkInv'
<1>1. /\ Pending /\ stack' = WithTop(Taken)
      /\ UNCHANGED <<disk, walks, context, active_ifd_offsets, warn_count, active_table, entries,
                     finished>>
  BY DEF PassOverSubdir, found
<1>2. Typed /\ ReadSoFar /\ EndedByEntries
  BY DEF WalkInv
<1>3. DiskKept
  BY <1>1, <1>2 DEF DiskKept, ReadSoFar, Typed
<1>4. SubWalks /\ EndedByEntries'
  BY <1>1, <1>2 DEF SubWalks, EndedByEntries, Typed
<1> QED
  BY <1>1, <1>3, <1>4, TakenKeeps

\* An address on the recursion path is an address.
LEMMA PathTyped ==
  ASSUME WalkInv, Pending
  PROVE  /\ Head(Top.pending) \in Sub
         /\ Head(Top.pending).kind \in SubKinds /\ Head(Top.pending).kind \in Kinds
         /\ Head(Top.pending).start \in Addresses \cup {NoAddress}
         /\ Head(Top.pending).record \in Seq(Record)
         /\ OnPath(Head(Top.pending).start) => Head(Top.pending).start \in Addresses
         /\ ~finished
<1>1. Typed /\ stack # <<>>
  BY DEF WalkInv, Pending
<1>2. Head(Top.pending) \in Sub
  BY <1>1, TakenTyped
<1>3. ToSet(active_ifd_offsets) \subseteq Addresses
  BY <1>1 DEF Typed, ToSet
<1> QED
  BY <1>1, <1>2, <1>3, KindsApart DEF Sub, OnPath, Typed

LEMMA RefuseSubdirKeeps ==
  ASSUME WalkInv, RefuseSubdir
  PROVE  WalkInv'
<1> DEFINE sub == Head(Top.pending)
<1>1. /\ Pending /\ stack' = WithTop(Taken) /\ OnPath(sub.start)
      /\ walks' = Append(walks, Walk(sub.start, sub.kind, "refused"))
      /\ UNCHANGED <<disk, context, active_ifd_offsets, warn_count, active_table, entries, finished>>
  BY DEF RefuseSubdir
<1>2. Typed /\ ReadSoFar
  BY DEF WalkInv
<1>3. sub.start \in Addresses /\ sub.kind \in SubKinds /\ sub.kind \in Kinds /\ ~finished
  BY <1>1, PathTyped
<1> HIDE DEF sub
<1>4. DiskKept
  BY <1>1, <1>2 DEF DiskKept, ReadSoFar, Typed
<1>5. WalksKept(sub.start, sub.kind, {"refused"})
  BY <1>1, <1>2, <1>3, RefuseWalks
<1>6. SubWalks
  BY <1>2, <1>3, <1>5, NewSubWalk
<1>7. EndedByEntries'
  BY <1>4, <1>5, NewWalkEnded
<1> QED
  BY <1>1, <1>4, <1>6, <1>7, TakenKeeps

LEMMA SequenceOf ==
  ASSUME NEW S, NEW s \in Seq(S), NEW k, DOMAIN s = 1..k
  PROVE  s = [n \in 1..k |-> s[n]]
OBVIOUS

\* A sub-directory that can be read is opened on top of its parent.
LEMMA OpenSubdirKeeps ==
  ASSUME WalkInv, Pending, NEW start \in Addresses, NEW kind \in SubKinds, NEW body \in Body,
         NEW record \in Seq(Record), ~OnPath(start),
         stack' = Append(WithTop(Taken), Opened(start, kind, body, record)),
         DiskKept, disk'[start] = body, body.head = "readable",
         WalksKept(start, kind, {"open"}), EndedByEntries',
         active_ifd_offsets' = Append(active_ifd_offsets, start),
         warn_count' = 0, active_table' = table_for_ifd_kind(kind),
         UNCHANGED <<context, entries, finished>>
  PROVE  WalkInv'
<1> DEFINE l == Len(stack)
           k == Len(stack) + 1
           below == WithTop(Taken)
           opened == Opened(start, kind, body, record)
           w == Len(walks) + 1
<1> USE DEF WalkInv
<1>1. /\ stack # <<>> /\ Top = stack[l] /\ l \in Nat \ {0}
  BY TopTyped DEF Pending, Typed
<1>2. k \in Nat /\ k = l + 1 /\ k \in 1..k /\ l \in 1..l /\ 1 \in 1..l /\ k # 1
  BY <1>1
<1>3. 1..l \subseteq 1..k /\ k \notin 1..l /\ \A n \in 1..k : n \in 1..l \/ n = k
  BY <1>1
<1>4. /\ below \in Seq(Dir) /\ Len(below) = l
      /\ DOMAIN below = 1..l /\ DOMAIN stack = 1..l
      /\ \A n \in 1..l :
           /\ below[n].start = stack[n].start /\ below[n].kind = stack[n].kind
           /\ below[n].num_entries = stack[n].num_entries /\ below[n].index = stack[n].index
           /\ below[n].walk = stack[n].walk
           /\ below[n].saved_warn_count = stack[n].saved_warn_count
           /\ below[n].saved_table = stack[n].saved_table
           /\ Len(below[n].pending) <= MaxSubdirs
  BY TakenStack
<1>5. kind \in Kinds /\ ~IsChain(kind)
  BY KindsApart
<1>6. /\ opened \in Dir /\ opened.start = start /\ opened.kind = kind
      /\ opened.num_entries = body.num_entries /\ opened.index = 0
      /\ opened.pending = <<>> /\ opened.walk = w
      /\ opened.saved_warn_count = warn_count /\ opened.saved_table = active_table
  BY <1>5, OpenedTyped
<1>7. stack' = Append(below, opened)
  OBVIOUS
<1> HIDE DEF l, k, below, opened
<1>8. /\ stack' \in Seq(Dir) /\ Len(stack') = k /\ DOMAIN stack' = 1..k
      /\ stack'[k] = opened /\ \A n \in 1..l : stack'[n] = below[n]
  BY <1>2, <1>4, <1>6, <1>7
<1>23. \A n \in 1..l :
         /\ stack'[n].start = stack[n].start /\ stack'[n].kind = stack[n].kind
         /\ stack'[n].num_entries = stack[n].num_entries /\ stack'[n].index = stack[n].index
         /\ stack'[n].walk = stack[n].walk
         /\ stack'[n].saved_warn_count = stack[n].saved_warn_count
         /\ stack'[n].saved_table = stack[n].saved_table
         /\ Len(stack'[n].pending) <= MaxSubdirs
  <2> TAKE n \in 1..l
  <2>1. stack'[n] = below[n]
    BY <1>8
  <2> QED
    BY <1>4, <2>1
<1>9. stack' # <<>> /\ Top' = opened /\ stack'[1].walk = stack[1].walk
  BY <1>2, <1>4, <1>8 DEF Top, Last
<1>10. /\ walks' \in Seq(WalkRecord) /\ DOMAIN walks' = 1..w
       /\ \A n \in DOMAIN walks : walks'[n] = walks[n]
       /\ walks'[w].outcome = "open" /\ walks'[w].start = start /\ walks'[w].kind = kind
       /\ walks'[w].counted = 0
  BY DEF WalksKept
<1>11. w \in 1..w /\ w \notin DOMAIN walks /\ DOMAIN walks \subseteq 1..w
  BY DEF Typed
<1> HIDE DEF w
<1>12. \A n \in 1..l : /\ disk'[stack[n].start] = disk[stack[n].start]
                       /\ walks'[stack[n].walk] = walks[stack[n].walk]
  BY <1>4, <1>10, StackKept
<1>13. \A n \in 1..l : stack[n].walk \in DOMAIN walks /\ stack[n].walk # w
  BY <1>4, <1>11 DEF DirsOpen
<1>14. Typed'
  <2>1. ~finished
    BY <1>1 DEF Typed
  <2>2. active_ifd_offsets' \in Seq(Addresses) /\ active_table' \in Tables
    BY TableTyped DEF Typed
  <2> QED
    BY <1>8, <1>10, <2>1, <2>2 DEF Typed, context, DiskKept
<1>15. PathNeverRepeats'
  <2>1. /\ active_ifd_offsets = [n \in 1..l |-> stack[n].start]
        /\ active_ifd_offsets \in Seq(Addresses)
    BY <1>4 DEF PathNeverRepeats, Typed
  <2>2. Len(active_ifd_offsets) = l /\ DOMAIN active_ifd_offsets = 1..l
    BY <1>1, <2>1
  <2>3. /\ DOMAIN active_ifd_offsets' = 1..k /\ active_ifd_offsets'[k] = start
        /\ \A n \in 1..l : active_ifd_offsets'[n] = active_ifd_offsets[n]
    BY <1>2, <2>1, <2>2
  <2>4. \A n \in 1..k : active_ifd_offsets'[n] = stack'[n].start
    BY <1>3, <1>4, <1>6, <1>8, <2>1, <2>3
  <2>5. active_ifd_offsets' \in Seq(Addresses)
    BY <2>1
  <2>6. active_ifd_offsets' = [n \in 1..k |-> stack'[n].start]
    <3>1. active_ifd_offsets' = [n \in 1..k |-> active_ifd_offsets'[n]]
      BY <2>3, <2>5, SequenceOf
    <3> QED
      BY <2>4, <3>1
  <2>7. \A n \in 1..l : active_ifd_offsets[n] # start
    BY <2>2 DEF OnPath, ToSet
  <2>8. \A m, n \in 1..l : active_ifd_offsets[m] = active_ifd_offsets[n] => m = n
    BY <2>2 DEF PathNeverRepeats
  <2>9. \A m, n \in 1..k : active_ifd_offsets'[m] = active_ifd_offsets'[n] => m = n
    BY <1>3, <2>3, <2>7, <2>8
  <2> QED
    BY <1>8, <2>3, <2>6, <2>9 DEF PathNeverRepeats
<1>16. ReadSoFar'
  <2>1. \A n \in 1..k :
          /\ disk'[stack'[n].start].head = "readable"
          /\ stack'[n].num_entries = disk'[stack'[n].start].num_entries
          /\ stack'[n].index <= Len(disk'[stack'[n].start].entries)
    <3> TAKE n \in 1..k
    <3>1. CASE n = k
      <4>1. 0 <= Len(body.entries)
        BY DEF Body
      <4> QED
        BY <3>1, <4>1, <1>6, <1>8
    <3>2. CASE n \in 1..l
      <4>1. /\ disk[stack[n].start].head = "readable"
            /\ stack[n].num_entries = disk[stack[n].start].num_entries
            /\ stack[n].index <= Len(disk[stack[n].start].entries)
        BY <3>2, <1>4 DEF ReadSoFar
      <4>2. /\ stack'[n].start = stack[n].start /\ stack'[n].num_entries = stack[n].num_entries
            /\ stack'[n].index = stack[n].index /\ disk'[stack[n].start] = disk[stack[n].start]
        BY <3>2, <1>12, <1>23
      <4> QED
        BY <4>1, <4>2
    <3> QED
      BY <1>3, <3>1, <3>2
  <2> QED
    BY <1>8, <2>1 DEF ReadSoFar, DiskKept
<1>17. DirsOpen'
  <2>1. \A n \in 1..k :
          /\ stack'[n].walk \in DOMAIN walks' /\ walks'[stack'[n].walk].outcome = "open"
          /\ walks'[stack'[n].walk].start = stack'[n].start
          /\ walks'[stack'[n].walk].kind = stack'[n].kind
    <3> TAKE n \in 1..k
    <3>1. CASE n = k
      BY <3>1, <1>6, <1>8, <1>10, <1>11
    <3>2. CASE n \in 1..l
      <4>1. /\ walks[stack[n].walk].outcome = "open"
            /\ walks[stack[n].walk].start = stack[n].start
            /\ walks[stack[n].walk].kind = stack[n].kind
        BY <3>2, <1>4 DEF DirsOpen
      <4> QED
        BY <3>2, <4>1, <1>4, <1>8, <1>10, <1>11, <1>12, <1>13, SMTT(30)
    <3> QED
      BY <1>3, <3>1, <3>2
  <2>2. \A m, n \in 1..l : stack[m].walk = stack[n].walk => m = n
    BY <1>4 DEF DirsOpen
  <2>3. \A m, n \in 1..k : stack'[m].walk = stack'[n].walk => m = n
    <3>1. stack'[k].walk = w
      BY <1>6, <1>8
    <3>2. \A n \in 1..l : stack'[n].walk = stack[n].walk /\ stack[n].walk # w
      BY <1>13, <1>23
    <3> QED
      BY <1>3, <2>2, <3>1, <3>2
  <2> QED
    BY <1>8, <2>1, <2>3 DEF DirsOpen
<1>18. Nested'
  <2>1. \A n \in 1..k : /\ IsChain(stack'[n].kind) <=> n = 1
                        /\ Len(stack'[n].pending) <= MaxSubdirs
    <3> TAKE n \in 1..k
    <3>1. CASE n = k
      <4>1. Len(<<>>) <= MaxSubdirs
        BY LimitsAssumption
      <4> QED
        BY <3>1, <4>1, <1>2, <1>5, <1>6, <1>8
    <3>2. CASE n \in 1..l
      BY <3>2, <1>4, <1>23 DEF Nested
    <3> QED
      BY <1>3, <3>1, <3>2
  <2> QED
    BY <1>8, <2>1 DEF Nested
<1>19. PutAside'
  <2>1. walks'[Top'.walk].counted = warn_count' /\ active_table' = table_for_ifd_kind(Top'.kind)
    BY <1>6, <1>9, <1>10
  <2>2. \A n \in 2..k :
          /\ stack'[n].saved_warn_count = walks'[stack'[n - 1].walk].counted
          /\ stack'[n].saved_table = table_for_ifd_kind(stack'[n - 1].kind)
    <3> TAKE n \in 2..k
    <3>1. CASE n = k
      <4>1. n - 1 = l
        BY <3>1, <1>1, <1>2
      <4>2. /\ walks[stack[l].walk].counted = warn_count
            /\ active_table = table_for_ifd_kind(stack[l].kind)
        BY <1>1 DEF PutAside
      <4> QED
        BY <3>1, <4>1, <4>2, <1>2, <1>4, <1>6, <1>8, <1>12
    <3>2. CASE n # k
      <4>1. n \in 1..l /\ n - 1 \in 1..l /\ n \in 2..l
        BY <3>2, <1>1, <1>2
      <4>2. /\ stack[n].saved_warn_count = walks[stack[n - 1].walk].counted
            /\ stack[n].saved_table = table_for_ifd_kind(stack[n - 1].kind)
        BY <4>1 DEF PutAside, l
      <4> QED
        BY <4>1, <4>2, <1>12, <1>23
    <3> QED
      BY <3>1, <3>2
  <2> QED
    BY <1>8, <1>9, <2>1, <2>2 DEF PutAside
<1>20. warn_count' <= MaxWarnings + 1
  BY LimitsAssumption
<1>21. (\A n \in DOMAIN stack : PassedOver(stack[n]))'
  <2>1. \A n \in 1..k : PassedOver(stack[n])'
    <3> TAKE n \in 1..k
    <3>1. CASE n = k
      BY <3>1, <1>6, <1>8, <1>10, CountedZero DEF PassedOver
    <3>2. CASE n \in 1..l
      <4>1. PassedOver(stack[n])
        BY <3>2, <1>4
      <4>2. /\ stack'[n].start = stack[n].start /\ stack'[n].walk = stack[n].walk
            /\ stack'[n].index = stack[n].index
        BY <3>2, <1>4, <1>8
      <4> QED
        BY <3>2, <4>1, <4>2, <1>12 DEF PassedOver
    <3> QED
      BY <1>3, <3>1, <3>2
  <2> QED
    BY <1>8, <2>1
<1>22. ChainSound'
  <2>1. SubWalks
    BY NewSubWalk
  <2> QED
    BY <1>1, <1>9, <2>1, SubWalksChain DEF context
<1> QED
  BY <1>14, <1>15, <1>16, <1>17, <1>18, <1>19, <1>20, <1>21, <1>22

LEMMA WalkSubdirKeeps ==
  ASSUME WalkInv, WalkSubdir
  PROVE  WalkInv'
<1> DEFINE sub == Head(Top.pending)
<1>1. /\ Pending /\ sub.start # NoAddress /\ ~OnPath(sub.start)
      /\ UNCHANGED <<context, entries, finished>>
  BY DEF WalkSubdir
<1>2. /\ sub.start \in Addresses /\ sub.kind \in SubKinds /\ sub.kind \in Kinds
      /\ sub.record \in Seq(Record) /\ ~finished
  BY <1>1, PathTyped
<1>3. PICK body \in Bodies(sub.start) :
        /\ Open(sub.start, sub.kind, body)
        /\ IF body = Broken
           THEN /\ stack' = WithTop(Taken)
                /\ UNCHANGED <<active_ifd_offsets, warn_count, active_table>>
           ELSE /\ stack' = Append(WithTop(Taken), Opened(sub.start, sub.kind, body, sub.record))
                /\ active_ifd_offsets' = Append(active_ifd_offsets, sub.start)
                /\ warn_count' = 0
                /\ active_table' = table_for_ifd_kind(sub.kind)
  BY DEF WalkSubdir
<1> HIDE DEF sub
<1>4. /\ DiskKept /\ disk'[sub.start] = body /\ body \in Body
      /\ body # Broken => body.head = "readable"
      /\ WalksKept(sub.start, sub.kind, IF body = Broken THEN {"broken"} ELSE {"open"})
  BY <1>2, <1>3, OpenKeeps
<1>5. EndedByEntries'
  BY <1>4, NewWalkEnded
<1>6. CASE body = Broken
  <2>1. WalksKept(sub.start, sub.kind, {"broken"})
    BY <1>4, <1>6
  <2>2. Typed
    BY DEF WalkInv
  <2>3. SubWalks
    BY <1>2, <2>1, <2>2, NewSubWalk
  <2> QED
    BY <1>1, <1>3, <1>4, <1>5, <1>6, <2>3, TakenKeeps
<1>7. CASE body # Broken
  <2>1. WalksKept(sub.start, sub.kind, {"open"})
    BY <1>4, <1>7
  <2> QED
    BY <1>1, <1>2, <1>3, <1>4, <1>5, <1>7, <2>1, OpenSubdirKeeps
<1> QED
  BY <1>6, <1>7

\* One more chain directory, behind those that are whole.
LEMMA ChainGrows ==
  ASSUME WalkInv, stack = <<>>, offset # NoAddress, NEW start, NEW kind, NEW outcomes,
         WalksKept(start, kind, outcomes), DOMAIN chain_guard' = DOMAIN chain_guard \cup {start},
         start \in DOMAIN chain_guard => outcomes = {"refused"},
         offset' # NoAddress => stack' # <<>> /\ stack'[1].walk = Len(walks) + 1,
         stack' # <<>> => offset' # NoAddress
  PROVE  ChainSound'
<1> DEFINE w == Len(walks) + 1
<1> USE DEF WalkInv
<1>1. /\ DOMAIN walks' = 1..w /\ \A n \in DOMAIN walks : walks'[n] = walks[n]
      /\ walks'[w].outcome \in outcomes /\ walks'[w].start = start
  BY DEF WalksKept
<1>2. /\ DOMAIN walks \subseteq 1..w /\ \A n \in 1..w : n \in DOMAIN walks \/ n = w
      /\ \A n \in 1..w : ~(w < n) /\ (n < w => n \in DOMAIN walks)
  BY DEF Typed
<1> HIDE DEF w
<1>3. \A n \in 1..w : IsChain(walks'[n].kind) => walks'[n].start \in DOMAIN chain_guard'
  BY <1>1, <1>2 DEF ChainSound
<1>4. \A n \in DOMAIN walks : IsChain(walks[n].kind) =>
        walks[n].outcome = "whole" /\ walks[n].start \in DOMAIN chain_guard
  BY DEF ChainSound
<1>5. \A m, n \in 1..w :
        m < n /\ IsChain(walks'[m].kind) /\ IsChain(walks'[n].kind) =>
          /\ walks'[m].outcome = "whole"
          /\ walks'[n].outcome # "refused" => walks'[m].start # walks'[n].start
  <2> SUFFICES ASSUME NEW m \in 1..w, NEW n \in 1..w, m < n,
                      IsChain(walks'[m].kind), IsChain(walks'[n].kind)
               PROVE  /\ walks'[m].outcome = "whole"
                      /\ walks'[n].outcome # "refused" => walks'[m].start # walks'[n].start
    OBVIOUS
  <2>1. CASE n \in DOMAIN walks
    <3>1. m \in DOMAIN walks
      BY <1>2, <2>1 DEF Typed
    <3> QED
      BY <1>1, <2>1, <3>1 DEF ChainSound
  <2>2. CASE n = w
    <3>1. m \in DOMAIN walks
      BY <1>2, <2>2
    <3>2. walks[m].outcome = "whole" /\ walks[m].start \in DOMAIN chain_guard
      BY <1>1, <1>4, <3>1
    <3> QED
      BY <1>1, <2>2, <3>1, <3>2
  <2> QED
    BY <1>2, <2>1, <2>2
<1>6. offset' # NoAddress =>
        \A n \in 1..w :
          IsChain(walks'[n].kind) =>
            walks'[n].outcome = "whole" \/ (stack' # <<>> /\ n = stack'[1].walk)
  BY <1>1, <1>2, <1>4 DEF w
<1> QED
  BY <1>1, <1>3, <1>5, <1>6 DEF ChainSound

\* What is left of the invariant when no directory is open.
LEMMA EmptyStack ==
  ASSUME WalkInv, stack' = <<>>, active_ifd_offsets' = <<>>, DiskKept,
         active_table' = "Exif", warn_count' <= MaxWarnings + 1
  PROVE  /\ PathNeverRepeats' /\ ReadSoFar' /\ DirsOpen' /\ Nested' /\ PutAside'
         /\ (\A n \in DOMAIN stack : PassedOver(stack[n]))'
<1>1. DOMAIN stack' = {} /\ Len(stack') = 0 /\ \A n \in 2..0 : FALSE
  OBVIOUS
<1> QED
  BY <1>1 DEF PathNeverRepeats, ReadSoFar, DirsOpen, Nested, PutAside, DiskKept

LEMMA NothingOpen ==
  ASSUME WalkInv, stack = <<>>
  PROVE  active_ifd_offsets = <<>> /\ active_table = "Exif"
BY DEF WalkInv, PathNeverRepeats, PutAside, Typed

LEMMA RefuseChainKeeps ==
  ASSUME WalkInv, RefuseChainDir
  PROVE  WalkInv'
<1>1. /\ stack = <<>> /\ offset # NoAddress /\ ~finished /\ offset \in DOMAIN chain_guard
      /\ walks' = Append(walks, Walk(offset, ChainKind, "refused"))
      /\ offset' = NoAddress
      /\ UNCHANGED <<file_type, disk, hops, chain_guard, stack, active_ifd_offsets, warn_count,
                     active_table, entries, finished>>
  BY DEF RefuseChainDir, InChain, found
<1>2. /\ Typed /\ ReadSoFar /\ warn_count <= MaxWarnings + 1
  BY DEF WalkInv
<1>3. offset \in Addresses /\ ChainKind \in Kinds
  BY <1>1, <1>2, ChainKindIsChain DEF Typed
<1>4. WalksKept(offset, ChainKind, {"refused"})
  BY <1>1, <1>2, <1>3, RefuseWalks
<1>5. DiskKept
  BY <1>1, <1>2 DEF DiskKept, ReadSoFar, Typed
<1>6. EndedByEntries'
  BY <1>4, <1>5, NewWalkEnded
<1>7. ChainSound'
  BY <1>1, <1>4, ChainGrows
<1>8. Typed'
  BY <1>1, <1>2, <1>4 DEF Typed, WalksKept
<1>9. warn_count' <= MaxWarnings + 1
  BY <1>1, <1>2
<1>10. stack' = <<>> /\ active_ifd_offsets' = <<>> /\ active_table' = "Exif"
  BY <1>1, NothingOpen
<1> QED
  BY <1>5, <1>6, <1>7, <1>8, <1>9, <1>10, EmptyStack DEF WalkInv

LEMMA WalkChainKeeps ==
  ASSUME WalkInv, WalkChainDir
  PROVE  WalkInv'
<1>1. /\ stack = <<>> /\ offset # NoAddress /\ ~finished /\ offset \notin DOMAIN chain_guard
      /\ warn_count' = 0
      /\ UNCHANGED <<file_type, hops, active_table, entries, finished>>
  BY DEF WalkChainDir, InChain, found
<1>2. Typed
  BY DEF WalkInv
<1>3. /\ offset \in Addresses /\ ChainKind \in Kinds /\ IsChain(ChainKind)
      /\ table_for_ifd_kind(ChainKind) = "Exif"
  BY <1>1, <1>2, ChainKindIsChain DEF Typed
<1>4. PICK body \in Bodies(offset) :
        /\ Open(offset, ChainKind, body)
        /\ Claim(offset)
        /\ IF body = Broken
           THEN offset' = NoAddress /\ UNCHANGED <<stack, active_ifd_offsets>>
           ELSE /\ stack' = <<Opened(offset, ChainKind, body, <<>>)>>
                /\ active_ifd_offsets' = Append(active_ifd_offsets, offset)
                /\ UNCHANGED offset
  BY DEF WalkChainDir
<1>5. /\ DiskKept /\ disk'[offset] = body /\ body \in Body
      /\ body # Broken => body.head = "readable"
      /\ WalksKept(offset, ChainKind, IF body = Broken THEN {"broken"} ELSE {"open"})
  BY <1>1, <1>3, <1>4, OpenKeeps
<1>6. EndedByEntries'
  BY <1>5, NewWalkEnded
<1>7. DOMAIN chain_guard' = DOMAIN chain_guard \cup {offset}
  BY <1>4 DEF Claim
<1>8. active_ifd_offsets = <<>> /\ active_table' = "Exif"
  BY <1>1, NothingOpen
<1>9. warn_count' \in Nat /\ warn_count' <= MaxWarnings + 1
  BY <1>1, LimitsAssumption
<1>10. walks' \in Seq(WalkRecord) /\ disk' \in [Addresses -> Body]
  BY <1>5 DEF WalksKept, DiskKept
<1>11. CASE body = Broken
  <2>1. stack' = <<>> /\ active_ifd_offsets' = <<>> /\ offset' = NoAddress
    BY <1>1, <1>4, <1>8, <1>11
  <2>2. WalksKept(offset, ChainKind, {"broken"})
    BY <1>5, <1>11
  <2>3. ChainSound'
    BY <1>1, <1>7, <2>1, <2>2, ChainGrows
  <2>4. Typed'
    BY <1>1, <1>2, <1>3, <1>7, <1>9, <1>10, <2>1 DEF Typed
  <2> QED
    BY <1>5, <1>6, <1>8, <1>9, <2>1, <2>3, <2>4, EmptyStack DEF WalkInv
<1>12. CASE body # Broken
  <2> DEFINE opened == Opened(offset, ChainKind, body, <<>>)
             w == Len(walks) + 1
  <2>1. /\ opened \in Dir /\ opened.start = offset /\ opened.kind = ChainKind
        /\ opened.num_entries = body.num_entries /\ opened.index = 0
        /\ opened.pending = <<>> /\ opened.walk = w
    <3>1. <<>> \in Seq(Record)
      OBVIOUS
    <3>2. ASSUME NEW record \in Seq(Record), record = <<>>
          PROVE  LET dir == Opened(offset, ChainKind, body, record)
                 IN  /\ dir \in Dir /\ dir.start = offset /\ dir.kind = ChainKind
                     /\ dir.num_entries = body.num_entries /\ dir.index = 0
                     /\ dir.pending = <<>> /\ dir.walk = w
      BY <1>2, <1>3, <1>5, OpenedTyped
    <3> QED
      BY <3>1, <3>2
  <2>2. stack' = <<opened>> /\ active_ifd_offsets' = <<offset>> /\ offset' = offset
    BY <1>4, <1>8, <1>12
  <2> HIDE DEF opened
  <2>3. WalksKept(offset, ChainKind, {"open"})
    BY <1>5, <1>12
  <2>4. /\ DOMAIN walks' = 1..w /\ walks'[w].outcome = "open" /\ walks'[w].start = offset
        /\ walks'[w].kind = ChainKind /\ walks'[w].counted = 0 /\ w \in 1..w
    BY <1>2, <2>3 DEF WalksKept, Typed
  <2> HIDE DEF w
  <2>5. /\ stack' \in Seq(Dir) /\ Len(stack') = 1 /\ DOMAIN stack' = {1} /\ stack'[1] = opened
        /\ stack' # <<>> /\ Top' = opened
    BY <2>1, <2>2 DEF Top, Last
  <2>6. ChainSound'
    BY <1>1, <1>7, <2>1, <2>2, <2>3, <2>5, ChainGrows DEF w
  <2>7. Typed'
    <3>1. active_ifd_offsets' \in Seq(Addresses)
      BY <1>3, <2>2
    <3> QED
      BY <1>1, <1>2, <1>3, <1>7, <1>9, <1>10, <2>2, <2>5, <3>1 DEF Typed
  <2>8. PathNeverRepeats'
    <3>1. <<offset>> = [n \in {1} |-> opened.start]
      BY <2>1
    <3>2. DOMAIN active_ifd_offsets' = {1}
      BY <2>2
    <3> QED
      BY <2>2, <2>5, <3>1, <3>2 DEF PathNeverRepeats
  <2>9. ReadSoFar'
    <3>1. 0 <= Len(body.entries)
      BY <1>5 DEF Body
    <3> QED
      BY <1>5, <1>12, <2>1, <2>5, <3>1 DEF ReadSoFar, DiskKept
  <2>10. DirsOpen'
    BY <2>1, <2>4, <2>5 DEF DirsOpen
  <2>11. Nested'
    <3>1. Len(<<>>) <= MaxSubdirs
      BY LimitsAssumption
    <3> QED
      BY <1>3, <2>1, <2>5, <3>1 DEF Nested
  <2>12. PutAside'
    <3>1. \A n \in 2..1 : FALSE
      OBVIOUS
    <3> QED
      BY <1>1, <1>3, <1>8, <2>1, <2>4, <2>5, <3>1 DEF PutAside
  <2>13. (\A n \in DOMAIN stack : PassedOver(stack[n]))'
    BY <2>1, <2>4, <2>5, CountedZero DEF PassedOver
  <2> QED
    BY <1>6, <1>9, <2>6, <2>7, <2>8, <2>9, <2>10, <2>11, <2>12, <2>13 DEF WalkInv
<1> QED
  BY <1>11, <1>12

LEMMA FinalizeKeeps ==
  ASSUME WalkInv, Finalize
  PROVE  WalkInv'
<1>1. /\ stack = <<>> /\ offset = NoAddress /\ finished' = TRUE
      /\ UNCHANGED <<disk, context, stack, active_ifd_offsets, warn_count, active_table, walks>>
  BY DEF Finalize
<1>2. Typed /\ ReadSoFar /\ EndedByEntries /\ ChainSound /\ warn_count <= MaxWarnings + 1
  BY DEF WalkInv
<1>3. DiskKept
  BY <1>1, <1>2 DEF DiskKept, ReadSoFar, Typed
<1>4. Typed'
  BY <1>1, <1>2 DEF Typed, context
<1>5. EndedByEntries' /\ ChainSound'
  BY <1>1, <1>2 DEF EndedByEntries, ChainSound, context
<1>6. stack' = <<>> /\ active_ifd_offsets' = <<>> /\ active_table' = "Exif"
      /\ warn_count' <= MaxWarnings + 1
  BY <1>1, <1>2, NothingOpen
<1> QED
  BY <1>3, <1>4, <1>5, <1>6, EmptyStack DEF WalkInv

LEMMA StutterKeeps ==
  ASSUME WalkInv, UNCHANGED vars
  PROVE  WalkInv'
<1>1. UNCHANGED <<disk, file_type, offset, hops, chain_guard, stack, active_ifd_offsets,
                  warn_count, active_table, entries, finished, walks>>
  BY DEF vars, context, found
<1> QED
  BY <1>1 DEF WalkInv, Typed, PathNeverRepeats, ReadSoFar, DirsOpen, Nested, PutAside, Top,
              PassedOver, EndedByEntries, ChainSound

-----------------------------------------------------------------------------
(* The theorems.                                                            *)

\* The invariant holds of a walker that no block has touched ...
LEMMA InitWalks ==
  ASSUME Fresh, offset \in Addresses \cup {NoAddress}, finished \in BOOLEAN
  PROVE  WalkInv
<1>1. /\ file_type \in FileTypes /\ disk = [a \in Addresses |-> Unseen] /\ hops = 0
      /\ chain_guard = <<>> /\ stack = <<>> /\ active_ifd_offsets = <<>> /\ warn_count = 0
      /\ active_table = "Exif" /\ entries = <<>> /\ walks = <<>>
  BY DEF Fresh, table_for_ifd_kind
<1>2. Unseen \in Body /\ Read(Unseen)
  BY DEF Unseen, Body, Read
<1>3. Typed
  BY <1>1, <1>2 DEF Typed, Tables
<1>4. DOMAIN stack = {} /\ DOMAIN walks = {} /\ \A n \in 2..0 : FALSE
  BY <1>1
<1>5. PathNeverRepeats /\ DirsOpen /\ Nested
  BY <1>1, <1>4 DEF PathNeverRepeats, DirsOpen, Nested
<1>6. ReadSoFar
  BY <1>1, <1>2, <1>4 DEF ReadSoFar
<1>7. PutAside /\ EndedByEntries /\ ChainSound
  BY <1>1, <1>4 DEF PutAside, EndedByEntries, ChainSound
<1>8. warn_count <= MaxWarnings + 1
  BY <1>1, LimitsAssumption
<1> QED
  BY <1>3, <1>4, <1>5, <1>6, <1>7, <1>8 DEF WalkInv

\* ... and every step keeps it.
LEMMA NextWalks ==
  ASSUME WalkInv, [Next]_vars
  PROVE  WalkInv'
<1>1. CASE WalkChainDir
  BY <1>1, WalkChainKeeps
<1>2. CASE RefuseChainDir
  BY <1>2, RefuseChainKeeps
<1>3. CASE WalkSubdir
  BY <1>3, WalkSubdirKeeps
<1>4. CASE RefuseSubdir
  BY <1>4, RefuseSubdirKeeps
<1>5. CASE PassOverSubdir
  BY <1>5, PassOverKeeps
<1>6. CASE EndDirectory
  BY <1>6, EndDirectoryEnds, EndKeeps
<1>7. CASE PassEntry
  <2>1. Typed
    BY DEF WalkInv
  <2>2. PICK entry \in Shapes, pending \in Seq(Sub) : Passes(entry, pending)
    BY <1>7, <2>1, PassEntryPasses
  <2> QED
    BY <1>7, <2>1, <2>2, LeavesTyped, PassKeeps
<1>8. CASE Finalize
  BY <1>8, FinalizeKeeps
<1>9. CASE UNCHANGED vars
  BY <1>9, StutterKeeps
<1> QED
  BY <1>1, <1>2, <1>3, <1>4, <1>5, <1>6, <1>7, <1>8, <1>9 DEF Next, EndDirectory, PassEntry

\* The strengthening implies each of the properties below.
LEMMA InvType == WalkInv => TypeOK
<1> SUFFICES ASSUME WalkInv PROVE TypeOK
  OBVIOUS
<1>1. Typed /\ Nested /\ warn_count <= MaxWarnings + 1
  BY DEF WalkInv
<1>2. \A n \in DOMAIN walks : walks[n].outcome \in Outcomes
  BY <1>1, WalksTyped DEF WalkRecord
<1>3. warn_count \in 0..(MaxWarnings + 1)
  BY <1>1, LimitsAssumption DEF Typed
<1> QED
  BY <1>1, <1>2, <1>3 DEF TypeOK, Typed, Nested

\* A directory that ended was ended by its own entries.
LEMMA InvContained == WalkInv => FailureContained
<1> SUFFICES ASSUME WalkInv PROVE FailureContained
  OBVIOUS
<1>1. \A n \in DOMAIN walks :
        walks[n].outcome \in {"whole", "aborted"} =>
          (walks[n].outcome = "aborted" <=> Stops(disk[walks[n].start]))
  BY DEF WalkInv, EndedByEntries, Ended
<1>2. stack # <<>> =>
        /\ warn_count = walks[Top.walk].counted
        /\ active_table = table_for_ifd_kind(Top.kind)
  BY DEF WalkInv, PutAside
<1> QED
  BY <1>1, <1>2 DEF FailureContained

\* The chain of the directories that were walked.
LEMMA InvChain == WalkInv => ChainStopsAtCorruption
<1> SUFFICES ASSUME WalkInv, NEW m \in DOMAIN walks, NEW n \in DOMAIN walks,
                    m < n, IsChain(walks[m].kind), IsChain(walks[n].kind)
             PROVE  /\ disk[walks[m].start].head = "readable" /\ ~Stops(disk[walks[m].start])
                    /\ walks[n].outcome # "refused" => walks[m].start # walks[n].start
  BY DEF ChainStopsAtCorruption
<1>1. /\ walks[m].outcome = "whole"
      /\ walks[n].outcome # "refused" => walks[m].start # walks[n].start
  BY DEF WalkInv, ChainSound
<1>2. Ended(walks[m], disk[walks[m].start])
  BY DEF WalkInv, EndedByEntries
<1> QED
  BY <1>1, <1>2 DEF Ended

\* Every state of the walk of one block has the invariant.
LEMMA WalkInductive == Spec => []WalkInv
<1>1. Init => WalkInv
  BY InitWalks DEF Init
<1>2. WalkInv /\ [Next]_vars => WalkInv'
  BY NextWalks
<1> QED
  BY <1>1, <1>2, PTL DEF Spec

\* A directory never has more than MaxSubdirs pointers to follow, and the count
\* of warnings stops one past the cap (walk_entries, dispatch_classic_subifd).
THEOREM WalkTypeCorrect == Spec => []TypeOK
BY WalkInductive, InvType, PTL

\* The ancestor guard of process_subdir keeps the recursion path free of
\* repetitions, for every block: the walk is never deeper than its addresses.
THEOREM PathSafe == Spec => []PathNeverRepeats
<1>1. WalkInv => PathNeverRepeats
  BY DEF WalkInv
<1> QED
  BY <1>1, WalkInductive, PTL

\* However deep the failures of its sub-directories, a directory ends whole or
\* aborted by its own entries, counts its own warnings and is named by its own
\* table (process_subdir puts the count and the table of the parent back).
THEOREM FailuresContained == Spec => []FailureContained
BY WalkInductive, InvContained, PTL

\* walk_ifd_chain goes on only past directories read to their end, and never
\* walks an address twice.
THEOREM ChainSafe == Spec => []ChainStopsAtCorruption
BY WalkInductive, InvChain, PTL

-----------------------------------------------------------------------------
(* Numbers: the least and the greatest of a set.                            *)

\* A set of numbers that is not empty has a least one.
LEMMA LeastNumber ==
  ASSUME NEW S \in SUBSET Nat, S # {}
  PROVE  \E n \in S : \A m \in S : n <= m
<1> DEFINE Less == OpToRel(<, Nat)
<1>1. IsWellFoundedOn(Less, Nat)
  BY NatLessThanWellFounded
<1>2. \A n, m \in Nat : <<m, n>> \in Less <=> m < n
  BY DEF OpToRel
<1> HIDE DEF Less
<1>3. PICK n \in S : \A m \in S : ~ (<<m, n>> \in Less)
  BY <1>1, WFMin
<1>4. \A m \in S : n <= m
  <2> TAKE m \in S
  <2>1. m \in Nat /\ n \in Nat /\ ~(m < n)
    BY <1>2, <1>3
  <2> QED
    BY <2>1
<1> QED
  BY <1>4

\* And a greatest one, when it is bounded.
LEMMA GreatestNumber ==
  ASSUME NEW S \in SUBSET Nat, S # {}, NEW top \in Nat, \A n \in S : n <= top
  PROVE  \E n \in S : \A m \in S : m <= n
<1> DEFINE T == {n \in 0..top : top - n \in S}
<1>1. PICK n \in S : TRUE
  OBVIOUS
<1>2. top - n \in T /\ T \in SUBSET Nat
  BY <1>1
<1> HIDE DEF T
<1>3. PICK k \in T : \A m \in T : k <= m
  BY <1>2, LeastNumber
<1>4. \A m \in S : m <= top - k
  <2> TAKE m \in S
  <2>1. top - m \in T
    BY DEF T
  <2> QED
    BY <1>2, <1>3, <2>1
<1> QED
  BY <1>3, <1>4 DEF T

\* Min of the set library is the least number.
LEMMA MinIs ==
  ASSUME NEW S \in SUBSET Nat, S # {}
  PROVE  Min(S) \in S /\ \A n \in S : Min(S) <= n
BY LeastNumber DEF Min

\* Max of the set library is the greatest number of a bounded set.
LEMMA MaxIs ==
  ASSUME NEW S \in SUBSET Nat, S # {}, NEW top \in Nat, \A n \in S : n <= top
  PROVE  Max(S) \in S /\ \A n \in S : n <= Max(S)
<1>1. \E n \in S : \A m \in S : n >= m
  <2>1. PICK n \in S : \A m \in S : m <= n
    BY GreatestNumber
  <2> QED
    BY <2>1
<1> QED
  BY <1>1 DEF Max

-----------------------------------------------------------------------------
(* Listings: a sequence that has each element of a set once.                *)

Lists(s, S) ==
  /\ s \in Seq(S)
  /\ \A x \in S : \E p \in DOMAIN s : s[p] = x
  /\ \A p, q \in DOMAIN s : s[p] = s[q] => p = q

\* A listing is as long as its set is large.
LEMMA ListsCounts ==
  ASSUME NEW S, NEW s, Lists(s, S)
  PROVE  /\ Len(s) \in Nat /\ DOMAIN s = 1..Len(s) /\ IsFiniteSet(S)
         /\ Len(s) = Cardinality(S) /\ ToSet(s) = S
<1>1. s \in [1..Len(s) -> S] /\ Len(s) \in Nat /\ DOMAIN s = 1..Len(s)
  BY DEF Lists
<1>2. s \in Bijection(1..Len(s), S)
  BY <1>1 DEF Lists, Bijection, Injection, Surjection, IsInjective
<1>3. ExistsBijection(1..Len(s), S)
  BY <1>2 DEF ExistsBijection
<1>4. IsFiniteSet(S) /\ Cardinality(S) = Len(s)
  BY <1>1, <1>3, FS_NatBijection, FS_CountingElements
<1>5. ToSet(s) = S
  BY <1>1 DEF Lists, ToSet
<1> QED
  BY <1>1, <1>4, <1>5

\* The listings of two sets that share nothing make a listing of both.
LEMMA ListsConcat ==
  ASSUME NEW S, NEW T, NEW s, NEW t, Lists(s, S), Lists(t, T), S \cap T = {}
  PROVE  Lists(s \o t, S \cup T)
<1>1. s \in Seq(S \cup T) /\ t \in Seq(S \cup T) /\ s \in Seq(S) /\ t \in Seq(T)
  BY DEF Lists
<1>2. /\ s \o t \in Seq(S \cup T) /\ Len(s \o t) = Len(s) + Len(t)
      /\ \A p \in 1..(Len(s) + Len(t)) :
           (s \o t)[p] = IF p <= Len(s) THEN s[p] ELSE t[p - Len(s)]
  BY <1>1
<1>3. ASSUME NEW x \in S PROVE \E p \in DOMAIN (s \o t) : (s \o t)[p] = x
  <2>1. PICK p \in DOMAIN s : s[p] = x
    BY DEF Lists
  <2>2. p \in 1..(Len(s) + Len(t)) /\ p <= Len(s)
    BY <1>1
  <2> QED
    BY <1>2, <2>1, <2>2
<1>4. ASSUME NEW x \in T PROVE \E p \in DOMAIN (s \o t) : (s \o t)[p] = x
  <2>1. PICK p \in DOMAIN t : t[p] = x
    BY DEF Lists
  <2>2. p + Len(s) \in 1..(Len(s) + Len(t)) /\ ~(p + Len(s) <= Len(s)) /\ p + Len(s) - Len(s) = p
    BY <1>1
  <2> QED
    BY <1>2, <2>1, <2>2
<1>5. ASSUME NEW p \in DOMAIN (s \o t), NEW q \in DOMAIN (s \o t), (s \o t)[p] = (s \o t)[q]
      PROVE  p = q
  <2>1. p \in 1..(Len(s) + Len(t)) /\ q \in 1..(Len(s) + Len(t)) /\ Len(s) \in Nat /\ Len(t) \in Nat
    BY <1>1, <1>2
  <2>2. /\ \A k \in 1..Len(s) : k \in DOMAIN s /\ s[k] \in S
        /\ \A k \in 1..Len(t) : k \in DOMAIN t /\ t[k] \in T
    BY <1>1
  <2>3. CASE p <= Len(s) /\ q <= Len(s)
    BY <1>2, <1>5, <2>1, <2>2, <2>3 DEF Lists
  <2>4. CASE ~(p <= Len(s)) /\ ~(q <= Len(s))
    <3>1. p - Len(s) \in DOMAIN t /\ q - Len(s) \in DOMAIN t
      BY <2>1, <2>2, <2>4
    <3>2. t[p - Len(s)] = t[q - Len(s)]
      BY <1>2, <1>5, <2>1, <2>4
    <3>3. p - Len(s) = q - Len(s)
      BY <3>1, <3>2 DEF Lists
    <3> QED
      BY <2>1, <3>3
  <2>5. CASE p <= Len(s) /\ ~(q <= Len(s))
    <3>1. p \in 1..Len(s) /\ q - Len(s) \in 1..Len(t)
      BY <2>1, <2>5
    <3> QED
      BY <1>2, <1>5, <2>1, <2>2, <2>5, <3>1
  <2>6. CASE ~(p <= Len(s)) /\ q <= Len(s)
    <3>1. q \in 1..Len(s) /\ p - Len(s) \in 1..Len(t)
      BY <2>1, <2>6
    <3> QED
      BY <1>2, <1>5, <2>1, <2>2, <2>6, <3>1
  <2> QED
    BY <2>3, <2>4, <2>5, <2>6
<1> QED
  BY <1>2, <1>3, <1>4, <1>5 DEF Lists

\* What a strict total order on S is, as a set of pairs.
Orders(R, S) ==
  /\ \A x \in S : <<x, x>> \notin R
  /\ \A x, y, z \in S : <<x, y>> \in R /\ <<y, z>> \in R => <<x, z>> \in R
  /\ \A x, y \in S : x = y \/ <<x, y>> \in R \/ <<y, x>> \in R

\* The elements of a finite set, each once and in the order of R.
LEMMA InOrderLists ==
  ASSUME NEW S, IsFiniteSet(S), NEW R, Orders(R, S)
  PROVE  /\ Lists(InOrder(S, R), S)
         /\ \A p, q \in DOMAIN InOrder(S, R) :
              p < q <=> <<InOrder(S, R)[p], InOrder(S, R)[q]>> \in R
<1> DEFINE Below(x) == {y \in S : <<y, x>> \in R}
           Rank(x) == Cardinality(Below(x))
           size == Cardinality(S)
           rank == [x \in S |-> Rank(x)]
           list == InOrder(S, R)
<1>1. size \in Nat
  BY FS_CardinalityType
<1>2. ASSUME NEW x \in S
      PROVE  IsFiniteSet(Below(x)) /\ Rank(x) \in Nat /\ Rank(x) < size
  <2>1. Below(x) \in SUBSET S
    OBVIOUS
  <2>2. IsFiniteSet(Below(x)) /\ Rank(x) <= size /\ (size = Rank(x) => S = Below(x))
    BY <2>1, FS_Subset
  <2>3. x \notin Below(x)
    BY DEF Orders
  <2> QED
    BY <1>1, <2>2, <2>3, FS_CardinalityType
<1>3. ASSUME NEW x \in S, NEW y \in S, <<x, y>> \in R
      PROVE  Rank(x) < Rank(y)
  <2>1. Below(x) \in SUBSET Below(y)
    BY <1>3 DEF Orders
  <2>2. x \in Below(y) /\ x \notin Below(x)
    BY <1>3 DEF Orders
  <2>3. Rank(x) <= Rank(y) /\ (Rank(y) = Rank(x) => Below(y) = Below(x))
    BY <1>2, <2>1, FS_Subset
  <2> QED
    BY <1>2, <2>2, <2>3
<1>4. \A x, y \in S : Rank(x) = Rank(y) => x = y
  <2> TAKE x, y \in S
  <2>1. Rank(x) \in Nat /\ Rank(y) \in Nat
    BY <1>2
  <2>2. <<x, y>> \in R => Rank(x) < Rank(y)
    BY <1>3
  <2>3. <<y, x>> \in R => Rank(y) < Rank(x)
    BY <1>3
  <2> HIDE DEF Rank
  <2> QED
    BY <2>1, <2>2, <2>3 DEF Orders
<1>5. IsFiniteSet(0..(size - 1)) /\ Cardinality(0..(size - 1)) = size
  BY <1>1, FS_Interval
<1>6. rank \in [S -> 0..(size - 1)]
  <2> SUFFICES ASSUME NEW x \in S PROVE Rank(x) \in 0..(size - 1)
    OBVIOUS
  <2> QED
    BY <1>1, <1>2
<1>7. rank \in Surjection(S, 0..(size - 1))
  <2>1. rank \in Injection(S, 0..(size - 1))
    BY <1>4, <1>6 DEF Injection, IsInjective
  <2> QED
    BY <1>5, <2>1, FS_Injection
<1>8. \A k \in 1..size : \E x \in S : Rank(x) = k - 1
  <2> TAKE k \in 1..size
  <2>1. k - 1 \in 0..(size - 1)
    BY <1>1
  <2> QED
    BY <1>7, <2>1 DEF Surjection
<1>9. list = [k \in 1..size |-> CHOOSE x \in S : Rank(x) = k - 1]
  BY DEF InOrder
<1>15. \A x \in S : Rank(x) \in Nat /\ Rank(x) < size
  BY <1>2
<1>16. \A x, y \in S : <<x, y>> \in R => Rank(x) < Rank(y)
  BY <1>3
<1> HIDE DEF list, Rank, rank, size
<1>10. \A k \in 1..size : list[k] \in S /\ Rank(list[k]) = k - 1
  <2> TAKE k \in 1..size
  <2>1. list[k] = CHOOSE x \in S : Rank(x) = k - 1
    BY <1>9
  <2> QED
    BY <1>8, <2>1
<1>11. list \in Seq(S) /\ DOMAIN list = 1..size
  BY <1>1, <1>9, <1>10
<1>12. \A x \in S : \E p \in DOMAIN list : list[p] = x
  <2> TAKE x \in S
  <2>1. Rank(x) + 1 \in 1..size
    BY <1>1, <1>15
  <2>2. Rank(list[Rank(x) + 1]) = Rank(x) /\ list[Rank(x) + 1] \in S
    BY <1>15, <1>10, <2>1
  <2> QED
    BY <1>4, <1>11, <2>1, <2>2
<1>13. \A p, q \in DOMAIN list : list[p] = list[q] => p = q
  <2> TAKE p, q \in DOMAIN list
  <2>1. p \in Nat /\ q \in Nat /\ Rank(list[p]) = p - 1 /\ Rank(list[q]) = q - 1
    BY <1>1, <1>10, <1>11
  <2> QED
    BY <2>1
<1>14. \A p, q \in DOMAIN list : p < q <=> <<list[p], list[q]>> \in R
  <2> TAKE p, q \in DOMAIN list
  <2>1. p \in Nat /\ q \in Nat /\ Rank(list[p]) = p - 1 /\ Rank(list[q]) = q - 1
    BY <1>1, <1>10, <1>11
  <2>2. list[p] \in S /\ list[q] \in S
    BY <1>10, <1>11
  <2>3. p < q => list[p] # list[q] /\ <<list[q], list[p]>> \notin R
    BY <1>16, <2>1, <2>2
  <2>4. <<list[p], list[q]>> \in R => p < q
    BY <1>16, <2>1, <2>2
  <2> QED
    BY <2>2, <2>3, <2>4 DEF Orders
<1> QED
  BY <1>11, <1>12, <1>13, <1>14 DEF Lists, list

\* Ascending lists a finite set of numbers, the smaller ones first.
LEMMA AscendingLists ==
  ASSUME NEW S \in SUBSET Nat, IsFiniteSet(S)
  PROVE  /\ Lists(Ascending(S), S)
         /\ \A p, q \in DOMAIN Ascending(S) : p < q <=> Ascending(S)[p] < Ascending(S)[q]
<1> DEFINE R == {p \in S \X S : p[1] < p[2]}
<1>1. \A x, y \in S : <<x, y>> \in R <=> x < y
  OBVIOUS
<1>2. Ascending(S) = InOrder(S, R)
  BY DEF Ascending
<1> HIDE DEF R
<1>3. Orders(R, S)
  BY <1>1 DEF Orders
<1>4. /\ Lists(Ascending(S), S)
      /\ \A p, q \in DOMAIN Ascending(S) :
           p < q <=> <<Ascending(S)[p], Ascending(S)[q]>> \in R
  BY <1>2, <1>3, InOrderLists
<1>5. \A p \in DOMAIN Ascending(S) : Ascending(S)[p] \in S
  BY <1>4 DEF Lists
<1> QED
  BY <1>1, <1>4, <1>5

\* Tuples of one length are told apart by the first number in which they differ.
LEMMA PrecedesOrders ==
  ASSUME NEW n \in Nat, NEW S \in SUBSET [1..n -> Nat]
  PROVE  /\ \A a \in S : ~Precedes(a, a)
         /\ \A a, b, c \in S : Precedes(a, b) /\ Precedes(b, c) => Precedes(a, c)
         /\ \A a, b \in S : a = b \/ Precedes(a, b) \/ Precedes(b, a)
<1>1. \A a \in S : DOMAIN a = 1..n /\ \A i \in 1..n : a[i] \in Nat
  OBVIOUS
<1>2. \A a \in S : ~Precedes(a, a)
  BY <1>1 DEF Precedes
<1>3. ASSUME NEW a \in S, NEW b \in S, NEW c \in S, Precedes(a, b), Precedes(b, c)
      PROVE  Precedes(a, c)
  <2>1. PICK i \in 1..n : a[i] < b[i] /\ \A j \in 1..(i - 1) : a[j] = b[j]
    BY <1>1, <1>3 DEF Precedes
  <2>2. PICK k \in 1..n : b[k] < c[k] /\ \A j \in 1..(k - 1) : b[j] = c[j]
    BY <1>1, <1>3 DEF Precedes
  <2>3. CASE i <= k
    <3>1. \A j \in 1..(i - 1) : j \in 1..(k - 1)
      BY <2>3
    <3>2. a[i] < c[i]
      <4>1. i = k \/ i \in 1..(k - 1)
        BY <2>3
      <4> QED
        BY <1>1, <2>1, <2>2, <4>1
    <3> QED
      BY <1>1, <2>1, <2>2, <3>1, <3>2 DEF Precedes
  <2>4. CASE k < i
    <3>1. k \in 1..(i - 1) /\ \A j \in 1..(k - 1) : j \in 1..(i - 1)
      BY <2>4
    <3> QED
      BY <1>1, <2>1, <2>2, <3>1 DEF Precedes
  <2> QED
    BY <2>3, <2>4
<1>4. ASSUME NEW a \in S, NEW b \in S, a # b
      PROVE  Precedes(a, b) \/ Precedes(b, a)
  <2> DEFINE Differ == {i \in 1..n : a[i] # b[i]}
  <2>1. Differ # {} /\ Differ \in SUBSET Nat
    BY <1>4, SMTT(30)
  <2> HIDE DEF Differ
  <2>2. PICK i \in Differ : \A j \in Differ : i <= j
    BY <2>1, LeastNumber
  <2>3. \A j \in 1..(i - 1) : a[j] = b[j]
    BY <2>2 DEF Differ
  <2>4. i \in 1..n /\ (a[i] < b[i] \/ b[i] < a[i])
    BY <1>1, <2>2 DEF Differ
  <2> QED
    BY <1>1, <2>2, <2>3, <2>4 DEF Precedes
<1> QED
  BY <1>2, <1>3, <1>4

\* Sorted lists a finite set of tuples of numbers, by their first places first.
LEMMA SortedLists ==
  ASSUME NEW n \in Nat, NEW S \in SUBSET [1..n -> Nat], IsFiniteSet(S)
  PROVE  /\ Lists(Sorted(S), S)
         /\ \A p, q \in DOMAIN Sorted(S) : p < q <=> Precedes(Sorted(S)[p], Sorted(S)[q])
<1> DEFINE R == {p \in S \X S : Precedes(p[1], p[2])}
<1>1. \A x, y \in S : <<x, y>> \in R <=> Precedes(x, y)
  OBVIOUS
<1>2. Sorted(S) = InOrder(S, R)
  BY DEF Sorted
<1> HIDE DEF R
<1>3. Orders(R, S)
  BY <1>1, PrecedesOrders DEF Orders
<1>4. /\ Lists(Sorted(S), S)
      /\ \A p, q \in DOMAIN Sorted(S) : p < q <=> <<Sorted(S)[p], Sorted(S)[q]>> \in R
  BY <1>2, <1>3, InOrderLists
<1>5. \A p \in DOMAIN Sorted(S) : Sorted(S)[p] \in S
  BY <1>4 DEF Lists
<1> QED
  BY <1>1, <1>4, <1>5

-----------------------------------------------------------------------------
(* Sequences along which a function never falls.                            *)

Rising(s, f) == \A p, q \in DOMAIN s : p <= q => f[s[p]] <= f[s[q]]

\* A rising sequence before another one, when the second starts no lower.
LEMMA RisingConcat ==
  ASSUME NEW S, NEW T, NEW s, NEW t, NEW f, Lists(s, S), Lists(t, T),
         Rising(s, f), Rising(t, f), \A x \in S, y \in T : f[x] <= f[y]
  PROVE  Rising(s \o t, f)
<1>1. /\ s \in Seq(S) /\ t \in Seq(T)
      /\ s \in Seq(S \cup T) /\ t \in Seq(S \cup T)
  BY DEF Lists
<1>2. /\ Len(s \o t) = Len(s) + Len(t) /\ DOMAIN (s \o t) = 1..(Len(s) + Len(t))
      /\ \A p \in 1..(Len(s) + Len(t)) :
           (s \o t)[p] = IF p <= Len(s) THEN s[p] ELSE t[p - Len(s)]
  BY <1>1
<1> SUFFICES ASSUME NEW p \in 1..(Len(s) + Len(t)), NEW q \in 1..(Len(s) + Len(t)), p <= q
             PROVE  f[(s \o t)[p]] <= f[(s \o t)[q]]
  BY <1>2 DEF Rising
<1>3. Len(s) \in Nat /\ Len(t) \in Nat /\ DOMAIN s = 1..Len(s) /\ DOMAIN t = 1..Len(t)
  BY <1>1
<1>4. CASE q <= Len(s)
  <2>1. p \in DOMAIN s /\ q \in DOMAIN s /\ p <= Len(s)
    BY <1>3, <1>4
  <2> QED
    BY <1>2, <1>4, <2>1 DEF Rising
<1>5. CASE ~(p <= Len(s))
  <2>1. p - Len(s) \in DOMAIN t /\ q - Len(s) \in DOMAIN t /\ ~(q <= Len(s))
          /\ p - Len(s) <= q - Len(s)
    BY <1>3, <1>5
  <2> QED
    BY <1>2, <1>5, <2>1 DEF Rising
<1>6. CASE p <= Len(s) /\ ~(q <= Len(s))
  <2>1. p \in DOMAIN s /\ q - Len(s) \in DOMAIN t
    BY <1>3, <1>6
  <2>2. s[p] \in S /\ t[q - Len(s)] \in T
    BY <1>1, <2>1
  <2> QED
    BY <1>2, <1>6, <2>2
<1> QED
  BY <1>3, <1>4, <1>5, <1>6

\* A listing rises with what is the same for all of its set.
LEMMA LevelRises ==
  ASSUME NEW S, NEW s, Lists(s, S), NEW f, NEW b \in Nat, \A x \in S : f[x] = b
  PROVE  Rising(s, f)
<1>1. \A p \in DOMAIN s : s[p] \in S
  BY DEF Lists
<1> QED
  BY <1>1 DEF Rising

-----------------------------------------------------------------------------
(* What the walk of one block finds: leaves, halves of images, records.     *)

\* A leaf of a block, with those that Finalize adds; the halves of an image.
Emittable == [ifd : Kinds, own_ifd_start : Addresses, what : Whats \cup {"image"}, name : Names,
              value : Nat, source_block : {0}, walk : Nat]
APair == [ifd : Kinds, ifd_start : Addresses, offset : Nat, length_tag : Lengths, data_tag : Names]
ALength == [ifd : Kinds, ifd_start : Addresses, tag : Lengths, length : Nat]

\* The types of what the walk of one block has found so far.
FoundTyped ==
  /\ entries \in Seq(Emittable)
  /\ data_tag_pairs \in Seq(APair) /\ data_tag_lengths \in Seq(ALength)
  /\ deferred_subdirs \in Seq(Deferrals)

\* There is a record of the maker note kept, and of no other.
NoteRecorded(records, note) ==
  /\ note = NoNote => \A k \in DOMAIN records : records[k].kind # "MakerNote"
  /\ note # NoNote => \E n \in DOMAIN records : \A k \in DOMAIN records :
                        records[k].kind = "MakerNote" <=> k = n

\* An ExifIFD is entered behind leaves that were found.
AnchorsPlaced(records, count) ==
  \A k \in DOMAIN records : records[k].kind = "ExifIfdAnchor" => records[k].dispatch_index <= count

\* What the walk of one block has recorded so far.
Recorded ==
  /\ FoundTyped
  /\ NoteRecorded(deferred_subdirs, maker_note)
  /\ AnchorsPlaced(deferred_subdirs, Len(entries))

-----------------------------------------------------------------------------
(* The pairs that Finalize keeps.                                           *)

LastOfKey(j) ==
  \A k \in DOMAIN data_tag_pairs : PairKey(data_tag_pairs[k]) = PairKey(data_tag_pairs[j]) => k <= j

\* One pair is kept for each key, the last of that key, and every key has one.
LEMMA DedupAre ==
  ASSUME NEW P, data_tag_pairs \in Seq(P)
  PROVE  /\ DedupPairs \in Seq(P) /\ DOMAIN DedupPairs = 1..Len(DedupPairs)
         /\ Len(DedupPairs) \in Nat
         /\ \A n \in DOMAIN DedupPairs :
              \E j \in DOMAIN data_tag_pairs : DedupPairs[n] = data_tag_pairs[j] /\ LastOfKey(j)
         /\ \A j \in DOMAIN data_tag_pairs :
              LastOfKey(j) => \E n \in DOMAIN DedupPairs : DedupPairs[n] = data_tag_pairs[j]
         /\ \A n, k \in DOMAIN DedupPairs : PairKey(DedupPairs[n]) = PairKey(DedupPairs[k]) => n = k
<1> DEFINE all == DOMAIN data_tag_pairs
           Key(n) == PairKey(data_tag_pairs[n])
           At(key) == {n \in all : Key(n) = key}
           First(n) == \A m \in At(Key(n)) : n <= m
           chosen == {n \in all : First(n)}
           firsts == Ascending(chosen)
           last == [n \in all |-> Max(At(Key(n)))]
<1>1. all = 1..Len(data_tag_pairs) /\ Len(data_tag_pairs) \in Nat
      /\ \A n \in all : data_tag_pairs[n] \in P
  OBVIOUS
<1>2. DedupPairs = [n \in DOMAIN firsts |-> data_tag_pairs[Max(At(Key(firsts[n])))]]
  BY DEF DedupPairs
<1>3. \A key : At(key) \in SUBSET Nat /\ \A n \in At(key) : n <= Len(data_tag_pairs)
  BY <1>1
<1>4. \A n \in all : n \in At(Key(n))
  OBVIOUS
<1>5. \A n \in all : last[n] \in At(Key(n)) /\ \A k \in At(Key(n)) : k <= last[n]
  <2> TAKE n \in all
  <2> DEFINE S == At(Key(n))
  <2>1. S \in SUBSET Nat /\ S # {} /\ \A k \in S : k <= Len(data_tag_pairs)
    BY <1>3, <1>4
  <2>2. last[n] = Max(S)
    OBVIOUS
  <2> HIDE DEF S, last
  <2>3. Max(S) \in S /\ \A k \in S : k <= Max(S)
    BY <1>1, <2>1, MaxIs
  <2> QED
    BY <2>2, <2>3 DEF S
<1>6. chosen \in SUBSET Nat /\ IsFiniteSet(chosen)
  <2>1. chosen \subseteq 1..Len(data_tag_pairs)
    BY <1>1
  <2>2. IsFiniteSet(1..Len(data_tag_pairs))
    BY <1>1, FS_Interval
  <2>3. chosen \in SUBSET Nat
    BY <1>1, <2>1
  <2> HIDE DEF chosen
  <2> QED
    BY <2>1, <2>2, <2>3, FS_Subset
<1>7. Lists(firsts, chosen)
  <2> HIDE DEF chosen
  <2> QED
    BY <1>6, AscendingLists
<1>8. chosen \subseteq all /\ \A n \in chosen : First(n)
  OBVIOUS
<1>9. \A j \in all : \E n \in chosen : Key(n) = Key(j)
  <2> TAKE j \in all
  <2> DEFINE S == At(Key(j))
  <2>1. S \in SUBSET Nat /\ S # {}
    BY <1>3, <1>4
  <2>2. S \subseteq all /\ \A n \in S : Key(n) = Key(j)
    OBVIOUS
  <2>3. PICK n \in S : \A m \in S : n <= m
    <3> HIDE DEF S
    <3> QED
      BY <2>1, LeastNumber
  <2>4. n \in all /\ Key(n) = Key(j) /\ At(Key(n)) = S
    BY <2>2
  <2>5. First(n)
    BY <2>3, <2>4
  <2> QED
    BY <2>4, <2>5
<1>10. \A n, k \in chosen : Key(n) = Key(k) => n = k
  <2> SUFFICES ASSUME NEW n \in chosen, NEW k \in chosen, Key(n) = Key(k) PROVE n = k
    OBVIOUS
  <2>1. n \in At(Key(n)) /\ k \in At(Key(n)) /\ n \in At(Key(k)) /\ k \in At(Key(k))
    BY <1>8
  <2>2. n <= k /\ k <= n
    BY <1>8, <2>1
  <2>3. n \in Nat /\ k \in Nat
    BY <1>6
  <2> HIDE DEF chosen
  <2> QED
    BY <2>2, <2>3
<1>11. \A n \in all : LastOfKey(n) <=> n = last[n]
  <2> TAKE n \in all
  <2>0. last[n] \in all /\ Key(last[n]) = Key(n) /\ n \in Nat /\ last[n] \in Nat
    BY <1>1, <1>5
  <2>1. LastOfKey(n) <=> \A k \in all : Key(k) = Key(n) => k <= n
    BY DEF LastOfKey
  <2>2. \A k \in all : Key(k) = Key(n) => k <= last[n]
    BY <1>5
  <2>3. n <= last[n]
    BY <2>2
  <2> HIDE DEF last
  <2>4. ASSUME LastOfKey(n) PROVE n = last[n]
    BY <2>0, <2>1, <2>3, <2>4
  <2>5. ASSUME n = last[n] PROVE LastOfKey(n)
    BY <2>1, <2>2, <2>5
  <2> QED
    BY <2>4, <2>5
<1>12. \A n \in all : last[n] \in all /\ Key(last[n]) = Key(n) /\ LastOfKey(last[n])
  <2> TAKE n \in all
  <2>1. last[n] \in all /\ Key(last[n]) = Key(n)
    BY <1>5
  <2>2. last[last[n]] = last[n]
    BY <2>1
  <2> QED
    BY <1>11, <2>1, <2>2
<1>13. \A n \in all, k \in all : Key(n) = Key(k) => last[n] = last[k]
  OBVIOUS
<1>14. DedupPairs = [n \in DOMAIN firsts |-> data_tag_pairs[last[firsts[n]]]]
  <2>1. \A n \in DOMAIN firsts : firsts[n] \in all
    BY <1>7, <1>8 DEF Lists
  <2> HIDE DEF firsts, chosen
  <2> QED
    BY <1>2, <2>1
<1> HIDE DEF last, chosen, firsts
<1>15. DOMAIN firsts = 1..Len(firsts) /\ Len(firsts) \in Nat
       /\ (\A n \in DOMAIN firsts : firsts[n] \in chosen /\ firsts[n] \in all)
       /\ (\A n, k \in DOMAIN firsts : firsts[n] = firsts[k] => n = k)
       /\ (\A x \in chosen : \E n \in DOMAIN firsts : firsts[n] = x)
  BY <1>7, <1>8 DEF Lists
<1>16. DOMAIN DedupPairs = DOMAIN firsts /\ DedupPairs \in Seq(P) /\ Len(DedupPairs) = Len(firsts)
       /\ \A n \in DOMAIN firsts : DedupPairs[n] = data_tag_pairs[last[firsts[n]]]
  BY <1>1, <1>12, <1>14, <1>15
<1>17. \A n \in DOMAIN DedupPairs :
         \E j \in DOMAIN data_tag_pairs : DedupPairs[n] = data_tag_pairs[j] /\ LastOfKey(j)
  BY <1>12, <1>15, <1>16
<1>18. ASSUME NEW j \in DOMAIN data_tag_pairs, LastOfKey(j)
       PROVE  \E n \in DOMAIN DedupPairs : DedupPairs[n] = data_tag_pairs[j]
  <2>1. PICK x \in chosen : Key(x) = Key(j)
    BY <1>9
  <2>2. PICK n \in DOMAIN firsts : firsts[n] = x
    BY <1>15
  <2>3. last[x] = last[j] /\ last[j] = j
    BY <1>8, <1>11, <1>13, <1>18, <2>1
  <2> QED
    BY <1>16, <2>2, <2>3
<1>19. ASSUME NEW n \in DOMAIN firsts, NEW k \in DOMAIN firsts,
              PairKey(DedupPairs[n]) = PairKey(DedupPairs[k])
       PROVE  n = k
  <2>1. Key(firsts[n]) = Key(firsts[k])
    BY <1>12, <1>15, <1>16, <1>19
  <2> QED
    BY <1>10, <1>15, <2>1
<1> QED
  BY <1>15, <1>16, <1>17, <1>18, <1>19

\* The length of a pair, whether it locates an image, and the leaf it becomes.
LengthOf(pair) == data_tag_lengths[Max(LengthsFor(pair))].length
Locates(pair) == LengthsFor(pair) # {} /\ Extractable(pair.data_tag, pair.offset, LengthOf(pair))
ImageLeaf(pair) == Leaf(pair.ifd, pair.ifd_start, "image", pair.data_tag, LengthOf(pair), 0)

\* The length of a pair is the last one of its key.
LEMMA LengthIs ==
  ASSUME FoundTyped, NEW pair, LengthsFor(pair) # {}
  PROVE  /\ Max(LengthsFor(pair)) \in LengthsFor(pair)
         /\ \A n \in LengthsFor(pair) : n <= Max(LengthsFor(pair))
         /\ LengthsFor(pair) \subseteq DOMAIN data_tag_lengths
         /\ LengthOf(pair) \in Nat
<1> DEFINE S == LengthsFor(pair)
<1>1. S \subseteq DOMAIN data_tag_lengths
  BY DEF LengthsFor
<1>2. /\ DOMAIN data_tag_lengths = 1..Len(data_tag_lengths) /\ Len(data_tag_lengths) \in Nat
      /\ \A n \in DOMAIN data_tag_lengths : data_tag_lengths[n].length \in Nat
  <2>1. data_tag_lengths \in Seq(ALength)
    BY DEF FoundTyped
  <2>2. \A l \in ALength : l.length \in Nat
    BY DEF ALength
  <2> QED
    BY <2>1, <2>2
<1> HIDE DEF S
<1>3. S \in SUBSET Nat /\ S # {} /\ \A n \in S : n <= Len(data_tag_lengths)
  BY <1>1, <1>2 DEF S
<1>4. Max(S) \in S /\ \A n \in S : n <= Max(S)
  BY <1>2, <1>3, MaxIs
<1> QED
  BY <1>1, <1>2, <1>4 DEF S, LengthOf

\* The images, one for each last pair that locates one.
LEMMA ImagesAre ==
  ASSUME FoundTyped, Finalize
  PROVE  \E made \in Seq(Emittable) :
           /\ entries' = entries \o made
           /\ \A n \in DOMAIN made : \E j \in DOMAIN data_tag_pairs :
                LastOfKey(j) /\ Locates(data_tag_pairs[j]) /\ made[n] = ImageLeaf(data_tag_pairs[j])
           /\ \A j \in DOMAIN data_tag_pairs : LastOfKey(j) /\ Locates(data_tag_pairs[j]) =>
                \E n \in DOMAIN made : made[n] = ImageLeaf(data_tag_pairs[j])
           /\ \A n, k \in DOMAIN made :
                /\ made[n].own_ifd_start = made[k].own_ifd_start /\ made[n].ifd = made[k].ifd
                /\ made[n].name = made[k].name
                => n = k
<1> DEFINE chosen == {n \in DOMAIN DedupPairs : Locates(DedupPairs[n])}
           kept == Ascending(chosen)
           made == [n \in DOMAIN kept |-> ImageLeaf(DedupPairs[kept[n]])]
<1>1. entries' = entries \o made
  BY DEF Finalize, Locates, ImageLeaf, LengthOf
<1>2. /\ DedupPairs \in Seq(APair) /\ DOMAIN DedupPairs = 1..Len(DedupPairs)
      /\ Len(DedupPairs) \in Nat
      /\ \A n \in DOMAIN DedupPairs :
              \E j \in DOMAIN data_tag_pairs : DedupPairs[n] = data_tag_pairs[j] /\ LastOfKey(j)
      /\ \A j \in DOMAIN data_tag_pairs :
              LastOfKey(j) => \E n \in DOMAIN DedupPairs : DedupPairs[n] = data_tag_pairs[j]
      /\ \A n, k \in DOMAIN DedupPairs : PairKey(DedupPairs[n]) = PairKey(DedupPairs[k]) => n = k
  <2>1. data_tag_pairs \in Seq(APair)
    BY DEF FoundTyped
  <2> QED
    BY <2>1, DedupAre
<1>3. chosen \subseteq DOMAIN DedupPairs /\ \A n \in DOMAIN DedupPairs : n \in chosen <=> Locates(DedupPairs[n])
  OBVIOUS
<1>4. Lists(kept, chosen)
  <2> HIDE DEF chosen
  <2>1. chosen \in SUBSET Nat /\ chosen \subseteq 1..Len(DedupPairs)
    BY <1>2, <1>3
  <2>2. IsFiniteSet(1..Len(DedupPairs))
    BY <1>2, FS_Interval
  <2>3. IsFiniteSet(chosen)
    BY <2>1, <2>2, FS_Subset
  <2> QED
    BY <2>1, <2>3, AscendingLists
<1> HIDE DEF chosen, kept
<1>5. DOMAIN kept = 1..Len(kept) /\ Len(kept) \in Nat
       /\ (\A n \in DOMAIN kept : kept[n] \in chosen /\ kept[n] \in DOMAIN DedupPairs)
       /\ (\A n, k \in DOMAIN kept : kept[n] = kept[k] => n = k)
       /\ (\A x \in chosen : \E n \in DOMAIN kept : kept[n] = x)
  BY <1>3, <1>4 DEF Lists
<1>6. /\ DOMAIN made = DOMAIN kept
      /\ \A n \in DOMAIN kept : made[n] = ImageLeaf(DedupPairs[kept[n]])
  OBVIOUS
<1>7. \A pair \in APair : Locates(pair) =>
        /\ ImageLeaf(pair) \in Emittable
        /\ ImageLeaf(pair).own_ifd_start = pair.ifd_start /\ ImageLeaf(pair).ifd = pair.ifd
        /\ ImageLeaf(pair).name = pair.data_tag
  <2> TAKE pair \in APair
  <2> HAVE Locates(pair)
  <2>1. LengthOf(pair) \in Nat
    BY LengthIs DEF Locates
  <2> HIDE DEF LengthOf
  <2> QED
    BY <2>1 DEF ImageLeaf, Leaf, Emittable, APair
<1>8. \A n \in DOMAIN DedupPairs : DedupPairs[n] \in APair
  BY <1>2
<1>9. \A n \in DOMAIN kept : Locates(DedupPairs[kept[n]]) /\ DedupPairs[kept[n]] \in APair
  BY <1>3, <1>5, <1>8
<1>10. made \in Seq(Emittable)
  <2>1. \A n \in DOMAIN kept : ImageLeaf(DedupPairs[kept[n]]) \in Emittable
    BY <1>7, <1>9
  <2> QED
    BY <1>5, <2>1
<1>11. ASSUME NEW n \in DOMAIN made
       PROVE  \E j \in DOMAIN data_tag_pairs :
                LastOfKey(j) /\ Locates(data_tag_pairs[j]) /\ made[n] = ImageLeaf(data_tag_pairs[j])
  <2>1. n \in DOMAIN kept /\ kept[n] \in DOMAIN DedupPairs
    BY <1>5, <1>6
  <2>2. PICK j \in DOMAIN data_tag_pairs : DedupPairs[kept[n]] = data_tag_pairs[j] /\ LastOfKey(j)
    BY <1>2, <2>1
  <2> QED
    BY <1>6, <1>9, <2>1, <2>2
<1>12. ASSUME NEW j \in DOMAIN data_tag_pairs, LastOfKey(j), Locates(data_tag_pairs[j])
       PROVE  \E n \in DOMAIN made : made[n] = ImageLeaf(data_tag_pairs[j])
  <2>1. PICK x \in DOMAIN DedupPairs : DedupPairs[x] = data_tag_pairs[j]
    BY <1>2, <1>12
  <2>2. x \in chosen
    BY <1>3, <1>12, <2>1
  <2>3. PICK n \in DOMAIN kept : kept[n] = x
    BY <1>5, <2>2
  <2> QED
    BY <1>6, <2>1, <2>3
<1>13. ASSUME NEW n \in DOMAIN made, NEW k \in DOMAIN made,
              made[n].own_ifd_start = made[k].own_ifd_start, made[n].ifd = made[k].ifd,
              made[n].name = made[k].name
       PROVE  n = k
  <2> DEFINE p == DedupPairs[kept[n]]
             q == DedupPairs[kept[k]]
  <2>1. /\ Locates(p) /\ p \in APair /\ made[n] = ImageLeaf(p)
        /\ Locates(q) /\ q \in APair /\ made[k] = ImageLeaf(q)
    BY <1>6, <1>9
  <2>2. p.ifd_start = q.ifd_start /\ p.ifd = q.ifd /\ p.data_tag = q.data_tag
    <3> HIDE DEF p, q, made
    <3> QED
      BY <1>7, <1>13, <2>1
  <2>3. PairKey(p) = PairKey(q)
    BY <2>2 DEF PairKey
  <2>4. kept[n] = kept[k]
    BY <1>2, <1>5, <1>6, <2>3
  <2> QED
    BY <1>5, <1>6, <2>4
<1> HIDE DEF made
<1> QED
  BY <1>1, <1>10, <1>11, <1>12, <1>13

-----------------------------------------------------------------------------
(* The steps.                                                               *)

\* What a step adds to the records.
RecordsGrow ==
  \/ UNCHANGED <<deferred_subdirs, maker_note>>
  \/ UNCHANGED maker_note /\ \E r \in Seq(Record) : deferred_subdirs' = deferred_subdirs \o r
  \/ /\ UNCHANGED maker_note
     /\ \E start \in Addresses :
          deferred_subdirs' = Append(deferred_subdirs,
                                Deferred("ExifIfdAnchor", "ExifIFD", start, 0, NoAddress, Len(entries)))
  \/ /\ maker_note = NoNote /\ maker_note' # NoNote /\ Top \in Dir
     /\ deferred_subdirs' = Append(deferred_subdirs,
                              Deferred("MakerNote", Top.kind, Top.start, Top.index, NoAddress, 0))

ImagesTyped == data_tag_pairs \in Seq(APair) /\ data_tag_lengths \in Seq(ALength)

\* A leaf adds itself and at most one half of an image.
LEMMA EmitLeafGrows ==
  ASSUME WalkInv, FoundTyped, EmitLeaf
  PROVE  /\ \E leaf \in Emittable : entries' = Append(entries, leaf)
         /\ ImagesTyped' /\ UNCHANGED <<deferred_subdirs, maker_note>>
<1>0. stack # <<>> /\ Top \in Dir /\ Typed
  BY TopTyped DEF EmitLeaf, ReadEntry, WalkInv
<1>1. PICK entry \in Shapes :
        /\ LET image == ImageOf(entry.what, Top.kind, captured)
           IN  data_tag_pairs' =
                IF entry.what \in (Strip \cup Thumbnail) \ Lengths /\ image # entry.what
                THEN Append(data_tag_pairs,
                            [ifd |-> Top.kind, ifd_start |-> Top.start, offset |-> entry.value,
                             length_tag |-> OffsetPair(entry.what), data_tag |-> image])
                ELSE data_tag_pairs
        /\ data_tag_lengths' =
            IF entry.what \in Lengths
            THEN Append(data_tag_lengths,
                        [ifd |-> Top.kind, ifd_start |-> Top.start, tag |-> entry.what,
                         length |-> entry.value])
            ELSE data_tag_lengths
        /\ entries' = Append(entries, Leaf(Top.kind, Top.start, entry.what, NameOf(entry.what),
                                          entry.value, Top.walk))
  BY DEF EmitLeaf
<1>2. entry.what \in Whats /\ entry.value \in Nat
  BY <1>0, ShapeTyped DEF AnEntry
<1>3. NameOf(entry.what) \in Names /\ ImageOf(entry.what, Top.kind, captured) \in Names
  BY <1>2 DEF NameOf, ImageOf, Names
<1>4. Top.kind \in Kinds /\ Top.start \in Addresses /\ Top.walk \in Nat
  BY <1>0 DEF Dir
<1>5. Leaf(Top.kind, Top.start, entry.what, NameOf(entry.what), entry.value, Top.walk) \in Emittable
  <2> DEFINE name == NameOf(entry.what)
  <2> HIDE DEF name
  <2>1. name \in Names
    BY <1>3 DEF name
  <2>2. Leaf(Top.kind, Top.start, entry.what, name, entry.value, Top.walk) \in Emittable
    BY <1>2, <1>4, <2>1 DEF Leaf, Emittable
  <2> QED
    BY <2>2 DEF name
<1>6. data_tag_pairs' \in Seq(APair)
  <2> DEFINE image == ImageOf(entry.what, Top.kind, captured)
             pair == [ifd |-> Top.kind, ifd_start |-> Top.start, offset |-> entry.value,
                      length_tag |-> OffsetPair(entry.what), data_tag |-> image]
  <2>1. OffsetPair(entry.what) \in Lengths
    BY DEF OffsetPair, Lengths
  <2>2. image \in Names
    BY <1>3
  <2> HIDE DEF image
  <2>3. pair \in APair
    BY <1>2, <1>4, <2>1, <2>2 DEF APair
  <2>4. data_tag_pairs \in Seq(APair) /\ data_tag_pairs' \in {data_tag_pairs, Append(data_tag_pairs, pair)}
    BY <1>1 DEF FoundTyped, image
  <2> HIDE DEF pair
  <2> QED
    BY <2>3, <2>4
<1>7. data_tag_lengths' \in Seq(ALength)
  <2> DEFINE len == [ifd |-> Top.kind, ifd_start |-> Top.start, tag |-> entry.what,
                     length |-> entry.value]
  <2>1. CASE entry.what \in Lengths
    <3>1. len \in ALength
      BY <1>2, <1>4, <2>1 DEF ALength
    <3>2. data_tag_lengths \in Seq(ALength) /\ data_tag_lengths' = Append(data_tag_lengths, len)
      BY <1>1, <2>1 DEF FoundTyped
    <3> HIDE DEF len
    <3> QED
      BY <3>1, <3>2
  <2>2. CASE entry.what \notin Lengths
    BY <1>1, <2>2 DEF FoundTyped
  <2> QED
    BY <2>1, <2>2
<1> QED
  BY <1>1, <1>5, <1>6, <1>7 DEF ImagesTyped, EmitLeaf

\* An entry that is no leaf adds at most records.
LEMMA PassGrows ==
  ASSUME WalkInv, FoundTyped, PassEntry, ~EmitLeaf
  PROVE  RecordsGrow /\ UNCHANGED <<entries, images>>
<1>0. stack # <<>> /\ Typed /\ Top \in Dir /\ Top.walk \in DOMAIN walks
      /\ DOMAIN walks = 1..Len(walks)
  <2>1. stack # <<>> /\ Typed /\ DirsOpen
    BY DEF PassEntry, SkipEntry, FollowPointer, FollowSubIfds, CaptureMakerNote, EmitLeaf,
           ReadEntry, WalkInv
  <2>2. Top = stack[Len(stack)] /\ Len(stack) \in DOMAIN stack /\ Top \in Dir
    BY <2>1, TopTyped
  <2>3. Top.walk \in DOMAIN walks
    BY <2>1, <2>2 DEF DirsOpen
  <2>4. walks \in Seq(WalkRecord)
    BY <2>1 DEF Typed
  <2> QED
    BY <2>1, <2>2, <2>3, <2>4
<1>1. CASE SkipEntry \/ FollowSubIfds
  BY <1>1 DEF SkipEntry, FollowSubIfds, found, RecordsGrow
<1>2. CASE FollowPointer
  <2>1. PICK entry \in Shapes :
          /\ entry.what \in PointerKinds
          /\ deferred_subdirs' =
                   IF entry.what = "ExifIFD"
                   THEN Append(deferred_subdirs, Deferred("ExifIfdAnchor", "ExifIFD", entry.at[1], 0,
                                                          NoAddress, Len(entries)))
                   ELSE deferred_subdirs
    BY <1>2 DEF FollowPointer
  <2>2. entry.at[1] \in Addresses
    BY <1>0, <2>1, ShapeTyped
  <2> QED
    BY <1>2, <2>1, <2>2 DEF FollowPointer, RecordsGrow
<1>3. CASE CaptureMakerNote
  <2>1. Top.walk # 0
    BY <1>0
  <2>2. [walk |-> Top.walk, index |-> Top.index] # NoNote
    BY <2>1 DEF NoNote
  <2> QED
    BY <1>0, <1>3, <2>2 DEF CaptureMakerNote, RecordsGrow
<1> QED
  BY <1>1, <1>2, <1>3 DEF PassEntry

\* Entering, refusing and ending a directory add at most the record of an ExifIFD.
LEMMA OtherGrows ==
  ASSUME WalkInv, FoundTyped,
         WalkChainDir \/ RefuseChainDir \/ WalkSubdir \/ RefuseSubdir \/ PassOverSubdir \/ EndDirectory
  PROVE  RecordsGrow /\ UNCHANGED <<entries, images>>
<1>1. CASE WalkChainDir \/ RefuseChainDir \/ PassOverSubdir
  BY <1>1 DEF WalkChainDir, RefuseChainDir, PassOverSubdir, found, RecordsGrow
<1>2. Typed
  BY DEF WalkInv
<1>3. Pending => Head(Top.pending).record \in Seq(Record)
  <2> SUFFICES ASSUME Pending PROVE Head(Top.pending).record \in Seq(Record)
    OBVIOUS
  <2>1. stack # <<>> /\ Top.pending # <<>>
    BY DEF Pending
  <2>2. Top \in Dir
    BY <1>2, <2>1, TopTyped
  <2>3. Top.pending \in Seq(Sub)
    BY <2>2 DEF Dir
  <2>4. Head(Top.pending) \in Sub
    BY <2>1, <2>3
  <2> QED
    BY <2>4 DEF Sub
<1>4. CASE RefuseSubdir
  BY <1>3, <1>4 DEF RefuseSubdir, RecordsGrow
<1>5. CASE WalkSubdir
  BY <1>3, <1>5 DEF WalkSubdir, RecordsGrow
<1>6. CASE EndDirectory
  <2>1. PICK outcome : CloseDir(outcome)
    BY <1>6 DEF EndDirectory, EndOfDirectory, TooManyWarnings, AbortDir
  <2>2. CASE CloseChainDir(outcome)
    BY <2>2 DEF CloseChainDir, found, RecordsGrow
  <2>3. CASE CloseSubdir(outcome)
    <3>1. stack # <<>>
      BY <1>2, <2>3 DEF CloseSubdir, Typed
    <3>2. Top.record \in Seq(Record)
      BY <1>2, <3>1, TopTyped DEF Dir
    <3> QED
      BY <2>3, <3>2 DEF CloseSubdir, RecordsGrow
  <2> QED
    BY <2>1, <2>2, <2>3 DEF CloseDir
<1> QED
  BY <1>1, <1>4, <1>5, <1>6

\* Every step adds to the leaves and to the records, and takes nothing away.
LEMMA FoundGrows ==
  ASSUME WalkInv, FoundTyped, [Next]_vars
  PROVE  /\ \E made \in Seq(Emittable) : entries' = entries \o made
         /\ RecordsGrow /\ ImagesTyped'
<1>1. entries \in Seq(Emittable) /\ ImagesTyped
  BY DEF FoundTyped, ImagesTyped
<1>2. ASSUME UNCHANGED entries
      PROVE  \E made \in Seq(Emittable) : entries' = entries \o made
  <2>1. entries' = entries \o <<>> /\ <<>> \in Seq(Emittable)
    BY <1>1, <1>2
  <2> QED
    BY <2>1
<1>3. UNCHANGED images => ImagesTyped'
  BY <1>1 DEF images, ImagesTyped
<1>4. CASE EmitLeaf
  <2>1. PICK leaf \in Emittable : entries' = Append(entries, leaf)
    BY <1>4, EmitLeafGrows
  <2>2. entries' = entries \o <<leaf>> /\ <<leaf>> \in Seq(Emittable)
    BY <1>1, <2>1
  <2> QED
    BY <1>4, <2>2, EmitLeafGrows DEF RecordsGrow
<1>5. CASE PassEntry /\ ~EmitLeaf
  BY <1>2, <1>3, <1>5, PassGrows
<1>6. CASE WalkChainDir \/ RefuseChainDir \/ WalkSubdir \/ RefuseSubdir \/ PassOverSubdir \/ EndDirectory
  BY <1>2, <1>3, <1>6, OtherGrows
<1>7. CASE Finalize
  <2>1. \E made \in Seq(Emittable) : entries' = entries \o made
    BY <1>7, ImagesAre
  <2>2. /\ data_tag_pairs' = <<>> /\ data_tag_lengths' \in {data_tag_lengths, <<>>}
        /\ UNCHANGED <<deferred_subdirs, maker_note>>
    BY <1>7 DEF Finalize
  <2>3. ImagesTyped'
    <3>1. <<>> \in Seq(APair) /\ <<>> \in Seq(ALength) /\ data_tag_lengths \in Seq(ALength)
      BY <1>1 DEF ImagesTyped
    <3> QED
      BY <2>2, <3>1 DEF ImagesTyped
  <2> QED
    BY <2>1, <2>2, <2>3 DEF RecordsGrow
<1>8. CASE UNCHANGED vars
  BY <1>2, <1>3, <1>8 DEF vars, found, RecordsGrow
<1> QED
  BY <1>4, <1>5, <1>6, <1>7, <1>8 DEF Next, EndDirectory, PassEntry

-----------------------------------------------------------------------------
(* The records of one step, and the walk of one block.                      *)

\* What a concatenation is, place by place.
Glued(u, s, t) ==
  /\ Len(s) \in Nat /\ Len(t) \in Nat /\ Len(u) = Len(s) + Len(t)
  /\ DOMAIN s = 1..Len(s) /\ DOMAIN t = 1..Len(t) /\ DOMAIN u = 1..(Len(s) + Len(t))
  /\ \A p \in DOMAIN s : p \in DOMAIN u /\ u[p] = s[p]
  /\ \A p \in DOMAIN t : Len(s) + p \in DOMAIN u /\ u[Len(s) + p] = t[p]
  /\ \A p \in DOMAIN u :
       \/ p \in DOMAIN s /\ u[p] = s[p]
       \/ p - Len(s) \in DOMAIN t /\ ~(p <= Len(s)) /\ u[p] = t[p - Len(s)]

\* A concatenation is glued.
LEMMA ConcatIs ==
  ASSUME NEW S, NEW s \in Seq(S), NEW t \in Seq(S)
  PROVE  s \o t \in Seq(S) /\ Glued(s \o t, s, t)
<1>1. /\ s \o t \in Seq(S) /\ Len(s) \in Nat /\ Len(t) \in Nat /\ Len(s \o t) = Len(s) + Len(t)
      /\ DOMAIN s = 1..Len(s) /\ DOMAIN t = 1..Len(t) /\ DOMAIN (s \o t) = 1..(Len(s) + Len(t))
      /\ \A p \in 1..(Len(s) + Len(t)) : (s \o t)[p] = IF p <= Len(s) THEN s[p] ELSE t[p - Len(s)]
  OBVIOUS
<1>2. \A p \in DOMAIN s : p \in DOMAIN (s \o t) /\ p <= Len(s)
  BY <1>1
<1>3. \A p \in DOMAIN t : Len(s) + p \in DOMAIN (s \o t) /\ ~(Len(s) + p <= Len(s)) /\ Len(s) + p - Len(s) = p
  BY <1>1
<1>4. \A p \in DOMAIN (s \o t) : p \in DOMAIN s \/ (p - Len(s) \in DOMAIN t /\ ~(p <= Len(s)))
  BY <1>1
<1> QED
  BY <1>1, <1>2, <1>3, <1>4 DEF Glued

\* What is added to the records, whichever step adds it.
LEMMA RecordsAdded ==
  ASSUME FoundTyped, RecordsGrow
  PROVE  \E r \in Seq(Deferrals) :
           /\ deferred_subdirs' = deferred_subdirs \o r
           /\ \A k \in DOMAIN r : r[k].kind = "ExifIfdAnchor" => r[k].dispatch_index = Len(entries)
           /\ \/ maker_note' = maker_note /\ \A k \in DOMAIN r : r[k].kind # "MakerNote"
              \/ maker_note = NoNote /\ maker_note' # NoNote /\ DOMAIN r = {1} /\ r[1].kind = "MakerNote"
<1>0. deferred_subdirs \in Seq(Deferrals) /\ Len(entries) \in Nat
  BY DEF FoundTyped
<1>1. CASE UNCHANGED <<deferred_subdirs, maker_note>>
  <2>1. deferred_subdirs' = deferred_subdirs \o <<>> /\ <<>> \in Seq(Deferrals) /\ DOMAIN <<>> = {}
    BY <1>0, <1>1
  <2> QED
    BY <1>1, <2>1
<1>2. ASSUME UNCHANGED maker_note, NEW r \in Seq(Record), deferred_subdirs' = deferred_subdirs \o r
      PROVE  \E s \in Seq(Deferrals) :
               /\ deferred_subdirs' = deferred_subdirs \o s
               /\ \A k \in DOMAIN s : s[k].kind = "Interop"
  <2>1. \A x \in Record : x \in Deferrals /\ x.kind = "Interop"
    BY DEF Record, Deferrals
  <2>2. r \in Seq(Deferrals) /\ \A k \in DOMAIN r : r[k].kind = "Interop"
    BY <2>1
  <2> QED
    BY <1>2, <2>2
<1>3. ASSUME NEW x \in Deferrals, deferred_subdirs' = Append(deferred_subdirs, x)
      PROVE  /\ deferred_subdirs' = deferred_subdirs \o <<x>> /\ <<x>> \in Seq(Deferrals)
             /\ DOMAIN <<x>> = {1} /\ <<x>>[1] = x
  BY <1>0, <1>3
<1>4. ASSUME UNCHANGED maker_note, NEW start \in Addresses,
             deferred_subdirs' = Append(deferred_subdirs,
               Deferred("ExifIfdAnchor", "ExifIFD", start, 0, NoAddress, Len(entries)))
      PROVE  \E x \in Deferrals : /\ deferred_subdirs' = Append(deferred_subdirs, x)
                                  /\ x.kind = "ExifIfdAnchor" /\ x.dispatch_index = Len(entries)
  <2> DEFINE x == Deferred("ExifIfdAnchor", "ExifIFD", start, 0, NoAddress, Len(entries))
  <2>1. "ExifIFD" \in Kinds
    BY DEF Kinds, SubKinds, PointerKinds
  <2>2. x \in Deferrals /\ x.kind = "ExifIfdAnchor" /\ x.dispatch_index = Len(entries)
    BY <1>0, <2>1 DEF Deferred, Deferrals
  <2> QED
    BY <1>4, <2>2
<1>5. ASSUME Top \in Dir,
             deferred_subdirs' = Append(deferred_subdirs,
                              Deferred("MakerNote", Top.kind, Top.start, Top.index, NoAddress, 0))
      PROVE  \E x \in Deferrals : /\ deferred_subdirs' = Append(deferred_subdirs, x)
                                  /\ x.kind = "MakerNote"
  <2> DEFINE x == Deferred("MakerNote", Top.kind, Top.start, Top.index, NoAddress, 0)
  <2>1. Top.kind \in Kinds /\ Top.start \in Addresses /\ Top.index \in Nat
    BY <1>5 DEF Dir
  <2>2. x \in Deferrals /\ x.kind = "MakerNote"
    BY <2>1 DEF Deferred, Deferrals
  <2> QED
    BY <1>5, <2>2
<1>6. CASE UNCHANGED maker_note /\ \E r \in Seq(Record) : deferred_subdirs' = deferred_subdirs \o r
  <2>1. PICK s \in Seq(Deferrals) :
               /\ deferred_subdirs' = deferred_subdirs \o s
               /\ \A k \in DOMAIN s : s[k].kind = "Interop"
    BY <1>2, <1>6
  <2>2. \A k \in DOMAIN s : s[k].kind # "ExifIfdAnchor" /\ s[k].kind # "MakerNote"
    BY <2>1
  <2> QED
    BY <1>6, <2>1, <2>2
<1>7. CASE UNCHANGED maker_note /\ \E start \in Addresses :
             deferred_subdirs' = Append(deferred_subdirs,
               Deferred("ExifIfdAnchor", "ExifIFD", start, 0, NoAddress, Len(entries)))
  <2>1. PICK x \in Deferrals : /\ deferred_subdirs' = Append(deferred_subdirs, x)
                               /\ x.kind = "ExifIfdAnchor" /\ x.dispatch_index = Len(entries)
    BY <1>4, <1>7
  <2>2. /\ deferred_subdirs' = deferred_subdirs \o <<x>> /\ <<x>> \in Seq(Deferrals)
        /\ DOMAIN <<x>> = {1} /\ <<x>>[1] = x
    BY <1>3, <2>1
  <2>3. \A k \in DOMAIN <<x>> : <<x>>[k].kind # "MakerNote" /\ <<x>>[k].dispatch_index = Len(entries)
    BY <2>1, <2>2
  <2> QED
    BY <1>7, <2>2, <2>3
<1>8. CASE /\ maker_note = NoNote /\ maker_note' # NoNote /\ Top \in Dir
           /\ deferred_subdirs' = Append(deferred_subdirs,
                              Deferred("MakerNote", Top.kind, Top.start, Top.index, NoAddress, 0))
  <2>1. PICK x \in Deferrals : deferred_subdirs' = Append(deferred_subdirs, x) /\ x.kind = "MakerNote"
    BY <1>5, <1>8
  <2>2. /\ deferred_subdirs' = deferred_subdirs \o <<x>> /\ <<x>> \in Seq(Deferrals)
        /\ DOMAIN <<x>> = {1} /\ <<x>>[1] = x
    BY <1>3, <2>1
  <2>3. \A k \in DOMAIN <<x>> : <<x>>[k].kind # "ExifIfdAnchor"
    BY <2>1, <2>2
  <2> QED
    BY <1>8, <2>1, <2>2, <2>3
<1> QED
  BY <1>1, <1>6, <1>7, <1>8 DEF RecordsGrow

\* A step of the walk keeps what is known of the records and the images.
LEMMA RecordedNext ==
  ASSUME WalkInv, Recorded, [Next]_vars
  PROVE  Recorded'
<1>1. FoundTyped
  BY DEF Recorded
<1>2. PICK made \in Seq(Emittable) : entries' = entries \o made
  BY <1>1, FoundGrows
<1>3. /\ entries' \in Seq(Emittable) /\ Len(entries) \in Nat /\ Len(entries') \in Nat
      /\ Len(entries) <= Len(entries')
  <2>1. entries \in Seq(Emittable)
    BY <1>1 DEF FoundTyped
  <2>2. /\ entries \o made \in Seq(Emittable) /\ Len(entries) \in Nat /\ Len(made) \in Nat
        /\ Len(entries \o made) = Len(entries) + Len(made)
    BY <2>1, ConcatIs DEF Glued
  <2> QED
    BY <1>2, <2>2
<1>4. PICK r \in Seq(Deferrals) :
           /\ deferred_subdirs' = deferred_subdirs \o r
           /\ \A k \in DOMAIN r : r[k].kind = "ExifIfdAnchor" => r[k].dispatch_index = Len(entries)
           /\ \/ maker_note' = maker_note /\ \A k \in DOMAIN r : r[k].kind # "MakerNote"
              \/ maker_note = NoNote /\ maker_note' # NoNote /\ DOMAIN r = {1} /\ r[1].kind = "MakerNote"
  BY <1>1, FoundGrows, RecordsAdded
<1> DEFINE d == deferred_subdirs
<1>5. d \in Seq(Deferrals)
  BY <1>1 DEF FoundTyped
<1>6. /\ d \o r \in Seq(Deferrals) /\ Len(d) \in Nat
      /\ DOMAIN d = 1..Len(d) /\ DOMAIN r = 1..Len(r) /\ DOMAIN (d \o r) = 1..(Len(d) + Len(r))
      /\ \A p \in DOMAIN d : p \in DOMAIN (d \o r) /\ (d \o r)[p] = d[p]
      /\ \A p \in DOMAIN r : Len(d) + p \in DOMAIN (d \o r) /\ (d \o r)[Len(d) + p] = r[p]
      /\ \A p \in DOMAIN (d \o r) :
           \/ p \in DOMAIN d /\ (d \o r)[p] = d[p]
           \/ p - Len(d) \in DOMAIN r /\ ~(p <= Len(d)) /\ (d \o r)[p] = r[p - Len(d)]
  BY <1>5, ConcatIs DEF Glued
<1>7. FoundTyped'
  BY <1>1, <1>3, <1>4, <1>6, FoundGrows DEF FoundTyped, ImagesTyped
<1>8. AnchorsPlaced(d, Len(entries)) /\ NoteRecorded(d, maker_note)
  BY DEF Recorded
<1> HIDE DEF d
<1>9. AnchorsPlaced(d \o r, Len(entries'))
  <2> SUFFICES ASSUME NEW p \in DOMAIN (d \o r), (d \o r)[p].kind = "ExifIfdAnchor"
               PROVE  (d \o r)[p].dispatch_index <= Len(entries')
    BY DEF AnchorsPlaced
  <2>1. CASE p \in DOMAIN d /\ (d \o r)[p] = d[p]
    <3>1. d[p].dispatch_index <= Len(entries)
      BY <1>8, <2>1 DEF AnchorsPlaced
    <3>2. d[p] \in Deferrals
      BY <1>5, <2>1
    <3>3. d[p].dispatch_index \in Nat
      BY <3>2 DEF Deferrals
    <3> QED
      BY <1>3, <2>1, <3>1, <3>3
  <2>2. CASE p - Len(d) \in DOMAIN r /\ (d \o r)[p] = r[p - Len(d)]
    BY <1>3, <1>4, <2>2
  <2> QED
    BY <1>6, <2>1, <2>2
<1>10. NoteRecorded(d \o r, maker_note')
  <2>1. CASE maker_note' = maker_note /\ \A k \in DOMAIN r : r[k].kind # "MakerNote"
    <3>1. CASE maker_note = NoNote
      <4>1. \A p \in DOMAIN d : d[p].kind # "MakerNote"
        BY <1>8, <3>1 DEF NoteRecorded
      <4> QED
        BY <1>6, <2>1, <3>1, <4>1 DEF NoteRecorded
    <3>2. CASE maker_note # NoNote
      <4>1. PICK n \in DOMAIN d : \A p \in DOMAIN d : d[p].kind = "MakerNote" <=> p = n
        BY <1>8, <3>2 DEF NoteRecorded
      <4>2. \A p \in DOMAIN (d \o r) : (d \o r)[p].kind = "MakerNote" <=> p = n
        <5> TAKE p \in DOMAIN (d \o r)
        <5>1. CASE p \in DOMAIN d /\ (d \o r)[p] = d[p]
          BY <4>1, <5>1
        <5>2. CASE p - Len(d) \in DOMAIN r /\ ~(p <= Len(d)) /\ (d \o r)[p] = r[p - Len(d)]
          <6>1. p # n
            BY <1>6, <5>2
          <6> QED
            BY <2>1, <5>2, <6>1
        <5> QED
          BY <1>6, <5>1, <5>2
      <4>3. n \in DOMAIN (d \o r)
        BY <1>6
      <4> QED
        BY <2>1, <3>2, <4>2, <4>3 DEF NoteRecorded
    <3> QED
      BY <3>1, <3>2
  <2>2. CASE maker_note = NoNote /\ maker_note' # NoNote /\ DOMAIN r = {1} /\ r[1].kind = "MakerNote"
    <3>1. \A p \in DOMAIN d : d[p].kind # "MakerNote"
      BY <1>8, <2>2 DEF NoteRecorded
    <3> DEFINE n == Len(d) + 1
    <3>2. n \in DOMAIN (d \o r) /\ (d \o r)[n] = r[1]
      BY <1>6, <2>2
    <3>3. \A p \in DOMAIN (d \o r) : (d \o r)[p].kind = "MakerNote" <=> p = n
      <4> TAKE p \in DOMAIN (d \o r)
      <4>1. CASE p \in DOMAIN d /\ (d \o r)[p] = d[p]
        <5>1. p # n
          BY <1>6, <4>1
        <5> QED
          BY <3>1, <4>1, <5>1
      <4>2. CASE p - Len(d) \in DOMAIN r /\ ~(p <= Len(d)) /\ (d \o r)[p] = r[p - Len(d)]
        <5>1. p - Len(d) = 1 /\ p \in 1..(Len(d) + Len(r))
          BY <1>6, <2>2, <4>2
        <5>2. p = n
          BY <1>6, <5>1
        <5> QED
          BY <3>2, <2>2, <5>2
      <4> QED
        BY <1>6, <4>1, <4>2
    <3> HIDE DEF n
    <3> QED
      BY <2>2, <3>2, <3>3 DEF NoteRecorded
  <2> QED
    BY <1>4, <2>1, <2>2
<1>11. deferred_subdirs' = d \o r
  BY <1>4 DEF d
<1> QED
  BY <1>7, <1>9, <1>10, <1>11 DEF Recorded

\* A block that was not walked yet has recorded nothing.
LEMMA InitRecorded == Fresh => Recorded
<1> SUFFICES ASSUME Fresh PROVE Recorded
  OBVIOUS
<1>1. /\ entries = <<>> /\ deferred_subdirs = <<>> /\ maker_note = NoNote
      /\ data_tag_pairs = <<>> /\ data_tag_lengths = <<>>
  BY DEF Fresh
<1>2. FoundTyped
  BY <1>1 DEF FoundTyped
<1>3. DOMAIN deferred_subdirs = {}
  BY <1>1
<1> QED
  BY <1>1, <1>2, <1>3 DEF Recorded, NoteRecorded, AnchorsPlaced

-----------------------------------------------------------------------------
(* The latest value of a key in a list of marks, pairs of a key and a value. *)

Latest(s, key, value) ==
  \E n \in DOMAIN s : s[n] = <<key, value>> /\ \A j \in DOMAIN s : j > n => s[j][1] # key

\* A list with one mark more than another.
MarkAdded(s, t, mark) ==
  \E l \in Nat :
    /\ DOMAIN s = 1..l /\ DOMAIN t = 1..(l + 1)
    /\ t[l + 1] = mark /\ \A n \in 1..l : t[n] = s[n]

\* A list, from 1 to its length.
MarksNumbered(s) == \E l \in Nat : DOMAIN s = 1..l

\* A key that does not occur has none.
LEMMA LatestNone ==
  ASSUME NEW s, NEW key, NEW value, \A n \in DOMAIN s : s[n][1] # key
  PROVE  ~Latest(s, key, value)
BY DEF Latest

\* One mark more.
LEMMA LatestAppend ==
  ASSUME NEW s, NEW t, NEW key, NEW value, MarkAdded(s, t, <<key, value>>), NEW other, NEW x
  PROVE  Latest(t, other, x) <=> IF key = other THEN x = value ELSE Latest(s, other, x)
<1>1. PICK l \in Nat :
        /\ DOMAIN s = 1..l /\ DOMAIN t = 1..(l + 1)
        /\ t[l + 1] = <<key, value>> /\ \A n \in 1..l : t[n] = s[n]
  BY DEF MarkAdded
<1>2. CASE key = other
  <2>1. ASSUME Latest(t, other, x) PROVE x = value
    <3>1. PICK n \in DOMAIN t : t[n] = <<other, x>> /\ \A j \in DOMAIN t : j > n => t[j][1] # other
      BY <2>1 DEF Latest
    <3>2. ~(l + 1 > n)
      BY <1>1, <1>2, <3>1
    <3>3. n = l + 1
      BY <1>1, <3>2
    <3> QED
      BY <1>1, <3>1, <3>3
  <2>2. ASSUME x = value PROVE Latest(t, other, x)
    <3>1. l + 1 \in DOMAIN t /\ t[l + 1] = <<other, x>> /\ \A j \in DOMAIN t : ~(j > l + 1)
      BY <1>1, <1>2, <2>2
    <3> QED
      BY <3>1 DEF Latest
  <2> QED
    BY <1>2, <2>1, <2>2
<1>3. CASE key # other
  <2>1. ASSUME Latest(t, other, x) PROVE Latest(s, other, x)
    <3>1. PICK n \in DOMAIN t : t[n] = <<other, x>> /\ \A j \in DOMAIN t : j > n => t[j][1] # other
      BY <2>1 DEF Latest
    <3>2. n # l + 1
      BY <1>1, <1>3, <3>1
    <3>3. n \in 1..l
      BY <1>1, <3>1, <3>2
    <3>4. s[n] = <<other, x>> /\ \A j \in 1..l : j > n => s[j][1] # other
      BY <1>1, <3>1, <3>3
    <3> QED
      BY <1>1, <3>3, <3>4 DEF Latest
  <2>2. ASSUME Latest(s, other, x) PROVE Latest(t, other, x)
    <3>1. PICK n \in 1..l : s[n] = <<other, x>> /\ \A j \in 1..l : j > n => s[j][1] # other
      BY <1>1, <2>2 DEF Latest
    <3>2. n \in 1..(l + 1) /\ t[n] = <<other, x>>
      BY <1>1, <3>1
    <3>3. \A j \in 1..(l + 1) : j \in 1..l \/ j = l + 1
      BY <1>1
    <3>4. t[l + 1][1] # other
      BY <1>1, <1>3
    <3>5. \A j \in 1..(l + 1) : j > n => t[j][1] # other
      BY <1>1, <3>1, <3>3, <3>4
    <3> QED
      BY <1>1, <3>2, <3>5 DEF Latest
  <2> QED
    BY <1>3, <2>1, <2>2
<1> QED
  BY <1>2, <1>3

\* There is one at most.
LEMMA LatestUnique ==
  ASSUME NEW s, MarksNumbered(s), NEW key, NEW x, NEW y, Latest(s, key, x), Latest(s, key, y)
  PROVE  x = y
<1>1. PICK n \in DOMAIN s : s[n] = <<key, x>> /\ \A j \in DOMAIN s : j > n => s[j][1] # key
  BY DEF Latest
<1>2. PICK m \in DOMAIN s : s[m] = <<key, y>> /\ \A j \in DOMAIN s : j > m => s[j][1] # key
  BY DEF Latest
<1>3. ~(m > n) /\ ~(n > m) /\ n \in Nat /\ m \in Nat
  BY <1>1, <1>2 DEF MarksNumbered
<1>4. m = n
  BY <1>3
<1> QED
  BY <1>1, <1>2, <1>4

\* A key that occurs has a latest value.
LEMMA LatestExists ==
  ASSUME NEW s, MarksNumbered(s), NEW key, NEW n \in DOMAIN s, s[n][1] = key,
         \A m \in DOMAIN s : s[m] = <<s[m][1], s[m][2]>>
  PROVE  \E m \in DOMAIN s : m >= n /\ s[m] = <<key, s[m][2]>>
                             /\ (\A j \in DOMAIN s : j > m => s[j][1] # key)
                             /\ Latest(s, key, s[m][2])
<1> DEFINE S == {m \in DOMAIN s : s[m][1] = key}
<1>0. PICK l \in Nat : DOMAIN s = 1..l
  BY DEF MarksNumbered
<1>1. S \in SUBSET Nat /\ n \in S /\ \A m \in S : m <= l
  BY <1>0
<1>2. PICK m \in S : \A j \in S : j <= m
  <2> HIDE DEF S
  <2>1. S # {}
    BY <1>1
  <2> QED
    BY <1>1, <2>1, GreatestNumber
<1>3. m \in DOMAIN s /\ m >= n /\ s[m] = <<key, s[m][2]>>
  BY <1>1, <1>2
<1>4. \A j \in DOMAIN s : j > m => s[j][1] # key
  BY <1>1, <1>2
<1> QED
  BY <1>3, <1>4 DEF Latest

-----------------------------------------------------------------------------
(* What the leaves, the entries read and the halves of images say last.     *)

\* The leaves by their directory, the leaves by their walk, the entries read of one
\* directory, the lengths and the offsets kept by theirs.
LeafMarks(es) == [n \in DOMAIN es |-> <<<<es[n].own_ifd_start, es[n].ifd, es[n].what>>, es[n].value>>]
WalkMarks(es) == [n \in DOMAIN es |-> <<<<es[n].walk, es[n].what>>, es[n].value>>]
ReadMarks(read, upto) == [n \in 1..upto |-> <<read[n].what, read[n].value>>]
LengthMarks(ls) == [n \in DOMAIN ls |-> <<<<ls[n].ifd_start, ls[n].ifd, ls[n].tag>>, ls[n].length>>]
PairMarks(ps) == [n \in DOMAIN ps |-> <<<<ps[n].ifd_start, ps[n].ifd, ps[n].length_tag>>, ps[n].offset>>]

\* One mark of each.
LeafMark(leaf) == <<<<leaf.own_ifd_start, leaf.ifd, leaf.what>>, leaf.value>>
WalkMark(leaf) == <<<<leaf.walk, leaf.what>>, leaf.value>>
LengthMark(l) == <<<<l.ifd_start, l.ifd, l.tag>>, l.length>>
PairMark(p) == <<<<p.ifd_start, p.ifd, p.length_tag>>, p.offset>>

\* The marks of a sequence are a list ...
LEMMA MarksListed ==
  ASSUME NEW P, NEW s \in Seq(P)
  PROVE  MarksNumbered(LeafMarks(s)) /\ MarksNumbered(WalkMarks(s)) /\ MarksNumbered(LengthMarks(s)) /\ MarksNumbered(PairMarks(s))
<1>1. DOMAIN s = 1..Len(s) /\ Len(s) \in Nat
  OBVIOUS
<1> QED
  BY <1>1 DEF MarksNumbered, LeafMarks, WalkMarks, LengthMarks, PairMarks

\* ... and of a longer one they are longer by one.
LEMMA MarksAppend ==
  ASSUME NEW P, NEW s \in Seq(P), NEW x \in P
  PROVE  /\ MarkAdded(LeafMarks(s), LeafMarks(Append(s, x)), LeafMark(x))
         /\ MarkAdded(WalkMarks(s), WalkMarks(Append(s, x)), WalkMark(x))
         /\ MarkAdded(LengthMarks(s), LengthMarks(Append(s, x)), LengthMark(x))
         /\ MarkAdded(PairMarks(s), PairMarks(Append(s, x)), PairMark(x))
<1>1. PICK l, t : l = Len(s) /\ t = Append(s, x)
  OBVIOUS
<1>2. /\ l \in Nat /\ DOMAIN s = 1..l /\ DOMAIN t = 1..(l + 1)
      /\ t[l + 1] = x /\ \A n \in 1..l : t[n] = s[n]
  BY <1>1
<1>3. 1..l \subseteq 1..(l + 1) /\ l + 1 \in 1..(l + 1)
  BY <1>2
<1>4. MarkAdded(LeafMarks(s), LeafMarks(t), LeafMark(x))
  BY <1>2, <1>3 DEF MarkAdded, LeafMarks, LeafMark
<1>5. MarkAdded(WalkMarks(s), WalkMarks(t), WalkMark(x))
  BY <1>2, <1>3 DEF MarkAdded, WalkMarks, WalkMark
<1>6. MarkAdded(LengthMarks(s), LengthMarks(t), LengthMark(x))
  BY <1>2, <1>3 DEF MarkAdded, LengthMarks, LengthMark
<1>7. MarkAdded(PairMarks(s), PairMarks(t), PairMark(x))
  BY <1>2, <1>3 DEF MarkAdded, PairMarks, PairMark
<1> QED
  BY <1>1, <1>4, <1>5, <1>6, <1>7

\* An entry read on is one mark more.
LEMMA ReadMarksNext ==
  ASSUME NEW read, NEW upto \in Nat
  PROVE  /\ MarksNumbered(ReadMarks(read, upto))
         /\ MarkAdded(ReadMarks(read, upto), ReadMarks(read, upto + 1),
                    <<read[upto + 1].what, read[upto + 1].value>>)
BY DEF ReadMarks, MarkAdded, MarksNumbered

\* What is read after them changes no marks.
LEMMA ReadMarksSame ==
  ASSUME NEW read, NEW other, NEW upto \in Nat, \A n \in 1..upto : other[n] = read[n]
  PROVE  ReadMarks(other, upto) = ReadMarks(read, upto)
BY DEF ReadMarks

-----------------------------------------------------------------------------
(* A walk finds the leaves of its directory: of each kind that its table    *)
(* knows, the last one found is the last one read.                          *)

FoundAs(es, w, kind, read, upto) ==
  \A what \in MainLeaves : \A v :
    Latest(WalkMarks(es), <<w, what>>, v) <=>
      what \in LeavesOf(table_for_ifd_kind(kind)) /\ Latest(ReadMarks(read, upto), what, v)

\* What was found is told from the entries that were read only.
LEMMA FoundAsSame ==
  ASSUME NEW es, NEW w, NEW kind, NEW read, NEW other, NEW upto \in Nat,
         \A n \in 1..upto : other[n] = read[n], FoundAs(es, w, kind, read, upto)
  PROVE  FoundAs(es, w, kind, other, upto)
BY ReadMarksSame DEF FoundAs

\* Nothing was found where nothing was read.
LEMMA FoundAsNone ==
  ASSUME NEW es, NEW w, NEW kind, NEW read, \A n \in DOMAIN es : es[n].walk # w
  PROVE  FoundAs(es, w, kind, read, 0)
<1> SUFFICES ASSUME NEW what \in MainLeaves, NEW v
             PROVE  Latest(WalkMarks(es), <<w, what>>, v) <=>
                      what \in LeavesOf(table_for_ifd_kind(kind)) /\ Latest(ReadMarks(read, 0), what, v)
  BY DEF FoundAs
<1>1. ~Latest(WalkMarks(es), <<w, what>>, v)
  <2>1. DOMAIN WalkMarks(es) = DOMAIN es
    BY DEF WalkMarks
  <2>2. \A n \in DOMAIN es : WalkMarks(es)[n][1] # <<w, what>>
    BY DEF WalkMarks
  <2> QED
    BY <2>1, <2>2, LatestNone
<1>2. ~Latest(ReadMarks(read, 0), what, v)
  BY DEF Latest, ReadMarks
<1> QED
  BY <1>1, <1>2

\* An entry that is no leaf of its table adds nothing.
LEMMA FoundAsPassed ==
  ASSUME NEW es, NEW w, NEW kind, NEW read, NEW upto \in Nat, FoundAs(es, w, kind, read, upto),
         read[upto + 1].what \notin LeavesOf(table_for_ifd_kind(kind))
  PROVE  FoundAs(es, w, kind, read, upto + 1)
<1> SUFFICES ASSUME NEW what \in MainLeaves, NEW v
             PROVE  Latest(WalkMarks(es), <<w, what>>, v) <=>
                      what \in LeavesOf(table_for_ifd_kind(kind)) /\ Latest(ReadMarks(read, upto + 1), what, v)
  BY DEF FoundAs
<1>1. Latest(WalkMarks(es), <<w, what>>, v) <=>
        what \in LeavesOf(table_for_ifd_kind(kind)) /\ Latest(ReadMarks(read, upto), what, v)
  BY DEF FoundAs
<1>2. MarkAdded(ReadMarks(read, upto), ReadMarks(read, upto + 1),
              <<read[upto + 1].what, read[upto + 1].value>>)
  BY ReadMarksNext
<1>3. read[upto + 1].what # what =>
        (Latest(ReadMarks(read, upto + 1), what, v) <=> Latest(ReadMarks(read, upto), what, v))
  BY <1>2, LatestAppend
<1> QED
  BY <1>1, <1>3

\* A leaf of another walk adds nothing either ...
LEMMA FoundAsElsewhere ==
  ASSUME NEW P, NEW es \in Seq(P), NEW leaf \in P, NEW w, NEW kind, NEW read, NEW upto,
         FoundAs(es, w, kind, read, upto), leaf.walk # w
  PROVE  FoundAs(Append(es, leaf), w, kind, read, upto)
<1> SUFFICES ASSUME NEW what \in MainLeaves, NEW v
             PROVE  Latest(WalkMarks(Append(es, leaf)), <<w, what>>, v) <=>
                      what \in LeavesOf(table_for_ifd_kind(kind)) /\ Latest(ReadMarks(read, upto), what, v)
  BY DEF FoundAs
<1>1. Latest(WalkMarks(es), <<w, what>>, v) <=>
        what \in LeavesOf(table_for_ifd_kind(kind)) /\ Latest(ReadMarks(read, upto), what, v)
  BY DEF FoundAs
<1>2. MarkAdded(WalkMarks(es), WalkMarks(Append(es, leaf)), <<<<leaf.walk, leaf.what>>, leaf.value>>)
  BY MarksAppend DEF WalkMark
<1>3. <<leaf.walk, leaf.what>> # <<w, what>>
  OBVIOUS
<1>4. Latest(WalkMarks(Append(es, leaf)), <<w, what>>, v) <=> Latest(WalkMarks(es), <<w, what>>, v)
  BY <1>2, <1>3, LatestAppend
<1> QED
  BY <1>1, <1>4

\* ... and a leaf of this one is the entry read.
LEMMA FoundAsLeaf ==
  ASSUME NEW P, NEW es \in Seq(P), NEW leaf \in P, NEW kind, NEW read, NEW upto \in Nat,
         FoundAs(es, leaf.walk, kind, read, upto),
         leaf.what = read[upto + 1].what, leaf.value = read[upto + 1].value,
         leaf.what \in LeavesOf(table_for_ifd_kind(kind))
  PROVE  FoundAs(Append(es, leaf), leaf.walk, kind, read, upto + 1)
<1> DEFINE w == leaf.walk
<1> SUFFICES ASSUME NEW what \in MainLeaves, NEW v
             PROVE  Latest(WalkMarks(Append(es, leaf)), <<w, what>>, v) <=>
                      what \in LeavesOf(table_for_ifd_kind(kind))
                        /\ Latest(ReadMarks(read, upto + 1), what, v)
  BY DEF FoundAs
<1>1. Latest(WalkMarks(es), <<w, what>>, v) <=>
        what \in LeavesOf(table_for_ifd_kind(kind)) /\ Latest(ReadMarks(read, upto), what, v)
  BY DEF FoundAs
<1>2. MarkAdded(WalkMarks(es), WalkMarks(Append(es, leaf)), <<<<w, leaf.what>>, leaf.value>>)
  BY MarksAppend DEF WalkMark
<1>3. MarkAdded(ReadMarks(read, upto), ReadMarks(read, upto + 1), <<leaf.what, leaf.value>>)
  BY ReadMarksNext
<1>4. <<w, leaf.what>> = <<w, what>> <=> leaf.what = what
  OBVIOUS
<1>5. Latest(WalkMarks(Append(es, leaf)), <<w, what>>, v) <=>
        IF <<w, leaf.what>> = <<w, what>> THEN v = leaf.value ELSE Latest(WalkMarks(es), <<w, what>>, v)
  BY <1>2, LatestAppend
<1>6. Latest(ReadMarks(read, upto + 1), what, v) <=>
        IF leaf.what = what THEN v = leaf.value ELSE Latest(ReadMarks(read, upto), what, v)
  BY <1>3, LatestAppend
<1> QED
  BY <1>1, <1>4, <1>5, <1>6

-----------------------------------------------------------------------------
(* The invariant of the leaves and the halves of images of one block.       *)

\* An entry was only read where every entry before it could be passed.
Passable(read) ==
  \A k \in DOMAIN read :
    Counted(read, k - 1) <= MaxWarnings /\ \A m \in 1..(k - 1) : ~Stopper(read[m], m - 1)

\* A leaf is placed in the directory of its walk, which is open or ended.
LeavesPlaced ==
  \A n \in DOMAIN entries :
    LET w == entries[n].walk
    IN  /\ entries[n].what \in MainLeaves
        /\ w \in DOMAIN walks
        /\ walks[w].start = entries[n].own_ifd_start /\ walks[w].kind = entries[n].ifd
        /\ \/ walks[w].outcome \in {"whole", "aborted"}
           \/ \E m \in DOMAIN stack : stack[m].walk = w

\* An open walk has found what it has read so far, an ended one all that was read.
FoundAsRead ==
  /\ \A n \in DOMAIN stack :
       FoundAs(entries, stack[n].walk, stack[n].kind, disk[stack[n].start].entries, stack[n].index)
  /\ \A w \in DOMAIN walks :
       walks[w].outcome \in {"whole", "aborted"} =>
         FoundAs(entries, w, walks[w].kind, disk[walks[w].start].entries,
                 Len(disk[walks[w].start].entries))

\* The last length of a directory is that of its last length leaf, and the last
\* offset of a thumbnail that of its last leaf.
HalvesKept ==
  /\ \A start, kind : \A tag \in Lengths : \A v :
       Latest(LengthMarks(data_tag_lengths), <<start, kind, tag>>, v) <=>
         Latest(LeafMarks(entries), <<start, kind, tag>>, v)
  /\ \A start, kind : \A v :
       Latest(PairMarks(data_tag_pairs), <<start, kind, "ThumbnailLength">>, v) <=>
         Latest(LeafMarks(entries), <<start, kind, "ThumbnailOffset">>, v)

\* A pair is the offset leaf of a walk, and thumbnails are told by their name.
PairsPlaced ==
  \A j \in DOMAIN data_tag_pairs :
    LET pair == data_tag_pairs[j]
    IN  /\ pair.length_tag = "ThumbnailLength" <=> pair.data_tag = ThumbnailOf(pair.ifd)
        /\ \E n \in DOMAIN entries :
             /\ entries[n].own_ifd_start = pair.ifd_start /\ entries[n].ifd = pair.ifd
             /\ entries[n].what \in {"StripOffsets", "ThumbnailOffset"}
             /\ OffsetPair(entries[n].what) = pair.length_tag /\ entries[n].value = pair.offset

\* The invariant, while the block is walked.
LeavesInv ==
  /\ \A a \in Addresses : Passable(disk[a].entries)
  /\ LeavesPlaced /\ FoundAsRead /\ HalvesKept /\ PairsPlaced

-----------------------------------------------------------------------------
(* The steps that read nothing.                                             *)

\* Walks are only added, and a directory that is opened has read nothing yet.
QuietStep ==
  /\ UNCHANGED <<entries, images, file_type>>
  /\ \A a \in Addresses : disk'[a].entries = disk[a].entries
  /\ \A w \in DOMAIN walks : w \in DOMAIN walks' /\ walks'[w] = walks[w]
  /\ \A w \in DOMAIN walks' : w \in DOMAIN walks \/ walks'[w].outcome \notin {"whole", "aborted"}
  /\ \A n \in DOMAIN stack :
       n \in DOMAIN stack' /\ stack'[n].walk = stack[n].walk
  /\ \A n \in DOMAIN stack' :
       \/ /\ n \in DOMAIN stack /\ stack'[n].walk = stack[n].walk /\ stack'[n].kind = stack[n].kind
          /\ stack'[n].start = stack[n].start /\ stack'[n].index = stack[n].index
       \/ stack'[n].walk \notin DOMAIN walks /\ stack'[n].index = 0

\* Every open directory is at an address.
LEMMA StartsTyped == Typed => \A n \in DOMAIN stack : stack[n].start \in Addresses
BY DirsTyped

\* A step that reads nothing keeps the invariant.
LEMMA QuietKeeps ==
  ASSUME WalkInv, WalkInv', LeavesInv, QuietStep
  PROVE  LeavesInv'
<1>0. \A n \in DOMAIN stack' : stack'[n].start \in Addresses
  <2>1. Typed'
    BY DEF WalkInv
  <2>2. (Typed => \A n \in DOMAIN stack : stack[n].start \in Addresses)'
    BY StartsTyped, PTL
  <2> QED
    BY <2>1, <2>2
<1>1. \A a \in Addresses : Passable(disk'[a].entries)
  BY DEF LeavesInv, QuietStep
<1>2. UNCHANGED <<entries, data_tag_pairs, data_tag_lengths, file_type>>
  BY DEF QuietStep, images
<1>3. LeavesPlaced'
  <2>1. \A n \in DOMAIN entries :
          LET w == entries[n].walk
          IN  /\ entries[n].what \in MainLeaves
              /\ w \in DOMAIN walks'
              /\ walks'[w].start = entries[n].own_ifd_start /\ walks'[w].kind = entries[n].ifd
              /\ \/ walks'[w].outcome \in {"whole", "aborted"}
                 \/ \E m \in DOMAIN stack' : stack'[m].walk = w
    <3> SUFFICES ASSUME NEW n \in DOMAIN entries
                 PROVE  LET w == entries[n].walk
                        IN  /\ entries[n].what \in MainLeaves
                            /\ w \in DOMAIN walks'
                            /\ walks'[w].start = entries[n].own_ifd_start
                            /\ walks'[w].kind = entries[n].ifd
                            /\ \/ walks'[w].outcome \in {"whole", "aborted"}
                               \/ \E m \in DOMAIN stack' : stack'[m].walk = w
      OBVIOUS
    <3>1. PICK w : w = entries[n].walk
      OBVIOUS
    <3>2. /\ entries[n].what \in MainLeaves /\ w \in DOMAIN walks
          /\ walks[w].start = entries[n].own_ifd_start /\ walks[w].kind = entries[n].ifd
          /\ \/ walks[w].outcome \in {"whole", "aborted"}
             \/ \E m \in DOMAIN stack : stack[m].walk = w
      BY <3>1 DEF LeavesInv, LeavesPlaced
    <3>3. w \in DOMAIN walks' /\ walks'[w] = walks[w]
      BY <3>2 DEF QuietStep
    <3>4. (\E m \in DOMAIN stack : stack[m].walk = w) => \E m \in DOMAIN stack' : stack'[m].walk = w
      BY DEF QuietStep
    <3> QED
      BY <3>1, <3>2, <3>3, <3>4
  <2> QED
    BY <1>2, <2>1 DEF LeavesPlaced
<1>4. FoundAsRead'
  <2>1. ASSUME NEW n \in DOMAIN stack'
        PROVE  FoundAs(entries, stack'[n].walk, stack'[n].kind, disk'[stack'[n].start].entries,
                       stack'[n].index)
    <3>0. stack'[n].start \in Addresses
      BY <1>0
    <3>1. disk'[stack'[n].start].entries = disk[stack'[n].start].entries
      BY <3>0 DEF QuietStep
    <3>2. CASE /\ n \in DOMAIN stack /\ stack'[n].walk = stack[n].walk /\ stack'[n].kind = stack[n].kind
               /\ stack'[n].start = stack[n].start /\ stack'[n].index = stack[n].index
      BY <3>1, <3>2 DEF LeavesInv, FoundAsRead
    <3>3. CASE stack'[n].walk \notin DOMAIN walks /\ stack'[n].index = 0
      <4>1. \A k \in DOMAIN entries : entries[k].walk # stack'[n].walk
        BY <3>3 DEF LeavesInv, LeavesPlaced
      <4>2. PICK w, kind, read : w = stack'[n].walk /\ kind = stack'[n].kind
                                  /\ read = disk'[stack'[n].start].entries
        OBVIOUS
      <4>3. FoundAs(entries, w, kind, read, 0)
        BY <4>1, <4>2, FoundAsNone
      <4> QED
        BY <3>3, <4>2, <4>3
    <3> QED
      BY <3>2, <3>3 DEF QuietStep
  <2>2. ASSUME NEW w \in DOMAIN walks', walks'[w].outcome \in {"whole", "aborted"}
        PROVE  FoundAs(entries, w, walks'[w].kind, disk'[walks'[w].start].entries,
                       Len(disk'[walks'[w].start].entries))
    <3>1. w \in DOMAIN walks /\ walks'[w] = walks[w]
      BY <2>2 DEF QuietStep
    <3>2. walks[w].start \in Addresses
      BY <3>1, WalksTyped DEF WalkInv
    <3> QED
      BY <2>2, <3>1, <3>2 DEF LeavesInv, FoundAsRead, QuietStep
  <2> QED
    BY <1>2, <2>1, <2>2 DEF FoundAsRead
<1>5. HalvesKept'
  BY <1>2 DEF LeavesInv, HalvesKept
<1>6. PairsPlaced'
  BY <1>2 DEF LeavesInv, PairsPlaced, ThumbnailOf, ImageOf, JpegPreview
<1> QED
  BY <1>1, <1>3, <1>4, <1>5, <1>6 DEF LeavesInv

\* A directory that is opened has no entry that was not there before.
LEMMA OpenReadsNothing ==
  ASSUME WalkInv, ~finished, NEW start \in Addresses, NEW kind \in Kinds,
         NEW body \in Bodies(start), Open(start, kind, body)
  PROVE  \A a \in Addresses : disk'[a].entries = disk[a].entries
<1>1. /\ disk'[start] = body /\ \A a \in Addresses : a # start => disk'[a] = disk[a]
  BY OpenTyped DEF WalkInv
<1>2. CASE disk[start] # Unseen
  BY <1>1, <1>2, BodiesTyped DEF WalkInv
<1>3. CASE disk[start] = Unseen
  <2>1. body = Broken \/ \E n : body = Readable(n)
    BY <1>3 DEF Bodies
  <2>2. body.entries = <<>> /\ disk[start].entries = <<>>
    BY <1>3, <2>1 DEF Broken, Readable, Unseen
  <2> QED
    BY <1>1, <2>2
<1> QED
  BY <1>2, <1>3

\* What the walks of a step that opens or refuses a directory have to do with QuietStep.
QuietWalks ==
  /\ \A w \in DOMAIN walks : w \in DOMAIN walks' /\ walks'[w] = walks[w]
  /\ \A w \in DOMAIN walks' : w \in DOMAIN walks \/ walks'[w].outcome \notin {"whole", "aborted"}

\* A walk that is opened or refused is added behind the others.
LEMMA WalksKeptQuiet ==
  ASSUME Typed, NEW start, NEW kind, NEW outcomes \in SUBSET {"open", "broken", "refused"},
         WalksKept(start, kind, outcomes)
  PROVE  QuietWalks /\ Len(walks) + 1 \notin DOMAIN walks
<1>1. DOMAIN walks = 1..Len(walks) /\ Len(walks) \in Nat
  BY DEF Typed
<1>2. /\ DOMAIN walks' = 1..(Len(walks) + 1) /\ \A n \in DOMAIN walks : walks'[n] = walks[n]
      /\ walks'[Len(walks) + 1].outcome \notin {"whole", "aborted"}
  BY DEF WalksKept
<1>3. \A n \in 1..(Len(walks) + 1) : n \in 1..Len(walks) \/ n = Len(walks) + 1
  BY <1>1
<1> QED
  BY <1>1, <1>2, <1>3 DEF QuietWalks

\* The stack of a step that opens at most one directory.
QuietStack ==
  /\ \A n \in DOMAIN stack : n \in DOMAIN stack' /\ stack'[n].walk = stack[n].walk
  /\ \A n \in DOMAIN stack' :
       \/ /\ n \in DOMAIN stack /\ stack'[n].walk = stack[n].walk /\ stack'[n].kind = stack[n].kind
          /\ stack'[n].start = stack[n].start /\ stack'[n].index = stack[n].index
       \/ stack'[n].walk \notin DOMAIN walks /\ stack'[n].index = 0

\* A pointer that is taken leaves the open directories where they are ...
LEMMA TakenQuiet ==
  ASSUME WalkInv, Pending, stack' = WithTop(Taken)
  PROVE  QuietStack
BY TakenStack DEF QuietStack

\* ... and so does a directory that is opened on top of them.
LEMMA PushedQuiet ==
  ASSUME WalkInv, Pending, NEW opened \in Dir, opened.index = 0, opened.walk \notin DOMAIN walks,
         stack' = Append(WithTop(Taken), opened)
  PROVE  QuietStack
<1> DEFINE l == Len(stack)
<1>1. l \in Nat
  BY DEF WalkInv, Typed
<1>2. PICK below : below = WithTop(Taken)
  OBVIOUS
<1>3. /\ below \in Seq(Dir) /\ Len(below) = l
      /\ DOMAIN below = 1..l /\ DOMAIN stack = 1..l
      /\ \A n \in 1..l :
           /\ below[n].start = stack[n].start /\ below[n].kind = stack[n].kind
           /\ below[n].index = stack[n].index /\ below[n].walk = stack[n].walk
  BY <1>2, TakenStack
<1> HIDE DEF l
<1>4. /\ DOMAIN stack' = 1..(l + 1) /\ stack'[l + 1] = opened
      /\ \A n \in 1..l : stack'[n] = below[n]
  BY <1>1, <1>2, <1>3
<1>5. \A n \in 1..(l + 1) : n \in 1..l \/ n = l + 1
  BY <1>1
<1> QED
  BY <1>1, <1>3, <1>4, <1>5 DEF QuietStack

\* The parts of a quiet step.
LEMMA QuietParts ==
  ASSUME UNCHANGED <<entries, images, file_type>>,
         \A a \in Addresses : disk'[a].entries = disk[a].entries, QuietWalks, QuietStack
  PROVE  QuietStep
BY DEF QuietStep, QuietWalks, QuietStack

\* Walks that stay are quiet.
LEMMA NoWalkQuiet == ASSUME UNCHANGED walks, Typed PROVE QuietWalks
BY DEF QuietWalks

\* Entering or refusing a directory, and passing over one, finds no leaf.
LEMMA OpeningQuiet ==
  ASSUME WalkInv,
         WalkChainDir \/ RefuseChainDir \/ WalkSubdir \/ RefuseSubdir \/ PassOverSubdir
  PROVE  QuietStep
<1>0. Typed
  BY DEF WalkInv
<1>1. CASE PassOverSubdir
  <2>1. Pending /\ stack' = WithTop(Taken)
        /\ UNCHANGED <<disk, file_type, entries, images, walks>>
    BY <1>1 DEF PassOverSubdir, context, found
  <2>2. QuietStack /\ QuietWalks
    BY <1>0, <2>1, TakenQuiet, NoWalkQuiet
  <2> QED
    BY <2>1, <2>2, QuietParts
<1>2. CASE RefuseSubdir
  <2> DEFINE sub == Head(Top.pending)
  <2>1. /\ Pending /\ stack' = WithTop(Taken) /\ OnPath(sub.start)
        /\ walks' = Append(walks, Walk(sub.start, sub.kind, "refused"))
        /\ UNCHANGED <<disk, file_type, entries, images>>
    BY <1>2 DEF RefuseSubdir, context
  <2>2. sub.start \in Addresses /\ sub.kind \in Kinds /\ ~finished
    <3>1. sub \in Sub /\ stack # <<>>
      BY <1>0, <2>1, TakenTyped DEF Pending
    <3>2. active_ifd_offsets \in Seq(Addresses)
      BY <1>0 DEF Typed
    <3> HIDE DEF sub
    <3> QED
      BY <1>0, <2>1, <3>1, <3>2, KindsApart DEF Sub, OnPath, ToSet, Typed
  <2> HIDE DEF sub
  <2>3. WalksKept(sub.start, sub.kind, {"refused"})
    BY <1>0, <2>1, <2>2, RefuseWalks
  <2>4. QuietWalks
    BY <1>0, <2>3, WalksKeptQuiet
  <2>5. QuietStack
    BY <2>1, TakenQuiet
  <2> QED
    BY <2>1, <2>4, <2>5, QuietParts
<1>3. CASE RefuseChainDir
  <2>1. /\ offset # NoAddress /\ ~finished
        /\ walks' = Append(walks, Walk(offset, ChainKind, "refused"))
        /\ UNCHANGED <<disk, file_type, stack, entries, images>>
    BY <1>3 DEF RefuseChainDir, InChain, found
  <2>2. offset \in Addresses /\ ChainKind \in Kinds
    BY <1>0, <2>1, ChainKindIsChain DEF Typed
  <2>3. WalksKept(offset, ChainKind, {"refused"})
    BY <1>0, <2>1, <2>2, RefuseWalks
  <2>4. QuietWalks
    BY <1>0, <2>3, WalksKeptQuiet
  <2>5. QuietStack
    BY <2>1 DEF QuietStack
  <2> QED
    BY <2>1, <2>4, <2>5, QuietParts
<1>4. CASE WalkChainDir
  <2>1. /\ offset # NoAddress /\ ~finished /\ stack = <<>>
        /\ UNCHANGED <<file_type, entries, images>>
    BY <1>4 DEF WalkChainDir, InChain, found
  <2>2. offset \in Addresses /\ ChainKind \in Kinds
    BY <1>0, <2>1, ChainKindIsChain DEF Typed
  <2>3. PICK body \in Bodies(offset) :
          /\ Open(offset, ChainKind, body)
          /\ IF body = Broken THEN UNCHANGED stack
             ELSE stack' = <<Opened(offset, ChainKind, body, <<>>)>>
    BY <1>4 DEF WalkChainDir
  <2>4. WalksKept(offset, ChainKind, IF body = Broken THEN {"broken"} ELSE {"open"}) /\ body \in Body
    BY <2>1, <2>2, <2>3, OpenKeeps
  <2>5. QuietWalks /\ Len(walks) + 1 \notin DOMAIN walks
    <3>1. PICK outcomes : outcomes = IF body = Broken THEN {"broken"} ELSE {"open"}
      OBVIOUS
    <3>2. outcomes \in SUBSET {"open", "broken", "refused"} /\ WalksKept(offset, ChainKind, outcomes)
      BY <2>4, <3>1
    <3> QED
      BY <1>0, <3>2, WalksKeptQuiet
  <2>6. QuietStack
    <3>1. CASE body = Broken
      BY <2>3, <3>1 DEF QuietStack
    <3>2. CASE body # Broken
      <4>1. PICK opened : opened = Opened(offset, ChainKind, body, <<>>)
        OBVIOUS
      <4>2. opened.index = 0 /\ opened.walk = Len(walks) + 1
        BY <4>1 DEF Opened
      <4>3. DOMAIN stack' = {1} /\ stack'[1] = opened /\ DOMAIN stack = {}
        BY <2>1, <2>3, <3>2, <4>1
      <4> QED
        BY <2>5, <4>2, <4>3 DEF QuietStack
    <3> QED
      BY <3>1, <3>2
  <2> QED
    BY <2>1, <2>2, <2>3, <2>5, <2>6, OpenReadsNothing, QuietParts
<1>5. CASE WalkSubdir
  <2> DEFINE sub == Head(Top.pending)
  <2>1. /\ Pending /\ sub.start # NoAddress
        /\ UNCHANGED <<file_type, entries, images>>
    BY <1>5 DEF WalkSubdir, context
  <2>2. sub.start \in Addresses /\ sub.kind \in Kinds /\ sub.record \in Seq(Record) /\ ~finished
    BY <2>1, PathTyped
  <2>3. PICK body \in Bodies(sub.start) :
          /\ Open(sub.start, sub.kind, body)
          /\ IF body = Broken THEN stack' = WithTop(Taken)
             ELSE stack' = Append(WithTop(Taken), Opened(sub.start, sub.kind, body, sub.record))
    BY <1>5 DEF WalkSubdir
  <2> HIDE DEF sub
  <2>4. WalksKept(sub.start, sub.kind, IF body = Broken THEN {"broken"} ELSE {"open"}) /\ body \in Body
    BY <2>2, <2>3, OpenKeeps
  <2>5. QuietWalks /\ Len(walks) + 1 \notin DOMAIN walks
    <3>1. PICK outcomes : outcomes = IF body = Broken THEN {"broken"} ELSE {"open"}
      OBVIOUS
    <3>2. outcomes \in SUBSET {"open", "broken", "refused"} /\ WalksKept(sub.start, sub.kind, outcomes)
      BY <2>4, <3>1
    <3> QED
      BY <1>0, <3>2, WalksKeptQuiet
  <2>6. QuietStack
    <3>1. CASE body = Broken
      BY <2>1, <2>3, <3>1, TakenQuiet
    <3>2. CASE body # Broken
      <4>1. PICK opened : opened = Opened(sub.start, sub.kind, body, sub.record)
        OBVIOUS
      <4>2. opened \in Dir /\ opened.index = 0 /\ opened.walk = Len(walks) + 1
        BY <1>0, <2>2, <2>4, <4>1, OpenedTyped
      <4>3. stack' = Append(WithTop(Taken), opened)
        BY <2>3, <3>2, <4>1
      <4> QED
        BY <2>1, <2>5, <4>2, <4>3, PushedQuiet
    <3> QED
      BY <3>1, <3>2
  <2> QED
    BY <2>1, <2>2, <2>3, <2>5, <2>6, OpenReadsNothing, QuietParts
<1> QED
  BY <1>1, <1>2, <1>3, <1>4, <1>5

-----------------------------------------------------------------------------
(* The steps that read an entry.                                            *)

\* What is known of the innermost directory.
LEMMA TopKnown ==
  ASSUME WalkInv, stack # <<>>
  PROVE  /\ Top = stack[Len(stack)] /\ Len(stack) \in DOMAIN stack /\ DOMAIN stack = 1..Len(stack)
         /\ Top \in Dir /\ Top.start \in Addresses /\ Top.index \in Nat /\ Top.num_entries \in Nat
         /\ Top.walk \in DOMAIN walks /\ walks[Top.walk].outcome = "open"
         /\ walks[Top.walk].start = Top.start /\ walks[Top.walk].kind = Top.kind
         /\ Top.index <= Len(disk[Top.start].entries)
         /\ Top.num_entries = disk[Top.start].num_entries
         /\ disk[Top.start] \in Body /\ disk[Top.start].entries \in Seq(AnEntry)
         /\ Counted(disk[Top.start].entries, Top.index) = warn_count
         /\ \A m \in 1..Top.index : /\ Counted(disk[Top.start].entries, m - 1) <= MaxWarnings
                                    /\ ~Stopper(disk[Top.start].entries[m], m - 1)
         /\ active_table = table_for_ifd_kind(Top.kind)
<1>1. Typed /\ Top = stack[Len(stack)] /\ Len(stack) \in DOMAIN stack /\ Top \in Dir
      /\ DOMAIN stack = 1..Len(stack)
  BY TopTyped DEF WalkInv, Typed
<1>2. Top.start \in Addresses /\ Top.index \in Nat /\ Top.num_entries \in Nat
  BY <1>1 DEF Dir
<1>3. /\ Top.walk \in DOMAIN walks /\ walks[Top.walk].outcome = "open"
      /\ walks[Top.walk].start = Top.start /\ walks[Top.walk].kind = Top.kind
  BY <1>1 DEF WalkInv, DirsOpen
<1>4. /\ Top.index <= Len(disk[Top.start].entries)
      /\ Top.num_entries = disk[Top.start].num_entries
  BY <1>1 DEF WalkInv, ReadSoFar
<1>5. disk[Top.start] \in Body /\ disk[Top.start].entries \in Seq(AnEntry)
  BY <1>1, <1>2 DEF Typed, Body
<1>6. PassedOver(Top) /\ walks[Top.walk].counted = warn_count
      /\ active_table = table_for_ifd_kind(Top.kind)
  BY <1>1 DEF WalkInv, PutAside
<1> QED
  BY <1>1, <1>2, <1>3, <1>4, <1>5, <1>6 DEF PassedOver

\* A body that is read on is one where no walk has ended.
LEMMA EndedIsRead ==
  ASSUME WalkInv, stack # <<>>, Top.index < Top.num_entries, warn_count <= MaxWarnings,
         NEW w \in DOMAIN walks, walks[w].outcome \in {"whole", "aborted"},
         walks[w].start = Top.start
  PROVE  Top.index < Len(disk[Top.start].entries)
<1> SUFFICES ASSUME ~(Top.index < Len(disk[Top.start].entries)) PROVE FALSE
  OBVIOUS
<1> DEFINE read == disk[Top.start].entries
           i == Top.index
<1>1. /\ i \in Nat /\ i <= Len(read) /\ Top.num_entries = disk[Top.start].num_entries
      /\ disk[Top.start] \in Body /\ read \in Seq(AnEntry) /\ Counted(read, i) = warn_count
      /\ \A m \in 1..i : Counted(read, m - 1) <= MaxWarnings /\ ~Stopper(read[m], m - 1)
      /\ Top.num_entries \in Nat
  BY TopKnown
<1>2. Len(read) = i /\ DOMAIN read = 1..i
  BY <1>1
<1>3. Ended(walks[w], disk[Top.start])
  BY DEF WalkInv, EndedByEntries
<1>4. CASE walks[w].outcome = "whole"
  <2>1. Len(read) = disk[Top.start].num_entries
    BY <1>3, <1>4 DEF Ended
  <2> HIDE DEF read, i
  <2> QED
    BY <1>1, <1>2, <2>1 DEF i
<1>5. CASE walks[w].outcome = "aborted"
  <2>1. Stops(disk[Top.start])
    BY <1>3, <1>5 DEF Ended
  <2>2. \/ \E n \in DOMAIN read : Stopper(read[n], n - 1)
        \/ \E n \in 1..disk[Top.start].num_entries :
             n <= Len(read) + 1 /\ Counted(read, n - 1) > MaxWarnings
    BY <1>1, <2>1, StopsMeans
  <2> HIDE DEF read, i
  <2>3. PICK n \in 1..disk[Top.start].num_entries :
             n <= Len(read) + 1 /\ Counted(read, n - 1) > MaxWarnings
    BY <1>1, <1>2, <2>2
  <2>4. n - 1 \in Nat /\ Counted(read, n - 1) \in Nat /\ MaxWarnings \in Nat
    BY <1>1, <2>3, CountedTyped, LimitsAssumption
  <2>5. n \in 1..i \/ n - 1 = i
    BY <1>1, <1>2, <2>3
  <2>6. ~(n \in 1..i)
    BY <1>1, <2>3, <2>4
  <2> QED
    BY <1>1, <2>3, <2>4, <2>5, <2>6
<1> QED
  BY <1>4, <1>5

\* What reading an entry does to the disk.
ReadOn ==
  /\ \A a \in Addresses : Passable(disk'[a].entries)
  /\ \A a \in Addresses : a # Top.start => disk'[a] = disk[a]
  /\ \A w \in DOMAIN walks : walks[w].outcome \in {"whole", "aborted"} =>
       disk'[walks[w].start] = disk[walks[w].start]
  /\ \A m \in 1..Top.index : disk'[Top.start].entries[m] = disk[Top.start].entries[m]

\* An entry is read where every entry before it could be passed, and where no walk ended.
LEMMA ReadsOn ==
  ASSUME WalkInv, \A a \in Addresses : Passable(disk[a].entries),
         NEW entry \in Shapes, ReadEntry(entry)
  PROVE  /\ ReadOn /\ disk'[Top.start].entries[Top.index + 1] = entry
         /\ disk'[Top.start].entries \in Seq(AnEntry)
         /\ Top.index + 1 <= Len(disk'[Top.start].entries)
         /\ Stopper(entry, Top.index) => Len(disk'[Top.start].entries) = Top.index + 1
<1> DEFINE read == disk[Top.start].entries
           more == disk'[Top.start].entries
           i == Top.index
<1>1. stack # <<>> /\ i < Top.num_entries /\ warn_count <= MaxWarnings
  BY DEF ReadEntry
<1>2. /\ i \in Nat /\ i <= Len(read) /\ read \in Seq(AnEntry) /\ Counted(read, i) = warn_count
      /\ \A m \in 1..i : Counted(read, m - 1) <= MaxWarnings /\ ~Stopper(read[m], m - 1)
      /\ Top.start \in Addresses
  BY <1>1, TopKnown
<1>3. /\ disk' \in [Addresses -> Body]
      /\ \A a \in Addresses : a # Top.start => disk'[a] = disk[a]
      /\ \/ disk'[Top.start] = disk[Top.start] /\ i < Len(read)
         \/ more = Append(read, entry) /\ i = Len(read)
      /\ more[i + 1] = entry
  BY <1>2, ReadShape DEF WalkInv
<1>4. more \in Seq(AnEntry)
  BY <1>2, <1>3 DEF Body
<1>5. \A w \in DOMAIN walks : walks[w].outcome \in {"whole", "aborted"} =>
        disk'[walks[w].start] = disk[walks[w].start]
  <2> SUFFICES ASSUME NEW w \in DOMAIN walks, walks[w].outcome \in {"whole", "aborted"}
               PROVE  disk'[walks[w].start] = disk[walks[w].start]
    OBVIOUS
  <2>1. walks[w].start \in Addresses
    BY WalksTyped DEF WalkInv
  <2>2. CASE walks[w].start = Top.start
    <3>1. i < Len(read)
      BY <1>1, <2>2, EndedIsRead
    <3>2. ~(i = Len(read))
      BY <1>2, <3>1
    <3> QED
      BY <1>3, <2>2, <3>2
  <2>3. CASE walks[w].start # Top.start
    BY <1>3, <2>1, <2>3
  <2> QED
    BY <2>2, <2>3
<1>6. Passable(read)
  BY <1>2
<1> HIDE DEF read, more, i
<1>7. \A m \in 1..i : more[m] = read[m]
  <2>1. CASE more = Append(read, entry) /\ i = Len(read)
    BY <1>2, <2>1
  <2> QED
    BY <1>3, <2>1 DEF more, read
<1>8. Passable(more) /\ i + 1 <= Len(more)
  <2>1. CASE disk'[Top.start] = disk[Top.start] /\ i < Len(read)
    BY <1>2, <1>6, <2>1 DEF more, read
  <2>2. CASE more = Append(read, entry) /\ i = Len(read)
    <3>1. DOMAIN more = 1..(i + 1) /\ Len(more) = i + 1
      BY <1>2, <2>2
    <3>2. ASSUME NEW k \in 1..(i + 1)
          PROVE  Counted(more, k - 1) <= MaxWarnings /\ \A m \in 1..(k - 1) : ~Stopper(more[m], m - 1)
      <4>1. k - 1 \in Nat /\ 1..(k - 1) \subseteq 1..i
        BY <1>2
      <4>2. Counted(more, k - 1) = Counted(read, k - 1)
        BY <1>7, <4>1, CountedSame
      <4>3. Counted(read, k - 1) <= MaxWarnings
        <5>1. k \in 1..i \/ k - 1 = i
          BY <1>2
        <5> QED
          BY <1>1, <1>2, <5>1
      <4> QED
        BY <1>2, <1>7, <4>1, <4>2, <4>3
    <3> QED
      BY <1>2, <3>1, <3>2 DEF Passable
  <2> QED
    BY <1>3, <2>1, <2>2
<1>9. Stopper(entry, i) => Len(more) = i + 1
  <2> SUFFICES ASSUME Stopper(entry, i), Len(more) # i + 1 PROVE FALSE
    OBVIOUS
  <2>1. i + 2 \in DOMAIN more /\ i + 1 \in 1..((i + 2) - 1) /\ (i + 1) - 1 = i
    BY <1>2, <1>4, <1>8
  <2>2. ~Stopper(more[i + 1], i)
    BY <1>8, <2>1 DEF Passable
  <2> QED
    BY <1>3, <2>2
<1>10. ReadOn
  <2>1. \A a \in Addresses : Passable(disk'[a].entries)
    BY <1>3, <1>8 DEF more
  <2> QED
    BY <1>3, <1>5, <1>7, <2>1 DEF ReadOn, more, read, i
<1> QED
  BY <1>3, <1>4, <1>8, <1>9, <1>10 DEF more, i

\* A directory cut off by its warnings was never read further.
LEMMA CutOffIsRead ==
  ASSUME WalkInv, stack # <<>>, Passable(disk[Top.start].entries), warn_count > MaxWarnings
  PROVE  Len(disk[Top.start].entries) = Top.index
<1> DEFINE read == disk[Top.start].entries
           i == Top.index
<1>1. /\ i \in Nat /\ i <= Len(read) /\ read \in Seq(AnEntry) /\ Counted(read, i) = warn_count
  BY TopKnown
<1>2. warn_count \in Nat /\ MaxWarnings \in Nat
  BY LimitsAssumption DEF WalkInv, Typed
<1> HIDE DEF read, i
<1>3. ASSUME Len(read) # i PROVE FALSE
  <2>1. i + 1 \in DOMAIN read /\ (i + 1) - 1 = i
    BY <1>1, <1>3
  <2>2. Counted(read, i) <= MaxWarnings
    BY <2>1 DEF Passable, read
  <2> QED
    BY <1>1, <1>2, <2>2
<1> QED
  BY <1>3 DEF read, i

\* What ends a directory is no leaf, so that its walk has found all that was read.
LEMMA EndFinds ==
  ASSUME WalkInv, LeavesInv, NEW outcome \in {"whole", "aborted"}, Ends(outcome)
  PROVE  /\ ReadOn
         /\ FoundAs(entries, Top.walk, Top.kind, disk'[Top.start].entries,
                    Len(disk'[Top.start].entries))
<1> DEFINE read == disk[Top.start].entries
           more == disk'[Top.start].entries
           i == Top.index
           Finds(r, k) == FoundAs(entries, Top.walk, Top.kind, r, k)
<1>1. stack # <<>>
  BY DEF Ends
<1>2. /\ Top = stack[Len(stack)] /\ Len(stack) \in DOMAIN stack /\ Top.start \in Addresses
      /\ i \in Nat /\ i <= Len(read) /\ read \in Seq(AnEntry)
      /\ Top.num_entries = disk[Top.start].num_entries
  BY <1>1, TopKnown
<1>3. Finds(read, i) /\ Passable(read)
  BY <1>2 DEF LeavesInv, FoundAsRead
<1>4. UNCHANGED disk => ReadOn
  BY DEF ReadOn, LeavesInv
<1>5. CASE outcome = "whole" /\ Top.index = Top.num_entries /\ UNCHANGED disk
  <2>1. Len(read) = i
    <3>1. Len(read) <= disk[Top.start].num_entries
      BY <1>2 DEF WalkInv, ReadSoFar, Read
    <3> QED
      BY <1>2, <1>5, <3>1
  <2> QED
    BY <1>3, <1>4, <1>5, <2>1
<1>6. CASE warn_count > MaxWarnings /\ UNCHANGED disk
  <2>1. Len(read) = i
    BY <1>1, <1>3, <1>6, CutOffIsRead
  <2> QED
    BY <1>3, <1>4, <1>6, <2>1
<1>7. CASE \E entry \in Shapes : ReadEntry(entry) /\ Stopper(entry, Top.index)
  <2>1. PICK entry \in Shapes : ReadEntry(entry) /\ Stopper(entry, Top.index)
    BY <1>7
  <2>2. /\ ReadOn /\ more[i + 1] = entry /\ Len(more) = i + 1
        /\ \A m \in 1..i : more[m] = read[m]
    BY <2>1, ReadsOn DEF LeavesInv, ReadOn
  <2>3. entry.what \notin LeavesOf(table_for_ifd_kind(Top.kind))
    BY <2>1, WhatsApart DEF Stopper, LeavesOf, MainLeaves, Malformed
  <2>4. Finds(more, i)
    <3> HIDE DEF more, read, i
    <3> QED
      BY <1>2, <1>3, <2>2, FoundAsSame
  <2>5. Finds(more, i + 1)
    <3> HIDE DEF more, read, i
    <3> QED
      BY <1>2, <2>2, <2>3, <2>4, FoundAsPassed
  <2> QED
    BY <2>2, <2>5
<1> QED
  BY <1>5, <1>6, <1>7 DEF Ends

\* The images and the entries are not touched by the end of a directory.
LEMMA EndUntouched ==
  ASSUME NEW outcome, CloseDir(outcome)
  PROVE  UNCHANGED <<entries, data_tag_pairs, data_tag_lengths, file_type>>
BY DEF CloseDir, CloseSubdir, CloseChainDir, found, images, context

\* The end of a directory keeps the invariant.
LEMMA EndKeepsLeaves ==
  ASSUME WalkInv, LeavesInv, NEW outcome \in {"whole", "aborted"}, Ends(outcome)
  PROVE  LeavesInv'
<1> DEFINE l == Len(stack)
           k == Len(stack) - 1
           w == Top.walk
<1>1. stack # <<>> /\ CloseDir(outcome) /\ Typed
  BY DEF Ends, WalkInv
<1>2. /\ Top = stack[l] /\ l \in DOMAIN stack /\ DOMAIN stack = 1..l /\ l \in Nat \ {0}
      /\ w \in DOMAIN walks /\ walks[w].start = Top.start /\ walks[w].kind = Top.kind
      /\ walks[w].outcome = "open" /\ Top.start \in Addresses
  BY <1>1, TopKnown, TopTyped
<1>3. /\ ReadOn
      /\ FoundAs(entries, w, Top.kind, disk'[Top.start].entries, Len(disk'[Top.start].entries))
  BY EndFinds
<1>4. Len(active_ifd_offsets) = l
  <2>1. active_ifd_offsets = [n \in 1..l |-> stack[n].start] /\ active_ifd_offsets \in Seq(Addresses)
    BY <1>1, <1>2 DEF WalkInv, PathNeverRepeats, Typed
  <2> QED
    BY <1>2, <2>1
<1>5. /\ Len(stack') = l - 1 /\ stack' \in Seq(Dir)
      /\ \A n \in 1..(l - 1) : stack'[n] = stack[n]
      /\ Len(walks') = Len(walks) /\ walks' \in Seq(WalkRecord)
      /\ \A n \in DOMAIN walks : n # w => walks'[n] = walks[n]
      /\ walks'[w] = [walks[w] EXCEPT !.outcome = outcome]
  <2>1. Close(outcome)
    BY <1>1 DEF CloseDir, CloseSubdir, CloseChainDir
  <2>2. outcome \in Outcomes
    BY DEF Outcomes
  <2> QED
    BY <1>1, <1>2, <1>4, <2>1, <2>2, CloseTyped
<1>6. DOMAIN walks' = DOMAIN walks /\ DOMAIN stack' = 1..(l - 1)
      /\ \A n \in 1..(l - 1) : n \in 1..l /\ n # l
  BY <1>1, <1>2, <1>5 DEF Typed
<1>7. /\ walks'[w].outcome = outcome /\ walks'[w].start = Top.start /\ walks'[w].kind = Top.kind
  <2>1. walks[w] \in WalkRecord
    BY <1>1, <1>2, WalksTyped
  <2> QED
    BY <1>2, <1>5, <2>1 DEF WalkRecord
<1>8. UNCHANGED <<entries, data_tag_pairs, data_tag_lengths, file_type>>
  BY <1>1, EndUntouched
<1> HIDE DEF l, w
<1>9. LeavesPlaced'
  <2>1. ASSUME NEW n \in DOMAIN entries, NEW v, v = entries[n].walk
        PROVE  /\ entries[n].what \in MainLeaves /\ v \in DOMAIN walks'
               /\ walks'[v].start = entries[n].own_ifd_start /\ walks'[v].kind = entries[n].ifd
               /\ \/ walks'[v].outcome \in {"whole", "aborted"}
                  \/ \E m \in DOMAIN stack' : stack'[m].walk = v
    <3>1. /\ entries[n].what \in MainLeaves /\ v \in DOMAIN walks
          /\ walks[v].start = entries[n].own_ifd_start /\ walks[v].kind = entries[n].ifd
          /\ \/ walks[v].outcome \in {"whole", "aborted"}
             \/ \E m \in DOMAIN stack : stack[m].walk = v
      BY <2>1 DEF LeavesInv, LeavesPlaced
    <3>2. CASE v = w
      BY <1>2, <1>6, <1>7, <3>1, <3>2
    <3>3. CASE v # w
      <4>1. walks'[v] = walks[v]
        BY <1>5, <3>1, <3>3
      <4>2. ASSUME NEW m \in DOMAIN stack, stack[m].walk = v PROVE m \in 1..(l - 1) /\ stack'[m].walk = v
        <5>1. m # l
          BY <1>2, <3>3, <4>2 DEF w
        <5>2. m \in 1..(l - 1)
          BY <1>2, <5>1
        <5> QED
          BY <1>5, <4>2, <5>2
      <4> QED
        BY <1>6, <3>1, <4>1, <4>2
    <3> QED
      BY <3>2, <3>3
  <2>2. \A n \in DOMAIN entries : \A v : v = entries[n].walk =>
               /\ entries[n].what \in MainLeaves /\ v \in DOMAIN walks'
               /\ walks'[v].start = entries[n].own_ifd_start /\ walks'[v].kind = entries[n].ifd
               /\ \/ walks'[v].outcome \in {"whole", "aborted"}
                  \/ \E m \in DOMAIN stack' : stack'[m].walk = v
    BY <2>1
  <2> QED
    BY <1>8, <2>2 DEF LeavesPlaced
<1>10. FoundAsRead'
  <2>1. ASSUME NEW n \in DOMAIN stack'
        PROVE  FoundAs(entries, stack'[n].walk, stack'[n].kind, disk'[stack'[n].start].entries,
                       stack'[n].index)
    <3>1. n \in 1..(l - 1) /\ n \in DOMAIN stack /\ n # l /\ stack'[n] = stack[n]
      BY <1>2, <1>5, <1>6
    <3>2. stack[n].start # Top.start /\ stack[n].start \in Addresses
      <4>1. stack[n].start \in Addresses
        BY <1>1, <3>1, DirsTyped
      <4>2. active_ifd_offsets[n] = stack[n].start /\ active_ifd_offsets[l] = Top.start
            /\ DOMAIN active_ifd_offsets = DOMAIN stack
        BY <1>2, <3>1 DEF WalkInv, PathNeverRepeats
      <4>3. active_ifd_offsets[n] # active_ifd_offsets[l]
        BY <1>2, <3>1, <4>2 DEF WalkInv, PathNeverRepeats
      <4> QED
        BY <4>1, <4>2, <4>3
    <3>3. disk'[stack[n].start] = disk[stack[n].start]
      BY <1>3, <3>2 DEF ReadOn
    <3> QED
      BY <3>1, <3>3 DEF LeavesInv, FoundAsRead
  <2>2. ASSUME NEW v \in DOMAIN walks', walks'[v].outcome \in {"whole", "aborted"}
        PROVE  FoundAs(entries, v, walks'[v].kind, disk'[walks'[v].start].entries,
                       Len(disk'[walks'[v].start].entries))
    <3>1. CASE v = w
      BY <1>3, <1>7, <3>1
    <3>2. CASE v # w
      <4>1. v \in DOMAIN walks /\ walks'[v] = walks[v]
        BY <1>5, <1>6, <3>2
      <4>2. disk'[walks[v].start] = disk[walks[v].start]
        BY <1>3, <2>2, <4>1 DEF ReadOn
      <4> QED
        BY <2>2, <4>1, <4>2 DEF LeavesInv, FoundAsRead
    <3> QED
      BY <3>1, <3>2
  <2> QED
    BY <1>8, <2>1, <2>2 DEF FoundAsRead
<1>11. HalvesKept' /\ PairsPlaced'
  BY <1>8 DEF LeavesInv, HalvesKept, PairsPlaced, ThumbnailOf, ImageOf, JpegPreview
<1>12. \A a \in Addresses : Passable(disk'[a].entries)
  BY <1>3 DEF ReadOn
<1> QED
  BY <1>9, <1>10, <1>11, <1>12 DEF LeavesInv

\* What an entry that is passed does to the open directories and the walks.
PassFrame ==
  /\ DOMAIN stack' = DOMAIN stack
  /\ \A n \in DOMAIN stack :
       /\ stack'[n].walk = stack[n].walk /\ stack'[n].kind = stack[n].kind
       /\ stack'[n].start = stack[n].start
       /\ stack'[n].index = IF n = Len(stack) THEN Top.index + 1 ELSE stack[n].index
  /\ DOMAIN walks' = DOMAIN walks
  /\ \A w \in DOMAIN walks :
       /\ walks'[w].start = walks[w].start /\ walks'[w].kind = walks[w].kind
       /\ walks'[w].outcome = walks[w].outcome

\* Every entry that is passed does.
LEMMA PassFrames ==
  ASSUME WalkInv, NEW entry \in Shapes, NEW pending \in Seq(Sub), Passes(entry, pending)
  PROVE  PassFrame
<1>1. Typed /\ stack # <<>>
  BY DEF WalkInv, Passes, ReadEntry
<1>2. Top = stack[Len(stack)] /\ Top \in Dir /\ Len(stack) \in DOMAIN stack /\ Top.walk \in DOMAIN walks
  BY <1>1, TopKnown
<1> DEFINE passed == Passed(Top, pending)
<1>3. /\ passed \in Dir /\ passed.start = Top.start /\ passed.kind = Top.kind
      /\ passed.index = Top.index + 1 /\ passed.walk = Top.walk
  BY <1>2, PassedTyped
<1>4. stack' = WithTop(passed)
  BY DEF Passes, Passed
<1> HIDE DEF passed
<1>5. /\ DOMAIN stack' = DOMAIN stack /\ stack'[Len(stack)] = passed
      /\ \A n \in DOMAIN stack : n # Len(stack) => stack'[n] = stack[n]
  BY <1>1, <1>3, <1>4, WithTopTyped
<1>6. /\ DOMAIN walks' = DOMAIN walks
      /\ \A w \in DOMAIN walks :
           /\ walks'[w].start = walks[w].start /\ walks'[w].kind = walks[w].kind
           /\ walks'[w].outcome = walks[w].outcome
  <2>1. CASE UNCHANGED walks
    BY <2>1
  <2>2. CASE walks' = [walks EXCEPT ![Top.walk].counted = @ + 1]
    <3>1. walks' = [walks EXCEPT ![Top.walk] = [walks[Top.walk] EXCEPT !.counted = @ + 1]]
      BY <2>2
    <3>2. \A w \in DOMAIN walks : walks[w] \in WalkRecord
      BY <1>1, WalksTyped
    <3>3. PICK more : more = [walks[Top.walk] EXCEPT !.counted = @ + 1]
      OBVIOUS
    <3>4. more.start = walks[Top.walk].start /\ more.kind = walks[Top.walk].kind
          /\ more.outcome = walks[Top.walk].outcome
      BY <1>2, <3>2, <3>3, CountedTypedWalk
    <3> QED
      BY <1>2, <3>1, <3>3, <3>4
  <2> QED
    BY <2>1, <2>2 DEF Passes
<1> QED
  BY <1>2, <1>3, <1>5, <1>6 DEF PassFrame

\* A leaf more in the list of the leaves changes what its own walk found only.
FoundMore(es) ==
  /\ \A w, kind, read, upto : w # Top.walk /\ FoundAs(entries, w, kind, read, upto) =>
                                FoundAs(es, w, kind, read, upto)
  /\ LET more == disk'[Top.start].entries
     IN  FoundAs(entries, Top.walk, Top.kind, more, Top.index) =>
           FoundAs(es, Top.walk, Top.kind, more, Top.index + 1)

\* The walks have found what they read, with the entry that is passed.
LEMMA PassFinds ==
  ASSUME WalkInv, LeavesInv, stack # <<>>, PassFrame, ReadOn, FoundMore(entries')
  PROVE  FoundAsRead'
<1> DEFINE l == Len(stack)
<1>1. /\ Top = stack[l] /\ l \in DOMAIN stack /\ DOMAIN stack = 1..l /\ l \in Nat \ {0}
      /\ Top.walk \in DOMAIN walks /\ walks[Top.walk].outcome = "open"
      /\ Top.index \in Nat
  BY TopKnown, TopTyped DEF WalkInv
<1> HIDE DEF l
<1>2. ASSUME NEW n \in DOMAIN stack'
      PROVE  FoundAs(entries', stack'[n].walk, stack'[n].kind, disk'[stack'[n].start].entries,
                     stack'[n].index)
  <2>1. n \in DOMAIN stack /\ stack'[n].walk = stack[n].walk /\ stack'[n].kind = stack[n].kind
        /\ stack'[n].start = stack[n].start
        /\ stack'[n].index = IF n = l THEN Top.index + 1 ELSE stack[n].index
    BY <1>2 DEF PassFrame, l
  <2>2. FoundAs(entries, stack[n].walk, stack[n].kind, disk[stack[n].start].entries, stack[n].index)
    BY <2>1 DEF LeavesInv, FoundAsRead
  <2>3. CASE n = l
    <3>1. FoundAs(entries, Top.walk, Top.kind, disk'[Top.start].entries, Top.index)
      <4>1. PICK read, other : read = disk[Top.start].entries /\ other = disk'[Top.start].entries
        OBVIOUS
      <4>2. FoundAs(entries, Top.walk, Top.kind, read, Top.index)
            /\ \A m \in 1..Top.index : other[m] = read[m]
        BY <1>1, <2>2, <2>3, <4>1 DEF ReadOn
      <4>3. FoundAs(entries, Top.walk, Top.kind, other, Top.index)
        BY <1>1, <4>2, FoundAsSame
      <4> QED
        BY <4>1, <4>3
    <3>2. FoundAs(entries', Top.walk, Top.kind, disk'[Top.start].entries, Top.index + 1)
      BY <3>1 DEF FoundMore
    <3> QED
      BY <1>1, <2>1, <2>3, <3>2
  <2>4. CASE n # l
    <3>1. stack[n].walk # Top.walk
      BY <1>1, <2>1, <2>4 DEF WalkInv, DirsOpen
    <3>2. stack[n].start # Top.start /\ stack[n].start \in Addresses
      <4>1. stack[n].start \in Addresses
        BY <2>1, DirsTyped DEF WalkInv
      <4>2. active_ifd_offsets[n] = stack[n].start /\ active_ifd_offsets[l] = Top.start
            /\ DOMAIN active_ifd_offsets = DOMAIN stack
        BY <1>1, <2>1 DEF WalkInv, PathNeverRepeats
      <4>3. active_ifd_offsets[n] # active_ifd_offsets[l]
        BY <1>1, <2>1, <2>4, <4>2 DEF WalkInv, PathNeverRepeats
      <4> QED
        BY <4>1, <4>2, <4>3
    <3>3. disk'[stack[n].start] = disk[stack[n].start]
      BY <3>2 DEF ReadOn
    <3>4. FoundAs(entries', stack[n].walk, stack[n].kind, disk[stack[n].start].entries, stack[n].index)
      BY <2>2, <3>1 DEF FoundMore
    <3> QED
      BY <2>1, <2>4, <3>3, <3>4
  <2> QED
    BY <2>3, <2>4
<1>3. ASSUME NEW w \in DOMAIN walks', walks'[w].outcome \in {"whole", "aborted"}
      PROVE  FoundAs(entries', w, walks'[w].kind, disk'[walks'[w].start].entries,
                     Len(disk'[walks'[w].start].entries))
  <2>1. /\ w \in DOMAIN walks /\ walks'[w].start = walks[w].start /\ walks'[w].kind = walks[w].kind
        /\ walks'[w].outcome = walks[w].outcome
    BY <1>3 DEF PassFrame
  <2>2. w # Top.walk
    BY <1>1, <1>3, <2>1
  <2>3. disk'[walks[w].start] = disk[walks[w].start]
    BY <1>3, <2>1 DEF ReadOn
  <2>4. FoundAs(entries, w, walks[w].kind, disk[walks[w].start].entries,
                Len(disk[walks[w].start].entries))
    BY <1>3, <2>1 DEF LeavesInv, FoundAsRead
  <2>5. FoundAs(entries', w, walks[w].kind, disk[walks[w].start].entries,
                Len(disk[walks[w].start].entries))
    BY <2>2, <2>4 DEF FoundMore
  <2> QED
    BY <2>1, <2>3, <2>5
<1> QED
  BY <1>2, <1>3 DEF FoundAsRead

\* The leaves that were there stay placed.
LEMMA PassPlaces ==
  ASSUME LeavesInv, PassFrame, NEW n \in DOMAIN entries
  PROVE  LET w == entries[n].walk
         IN  /\ entries[n].what \in MainLeaves
             /\ w \in DOMAIN walks'
             /\ walks'[w].start = entries[n].own_ifd_start /\ walks'[w].kind = entries[n].ifd
             /\ \/ walks'[w].outcome \in {"whole", "aborted"}
                \/ \E m \in DOMAIN stack' : stack'[m].walk = w
<1>1. PICK w : w = entries[n].walk
  OBVIOUS
<1>2. /\ entries[n].what \in MainLeaves /\ w \in DOMAIN walks
      /\ walks[w].start = entries[n].own_ifd_start /\ walks[w].kind = entries[n].ifd
      /\ \/ walks[w].outcome \in {"whole", "aborted"}
         \/ \E m \in DOMAIN stack : stack[m].walk = w
  BY <1>1 DEF LeavesInv, LeavesPlaced
<1> QED
  BY <1>1, <1>2 DEF PassFrame

\* An entry that is no leaf of the table in force finds none.
LEMMA NoLeafPasses ==
  ASSUME PassEntry, ~EmitLeaf
  PROVE  /\ UNCHANGED <<entries, images, file_type>> /\ stack # <<>>
         /\ \E entry \in Shapes : ReadEntry(entry) /\ entry.what \notin LeavesOf(active_table)
<1>1. UNCHANGED <<entries, images, file_type>>
  BY DEF PassEntry, SkipEntry, FollowPointer, FollowSubIfds, CaptureMakerNote, found, context
<1>2. /\ \A what \in Malformed \cup Pointing \cup {"skipped", "wrong format"} :
           what \notin MainLeaves
      /\ \A what \in Unknown : what # "leaf"
  BY DEF Malformed, Pointing, PointerKinds, MainLeaves, Unknown
<1>3. \A what : what \in LeavesOf(active_table) =>
        what \in MainLeaves /\ (active_table = "Gps" => what = "leaf")
  BY DEF LeavesOf, MainLeaves
<1>4. ASSUME NEW entry \in Shapes, ReadEntry(entry),
             \/ entry.what \in Malformed \cup Pointing \cup {"skipped", "wrong format"}
             \/ active_table = "Gps" /\ entry.what \in Unknown
      PROVE  entry.what \notin LeavesOf(active_table) /\ stack # <<>>
  BY <1>2, <1>3, <1>4 DEF ReadEntry
<1>5. CASE SkipEntry
  <2>1. PICK entry \in Shapes :
          /\ ReadEntry(entry)
          /\ \/ entry.what \in {"skipped", "wrong format"}
             \/ entry.what \in Malformed /\ Top.index > 0
             \/ entry.what = "SubIFD" /\ file_type = "SRW"
             \/ active_table = "Gps" /\ entry.what \in Unknown
    BY <1>5 DEF SkipEntry
  <2> QED
    BY <1>1, <1>4, <2>1 DEF Pointing
<1>6. CASE FollowPointer
  <2>1. PICK entry \in Shapes : ReadEntry(entry) /\ entry.what \in PointerKinds
    BY <1>6 DEF FollowPointer
  <2> QED
    BY <1>1, <1>4, <2>1 DEF Pointing
<1>7. CASE FollowSubIfds
  <2>1. PICK entry \in Shapes : ReadEntry(entry) /\ entry.what = "SubIFD"
    BY <1>7 DEF FollowSubIfds
  <2> QED
    BY <1>1, <1>4, <2>1 DEF Pointing
<1>8. CASE CaptureMakerNote
  <2>1. PICK entry \in Shapes : ReadEntry(entry) /\ entry.what = "MakerNote"
    BY <1>8 DEF CaptureMakerNote
  <2> QED
    BY <1>1, <1>4, <2>1 DEF Pointing
<1> QED
  BY <1>5, <1>6, <1>7, <1>8 DEF PassEntry

\* An entry that is no leaf keeps the invariant.
LEMMA NoLeafKeeps ==
  ASSUME WalkInv, LeavesInv, PassEntry, ~EmitLeaf
  PROVE  LeavesInv'
<1>1. UNCHANGED <<entries, data_tag_pairs, data_tag_lengths, file_type>> /\ stack # <<>>
  BY NoLeafPasses DEF images
<1>2. PassFrame
  <2>1. PICK entry \in Shapes, pending \in Seq(Sub) : Passes(entry, pending)
    BY PassEntryPasses DEF WalkInv
  <2> QED
    BY <2>1, PassFrames
<1>3. PICK entry \in Shapes : ReadEntry(entry) /\ entry.what \notin LeavesOf(active_table)
  BY NoLeafPasses
<1>4. ReadOn /\ disk'[Top.start].entries[Top.index + 1] = entry
  BY <1>3, ReadsOn DEF LeavesInv
<1>5. FoundMore(entries')
  <2>1. active_table = table_for_ifd_kind(Top.kind) /\ Top.index \in Nat
    BY <1>1, TopKnown
  <2>2. PICK read : read = disk'[Top.start].entries
    OBVIOUS
  <2>3. read[Top.index + 1].what \notin LeavesOf(table_for_ifd_kind(Top.kind))
    BY <1>3, <1>4, <2>1, <2>2
  <2>4. FoundAs(entries, Top.walk, Top.kind, read, Top.index) =>
          FoundAs(entries, Top.walk, Top.kind, read, Top.index + 1)
    BY <2>1, <2>3, FoundAsPassed
  <2> QED
    BY <1>1, <2>2, <2>4 DEF FoundMore
<1>6. FoundAsRead'
  BY <1>1, <1>2, <1>4, <1>5, PassFinds
<1>7. LeavesPlaced'
  <2>1. \A n \in DOMAIN entries :
          LET w == entries[n].walk
          IN  /\ entries[n].what \in MainLeaves
              /\ w \in DOMAIN walks'
              /\ walks'[w].start = entries[n].own_ifd_start /\ walks'[w].kind = entries[n].ifd
              /\ \/ walks'[w].outcome \in {"whole", "aborted"}
                 \/ \E m \in DOMAIN stack' : stack'[m].walk = w
    BY <1>2, PassPlaces
  <2> QED
    BY <1>1, <2>1 DEF LeavesPlaced
<1>8. HalvesKept' /\ PairsPlaced'
  BY <1>1 DEF LeavesInv, HalvesKept, PairsPlaced, ThumbnailOf, ImageOf, JpegPreview
<1>9. \A a \in Addresses : Passable(disk'[a].entries)
  BY <1>4 DEF ReadOn
<1> QED
  BY <1>6, <1>7, <1>8, <1>9 DEF LeavesInv

\* The half of an image that a leaf leaves behind.
LengthGrows(leaf) ==
  \/ leaf.what \notin Lengths /\ UNCHANGED data_tag_lengths
  \/ /\ leaf.what \in Lengths
     /\ \E l \in ALength :
          /\ data_tag_lengths' = Append(data_tag_lengths, l)
          /\ l.ifd_start = leaf.own_ifd_start /\ l.ifd = leaf.ifd /\ l.tag = leaf.what
          /\ l.length = leaf.value

\* An offset of a thumbnail always leaves one, that of a strip if it locates an image.
PairGrows(leaf) ==
  \/ leaf.what # "ThumbnailOffset" /\ UNCHANGED data_tag_pairs
  \/ /\ leaf.what \in {"StripOffsets", "ThumbnailOffset"}
     /\ \E pair \in APair :
          /\ data_tag_pairs' = Append(data_tag_pairs, pair)
          /\ pair.ifd_start = leaf.own_ifd_start /\ pair.ifd = leaf.ifd
          /\ pair.length_tag = OffsetPair(leaf.what) /\ pair.offset = leaf.value
          /\ pair.length_tag = "ThumbnailLength" <=> pair.data_tag = ThumbnailOf(pair.ifd)

\* A strip is never named like the thumbnail of its directory, and a thumbnail
\* is named whatever the members are.
LEMMA NamesApart ==
  ASSUME NEW kind, NEW members
  PROVE  /\ ImageOf("StripOffsets", kind, members) # "StripOffsets" =>
              ImageOf("StripOffsets", kind, members) # ThumbnailOf(kind)
         /\ ImageOf("ThumbnailOffset", kind, members) = ThumbnailOf(kind)
         /\ ThumbnailOf(kind) # "ThumbnailOffset"
BY DEF ImageOf, ThumbnailOf, JpegPreview, Thumbnail, Strip

\* What a leaf adds: itself, and its half of an image.
LEMMA EmitLeafFinds ==
  ASSUME WalkInv, FoundTyped, EmitLeaf
  PROVE  \E entry \in Shapes, leaf \in Emittable :
           /\ ReadEntry(entry) /\ entry.what \in LeavesOf(active_table)
           /\ entries' = Append(entries, leaf) /\ leaf.what \in MainLeaves
           /\ leaf.own_ifd_start = Top.start /\ leaf.ifd = Top.kind /\ leaf.walk = Top.walk
           /\ leaf.what = entry.what /\ leaf.value = entry.value
           /\ LengthGrows(leaf) /\ PairGrows(leaf)
<1>0. stack # <<>> /\ Top \in Dir /\ Typed
  BY TopTyped DEF EmitLeaf, ReadEntry, WalkInv
<1>1. PICK entry \in Shapes :
        /\ ReadEntry(entry) /\ entry.what \in LeavesOf(active_table)
        /\ LET image == ImageOf(entry.what, Top.kind, captured)
           IN  data_tag_pairs' =
                IF entry.what \in (Strip \cup Thumbnail) \ Lengths /\ image # entry.what
                THEN Append(data_tag_pairs,
                            [ifd |-> Top.kind, ifd_start |-> Top.start, offset |-> entry.value,
                             length_tag |-> OffsetPair(entry.what), data_tag |-> image])
                ELSE data_tag_pairs
        /\ data_tag_lengths' =
            IF entry.what \in Lengths
            THEN Append(data_tag_lengths,
                        [ifd |-> Top.kind, ifd_start |-> Top.start, tag |-> entry.what,
                         length |-> entry.value])
            ELSE data_tag_lengths
        /\ entries' = Append(entries, Leaf(Top.kind, Top.start, entry.what, NameOf(entry.what),
                                          entry.value, Top.walk))
  BY DEF EmitLeaf
<1>2. entry.what \in Whats /\ entry.value \in Nat
  BY <1>0, ShapeTyped DEF AnEntry
<1>3. NameOf(entry.what) \in Names /\ ImageOf(entry.what, Top.kind, captured) \in Names
  BY <1>2 DEF NameOf, ImageOf, Names
<1>4. Top.kind \in Kinds /\ Top.start \in Addresses /\ Top.walk \in Nat
  BY <1>0 DEF Dir
<1>5. PICK what, value, image, name, kind, start, walk :
        /\ what = entry.what /\ value = entry.value /\ kind = Top.kind /\ start = Top.start
        /\ image = ImageOf(entry.what, Top.kind, captured) /\ name = NameOf(entry.what)
        /\ walk = Top.walk
  OBVIOUS
<1>6. /\ what \in Whats /\ value \in Nat /\ kind \in Kinds /\ start \in Addresses /\ walk \in Nat
      /\ image \in Names /\ name \in Names
  BY <1>2, <1>3, <1>4, <1>5
<1>7. PICK leaf : leaf = Leaf(kind, start, what, name, value, walk)
  OBVIOUS
<1>8. /\ leaf \in Emittable /\ leaf.own_ifd_start = start /\ leaf.ifd = kind /\ leaf.walk = walk
      /\ leaf.what = what /\ leaf.value = value
  BY <1>6, <1>7 DEF Leaf, Emittable
<1>9. entries' = Append(entries, leaf)
  BY <1>1, <1>5, <1>7
<1>10. what \in MainLeaves
  BY <1>1, <1>5 DEF LeavesOf, MainLeaves
<1>11. LengthGrows(leaf)
  <2>1. CASE what \notin Lengths
    BY <1>1, <1>5, <1>8, <2>1 DEF LengthGrows
  <2>2. CASE what \in Lengths
    <3>1. PICK l : l = [ifd |-> kind, ifd_start |-> start, tag |-> what, length |-> value]
      OBVIOUS
    <3>2. /\ l \in ALength /\ l.ifd_start = start /\ l.ifd = kind /\ l.tag = what
          /\ l.length = value
      BY <1>6, <2>2, <3>1 DEF ALength
    <3>3. data_tag_lengths' = Append(data_tag_lengths, l)
      BY <1>1, <1>5, <2>2, <3>1
    <3> QED
      BY <1>8, <2>2, <3>2, <3>3 DEF LengthGrows
  <2> QED
    BY <2>1, <2>2
<1>12. PairGrows(leaf)
  <2>0. /\ image = ImageOf(what, kind, captured)
        /\ \A w : w \in (Strip \cup Thumbnail) \ Lengths <=> w \in {"StripOffsets", "ThumbnailOffset"}
    BY <1>5 DEF Strip, Thumbnail, Lengths
  <2>1. CASE what \notin {"StripOffsets", "ThumbnailOffset"} \/ image = what
    <3>1. UNCHANGED data_tag_pairs
      BY <1>1, <1>5, <2>0, <2>1
    <3>2. what # "ThumbnailOffset"
      BY <2>0, <2>1, NamesApart
    <3> QED
      BY <1>8, <3>1, <3>2 DEF PairGrows
  <2>2. CASE what \in {"StripOffsets", "ThumbnailOffset"} /\ image # what
    <3>1. PICK pair : pair = [ifd |-> kind, ifd_start |-> start, offset |-> value,
                              length_tag |-> OffsetPair(what), data_tag |-> image]
      OBVIOUS
    <3>2. OffsetPair(what) \in Lengths
      BY DEF OffsetPair, Lengths
    <3>3. /\ pair \in APair /\ pair.ifd_start = start /\ pair.ifd = kind /\ pair.offset = value
          /\ pair.length_tag = OffsetPair(what) /\ pair.data_tag = image
      BY <1>6, <3>1, <3>2 DEF APair
    <3>4. data_tag_pairs' = Append(data_tag_pairs, pair)
      BY <1>1, <1>5, <2>0, <2>2, <3>1
    <3>5. OffsetPair(what) = "ThumbnailLength" <=> image = ThumbnailOf(kind)
      <4>1. CASE what = "StripOffsets"
        BY <2>0, <2>2, <4>1, NamesApart DEF OffsetPair
      <4>2. CASE what = "ThumbnailOffset"
        BY <2>0, <4>2, NamesApart DEF OffsetPair
      <4> QED
        BY <2>2, <4>1, <4>2
    <3> QED
      BY <1>8, <2>2, <3>3, <3>4, <3>5 DEF PairGrows
  <2> QED
    BY <2>1, <2>2
<1> QED
  BY <1>1, <1>5, <1>8, <1>9, <1>10, <1>11, <1>12

\* The halves of a leaf keep in step with it.
LEMMA HalvesGrow ==
  ASSUME FoundTyped, HalvesKept, PairsPlaced, NEW leaf \in Emittable,
         entries' = Append(entries, leaf), LengthGrows(leaf), PairGrows(leaf), UNCHANGED file_type
  PROVE  HalvesKept' /\ PairsPlaced'
<1> DEFINE leafKey == <<leaf.own_ifd_start, leaf.ifd, leaf.what>>
<1>1. /\ entries \in Seq(Emittable) /\ data_tag_pairs \in Seq(APair)
      /\ data_tag_lengths \in Seq(ALength)
  BY DEF FoundTyped
<1>2. \A key, v : Latest(LeafMarks(entries'), key, v) <=>
        IF leafKey = key THEN v = leaf.value ELSE Latest(LeafMarks(entries), key, v)
  <2>1. MarkAdded(LeafMarks(entries), LeafMarks(entries'), <<leafKey, leaf.value>>)
    BY <1>1, MarksAppend DEF LeafMark
  <2> HIDE DEF leafKey
  <2> QED
    BY <2>1, LatestAppend
<1>3. ASSUME NEW start, NEW kind, NEW tag \in Lengths, NEW v
      PROVE  Latest(LengthMarks(data_tag_lengths'), <<start, kind, tag>>, v) <=>
               Latest(LeafMarks(entries'), <<start, kind, tag>>, v)
  <2>1. Latest(LengthMarks(data_tag_lengths), <<start, kind, tag>>, v) <=>
          Latest(LeafMarks(entries), <<start, kind, tag>>, v)
    BY DEF HalvesKept
  <2>2. CASE leaf.what \notin Lengths /\ UNCHANGED data_tag_lengths
    BY <1>2, <2>1, <2>2
  <2>3. CASE /\ leaf.what \in Lengths
             /\ \E l \in ALength :
                  /\ data_tag_lengths' = Append(data_tag_lengths, l)
                  /\ l.ifd_start = leaf.own_ifd_start /\ l.ifd = leaf.ifd /\ l.tag = leaf.what
                  /\ l.length = leaf.value
    <3>1. PICK l \in ALength :
            /\ data_tag_lengths' = Append(data_tag_lengths, l)
            /\ l.ifd_start = leaf.own_ifd_start /\ l.ifd = leaf.ifd /\ l.tag = leaf.what
            /\ l.length = leaf.value
      BY <2>3
    <3>2. MarkAdded(LengthMarks(data_tag_lengths), LengthMarks(data_tag_lengths'), <<leafKey, leaf.value>>)
      BY <1>1, <3>1, MarksAppend DEF LengthMark
    <3> HIDE DEF leafKey
    <3>3. Latest(LengthMarks(data_tag_lengths'), <<start, kind, tag>>, v) <=>
            IF leafKey = <<start, kind, tag>> THEN v = leaf.value
            ELSE Latest(LengthMarks(data_tag_lengths), <<start, kind, tag>>, v)
      BY <3>2, LatestAppend
    <3> QED
      BY <1>2, <2>1, <3>3
  <2> QED
    BY <2>2, <2>3 DEF LengthGrows
<1>4. ASSUME NEW start, NEW kind, NEW v
      PROVE  Latest(PairMarks(data_tag_pairs'), <<start, kind, "ThumbnailLength">>, v) <=>
               Latest(LeafMarks(entries'), <<start, kind, "ThumbnailOffset">>, v)
  <2>1. Latest(PairMarks(data_tag_pairs), <<start, kind, "ThumbnailLength">>, v) <=>
          Latest(LeafMarks(entries), <<start, kind, "ThumbnailOffset">>, v)
    BY DEF HalvesKept
  <2>2. CASE leaf.what # "ThumbnailOffset" /\ UNCHANGED data_tag_pairs
    BY <1>2, <2>1, <2>2
  <2>3. CASE /\ leaf.what \in {"StripOffsets", "ThumbnailOffset"}
             /\ \E pair \in APair :
                  /\ data_tag_pairs' = Append(data_tag_pairs, pair)
                  /\ pair.ifd_start = leaf.own_ifd_start /\ pair.ifd = leaf.ifd
                  /\ pair.length_tag = OffsetPair(leaf.what) /\ pair.offset = leaf.value
    <3>1. PICK pair \in APair :
            /\ data_tag_pairs' = Append(data_tag_pairs, pair)
            /\ pair.ifd_start = leaf.own_ifd_start /\ pair.ifd = leaf.ifd
            /\ pair.length_tag = OffsetPair(leaf.what) /\ pair.offset = leaf.value
      BY <2>3
    <3> DEFINE pairKey == <<leaf.own_ifd_start, leaf.ifd, OffsetPair(leaf.what)>>
    <3>2. MarkAdded(PairMarks(data_tag_pairs), PairMarks(data_tag_pairs'), <<pairKey, leaf.value>>)
      BY <1>1, <3>1, MarksAppend DEF PairMark
    <3>3. pairKey = <<start, kind, "ThumbnailLength">> <=> leafKey = <<start, kind, "ThumbnailOffset">>
      BY <2>3 DEF OffsetPair
    <3> HIDE DEF leafKey, pairKey
    <3>4. Latest(PairMarks(data_tag_pairs'), <<start, kind, "ThumbnailLength">>, v) <=>
            IF pairKey = <<start, kind, "ThumbnailLength">> THEN v = leaf.value
            ELSE Latest(PairMarks(data_tag_pairs), <<start, kind, "ThumbnailLength">>, v)
      BY <3>2, LatestAppend
    <3> QED
      BY <1>2, <2>1, <3>3, <3>4
  <2> QED
    BY <2>2, <2>3 DEF PairGrows
<1>5. HalvesKept'
  BY <1>3, <1>4 DEF HalvesKept
<1>6. /\ \A n \in DOMAIN entries : n \in DOMAIN entries' /\ entries'[n] = entries[n]
      /\ Len(entries) + 1 \in DOMAIN entries' /\ entries'[Len(entries) + 1] = leaf
  BY <1>1
<1> DEFINE Placed(pair, es) ==
             /\ pair.length_tag = "ThumbnailLength" <=> pair.data_tag = ThumbnailOf(pair.ifd)
             /\ \E n \in DOMAIN es :
                  /\ es[n].own_ifd_start = pair.ifd_start /\ es[n].ifd = pair.ifd
                  /\ es[n].what \in {"StripOffsets", "ThumbnailOffset"}
                  /\ OffsetPair(es[n].what) = pair.length_tag /\ es[n].value = pair.offset
<1>7. \A j \in DOMAIN data_tag_pairs : Placed(data_tag_pairs[j], entries)
  BY DEF PairsPlaced
<1>8. \A j \in DOMAIN data_tag_pairs : Placed(data_tag_pairs[j], entries')
  <2> SUFFICES ASSUME NEW j \in DOMAIN data_tag_pairs PROVE Placed(data_tag_pairs[j], entries')
    OBVIOUS
  <2>1. PICK pair : pair = data_tag_pairs[j]
    OBVIOUS
  <2>2. Placed(pair, entries)
    BY <1>7, <2>1
  <2>3. Placed(pair, entries')
    BY <1>6, <2>2
  <2> QED
    BY <2>1, <2>3
<1>9. \A j \in DOMAIN data_tag_pairs' : Placed(data_tag_pairs'[j], entries')
  <2>1. CASE UNCHANGED data_tag_pairs
    BY <1>8, <2>1
  <2>2. CASE /\ leaf.what \in {"StripOffsets", "ThumbnailOffset"}
             /\ \E pair \in APair :
                  /\ data_tag_pairs' = Append(data_tag_pairs, pair)
                  /\ pair.ifd_start = leaf.own_ifd_start /\ pair.ifd = leaf.ifd
                  /\ pair.length_tag = OffsetPair(leaf.what) /\ pair.offset = leaf.value
                  /\ pair.length_tag = "ThumbnailLength" <=> pair.data_tag = ThumbnailOf(pair.ifd)
    <3>1. PICK pair \in APair :
                  /\ data_tag_pairs' = Append(data_tag_pairs, pair)
                  /\ pair.ifd_start = leaf.own_ifd_start /\ pair.ifd = leaf.ifd
                  /\ pair.length_tag = OffsetPair(leaf.what) /\ pair.offset = leaf.value
                  /\ pair.length_tag = "ThumbnailLength" <=> pair.data_tag = ThumbnailOf(pair.ifd)
      BY <2>2
    <3>2. Placed(pair, entries')
      BY <1>6, <2>2, <3>1
    <3> HIDE DEF Placed
    <3>3. \A j \in DOMAIN data_tag_pairs' :
            \/ j \in DOMAIN data_tag_pairs /\ data_tag_pairs'[j] = data_tag_pairs[j]
            \/ data_tag_pairs'[j] = pair
      BY <1>1, <3>1
    <3>4. ASSUME NEW j \in DOMAIN data_tag_pairs' PROVE Placed(data_tag_pairs'[j], entries')
      BY <1>8, <3>2, <3>3
    <3> QED
      BY <3>4
  <2> QED
    BY <2>1, <2>2 DEF PairGrows
<1>10. PairsPlaced'
  BY <1>9 DEF PairsPlaced, ThumbnailOf, ImageOf, JpegPreview
<1> QED
  BY <1>5, <1>10

\* A leaf keeps the invariant.
LEMMA EmitLeafKeeps ==
  ASSUME WalkInv, FoundTyped, LeavesInv, EmitLeaf
  PROVE  LeavesInv'
<1>1. PICK entry \in Shapes, leaf \in Emittable :
           /\ ReadEntry(entry) /\ entry.what \in LeavesOf(active_table)
           /\ entries' = Append(entries, leaf) /\ leaf.what \in MainLeaves
           /\ leaf.own_ifd_start = Top.start /\ leaf.ifd = Top.kind /\ leaf.walk = Top.walk
           /\ leaf.what = entry.what /\ leaf.value = entry.value
           /\ LengthGrows(leaf) /\ PairGrows(leaf)
  BY EmitLeafFinds
<1>2. stack # <<>> /\ UNCHANGED file_type
  BY <1>1 DEF ReadEntry, EmitLeaf, context
<1>3. PassFrame
  <2>1. PassEntry
    BY DEF PassEntry
  <2>2. PICK e \in Shapes, pending \in Seq(Sub) : Passes(e, pending)
    BY <2>1, PassEntryPasses DEF WalkInv
  <2> QED
    BY <2>2, PassFrames
<1>4. ReadOn /\ disk'[Top.start].entries[Top.index + 1] = entry
  BY <1>1, ReadsOn DEF LeavesInv
<1>5. entries \in Seq(Emittable)
  BY DEF FoundTyped
<1>6. /\ active_table = table_for_ifd_kind(Top.kind) /\ Top.index \in Nat
      /\ Top = stack[Len(stack)] /\ Len(stack) \in DOMAIN stack
      /\ Top.walk \in DOMAIN walks /\ walks[Top.walk].start = Top.start /\ walks[Top.walk].kind = Top.kind
  BY <1>2, TopKnown
<1>7. FoundMore(entries')
  <2>1. ASSUME NEW w, NEW kind, NEW read, NEW upto, w # Top.walk, FoundAs(entries, w, kind, read, upto)
        PROVE  FoundAs(entries', w, kind, read, upto)
    BY <1>1, <1>5, <2>1, FoundAsElsewhere
  <2>2. PICK read : read = disk'[Top.start].entries
    OBVIOUS
  <2>3. leaf.what = read[Top.index + 1].what /\ leaf.value = read[Top.index + 1].value
        /\ leaf.what \in LeavesOf(table_for_ifd_kind(Top.kind))
    BY <1>1, <1>4, <1>6, <2>2
  <2>4. ASSUME FoundAs(entries, Top.walk, Top.kind, read, Top.index)
        PROVE  FoundAs(entries', Top.walk, Top.kind, read, Top.index + 1)
    <3>1. FoundAs(entries, leaf.walk, Top.kind, read, Top.index)
      BY <1>1, <2>4
    <3>2. FoundAs(Append(entries, leaf), leaf.walk, Top.kind, read, Top.index + 1)
      BY <1>5, <1>6, <2>3, <3>1, FoundAsLeaf
    <3> QED
      BY <1>1, <3>2
  <2> QED
    BY <2>1, <2>2, <2>4 DEF FoundMore
<1>8. FoundAsRead'
  BY <1>2, <1>3, <1>4, <1>7, PassFinds
<1>9. LeavesPlaced'
  <2>1. \A n \in DOMAIN entries' : (n \in DOMAIN entries /\ entries'[n] = entries[n]) \/ entries'[n] = leaf
    BY <1>1, <1>5
  <2> DEFINE Placed(e) ==
               /\ e.what \in MainLeaves /\ e.walk \in DOMAIN walks'
               /\ walks'[e.walk].start = e.own_ifd_start /\ walks'[e.walk].kind = e.ifd
               /\ \/ walks'[e.walk].outcome \in {"whole", "aborted"}
                  \/ \E m \in DOMAIN stack' : stack'[m].walk = e.walk
  <2>2. \A n \in DOMAIN entries : Placed(entries[n])
    BY <1>3, PassPlaces
  <2>3. Placed(leaf)
    BY <1>1, <1>3, <1>6 DEF PassFrame
  <2> HIDE DEF Placed
  <2>4. ASSUME NEW n \in DOMAIN entries' PROVE Placed(entries'[n])
    BY <2>1, <2>2, <2>3
  <2> USE DEF Placed
  <2> QED
    BY <2>4 DEF LeavesPlaced
<1>10. HalvesKept' /\ PairsPlaced'
  BY <1>1, <1>2, HalvesGrow DEF LeavesInv
<1>11. \A a \in Addresses : Passable(disk'[a].entries)
  BY <1>4 DEF ReadOn
<1> QED
  BY <1>8, <1>9, <1>10, <1>11 DEF LeavesInv

\* A block that was not walked yet has no leaf.
LEMMA FreshLeaves == Fresh => LeavesInv
<1> SUFFICES ASSUME Fresh PROVE LeavesInv
  OBVIOUS
<1>1. /\ disk = [a \in Addresses |-> Unseen] /\ stack = <<>> /\ entries = <<>> /\ walks = <<>>
      /\ data_tag_pairs = <<>> /\ data_tag_lengths = <<>>
  BY DEF Fresh
<1>2. DOMAIN entries = {} /\ DOMAIN data_tag_pairs = {} /\ DOMAIN data_tag_lengths = {}
      /\ DOMAIN stack = {} /\ DOMAIN walks = {}
  BY <1>1
<1>3. \A a \in Addresses : Passable(disk[a].entries)
  <2>1. Unseen.entries = <<>>
    BY DEF Unseen
  <2>2. Passable(<<>>)
    BY DEF Passable
  <2> QED
    BY <1>1, <2>1, <2>2
<1>4. LeavesPlaced /\ FoundAsRead /\ PairsPlaced
  BY <1>2 DEF LeavesPlaced, FoundAsRead, PairsPlaced
<1>5. HalvesKept
  <2>1. \A key, v : ~Latest(LeafMarks(entries), key, v) /\ ~Latest(PairMarks(data_tag_pairs), key, v)
                    /\ ~Latest(LengthMarks(data_tag_lengths), key, v)
    BY <1>2 DEF Latest, LeafMarks, PairMarks, LengthMarks
  <2> QED
    BY <2>1 DEF HalvesKept
<1> QED
  BY <1>3, <1>4, <1>5 DEF LeavesInv

\* Every step up to the end of the block keeps the invariant.
LEMMA LeavesNext ==
  ASSUME WalkInv, FoundTyped, LeavesInv, [Next]_vars, ~finished'
  PROVE  LeavesInv'
<1>1. WalkInv'
  BY NextWalks
<1>2. CASE WalkChainDir \/ RefuseChainDir \/ WalkSubdir \/ RefuseSubdir \/ PassOverSubdir
  BY <1>1, <1>2, OpeningQuiet, QuietKeeps
<1>3. CASE EndDirectory
  BY <1>3, EndDirectoryEnds, EndKeepsLeaves
<1>4. CASE EmitLeaf
  BY <1>4, EmitLeafKeeps
<1>5. CASE PassEntry /\ ~EmitLeaf
  BY <1>5, NoLeafKeeps
<1>6. CASE UNCHANGED vars
  <2>1. QuietStep
    BY <1>6 DEF vars, context, found, images, QuietStep
  <2> QED
    BY <1>1, <2>1, QuietKeeps
<1>7. ~Finalize
  BY DEF Finalize
<1> QED
  BY <1>2, <1>3, <1>4, <1>5, <1>6, <1>7 DEF Next, EndDirectory, PassEntry

-----------------------------------------------------------------------------
(* The images of a block that was walked to its end.                        *)

\* The last leaf of a walk, of one kind.
LEMMA LastLeafIs ==
  ASSUME NEW P, entries \in Seq(P), NEW w, NEW what, NEW v
  PROVE  Latest(WalkMarks(entries), <<w, what>>, v) <=>
           \E l \in LeavesIn(w, {what}) : l = Max(LeavesIn(w, {what})) /\ entries[l].value = v
<1> DEFINE S == LeavesIn(w, {what})
<1>1. /\ \A n : n \in S <=> n \in DOMAIN entries /\ entries[n].walk = w /\ entries[n].what = what
      /\ DOMAIN entries = 1..Len(entries) /\ Len(entries) \in Nat
      /\ DOMAIN WalkMarks(entries) = DOMAIN entries
      /\ \A n \in DOMAIN entries : /\ WalkMarks(entries)[n][1] = <<entries[n].walk, entries[n].what>>
                                   /\ WalkMarks(entries)[n][2] = entries[n].value
                                   /\ WalkMarks(entries)[n] =
                                        <<<<entries[n].walk, entries[n].what>>, entries[n].value>>
  BY DEF LeavesIn, WalkMarks
<1> HIDE DEF S
<1>2. S \in SUBSET Nat /\ \A n \in S : n <= Len(entries)
  BY <1>1
<1>3. ASSUME Latest(WalkMarks(entries), <<w, what>>, v)
      PROVE  \E l \in S : l = Max(S) /\ entries[l].value = v
  <2>1. PICK n \in DOMAIN entries :
          /\ WalkMarks(entries)[n] = <<<<w, what>>, v>>
          /\ \A j \in DOMAIN entries : j > n => WalkMarks(entries)[j][1] # <<w, what>>
    BY <1>1, <1>3 DEF Latest
  <2>2. n \in S /\ entries[n].value = v
    BY <1>1, <2>1
  <2>3. \A j \in S : ~(j > n)
    BY <1>1, <2>1
  <2>4. Max(S) \in S /\ n <= Max(S)
    BY <1>1, <1>2, <2>2, MaxIs
  <2>5. n = Max(S)
    <3>1. n \in Nat /\ Max(S) \in Nat /\ ~(Max(S) > n)
      BY <1>2, <2>2, <2>3, <2>4
    <3> QED
      BY <2>4, <3>1
  <2> QED
    BY <2>2, <2>5
<1>4. ASSUME NEW l \in S, l = Max(S), entries[l].value = v
      PROVE  Latest(WalkMarks(entries), <<w, what>>, v)
  <2>1. \A j \in S : j <= l
    BY <1>1, <1>2, <1>4, MaxIs
  <2>2. \A j \in DOMAIN entries : j > l => j \notin S
    BY <1>1, <1>2, <2>1
  <2>3. l \in DOMAIN WalkMarks(entries) /\ WalkMarks(entries)[l] = <<<<w, what>>, v>>
    BY <1>1, <1>4
  <2>4. \A j \in DOMAIN WalkMarks(entries) : j > l => WalkMarks(entries)[j][1] # <<w, what>>
    BY <1>1, <2>2
  <2> QED
    BY <2>3, <2>4 DEF Latest
<1> QED
  BY <1>3, <1>4 DEF S

\* The length of a pair is the last of its directory.
LEMMA LengthTold ==
  ASSUME FoundTyped, NEW pair, NEW v
  PROVE  Latest(LengthMarks(data_tag_lengths), <<pair.ifd_start, pair.ifd, pair.length_tag>>, v) <=>
           LengthsFor(pair) # {} /\ LengthOf(pair) = v
<1> DEFINE S == LengthsFor(pair)
           ls == data_tag_lengths
           key == <<pair.ifd_start, pair.ifd, pair.length_tag>>
<1>1. /\ \A n : n \in S <=> n \in DOMAIN ls /\ <<ls[n].ifd_start, ls[n].ifd, ls[n].tag>> = key
      /\ DOMAIN ls = 1..Len(ls) /\ Len(ls) \in Nat
      /\ DOMAIN LengthMarks(ls) = DOMAIN ls
      /\ \A n \in DOMAIN ls :
           /\ LengthMarks(ls)[n][1] = <<ls[n].ifd_start, ls[n].ifd, ls[n].tag>>
           /\ LengthMarks(ls)[n] = <<<<ls[n].ifd_start, ls[n].ifd, ls[n].tag>>, ls[n].length>>
  BY DEF LengthsFor, LengthMarks, FoundTyped
<1>2. LengthOf(pair) = ls[Max(S)].length
  BY DEF LengthOf
<1> HIDE DEF S, ls, key
<1>3. S \in SUBSET Nat /\ \A n \in S : n <= Len(ls)
  BY <1>1
<1>4. ASSUME Latest(LengthMarks(ls), key, v)
      PROVE  S # {} /\ LengthOf(pair) = v
  <2>1. PICK n \in DOMAIN ls :
          /\ LengthMarks(ls)[n] = <<key, v>>
          /\ \A j \in DOMAIN ls : j > n => LengthMarks(ls)[j][1] # key
    BY <1>1, <1>4 DEF Latest
  <2>2. n \in S /\ ls[n].length = v
    BY <1>1, <2>1
  <2>3. \A j \in S : ~(j > n)
    BY <1>1, <2>1
  <2>4. Max(S) \in S /\ n <= Max(S)
    BY <1>1, <1>3, <2>2, MaxIs
  <2>5. n = Max(S)
    <3>1. n \in Nat /\ Max(S) \in Nat /\ ~(Max(S) > n)
      BY <1>3, <2>2, <2>3, <2>4
    <3> QED
      BY <2>4, <3>1
  <2> QED
    BY <1>2, <2>2, <2>5
<1>5. ASSUME S # {}, LengthOf(pair) = v
      PROVE  Latest(LengthMarks(ls), key, v)
  <2>1. Max(S) \in S /\ \A j \in S : j <= Max(S)
    BY <1>1, <1>3, <1>5, MaxIs
  <2>2. \A j \in DOMAIN ls : j > Max(S) => j \notin S
    BY <1>1, <1>3, <2>1
  <2>3. Max(S) \in DOMAIN LengthMarks(ls) /\ LengthMarks(ls)[Max(S)] = <<key, v>>
    BY <1>1, <1>2, <1>5, <2>1
  <2>4. \A j \in DOMAIN LengthMarks(ls) : j > Max(S) => LengthMarks(ls)[j][1] # key
    BY <1>1, <2>2
  <2> QED
    BY <2>3, <2>4 DEF Latest
<1> QED
  BY <1>4, <1>5 DEF S, ls, key

\* The pair kept of the thumbnail of a directory is the last one recorded.
LEMMA PairTold ==
  ASSUME FoundTyped, PairsPlaced, NEW start, NEW kind, NEW v
  PROVE  Latest(PairMarks(data_tag_pairs), <<start, kind, "ThumbnailLength">>, v) <=>
           \E j \in DOMAIN data_tag_pairs :
             /\ LastOfKey(j) /\ data_tag_pairs[j].ifd_start = start /\ data_tag_pairs[j].ifd = kind
             /\ data_tag_pairs[j].length_tag = "ThumbnailLength" /\ data_tag_pairs[j].offset = v
<1> DEFINE ps == data_tag_pairs
           key == <<start, kind, "ThumbnailLength">>
           Key(n) == <<ps[n].ifd_start, ps[n].ifd, ps[n].length_tag>>
<1>1. /\ DOMAIN ps = 1..Len(ps) /\ Len(ps) \in Nat /\ DOMAIN PairMarks(ps) = DOMAIN ps
      /\ \A n \in DOMAIN ps : PairMarks(ps)[n][1] = Key(n) /\ PairMarks(ps)[n] = <<Key(n), ps[n].offset>>
  BY DEF PairMarks, FoundTyped
<1>2. \A n \in DOMAIN ps : ps[n].length_tag = "ThumbnailLength" <=> ps[n].data_tag = ThumbnailOf(ps[n].ifd)
  BY DEF PairsPlaced
<1>3. \A n \in DOMAIN ps : LastOfKey(n) <=>
        \A k \in DOMAIN ps :
          ps[k].ifd_start = ps[n].ifd_start /\ ps[k].ifd = ps[n].ifd /\ ps[k].data_tag = ps[n].data_tag
            => k <= n
  BY DEF LastOfKey, PairKey
<1>4. \A n \in DOMAIN ps : Key(n) = key =>
        (LastOfKey(n) <=> \A k \in DOMAIN ps : Key(k) = key => k <= n)
  BY <1>2, <1>3
<1>5. \A n \in DOMAIN ps : \A k \in DOMAIN ps : k <= n <=> ~(k > n)
  BY <1>1
<1>6. ASSUME Latest(PairMarks(ps), key, v)
      PROVE  \E j \in DOMAIN ps : LastOfKey(j) /\ Key(j) = key /\ ps[j].offset = v
  <2>1. PICK n \in DOMAIN ps :
          /\ PairMarks(ps)[n] = <<key, v>>
          /\ \A j \in DOMAIN ps : j > n => PairMarks(ps)[j][1] # key
    BY <1>1, <1>6 DEF Latest
  <2>2. Key(n) = key /\ ps[n].offset = v
    BY <1>1, <2>1
  <2>3. \A k \in DOMAIN ps : Key(k) = key => k <= n
    BY <1>1, <1>5, <2>1
  <2> QED
    BY <1>4, <2>2, <2>3
<1>7. ASSUME NEW j \in DOMAIN ps, LastOfKey(j), Key(j) = key, ps[j].offset = v
      PROVE  Latest(PairMarks(ps), key, v)
  <2>1. \A k \in DOMAIN ps : Key(k) = key => k <= j
    BY <1>4, <1>7
  <2>2. \A k \in DOMAIN ps : k > j => Key(k) # key
    BY <1>5, <2>1
  <2>3. PairMarks(ps)[j] = <<key, v>>
    BY <1>1, <1>7
  <2> QED
    BY <1>1, <2>2, <2>3 DEF Latest
<1> QED
  BY <1>6, <1>7

\* With no directory open, every leaf is of a walk that has ended.
LEMMA LeafEnded ==
  ASSUME LeavesInv, stack = <<>>, NEW n \in DOMAIN entries, NEW w, w = entries[n].walk
  PROVE  /\ w \in DOMAIN walks /\ walks[w].outcome \in {"whole", "aborted"}
         /\ walks[w].start = entries[n].own_ifd_start /\ walks[w].kind = entries[n].ifd
         /\ entries[n].what \in MainLeaves
BY DEF LeavesInv, LeavesPlaced

\* Any walk of a directory tells what the leaves of all its walks say last: they
\* have read the same entries.
LEMMA AnyWalkTells ==
  ASSUME FoundTyped, LeavesInv, stack = <<>>, NEW w \in DOMAIN walks,
         walks[w].outcome \in {"whole", "aborted"}, NEW what \in MainLeaves, NEW v
  PROVE  Latest(LeafMarks(entries), <<walks[w].start, walks[w].kind, what>>, v) <=>
           Latest(WalkMarks(entries), <<w, what>>, v)
<1> DEFINE key == <<walks[w].start, walks[w].kind, what>>
           Key(n) == <<entries[n].own_ifd_start, entries[n].ifd, entries[n].what>>
<1>1. /\ entries \in Seq(Emittable) /\ DOMAIN entries = 1..Len(entries) /\ Len(entries) \in Nat
      /\ MarksNumbered(LeafMarks(entries)) /\ MarksNumbered(WalkMarks(entries))
  <2>1. entries \in Seq(Emittable)
    BY DEF FoundTyped
  <2> QED
    BY <2>1, MarksListed
<1>2. /\ DOMAIN LeafMarks(entries) = DOMAIN entries /\ DOMAIN WalkMarks(entries) = DOMAIN entries
      /\ \A n \in DOMAIN entries :
           /\ LeafMarks(entries)[n] = <<Key(n), entries[n].value>>
           /\ LeafMarks(entries)[n][1] = Key(n) /\ LeafMarks(entries)[n][2] = entries[n].value
           /\ WalkMarks(entries)[n] = <<<<entries[n].walk, entries[n].what>>, entries[n].value>>
           /\ WalkMarks(entries)[n][1] = <<entries[n].walk, entries[n].what>>
  BY DEF LeafMarks, WalkMarks
\* Two walks of one directory.
<1>3. ASSUME NEW u \in DOMAIN walks, walks[u].outcome \in {"whole", "aborted"},
             walks[u].start = walks[w].start, walks[u].kind = walks[w].kind, NEW x
      PROVE  Latest(WalkMarks(entries), <<u, what>>, x) <=> Latest(WalkMarks(entries), <<w, what>>, x)
  <2>1. PICK read, kind : read = disk[walks[w].start].entries /\ kind = walks[w].kind
    OBVIOUS
  <2>2. FoundAs(entries, w, kind, read, Len(read)) /\ FoundAs(entries, u, kind, read, Len(read))
    BY <1>3, <2>1 DEF LeavesInv, FoundAsRead
  <2> QED
    BY <2>2 DEF FoundAs
\* The last leaf of the directory is the last of its own walk.
<1>4. ASSUME NEW x, Latest(LeafMarks(entries), key, x)
      PROVE  Latest(WalkMarks(entries), <<w, what>>, x)
  <2>1. PICK m \in DOMAIN entries :
          /\ LeafMarks(entries)[m] = <<key, x>>
          /\ \A j \in DOMAIN entries : j > m => LeafMarks(entries)[j][1] # key
    BY <1>2, <1>4 DEF Latest
  <2>2. Key(m) = key /\ entries[m].value = x /\ \A j \in DOMAIN entries : j > m => Key(j) # key
    BY <1>2, <2>1
  <2>3. PICK u : u = entries[m].walk
    OBVIOUS
  <2>4. /\ u \in DOMAIN walks /\ walks[u].outcome \in {"whole", "aborted"}
        /\ walks[u].start = entries[m].own_ifd_start /\ walks[u].kind = entries[m].ifd
    BY <2>3, LeafEnded
  <2>5. walks[u].start = walks[w].start /\ walks[u].kind = walks[w].kind /\ entries[m].what = what
    BY <2>2, <2>4
  <2>6. ASSUME NEW j \in DOMAIN entries, j > m PROVE <<entries[j].walk, entries[j].what>> # <<u, what>>
    <3> SUFFICES ASSUME entries[j].walk = u, entries[j].what = what PROVE FALSE
      OBVIOUS
    <3>1. walks[u].start = entries[j].own_ifd_start /\ walks[u].kind = entries[j].ifd
      BY LeafEnded
    <3>2. Key(j) = key
      BY <2>5, <3>1
    <3> QED
      BY <2>2, <2>6, <3>2
  <2>7. WalkMarks(entries)[m] = <<<<u, what>>, x>>
    BY <1>2, <2>2, <2>3, <2>5
  <2>8. Latest(WalkMarks(entries), <<u, what>>, x)
    BY <1>2, <2>6, <2>7 DEF Latest
  <2> QED
    BY <1>3, <2>4, <2>5, <2>8
<1>5. ASSUME Latest(WalkMarks(entries), <<w, what>>, v)
      PROVE  Latest(LeafMarks(entries), key, v)
  <2>1. PICK n \in DOMAIN entries : WalkMarks(entries)[n] = <<<<w, what>>, v>>
    BY <1>2, <1>5 DEF Latest
  <2>2. entries[n].walk = w /\ entries[n].what = what
    BY <1>2, <2>1
  <2>3. walks[w].start = entries[n].own_ifd_start /\ walks[w].kind = entries[n].ifd
    BY <2>2, LeafEnded
  <2>4. Key(n) = key
    BY <2>2, <2>3
  <2> HIDE DEF key
  <2>5. /\ n \in DOMAIN LeafMarks(entries) /\ LeafMarks(entries)[n][1] = key
        /\ \A m \in DOMAIN LeafMarks(entries) :
             LeafMarks(entries)[m] = <<LeafMarks(entries)[m][1], LeafMarks(entries)[m][2]>>
    BY <1>2, <2>4
  <2>6. PICK s : s = LeafMarks(entries)
    OBVIOUS
  <2>7. \E m \in DOMAIN s : Latest(s, key, s[m][2])
    <3>1. MarksNumbered(s) /\ n \in DOMAIN s /\ s[n][1] = key /\ \A m \in DOMAIN s : s[m] = <<s[m][1], s[m][2]>>
      BY <1>1, <2>5, <2>6
    <3> QED
      BY <3>1, LatestExists
  <2>8. PICK x : Latest(LeafMarks(entries), key, x)
    BY <2>6, <2>7
  <2>9. Latest(WalkMarks(entries), <<w, what>>, x)
    BY <1>4, <2>8
  <2>10. x = v
    <3>1. PICK t, k : t = WalkMarks(entries) /\ k = <<w, what>>
      OBVIOUS
    <3>2. MarksNumbered(t) /\ Latest(t, k, x) /\ Latest(t, k, v)
      BY <1>1, <1>5, <2>9, <3>1
    <3> QED
      BY <3>2, LatestUnique
  <2> QED
    BY <2>8, <2>10
<1> QED
  BY <1>4, <1>5

\* The leaves of a walk among es, and the last of one kind.
LeavesAt(es, w, whats) == {n \in DOMAIN es : es[n].walk = w /\ es[n].what \in whats}
LastAt(es, w, what, l) == l \in LeavesAt(es, w, {what}) /\ l = Max(LeavesAt(es, w, {what}))

\* What the images made have to do with the leaves es of the block: each thumbnail is
\* that of a walk, ...
ThumbnailsBacked(es, made) ==
  \A n \in DOMAIN made : made[n].name = ThumbnailOf(made[n].ifd) =>
    \E w \in DOMAIN walks : \E l, o \in DOMAIN es :
      /\ LastAt(es, w, "ThumbnailLength", l) /\ LastAt(es, w, "ThumbnailOffset", o)
      /\ made[n].own_ifd_start = walks[w].start /\ made[n].ifd = walks[w].kind
      /\ made[n].value = es[l].value
      /\ Extractable(made[n].name, es[o].value, es[l].value)

\* ... each walk with a thumbnail has one, ...
ThumbnailsMade(es, made) ==
  \A w \in DOMAIN walks : \A l, o \in DOMAIN es :
    /\ LastAt(es, w, "ThumbnailLength", l) /\ LastAt(es, w, "ThumbnailOffset", o)
    /\ Extractable(ThumbnailOf(walks[w].kind), es[o].value, es[l].value)
    => \E n \in DOMAIN made :
         /\ made[n].own_ifd_start = walks[w].start /\ made[n].ifd = walks[w].kind
         /\ made[n].name = ThumbnailOf(walks[w].kind) /\ made[n].value = es[l].value

\* ... every image is of one walk, ...
ImagesBacked(es, made) ==
  \A n \in DOMAIN made : \E w \in DOMAIN walks :
    \E o \in LeavesAt(es, w, {"StripOffsets", "ThumbnailOffset"}) :
      \E l \in LeavesAt(es, w, {OffsetPair(es[o].what)}) :
        /\ made[n].own_ifd_start = walks[w].start /\ made[n].ifd = walks[w].kind
        /\ made[n].value = es[l].value
        /\ Extractable(made[n].name, es[o].value, es[l].value)

\* ... and none is there twice.
ImagesOnce(es, made) ==
  /\ \A n \in DOMAIN es : es[n].what # "image"
  /\ \A n \in DOMAIN made : made[n].what = "image" /\ made[n].walk = 0
  /\ \A n, k \in DOMAIN made :
       /\ made[n].own_ifd_start = made[k].own_ifd_start /\ made[n].ifd = made[k].ifd
       /\ made[n].name = made[k].name
       => n = k

\* All of it.
OneOfEach(es, made) ==
  /\ ThumbnailsBacked(es, made) /\ ThumbnailsMade(es, made) /\ ImagesBacked(es, made)
  /\ ImagesOnce(es, made)

\* The leaves of a block that ended, and the images behind them.
Announced ==
  \E es, made \in Seq(Emittable) : entries = es \o made /\ OneOfEach(es, made)

\* What is announced, as the property tells it.
LEMMA AnnouncedSays == Typed /\ Announced => ImagesFromOneWalk
<1> SUFFICES ASSUME Typed, NEW es \in Seq(Emittable), NEW made \in Seq(Emittable),
                    entries = es \o made, OneOfEach(es, made)
             PROVE  ImagesFromOneWalk
  BY DEF Announced
<1> DEFINE announced == {n \in DOMAIN entries : entries[n].what = "image"}
           At(n) == <<entries[n].own_ifd_start, entries[n].ifd, entries[n].name, entries[n].value>>
           Thumbs == {At(n) : n \in {n \in announced : entries[n].name = ThumbnailOf(entries[n].ifd)}}
<1>1. /\ DOMAIN es = 1..Len(es) /\ DOMAIN made = 1..Len(made) /\ Len(es) \in Nat /\ Len(made) \in Nat
      /\ \A p \in DOMAIN es : p \in DOMAIN entries /\ entries[p] = es[p]
      /\ \A p \in DOMAIN made : Len(es) + p \in DOMAIN entries /\ entries[Len(es) + p] = made[p]
      /\ \A p \in DOMAIN entries :
           \/ p \in DOMAIN es /\ entries[p] = es[p]
           \/ p - Len(es) \in DOMAIN made /\ ~(p <= Len(es)) /\ entries[p] = made[p - Len(es)]
  BY ConcatIs DEF Glued
<1>2. 0 \notin DOMAIN walks
  BY DEF Typed
<1>3. ASSUME NEW w \in DOMAIN walks, NEW whats
      PROVE  LeavesIn(w, whats) = LeavesAt(es, w, whats)
  <2>1. \A n \in DOMAIN made : made[n].walk # w
    BY <1>2 DEF OneOfEach, ThumbnailsBacked, ThumbnailsMade, ImagesBacked, ImagesOnce
  <2>2. \A n : n \in LeavesIn(w, whats) <=> n \in LeavesAt(es, w, whats)
    BY <1>1, <2>1 DEF LeavesIn, LeavesAt
  <2> QED
    BY <2>2
<1>4. /\ \A n \in announced : /\ n \in DOMAIN entries /\ n - Len(es) \in DOMAIN made
                              /\ entries[n] = made[n - Len(es)]
      /\ \A k \in DOMAIN made : Len(es) + k \in announced
  <2>1. /\ \A n \in DOMAIN es : es[n].what # "image"
        /\ \A n \in DOMAIN made : made[n].what = "image"
    BY DEF OneOfEach, ThumbnailsBacked, ThumbnailsMade, ImagesBacked, ImagesOnce
  <2> QED
    BY <1>1, <2>1
<1> HIDE DEF announced
<1>5. Thumbs = UNION {ThumbnailsIn(w) : w \in DOMAIN walks}
  <2>1. ASSUME NEW n \in announced, entries[n].name = ThumbnailOf(entries[n].ifd)
        PROVE  \E w \in DOMAIN walks : At(n) \in ThumbnailsIn(w)
    <3>1. PICK k \in DOMAIN made : entries[n] = made[k]
      BY <1>4
    <3>2. PICK w \in DOMAIN walks, l \in DOMAIN es, o \in DOMAIN es :
            /\ LastAt(es, w, "ThumbnailLength", l) /\ LastAt(es, w, "ThumbnailOffset", o)
            /\ made[k].own_ifd_start = walks[w].start /\ made[k].ifd = walks[w].kind
            /\ made[k].value = es[l].value
            /\ Extractable(made[k].name, es[o].value, es[l].value)
      BY <2>1, <3>1 DEF OneOfEach, ThumbnailsBacked, ThumbnailsMade, ImagesBacked, ImagesOnce
    <3>3. /\ l \in LeavesIn(w, {"ThumbnailLength"}) /\ l = Max(LeavesIn(w, {"ThumbnailLength"}))
          /\ o \in LeavesIn(w, {"ThumbnailOffset"}) /\ o = Max(LeavesIn(w, {"ThumbnailOffset"}))
          /\ entries[l] = es[l] /\ entries[o] = es[o]
      BY <1>1, <1>3, <3>2 DEF LastAt
    <3>4. Extractable(ThumbnailOf(walks[w].kind), entries[o].value, entries[l].value)
      BY <2>1, <3>1, <3>2, <3>3
    <3>5. <<walks[w].start, walks[w].kind, ThumbnailOf(walks[w].kind), entries[l].value>> \in ThumbnailsIn(w)
      BY <3>3, <3>4 DEF ThumbnailsIn
    <3>6. At(n) = <<walks[w].start, walks[w].kind, ThumbnailOf(walks[w].kind), entries[l].value>>
      BY <2>1, <3>1, <3>2, <3>3
    <3> QED
      BY <3>5, <3>6
  <2>2. ASSUME NEW w \in DOMAIN walks, NEW t \in ThumbnailsIn(w)
        PROVE  \E n \in announced : entries[n].name = ThumbnailOf(entries[n].ifd) /\ t = At(n)
    <3>1. PICK l \in LeavesIn(w, {"ThumbnailLength"}), o \in LeavesIn(w, {"ThumbnailOffset"}) :
            /\ l = Max(LeavesIn(w, {"ThumbnailLength"})) /\ o = Max(LeavesIn(w, {"ThumbnailOffset"}))
            /\ Extractable(ThumbnailOf(walks[w].kind), entries[o].value, entries[l].value)
            /\ t = <<walks[w].start, walks[w].kind, ThumbnailOf(walks[w].kind), entries[l].value>>
      BY <2>2 DEF ThumbnailsIn
    <3>2. /\ LastAt(es, w, "ThumbnailLength", l) /\ LastAt(es, w, "ThumbnailOffset", o)
          /\ l \in DOMAIN es /\ o \in DOMAIN es
      BY <1>3, <3>1 DEF LastAt, LeavesAt
    <3>3. entries[l] = es[l] /\ entries[o] = es[o]
      BY <1>1, <3>2
    <3>4. PICK k \in DOMAIN made :
            /\ made[k].own_ifd_start = walks[w].start /\ made[k].ifd = walks[w].kind
            /\ made[k].name = ThumbnailOf(walks[w].kind) /\ made[k].value = es[l].value
      BY <3>1, <3>2, <3>3 DEF OneOfEach, ThumbnailsBacked, ThumbnailsMade, ImagesBacked, ImagesOnce
    <3>5. PICK n \in announced : entries[n] = made[k]
      BY <1>1, <1>4
    <3> QED
      BY <3>1, <3>3, <3>4, <3>5
  <2>3. Thumbs \subseteq UNION {ThumbnailsIn(w) : w \in DOMAIN walks}
    <3> SUFFICES ASSUME NEW t \in Thumbs PROVE \E w \in DOMAIN walks : t \in ThumbnailsIn(w)
      OBVIOUS
    <3>1. PICK n \in announced : entries[n].name = ThumbnailOf(entries[n].ifd) /\ t = At(n)
      OBVIOUS
    <3> QED
      BY <2>1, <3>1
  <2>4. UNION {ThumbnailsIn(w) : w \in DOMAIN walks} \subseteq Thumbs
    <3> SUFFICES ASSUME NEW w \in DOMAIN walks, NEW t \in ThumbnailsIn(w) PROVE t \in Thumbs
      OBVIOUS
    <3>1. PICK n \in announced : entries[n].name = ThumbnailOf(entries[n].ifd) /\ t = At(n)
      BY <2>2
    <3> QED
      BY <3>1
  <2> QED
    BY <2>3, <2>4
<1>6. ASSUME NEW n \in announced
      PROVE  \E w \in DOMAIN walks :
               \E o \in LeavesIn(w, {"StripOffsets", "ThumbnailOffset"}) :
                 \E l \in LeavesIn(w, {OffsetPair(entries[o].what)}) :
                   /\ At(n) = <<walks[w].start, walks[w].kind, entries[n].name, entries[l].value>>
                   /\ Extractable(entries[n].name, entries[o].value, entries[l].value)
  <2>1. PICK k \in DOMAIN made : entries[n] = made[k]
    BY <1>4
  <2>2. PICK w \in DOMAIN walks : \E o \in LeavesAt(es, w, {"StripOffsets", "ThumbnailOffset"}) :
          \E l \in LeavesAt(es, w, {OffsetPair(es[o].what)}) :
            /\ made[k].own_ifd_start = walks[w].start /\ made[k].ifd = walks[w].kind
            /\ made[k].value = es[l].value
            /\ Extractable(made[k].name, es[o].value, es[l].value)
    BY DEF OneOfEach, ThumbnailsBacked, ThumbnailsMade, ImagesBacked, ImagesOnce
  <2>o. PICK o \in LeavesAt(es, w, {"StripOffsets", "ThumbnailOffset"}) :
          \E l \in LeavesAt(es, w, {OffsetPair(es[o].what)}) :
            /\ made[k].own_ifd_start = walks[w].start /\ made[k].ifd = walks[w].kind
            /\ made[k].value = es[l].value
            /\ Extractable(made[k].name, es[o].value, es[l].value)
    BY <2>2
  <2>3. PICK l \in LeavesAt(es, w, {OffsetPair(es[o].what)}) :
            /\ made[k].own_ifd_start = walks[w].start /\ made[k].ifd = walks[w].kind
            /\ made[k].value = es[l].value
            /\ Extractable(made[k].name, es[o].value, es[l].value)
    BY <2>o
  <2>4. entries[o] = es[o] /\ entries[l] = es[l]
    BY <1>1 DEF LeavesAt
  <2>5. /\ o \in LeavesIn(w, {"StripOffsets", "ThumbnailOffset"})
        /\ l \in LeavesIn(w, {OffsetPair(entries[o].what)})
    BY <1>3, <2>4
  <2> QED
    BY <2>1, <2>3, <2>4, <2>5
<1>7. \A m, n \in announced :
        entries[m].ifd = entries[n].ifd /\ entries[m].own_ifd_start = entries[n].own_ifd_start
          /\ entries[m].name = entries[n].name => m = n
  <2> SUFFICES ASSUME NEW m \in announced, NEW n \in announced,
                      entries[m].ifd = entries[n].ifd,
                      entries[m].own_ifd_start = entries[n].own_ifd_start,
                      entries[m].name = entries[n].name
               PROVE  m = n
    OBVIOUS
  <2>1. m - Len(es) = n - Len(es)
    BY <1>4 DEF OneOfEach, ThumbnailsBacked, ThumbnailsMade, ImagesBacked, ImagesOnce
  <2>2. m \in Nat /\ n \in Nat
    <3>1. \A j \in announced : j - Len(es) \in Nat /\ j \in DOMAIN entries
      BY <1>1, <1>4
    <3>2. entries \in Seq(Emittable)
      BY ConcatIs DEF Glued
    <3> QED
      BY <3>1, <3>2
  <2> QED
    BY <1>1, <2>1, <2>2
<1> USE DEF announced
<1> QED
  BY <1>5, <1>6, <1>7 DEF ImagesFromOneWalk

\* What finalize_data_tags announces.
LEMMA ImagesAreOneOfEach ==
  ASSUME FoundTyped, LeavesInv, stack = <<>>, Typed, NEW made \in Seq(Emittable),
         \A n \in DOMAIN made : \E j \in DOMAIN data_tag_pairs :
           LastOfKey(j) /\ Locates(data_tag_pairs[j]) /\ made[n] = ImageLeaf(data_tag_pairs[j]),
         \A j \in DOMAIN data_tag_pairs : LastOfKey(j) /\ Locates(data_tag_pairs[j]) =>
           \E n \in DOMAIN made : made[n] = ImageLeaf(data_tag_pairs[j]),
         \A n, k \in DOMAIN made :
           /\ made[n].own_ifd_start = made[k].own_ifd_start /\ made[n].ifd = made[k].ifd
           /\ made[n].name = made[k].name
           => n = k
  PROVE  OneOfEach(entries, made)
<1> DEFINE ps == data_tag_pairs
<1>1. /\ entries \in Seq(Emittable) /\ ps \in Seq(APair)
      /\ \A w, whats : LeavesAt(entries, w, whats) = LeavesIn(w, whats)
  BY DEF FoundTyped, LeavesAt, LeavesIn
<1>2. \A pair \in APair : /\ ImageLeaf(pair).own_ifd_start = pair.ifd_start
                          /\ ImageLeaf(pair).ifd = pair.ifd /\ ImageLeaf(pair).name = pair.data_tag
                          /\ ImageLeaf(pair).value = LengthOf(pair)
                          /\ ImageLeaf(pair).what = "image" /\ ImageLeaf(pair).walk = 0
  BY DEF ImageLeaf, Leaf, APair
<1>3. \A w, what, v :
        Latest(WalkMarks(entries), <<w, what>>, v) <=>
          \E l \in DOMAIN entries : LastAt(entries, w, what, l) /\ entries[l].value = v
  <2> SUFFICES ASSUME NEW w, NEW what, NEW v
               PROVE  Latest(WalkMarks(entries), <<w, what>>, v) <=>
                        \E l \in DOMAIN entries : LastAt(entries, w, what, l) /\ entries[l].value = v
    OBVIOUS
  <2>1. Latest(WalkMarks(entries), <<w, what>>, v) <=>
          \E l \in LeavesIn(w, {what}) : l = Max(LeavesIn(w, {what})) /\ entries[l].value = v
    <3>1. PICK P : entries \in Seq(P)
      BY <1>1
    <3> QED
      BY <3>1, LastLeafIs
  <2>2. \A l : LastAt(entries, w, what, l) <=> l \in LeavesIn(w, {what}) /\ l = Max(LeavesIn(w, {what}))
    BY <1>1 DEF LastAt
  <2>3. LeavesIn(w, {what}) \subseteq DOMAIN entries
    BY DEF LeavesIn
  <2> QED
    BY <2>1, <2>2, <2>3
<1>4. Lengths \subseteq MainLeaves /\ "ThumbnailOffset" \in MainLeaves
      /\ "ThumbnailLength" \in Lengths /\ "image" \notin MainLeaves
  BY DEF Lengths, MainLeaves
\* A walk of the directory of a pair, and the length it found last.
<1>5. ASSUME NEW j \in DOMAIN ps, Locates(ps[j])
      PROVE  \E w \in DOMAIN walks :
               /\ walks[w].outcome \in {"whole", "aborted"}
               /\ walks[w].start = ps[j].ifd_start /\ walks[w].kind = ps[j].ifd
               /\ \E o \in LeavesIn(w, {"StripOffsets", "ThumbnailOffset"}) :
                    OffsetPair(entries[o].what) = ps[j].length_tag /\ entries[o].value = ps[j].offset
               /\ Latest(WalkMarks(entries), <<w, ps[j].length_tag>>, LengthOf(ps[j]))
  <2>1. PICK pair \in APair : pair = ps[j]
    BY <1>1
  <2>2. PICK o \in DOMAIN entries :
          /\ entries[o].own_ifd_start = pair.ifd_start /\ entries[o].ifd = pair.ifd
          /\ entries[o].what \in {"StripOffsets", "ThumbnailOffset"}
          /\ OffsetPair(entries[o].what) = pair.length_tag /\ entries[o].value = pair.offset
    BY <2>1 DEF LeavesInv, PairsPlaced
  <2>3. PICK w : w = entries[o].walk
    OBVIOUS
  <2>4. /\ w \in DOMAIN walks /\ walks[w].outcome \in {"whole", "aborted"}
        /\ walks[w].start = pair.ifd_start /\ walks[w].kind = pair.ifd
    BY <2>2, <2>3, LeafEnded
  <2>5. o \in LeavesIn(w, {"StripOffsets", "ThumbnailOffset"})
    BY <2>2, <2>3 DEF LeavesIn
  <2>6. PICK tag, v : tag = pair.length_tag /\ v = LengthOf(pair)
    OBVIOUS
  <2>7. tag \in Lengths /\ Latest(LengthMarks(data_tag_lengths), <<pair.ifd_start, pair.ifd, tag>>, v)
    BY <1>5, <2>1, <2>6, LengthTold DEF APair, Locates
  <2>8. Latest(LeafMarks(entries), <<walks[w].start, walks[w].kind, tag>>, v)
    BY <2>4, <2>7 DEF LeavesInv, HalvesKept
  <2>9. Latest(WalkMarks(entries), <<w, tag>>, v)
    BY <1>4, <2>4, <2>7, <2>8, AnyWalkTells
  <2> QED
    BY <2>1, <2>2, <2>4, <2>5, <2>6, <2>9
<1>6. \A n \in DOMAIN entries : entries[n].what # "image"
  BY <1>4 DEF LeavesInv, LeavesPlaced
<1>7. \A n \in DOMAIN made : \E pair \in APair : \E j \in DOMAIN ps :
        LastOfKey(j) /\ pair = ps[j] /\ Locates(pair) /\ made[n] = ImageLeaf(pair)
  <2>1. \A j \in DOMAIN ps : ps[j] \in APair
    BY <1>1
  <2> QED
    BY <2>1
<1>8. \A n \in DOMAIN made : made[n].what = "image" /\ made[n].walk = 0
  BY <1>2, <1>7
<1>9. ASSUME NEW n \in DOMAIN made, made[n].name = ThumbnailOf(made[n].ifd)
      PROVE  \E w \in DOMAIN walks : \E l, o \in DOMAIN entries :
         /\ LastAt(entries, w, "ThumbnailLength", l) /\ LastAt(entries, w, "ThumbnailOffset", o)
         /\ made[n].own_ifd_start = walks[w].start /\ made[n].ifd = walks[w].kind
         /\ made[n].value = entries[l].value
         /\ Extractable(made[n].name, entries[o].value, entries[l].value)
  <2>1. PICK pair \in APair, j \in DOMAIN ps :
          LastOfKey(j) /\ pair = ps[j] /\ Locates(pair) /\ made[n] = ImageLeaf(pair)
    BY <1>7
  <2>2. /\ made[n].own_ifd_start = pair.ifd_start /\ made[n].ifd = pair.ifd
        /\ made[n].name = pair.data_tag /\ made[n].value = LengthOf(pair)
    BY <1>2, <2>1
  <2>3. pair.length_tag = "ThumbnailLength"
    BY <1>9, <2>1, <2>2 DEF LeavesInv, PairsPlaced
  <2>4. PICK w \in DOMAIN walks :
               /\ walks[w].outcome \in {"whole", "aborted"}
               /\ walks[w].start = pair.ifd_start /\ walks[w].kind = pair.ifd
               /\ Latest(WalkMarks(entries), <<w, "ThumbnailLength">>, LengthOf(pair))
    BY <1>5, <2>1, <2>3
  <2>5. PICK start, kind, v, v2 : start = walks[w].start /\ kind = walks[w].kind
                                   /\ v = pair.offset /\ v2 = LengthOf(pair)
    OBVIOUS
  <2>6. Latest(PairMarks(data_tag_pairs), <<start, kind, "ThumbnailLength">>, v)
    <3>1. PairsPlaced
      BY DEF LeavesInv
    <3> QED
      BY <2>1, <2>3, <2>4, <2>5, <3>1, PairTold
  <2>7. Latest(LeafMarks(entries), <<start, kind, "ThumbnailOffset">>, v)
    BY <2>6 DEF LeavesInv, HalvesKept
  <2>8. Latest(WalkMarks(entries), <<w, "ThumbnailOffset">>, v)
    BY <1>4, <2>4, <2>5, <2>7, AnyWalkTells
  <2>9. PICK o \in DOMAIN entries : LastAt(entries, w, "ThumbnailOffset", o) /\ entries[o].value = v
    BY <1>3, <2>8
  <2>10. PICK l \in DOMAIN entries : LastAt(entries, w, "ThumbnailLength", l) /\ entries[l].value = v2
    BY <1>3, <2>4, <2>5
  <2>11. Extractable(made[n].name, v, v2)
    BY <2>1, <2>2, <2>5 DEF Locates
  <2> QED
    BY <2>2, <2>4, <2>5, <2>9, <2>10, <2>11
<1>10. ASSUME NEW w \in DOMAIN walks, NEW l \in DOMAIN entries, NEW o \in DOMAIN entries,
              LastAt(entries, w, "ThumbnailLength", l), LastAt(entries, w, "ThumbnailOffset", o),
              Extractable(ThumbnailOf(walks[w].kind), entries[o].value, entries[l].value)
       PROVE  \E n \in DOMAIN made :
                /\ made[n].own_ifd_start = walks[w].start /\ made[n].ifd = walks[w].kind
                /\ made[n].name = ThumbnailOf(walks[w].kind) /\ made[n].value = entries[l].value
  <2>1. PICK start, kind, v, v2 : start = walks[w].start /\ kind = walks[w].kind
                                   /\ v = entries[o].value /\ v2 = entries[l].value
    OBVIOUS
  <2>2. entries[l].walk = w
    BY <1>10 DEF LastAt, LeavesAt
  <2>3. walks[w].outcome \in {"whole", "aborted"}
    BY <2>2, LeafEnded
  <2>4. /\ Latest(WalkMarks(entries), <<w, "ThumbnailOffset">>, v)
        /\ Latest(WalkMarks(entries), <<w, "ThumbnailLength">>, v2)
    BY <1>3, <1>10, <2>1
  <2>5. /\ Latest(LeafMarks(entries), <<start, kind, "ThumbnailOffset">>, v)
        /\ Latest(LeafMarks(entries), <<start, kind, "ThumbnailLength">>, v2)
    BY <1>4, <2>1, <2>3, <2>4, AnyWalkTells
  <2>6. /\ Latest(PairMarks(data_tag_pairs), <<start, kind, "ThumbnailLength">>, v)
        /\ Latest(LengthMarks(data_tag_lengths), <<start, kind, "ThumbnailLength">>, v2)
    BY <1>4, <2>5 DEF LeavesInv, HalvesKept
  <2>7. PICK j \in DOMAIN ps :
             /\ LastOfKey(j) /\ ps[j].ifd_start = start /\ ps[j].ifd = kind
             /\ ps[j].length_tag = "ThumbnailLength" /\ ps[j].offset = v
    <3>1. PairsPlaced
      BY DEF LeavesInv
    <3> QED
      BY <2>6, <3>1, PairTold
  <2>8. PICK pair \in APair : pair = ps[j]
    BY <1>1
  <2>9. LengthsFor(pair) # {} /\ LengthOf(pair) = v2
    BY <2>6, <2>7, <2>8, LengthTold
  <2>10. pair.data_tag = ThumbnailOf(kind)
    BY <2>7, <2>8 DEF LeavesInv, PairsPlaced
  <2>11. Locates(pair)
    BY <1>10, <2>1, <2>7, <2>8, <2>9, <2>10 DEF Locates
  <2>12. PICK n \in DOMAIN made : made[n] = ImageLeaf(pair)
    BY <2>7, <2>8, <2>11
  <2> QED
    BY <1>2, <2>1, <2>7, <2>8, <2>9, <2>10, <2>12
<1>11. ASSUME NEW n \in DOMAIN made
       PROVE  \E w \in DOMAIN walks :
       \E o \in LeavesAt(entries, w, {"StripOffsets", "ThumbnailOffset"}) :
         \E l \in LeavesAt(entries, w, {OffsetPair(entries[o].what)}) :
           /\ made[n].own_ifd_start = walks[w].start /\ made[n].ifd = walks[w].kind
           /\ made[n].value = entries[l].value
           /\ Extractable(made[n].name, entries[o].value, entries[l].value)
  <2>1. PICK pair \in APair, j \in DOMAIN ps :
          LastOfKey(j) /\ pair = ps[j] /\ Locates(pair) /\ made[n] = ImageLeaf(pair)
    BY <1>7
  <2>2. /\ made[n].own_ifd_start = pair.ifd_start /\ made[n].ifd = pair.ifd
        /\ made[n].name = pair.data_tag /\ made[n].value = LengthOf(pair)
    BY <1>2, <2>1
  <2>w. PICK w \in DOMAIN walks :
               /\ walks[w].start = pair.ifd_start /\ walks[w].kind = pair.ifd
               /\ \E o \in LeavesIn(w, {"StripOffsets", "ThumbnailOffset"}) :
                    OffsetPair(entries[o].what) = pair.length_tag /\ entries[o].value = pair.offset
               /\ Latest(WalkMarks(entries), <<w, pair.length_tag>>, LengthOf(pair))
    BY <1>5, <2>1
  <2>3. PICK o \in LeavesIn(w, {"StripOffsets", "ThumbnailOffset"}) :
               OffsetPair(entries[o].what) = pair.length_tag /\ entries[o].value = pair.offset
    BY <2>w
  <2>4. PICK l \in DOMAIN entries :
          LastAt(entries, w, pair.length_tag, l) /\ entries[l].value = LengthOf(pair)
    BY <1>3, <2>w
  <2>5. l \in LeavesAt(entries, w, {OffsetPair(entries[o].what)})
    BY <2>3, <2>4 DEF LastAt
  <2>6. Extractable(made[n].name, entries[o].value, entries[l].value)
    BY <2>1, <2>2, <2>3, <2>4 DEF Locates
  <2>7. o \in LeavesAt(entries, w, {"StripOffsets", "ThumbnailOffset"})
    BY <1>1, <2>3
  <2> QED
    BY <2>2, <2>w, <2>4, <2>5, <2>6, <2>7
<1> QED
  BY <1>6, <1>8, <1>9, <1>10, <1>11 DEF OneOfEach, ThumbnailsBacked, ThumbnailsMade, ImagesBacked, ImagesOnce

\* It stays so while the walks and the type of the file stay.
LEMMA OneOfEachStays ==
  ASSUME NEW old \in Seq(Emittable), NEW added \in Seq(Emittable), OneOfEach(old, added),
         UNCHANGED <<walks, file_type>>
  PROVE  OneOfEach(old, added)'
<1>1. \A kind : ThumbnailOf(kind)' = ThumbnailOf(kind)
  BY DEF ThumbnailOf, ImageOf, JpegPreview
<1>2. \A name, o, l : Extractable(name, o, l)' <=> Extractable(name, o, l)
  BY DEF Extractable
<1>3. \A w, whats : LeavesAt(old, w, whats)' = LeavesAt(old, w, whats)
  BY DEF LeavesAt
<1>4. \A w, what, l : LastAt(old, w, what, l)' <=> LastAt(old, w, what, l)
  BY DEF LastAt, LeavesAt
<1>5. \A what : OffsetPair(what)' = OffsetPair(what)
  BY DEF OffsetPair
<1>6. ThumbnailsBacked(old, added)'
  BY <1>1, <1>2, <1>4 DEF OneOfEach, ThumbnailsBacked
<1>7. ThumbnailsMade(old, added)'
  BY <1>1, <1>2, <1>4 DEF OneOfEach, ThumbnailsMade
<1>8. ImagesBacked(old, added)'
  BY <1>1, <1>2, <1>3, <1>5 DEF OneOfEach, ImagesBacked
<1>9. ImagesOnce(old, added)'
  BY DEF OneOfEach, ImagesOnce
<1> QED
  BY <1>6, <1>7, <1>8, <1>9 DEF OneOfEach

\* A block that ends announces what it should ...
LEMMA FinalizeAnnounces ==
  ASSUME WalkInv, FoundTyped, LeavesInv, Finalize
  PROVE  Announced'
<1>1. stack = <<>> /\ UNCHANGED <<walks, file_type>> /\ Typed
  BY DEF Finalize, context, WalkInv
<1>2. PICK added \in Seq(Emittable) :
           /\ entries' = entries \o added
           /\ \A n \in DOMAIN added : \E j \in DOMAIN data_tag_pairs :
                LastOfKey(j) /\ Locates(data_tag_pairs[j]) /\ added[n] = ImageLeaf(data_tag_pairs[j])
           /\ \A j \in DOMAIN data_tag_pairs : LastOfKey(j) /\ Locates(data_tag_pairs[j]) =>
                \E n \in DOMAIN added : added[n] = ImageLeaf(data_tag_pairs[j])
           /\ \A n, k \in DOMAIN added :
                /\ added[n].own_ifd_start = added[k].own_ifd_start /\ added[n].ifd = added[k].ifd
                /\ added[n].name = added[k].name
                => n = k
  BY ImagesAre
<1>3. OneOfEach(entries, added)
  BY <1>1, <1>2, ImagesAreOneOfEach
<1>4. PICK old \in Seq(Emittable) : old = entries
  BY DEF FoundTyped
<1>5. OneOfEach(old, added)'
  <2>1. OneOfEach(old, added)
    BY <1>3, <1>4
  <2> QED
    BY <1>1, <2>1, OneOfEachStays
<1>6. entries' = old \o added
  BY <1>2, <1>4
<1> QED
  BY <1>5, <1>6 DEF Announced

\* ... and nothing happens to it after that.
LEMMA EndedRests ==
  ASSUME WalkInv, finished, [Next]_vars
  PROVE  UNCHANGED <<entries, walks, file_type, finished>>
<1>1. stack = <<>>
  BY DEF WalkInv, Typed
<1>2. ~EndDirectory
  BY <1>1, EndDirectoryEnds DEF Ends
<1>3. ~PassEntry
  BY <1>1 DEF PassEntry, SkipEntry, FollowPointer, FollowSubIfds, CaptureMakerNote, EmitLeaf, ReadEntry
<1>4. ~WalkChainDir /\ ~RefuseChainDir /\ ~Finalize
  BY DEF WalkChainDir, RefuseChainDir, InChain, Finalize
<1>5. ~WalkSubdir /\ ~RefuseSubdir /\ ~PassOverSubdir
  BY <1>1 DEF WalkSubdir, RefuseSubdir, PassOverSubdir, Pending
<1> QED
  BY <1>2, <1>3, <1>4, <1>5 DEF Next, EndDirectory, PassEntry, vars, context, found

\* What was announced stays announced.
LEMMA AnnouncedStays ==
  ASSUME Announced, UNCHANGED <<entries, walks, file_type>>
  PROVE  Announced'
<1>1. PICK old \in Seq(Emittable), added \in Seq(Emittable) :
        entries = old \o added /\ OneOfEach(old, added)
  BY DEF Announced
<1>2. OneOfEach(old, added)'
  BY <1>1, OneOfEachStays
<1>3. entries' = old \o added
  BY <1>1
<1> QED
  BY <1>2, <1>3 DEF Announced

-----------------------------------------------------------------------------
(* The invariant of the maker note: where its pointer was, and what the      *)
(* pointers of its directory led to.                                         *)

\* An entry of the directory at an address, of what was read of the block.
EntryAt(read, start, index, what) ==
  index + 1 \in DOMAIN read[start].entries /\ read[start].entries[index + 1].what = what

\* The record of the place where the ExifIFD at an address was entered.
AnchorOf(record, start) ==
  record.kind = "ExifIfdAnchor" /\ record.parent = "ExifIFD" /\ record.parent_ifd_start = start

\* The record of a pointer to an InteropIFD.
InteropOf(kind, at, index, start) == Deferred("Interop", kind, at, index, start, 0)

\* The pointers of a directory that are followed next were its last entry read.
PointersOf(read, dir) ==
  \A j \in DOMAIN dir.pending :
    LET sub == dir.pending[j]
    IN  /\ dir.kind # "GPS"
        /\ sub.kind # "InteropIFD" => sub.record = <<>>
        /\ sub.kind = "InteropIFD" =>
             /\ sub.record = <<InteropOf(dir.kind, dir.start, dir.index - 1, sub.start)>>
             /\ EntryAt(read, dir.start, dir.index - 1, "InteropIFD")

\* Each open directory has the pointers of its last entry ahead.
PointersKept == \A n \in DOMAIN stack : PointersOf(disk, stack[n])

\* An ExifIFD is entered right behind its record.
PointerAnchored ==
  \A n \in DOMAIN stack : \A j \in DOMAIN stack[n].pending :
    stack[n].pending[j].kind = "ExifIFD" =>
      LET last == Len(deferred_subdirs)
      IN  /\ n = Len(stack) /\ Len(stack[n].pending) = 1
          /\ last \in DOMAIN deferred_subdirs
          /\ AnchorOf(deferred_subdirs[last], stack[n].pending[j].start)
          /\ deferred_subdirs[last].dispatch_index = Len(entries)

\* The record of the InteropIFD that a walk is of.
RecordOf(made, w) ==
  IF made[w].kind = "InteropIFD"
  THEN <<InteropOf(made[made[w].parent].kind, made[made[w].parent].start, made[w].index, made[w].start)>>
  ELSE <<>>

\* An open directory carries the record that is made when it ends.
RecordsCarried ==
  \A n \in DOMAIN stack :
    /\ stack[n].record = RecordOf(walks, stack[n].walk)
    /\ n < Len(stack) => stack[n].kind # "GPS"

\* A record is there, and a walk is that of an open directory.
IsRecorded(records, record) == \E k \in DOMAIN records : <<records[k]>> = record
IsOpen(open, w) == \E n \in DOMAIN open : open[n].walk = w

\* A walk of an InteropIFD was led to by an entry, and is recorded when it is over.
WalkRecorded(read, made, records, open, w) ==
  /\ made[w].parent \in DOMAIN made
  /\ EntryAt(read, made[made[w].parent].start, made[w].index, "InteropIFD")
  /\ IsRecorded(records, RecordOf(made, w)) \/ IsOpen(open, w)

\* A record is that of a walk.
RecordWalked(made, record) ==
  \E w \in DOMAIN made : made[w].kind = "InteropIFD" /\ <<record>> = RecordOf(made, w)

\* The walks of InteropIFDs and their records are told from one another.
InteropsRecorded ==
  /\ \A w \in DOMAIN walks :
       walks[w].kind = "InteropIFD" => WalkRecorded(disk, walks, deferred_subdirs, stack, w)
  /\ \A k \in DOMAIN deferred_subdirs :
       deferred_subdirs[k].kind = "Interop" => RecordWalked(walks, deferred_subdirs[k])

\* The directory at an address cannot be read, or was read to its end ...
Settled(read, made, start) ==
  \/ read[start] = Broken
  \/ \E w \in DOMAIN made : /\ made[w].start = start /\ made[w].kind # "GPS"
                            /\ made[w].outcome \in {"whole", "aborted"}

\* ... or it is open ...
OpenAt(open, start) == \E n \in DOMAIN open : open[n].start = start /\ open[n].kind # "GPS"

\* ... or it is the ExifIFD entered next.
EnteredNext(start) ==
  Pending /\ Head(Top.pending).kind = "ExifIFD" /\ Head(Top.pending).start = start

\* What became of an ExifIFD that was recorded.
AnchorFollowed(k, start) ==
  \/ EnteredNext(start) /\ k = Len(deferred_subdirs)
  \/ OpenAt(stack, start) \/ Settled(disk, walks, start)

\* A place that was recorded led to the ExifIFD that is there.
AnchorsFollowed ==
  \A k \in DOMAIN deferred_subdirs : \A start \in Addresses :
    AnchorOf(deferred_subdirs[k], start) => AnchorFollowed(k, start)

\* The first record of the ExifIFD at an address has a place.
EnteredFirst(records, start, place) ==
  \E k \in DOMAIN records :
    /\ AnchorOf(records[k], start) /\ records[k].dispatch_index = place
    /\ \A j \in DOMAIN records : AnchorOf(records[j], start) => k <= j

\* An ExifIFD is open for the first time where its first record says.
FirstEntered ==
  \A n \in DOMAIN stack :
    stack[n].kind = "ExifIFD" =>
      \/ Settled(disk, walks, stack[n].start)
      \/ EnteredFirst(deferred_subdirs, stack[n].start, walks[stack[n].walk].before)

\* No maker note among the first entries of a directory.
NoNoteIn(read, upto) == \A m \in 1..upto : read[m].what # "MakerNote"

\* The first maker note that is read is kept.
NoNoteRead ==
  maker_note = NoNote =>
    /\ \A n \in DOMAIN stack :
         stack[n].kind # "GPS" => NoNoteIn(disk[stack[n].start].entries, stack[n].index)
    /\ \A w \in DOMAIN walks :
         walks[w].outcome \in {"whole", "aborted"} /\ walks[w].kind # "GPS" =>
           NoNoteIn(disk[walks[w].start].entries, Len(disk[walks[w].start].entries))

\* Where a maker note was found.
PlacedAt(read, made, records, note) ==
  /\ note.walk \in DOMAIN made
  /\ EntryAt(read, made[note.walk].start, note.index, "MakerNote")
  /\ \A k \in DOMAIN records : records[k].kind = "MakerNote" =>
       /\ records[k].parent = made[note.walk].kind
       /\ records[k].parent_ifd_start = made[note.walk].start
       /\ records[k].pointer_index = note.index
  /\ made[note.walk].kind = "ExifIFD" =>
       EnteredFirst(records, made[note.walk].start, made[note.walk].before)

\* The maker note that was kept is where its record says.
NotePlaced == maker_note # NoNote => PlacedAt(disk, walks, deferred_subdirs, maker_note)

\* The invariant of the maker note of one block.
NoteInv ==
  /\ PointersKept /\ PointerAnchored /\ RecordsCarried /\ InteropsRecorded
  /\ AnchorsFollowed /\ FirstEntered /\ NoNoteRead /\ NotePlaced

-----------------------------------------------------------------------------
(* What every step leaves as it was.                                        *)

\* The walk of the same pointer.
SameWalk(v, w) ==
  /\ v.start = w.start /\ v.kind = w.kind /\ v.before = w.before
  /\ v.parent = w.parent /\ v.index = w.index

\* What was read stays, and what a walk has read to its end is not read further.
DiskGrows ==
  /\ \A a \in Addresses : disk[a] = Broken => disk'[a] = Broken
  /\ \A a \in Addresses : \A j \in DOMAIN disk[a].entries :
       j \in DOMAIN disk'[a].entries /\ disk'[a].entries[j] = disk[a].entries[j]
  /\ \A w \in DOMAIN walks : walks[w].outcome \in {"whole", "aborted"} =>
       disk'[walks[w].start].entries = disk[walks[w].start].entries

\* Walks are added, and only open ones come to an end.
WalksGrow ==
  \A w \in DOMAIN walks :
    /\ w \in DOMAIN walks' /\ SameWalk(walks'[w], walks[w])
    /\ walks[w].outcome # "open" => walks'[w].outcome = walks[w].outcome

\* Reading an entry.
LEMMA ReadGrows ==
  ASSUME WalkInv, \A a \in Addresses : Passable(disk[a].entries),
         NEW entry \in Shapes, ReadEntry(entry)
  PROVE  DiskGrows
<1>1. /\ Top.start \in Addresses /\ Top.index <= Len(disk[Top.start].entries)
      /\ disk[Top.start].entries \in Seq(AnEntry) /\ disk[Top.start].head = "readable"
  <2>1. stack # <<>>
    BY DEF ReadEntry
  <2> QED
    BY <2>1, TopKnown DEF WalkInv, ReadSoFar
<1>2. /\ \A a \in Addresses : a # Top.start => disk'[a] = disk[a]
      /\ \/ disk'[Top.start] = disk[Top.start]
         \/ disk'[Top.start].entries = Append(disk[Top.start].entries, entry)
  BY <1>1, ReadShape DEF WalkInv
<1>3. \A w \in DOMAIN walks : walks[w].outcome \in {"whole", "aborted"} =>
        disk'[walks[w].start] = disk[walks[w].start]
  BY ReadsOn DEF ReadOn
<1>4. disk[Top.start] # Broken
  BY <1>1 DEF Broken
<1>5. \A j \in DOMAIN disk[Top.start].entries :
        /\ j \in DOMAIN disk'[Top.start].entries
        /\ disk'[Top.start].entries[j] = disk[Top.start].entries[j]
  <2>1. CASE disk'[Top.start] = disk[Top.start]
    BY <2>1
  <2>2. CASE disk'[Top.start].entries = Append(disk[Top.start].entries, entry)
    <3>1. PICK read \in Seq(AnEntry) : read = disk[Top.start].entries
      BY <1>1
    <3>2. \A j \in DOMAIN read : j \in DOMAIN Append(read, entry) /\ Append(read, entry)[j] = read[j]
      BY <3>1
    <3> QED
      BY <2>2, <3>1, <3>2
  <2> QED
    BY <1>2, <2>1, <2>2
<1> QED
  BY <1>2, <1>3, <1>4, <1>5 DEF DiskGrows

\* What is not read at all stays.
LEMMA DiskStays == ASSUME UNCHANGED disk PROVE DiskGrows
BY DEF DiskGrows

\* A directory is opened or refused, or a pointer passed over.
LEMMA OpeningGrows ==
  ASSUME WalkInv,
         WalkChainDir \/ RefuseChainDir \/ WalkSubdir \/ RefuseSubdir \/ PassOverSubdir
  PROVE  DiskGrows /\ WalksGrow
<1>1. /\ \A a \in Addresses : disk'[a].entries = disk[a].entries
      /\ \A w \in DOMAIN walks : w \in DOMAIN walks' /\ walks'[w] = walks[w]
  BY OpeningQuiet DEF QuietStep
<1>2. \A a \in Addresses : disk[a] = Broken => disk'[a] = Broken
  <2>1. CASE RefuseChainDir \/ RefuseSubdir \/ PassOverSubdir
    BY <2>1 DEF RefuseChainDir, RefuseSubdir, PassOverSubdir
  <2>2. Broken.head # "unseen"
    BY DEF Broken
  <2>3. CASE WalkChainDir
    <3>1. offset \in Addresses /\ ChainKind \in Kinds /\ ~finished
      BY <2>3, ChainKindIsChain DEF WalkChainDir, InChain, WalkInv, Typed
    <3>2. PICK body \in Bodies(offset) : Open(offset, ChainKind, body)
      BY <2>3 DEF WalkChainDir
    <3>3. DiskKept
      BY <3>1, <3>2, OpenKeeps
    <3> QED
      BY <2>2, <3>3 DEF DiskKept
  <2>4. CASE WalkSubdir
    <3> DEFINE sub == Head(Top.pending)
    <3>1. sub.start \in Addresses /\ sub.kind \in Kinds /\ ~finished
      BY <2>4, PathTyped DEF WalkSubdir
    <3>2. PICK body \in Bodies(sub.start) : Open(sub.start, sub.kind, body)
      BY <2>4 DEF WalkSubdir
    <3>3. DiskKept
      BY <3>1, <3>2, OpenKeeps
    <3> QED
      BY <2>2, <3>3 DEF DiskKept
  <2> QED
    BY <2>1, <2>3, <2>4
<1>3. DiskGrows
  <2>1. \A w \in DOMAIN walks : walks[w].start \in Addresses
    BY WalksTyped DEF WalkInv
  <2> QED
    BY <1>1, <1>2, <2>1 DEF DiskGrows
<1> QED
  BY <1>1, <1>3 DEF WalksGrow, SameWalk

\* An entry is passed.
LEMMA PassGrowsOn ==
  ASSUME WalkInv, \A a \in Addresses : Passable(disk[a].entries),
         NEW entry \in Shapes, NEW pending \in Seq(Sub), Passes(entry, pending)
  PROVE  DiskGrows /\ WalksGrow
<1>1. DiskGrows
  BY ReadGrows DEF Passes
<1>2. CASE UNCHANGED walks
  BY <1>1, <1>2 DEF WalksGrow, SameWalk
<1>3. CASE walks' = [walks EXCEPT ![Top.walk].counted = @ + 1]
  <2>1. \A w \in DOMAIN walks : walks[w] \in WalkRecord
    BY WalksTyped DEF WalkInv
  <2>2. \A w \in DOMAIN walks : w \in DOMAIN walks' /\ (w # Top.walk => walks'[w] = walks[w])
        /\ (w = Top.walk => walks'[w] = [walks[w] EXCEPT !.counted = @ + 1])
    BY <1>3
  <2>3. \A walk \in WalkRecord : LET more == [walk EXCEPT !.counted = @ + 1]
                                 IN  SameWalk(more, walk) /\ more.outcome = walk.outcome
    BY DEF WalkRecord, SameWalk
  <2>4. ASSUME NEW w \in DOMAIN walks
        PROVE  /\ w \in DOMAIN walks' /\ SameWalk(walks'[w], walks[w])
               /\ walks[w].outcome # "open" => walks'[w].outcome = walks[w].outcome
    <3>1. CASE w = Top.walk
      BY <2>1, <2>2, <2>3, <3>1
    <3>2. CASE w # Top.walk
      BY <2>2, <3>2 DEF SameWalk
    <3> QED
      BY <3>1, <3>2
  <2> QED
    BY <1>1, <2>4 DEF WalksGrow
<1> QED
  BY <1>2, <1>3 DEF Passes

\* A directory ends.
LEMMA EndGrowsOn ==
  ASSUME WalkInv, \A a \in Addresses : Passable(disk[a].entries),
         NEW outcome \in {"whole", "aborted"}, Ends(outcome)
  PROVE  DiskGrows /\ WalksGrow
<1>1. DiskGrows
  BY ReadGrows, DiskStays DEF Ends
<1>2. stack # <<>> /\ Close(outcome)
  BY DEF Ends, CloseDir, CloseSubdir, CloseChainDir
<1>3. /\ Top.walk \in DOMAIN walks /\ walks[Top.walk].outcome = "open"
      /\ \A w \in DOMAIN walks : walks[w] \in WalkRecord
  BY <1>2, TopKnown, WalksTyped DEF WalkInv
<1>4. walks' = [walks EXCEPT ![Top.walk].outcome = outcome]
  BY <1>2 DEF Close
<1>5. \A w \in DOMAIN walks : w \in DOMAIN walks' /\ (w # Top.walk => walks'[w] = walks[w])
      /\ (w = Top.walk => walks'[w] = [walks[w] EXCEPT !.outcome = outcome])
  BY <1>4
<1>6. \A walk \in WalkRecord : SameWalk([walk EXCEPT !.outcome = outcome], walk)
  BY DEF WalkRecord, SameWalk
<1>7. ASSUME NEW w \in DOMAIN walks
      PROVE  /\ w \in DOMAIN walks' /\ SameWalk(walks'[w], walks[w])
             /\ walks[w].outcome # "open" => walks'[w].outcome = walks[w].outcome
  <2>1. CASE w = Top.walk
    BY <1>3, <1>5, <1>6, <2>1
  <2>2. CASE w # Top.walk
    BY <1>5, <2>2 DEF SameWalk
  <2> QED
    BY <2>1, <2>2
<1> QED
  BY <1>1, <1>7 DEF WalksGrow

\* The directory of the same walk.
SameDir(dir, other) ==
  /\ dir.start = other.start /\ dir.kind = other.kind
  /\ dir.walk = other.walk /\ dir.record = other.record

\* An open directory that reads no entry, and follows at most one of its pointers.
CarriedFrom(n, dir) ==
  /\ SameDir(dir, stack[n]) /\ dir.index = stack[n].index
  /\ \A j \in DOMAIN dir.pending : \E i \in DOMAIN stack[n].pending : dir.pending[j] = stack[n].pending[i]

\* Records t that were added behind the records s.
GrownBy(u, s, t) ==
  /\ \A k \in DOMAIN s : k \in DOMAIN u /\ u[k] = s[k]
  /\ \A k \in DOMAIN u :
       k \in DOMAIN s \/ ((\A j \in DOMAIN s : j < k) /\ \E i \in DOMAIN t : u[k] = t[i])
  /\ \A i \in DOMAIN t : \E k \in DOMAIN u : u[k] = t[i]

\* A list that grew at its end.
LEMMA ConcatGrows ==
  ASSUME NEW S, NEW s \in Seq(S), NEW t \in Seq(S)
  PROVE  GrownBy(s \o t, s, t)
<1> DEFINE u == s \o t
<1>1. Glued(u, s, t)
  BY ConcatIs
<1> HIDE DEF u
<1>2. \A k \in DOMAIN u : k \in DOMAIN s \/ ((\A j \in DOMAIN s : j < k) /\ \E i \in DOMAIN t : u[k] = t[i])
  <2> TAKE k \in DOMAIN u
  <2>1. CASE k \in DOMAIN s
    BY <2>1
  <2>2. CASE k - Len(s) \in DOMAIN t /\ ~(k <= Len(s)) /\ u[k] = t[k - Len(s)]
    <3>1. k \in 1..(Len(s) + Len(t)) /\ DOMAIN s = 1..Len(s) /\ Len(s) \in Nat
      BY <1>1 DEF Glued
    <3>2. \A j \in 1..Len(s) : j < k
      BY <2>2, <3>1
    <3> QED
      BY <2>2, <3>1, <3>2
  <2> QED
    BY <1>1, <2>1, <2>2 DEF Glued
<1>3. \A i \in DOMAIN t : \E k \in DOMAIN u : u[k] = t[i]
  BY <1>1 DEF Glued
<1> QED
  BY <1>1, <1>2, <1>3 DEF GrownBy, Glued, u

-----------------------------------------------------------------------------
(* What stays true.                                                         *)

\* An entry that was read is where it was.
LEMMA EntryStays ==
  ASSUME DiskGrows
  PROVE  \A start \in Addresses : \A index, what :
           EntryAt(disk, start, index, what) => EntryAt(disk', start, index, what)
BY DEF DiskGrows, EntryAt

\* The record of a walk stays what it was.
LEMMA RecordStays ==
  ASSUME WalksGrow, NEW w \in DOMAIN walks,
         walks[w].kind = "InteropIFD" => walks[w].parent \in DOMAIN walks
  PROVE  RecordOf(walks', w) = RecordOf(walks, w)
<1>1. SameWalk(walks'[w], walks[w])
  BY DEF WalksGrow
<1>2. walks[w].kind = "InteropIFD" => SameWalk(walks'[walks[w].parent], walks[walks[w].parent])
  BY DEF WalksGrow
<1> QED
  BY <1>1, <1>2 DEF RecordOf, SameWalk

\* What was settled stays settled.
LEMMA SettledStays ==
  ASSUME DiskGrows, WalksGrow
  PROVE  \A start \in Addresses : Settled(disk, walks, start) => Settled(disk', walks', start)
<1> TAKE start \in Addresses
<1>1. disk[start] = Broken => disk'[start] = Broken
  BY DEF DiskGrows
<1>2. ASSUME NEW w \in DOMAIN walks, walks[w].start = start, walks[w].kind # "GPS",
             walks[w].outcome \in {"whole", "aborted"}
      PROVE  /\ w \in DOMAIN walks' /\ walks'[w].start = start /\ walks'[w].kind # "GPS"
             /\ walks'[w].outcome \in {"whole", "aborted"}
  BY <1>2 DEF WalksGrow, SameWalk
<1> QED
  BY <1>1, <1>2 DEF Settled

\* The first record of an address stays the first.
LEMMA FirstStays ==
  ASSUME NEW u, NEW s, NEW t, GrownBy(u, s, t), DOMAIN s \subseteq Nat, DOMAIN u \subseteq Nat,
         NEW start, NEW place, EnteredFirst(s, start, place)
  PROVE  EnteredFirst(u, start, place)
<1>1. PICK k \in DOMAIN s :
    /\ AnchorOf(s[k], start) /\ s[k].dispatch_index = place
    /\ \A j \in DOMAIN s : AnchorOf(s[j], start) => k <= j
  BY DEF EnteredFirst
<1>2. k \in DOMAIN u /\ u[k] = s[k]
  BY DEF GrownBy
<1>3. ASSUME NEW j \in DOMAIN u, AnchorOf(u[j], start) PROVE k <= j
  <2>1. CASE j \in DOMAIN s
    BY <1>1, <1>3, <2>1 DEF GrownBy
  <2>2. CASE j \notin DOMAIN s
    <3>1. k < j /\ k \in Nat /\ j \in Nat
      BY <2>2 DEF GrownBy
    <3> QED
      BY <3>1
  <2> QED
    BY <2>1, <2>2
<1> QED
  BY <1>1, <1>2, <1>3 DEF EnteredFirst

\* The pointers of a directory that reads no entry.
LEMMA PointersStay ==
  ASSUME WalkInv, DiskGrows, PointersKept, NEW n \in DOMAIN stack, NEW dir, CarriedFrom(n, dir)
  PROVE  PointersOf(disk', dir)
<1>1. /\ dir.start = stack[n].start /\ dir.kind = stack[n].kind /\ dir.index = stack[n].index
      /\ dir.start \in Addresses
  BY DirsTyped DEF CarriedFrom, SameDir, WalkInv
<1>2. PointersOf(disk, stack[n])
  BY DEF PointersKept
<1> SUFFICES ASSUME NEW j \in DOMAIN dir.pending, NEW sub, sub = dir.pending[j]
             PROVE  /\ dir.kind # "GPS"
                    /\ sub.kind # "InteropIFD" => sub.record = <<>>
                    /\ sub.kind = "InteropIFD" =>
                       /\ sub.record = <<InteropOf(dir.kind, dir.start, dir.index - 1, sub.start)>>
                       /\ EntryAt(disk', dir.start, dir.index - 1, "InteropIFD")
  BY DEF PointersOf
<1>3. PICK i \in DOMAIN stack[n].pending : sub = stack[n].pending[i]
  BY DEF CarriedFrom
<1>4. /\ dir.kind # "GPS"
      /\ sub.kind # "InteropIFD" => sub.record = <<>>
      /\ sub.kind = "InteropIFD" =>
           /\ sub.record = <<InteropOf(dir.kind, dir.start, dir.index - 1, sub.start)>>
           /\ EntryAt(disk, dir.start, dir.index - 1, "InteropIFD")
  BY <1>1, <1>2, <1>3 DEF PointersOf
<1> QED
  BY <1>1, <1>4, EntryStays

\* The record that an open directory carries.
LEMMA CarriedStays ==
  ASSUME WalkInv, NoteInv, WalksGrow, NEW n \in DOMAIN stack, NEW dir, SameDir(dir, stack[n])
  PROVE  dir.record = RecordOf(walks', dir.walk)
<1>1. PICK w \in DOMAIN walks : w = stack[n].walk
  BY DEF WalkInv, DirsOpen
<1>2. walks[w].kind = "InteropIFD" => walks[w].parent \in DOMAIN walks
  BY DEF NoteInv, InteropsRecorded, WalkRecorded
<1>3. RecordOf(walks', w) = RecordOf(walks, w)
  BY <1>2, RecordStays
<1>4. stack[n].record = RecordOf(walks, w)
  BY <1>1 DEF NoteInv, RecordsCarried
<1> QED
  BY <1>1, <1>3, <1>4 DEF SameDir

-----------------------------------------------------------------------------
(* What a step leaves to be shown.                                          *)

\* An ExifIFD was entered for the first time where its first record says.
FirstAt(read, made, records, dir) ==
  dir.kind = "ExifIFD" =>
    \/ Settled(read, made, dir.start)
    \/ EnteredFirst(records, dir.start, made[dir.walk].before)

\* No maker note was read in an open directory.
NoNoteAt(read, dir) == dir.kind # "GPS" => NoNoteIn(read[dir.start].entries, dir.index)

\* Records are only added, and what was read, too.
NoteGrows(t) ==
  /\ DiskGrows /\ WalksGrow /\ GrownBy(deferred_subdirs', deferred_subdirs, t)
  /\ DOMAIN deferred_subdirs \subseteq Nat /\ DOMAIN deferred_subdirs' \subseteq Nat

\* A directory that stays open as it is.
LEMMA DirKept ==
  ASSUME WalkInv, NoteInv, NEW t, NoteGrows(t), NEW n \in DOMAIN stack, NEW dir, SameDir(dir, stack[n])
  PROVE  /\ dir.record = RecordOf(walks', dir.walk)
         /\ FirstAt(disk', walks', deferred_subdirs', dir)
         /\ maker_note = NoNote /\ dir.index = stack[n].index => NoNoteAt(disk', dir)
<1>1. dir.record = RecordOf(walks', dir.walk)
  BY CarriedStays DEF NoteGrows
<1>2. /\ dir.start = stack[n].start /\ dir.kind = stack[n].kind /\ dir.walk = stack[n].walk
      /\ dir.start \in Addresses /\ dir.walk \in DOMAIN walks
  BY DirsTyped DEF SameDir, WalkInv, DirsOpen
<1>3. FirstAt(disk', walks', deferred_subdirs', dir)
  <2>1. ASSUME dir.kind = "ExifIFD"
        PROVE  \/ Settled(disk, walks, dir.start)
               \/ EnteredFirst(deferred_subdirs, dir.start, walks[dir.walk].before)
    BY <1>2, <2>1 DEF NoteInv, FirstEntered
  <2>2. walks'[dir.walk].before = walks[dir.walk].before
    BY <1>2 DEF NoteGrows, WalksGrow, SameWalk
  <2>3. Settled(disk, walks, dir.start) => Settled(disk', walks', dir.start)
    BY <1>2, SettledStays DEF NoteGrows
  <2>4. \A place : EnteredFirst(deferred_subdirs, dir.start, place) =>
                     EnteredFirst(deferred_subdirs', dir.start, place)
    BY FirstStays DEF NoteGrows
  <2> QED
    BY <2>1, <2>2, <2>3, <2>4 DEF FirstAt
<1>4. ASSUME maker_note = NoNote, dir.index = stack[n].index, dir.kind # "GPS"
      PROVE  NoNoteIn(disk'[dir.start].entries, dir.index)
  <2> DEFINE read == disk[dir.start].entries
             more == disk'[dir.start].entries
             i == dir.index
  <2>1. NoNoteIn(read, i)
    BY <1>2, <1>4 DEF NoteInv, NoNoteRead
  <2>2. i \in Nat /\ i <= Len(read) /\ DOMAIN read = 1..Len(read) /\ Len(read) \in Nat
    <3>1. disk[dir.start].entries \in Seq(AnEntry)
      BY <1>2 DEF WalkInv, Typed, Body
    <3>2. i \in Nat /\ i <= Len(read)
      BY <1>2, <1>4, DirsTyped DEF WalkInv, ReadSoFar
    <3> HIDE DEF i
    <3> QED
      BY <3>1, <3>2
  <2>3. \A j \in DOMAIN read : more[j] = read[j]
    BY <1>2 DEF NoteGrows, DiskGrows
  <2> HIDE DEF read, more, i
  <2>4. \A m \in 1..i : m \in DOMAIN read
    BY <2>2
  <2>5. NoNoteIn(more, i)
    BY <2>1, <2>3, <2>4 DEF NoNoteIn
  <2> QED
    BY <2>5 DEF more, i
<1> QED
  BY <1>1, <1>3, <1>4 DEF NoNoteAt

\* The walks and the records of InteropIFDs.
LEMMA InteropsKept ==
  ASSUME WalkInv, NoteInv, NEW t, NoteGrows(t),
         \A w \in DOMAIN walks : walks[w].kind = "InteropIFD" /\ IsOpen(stack, w) =>
            IsOpen(stack', w) \/ IsRecorded(deferred_subdirs', RecordOf(walks, w)),
         \A w \in DOMAIN walks' : w \in DOMAIN walks \/ walks'[w].kind # "InteropIFD"
                                  \/ WalkRecorded(disk', walks', deferred_subdirs', stack', w),
         \A i \in DOMAIN t : t[i].kind = "Interop" => RecordWalked(walks', t[i])
  PROVE  InteropsRecorded'
<1>1. ASSUME NEW w \in DOMAIN walks, walks[w].kind = "InteropIFD"
      PROVE  /\ RecordOf(walks', w) = RecordOf(walks, w) /\ w \in DOMAIN walks'
             /\ walks'[w].kind = "InteropIFD"
             /\ WalkRecorded(disk', walks', deferred_subdirs', stack', w)
  <2>1. WalkRecorded(disk, walks, deferred_subdirs, stack, w)
    BY <1>1 DEF NoteInv, InteropsRecorded
  <2>2. walks[w].parent \in DOMAIN walks
    BY <2>1 DEF WalkRecorded
  <2>3. RecordOf(walks', w) = RecordOf(walks, w)
    BY <2>2, RecordStays DEF NoteGrows
  <2>4. /\ w \in DOMAIN walks' /\ walks'[w].kind = walks[w].kind
        /\ walks'[w].parent = walks[w].parent /\ walks'[w].index = walks[w].index
        /\ walks[w].parent \in DOMAIN walks' /\ walks'[walks[w].parent].start = walks[walks[w].parent].start
    BY <2>2 DEF NoteGrows, WalksGrow, SameWalk
  <2>5. walks[walks[w].parent].start \in Addresses
    BY <2>2, WalksTyped DEF WalkInv
  <2>6. EntryAt(disk', walks[walks[w].parent].start, walks[w].index, "InteropIFD")
    BY <2>1, <2>5, EntryStays DEF NoteGrows, WalkRecorded
  <2>7. \A record : IsRecorded(deferred_subdirs, record) => IsRecorded(deferred_subdirs', record)
    BY DEF NoteGrows, GrownBy, IsRecorded
  <2>8. IsRecorded(deferred_subdirs', RecordOf(walks, w)) \/ IsOpen(stack', w)
    BY <1>1, <2>1, <2>7 DEF WalkRecorded
  <2> QED
    BY <1>1, <2>3, <2>4, <2>6, <2>8 DEF WalkRecorded
<1>2. \A record : RecordWalked(walks, record) => RecordWalked(walks', record)
  BY <1>1 DEF RecordWalked
<1>3. ASSUME NEW k \in DOMAIN deferred_subdirs', deferred_subdirs'[k].kind = "Interop"
      PROVE  RecordWalked(walks', deferred_subdirs'[k])
  <2>1. CASE k \in DOMAIN deferred_subdirs
    <3>1. deferred_subdirs'[k] = deferred_subdirs[k]
      BY <2>1 DEF NoteGrows, GrownBy
    <3> QED
      BY <1>2, <1>3, <2>1, <3>1 DEF NoteInv, InteropsRecorded
  <2>2. CASE k \notin DOMAIN deferred_subdirs
    <3>1. PICK i \in DOMAIN t : deferred_subdirs'[k] = t[i]
      BY <1>3, <2>2 DEF NoteGrows, GrownBy
    <3> QED
      BY <1>3, <3>1
  <2> QED
    BY <2>1, <2>2
<1>4. \A w \in DOMAIN walks' : walks'[w].kind = "InteropIFD" =>
        WalkRecorded(disk', walks', deferred_subdirs', stack', w)
  <2> TAKE w \in DOMAIN walks'
  <2>1. CASE w \in DOMAIN walks
    <3>1. walks'[w].kind = walks[w].kind
      BY <2>1 DEF NoteGrows, WalksGrow, SameWalk
    <3> QED
      BY <1>1, <2>1, <3>1
  <2> QED
    BY <2>1
<1> QED
  BY <1>3, <1>4 DEF InteropsRecorded

\* The records of ExifIFDs.
LEMMA AnchorsStay ==
  ASSUME NoteInv, NEW t, NoteGrows(t),
         \A start \in Addresses : EnteredNext(start) \/ OpenAt(stack, start) =>
            OpenAt(stack', start) \/ Settled(disk', walks', start),
         NEW k \in DOMAIN deferred_subdirs, NEW start \in Addresses, AnchorOf(deferred_subdirs'[k], start)
  PROVE  OpenAt(stack', start) \/ Settled(disk', walks', start)
<1>1. AnchorOf(deferred_subdirs[k], start)
  BY DEF NoteGrows, GrownBy
<1>2. EnteredNext(start) \/ OpenAt(stack, start) \/ Settled(disk, walks, start)
  BY <1>1 DEF NoteInv, AnchorsFollowed, AnchorFollowed
<1>3. Settled(disk, walks, start) => Settled(disk', walks', start)
  BY SettledStays DEF NoteGrows
<1> QED
  BY <1>2, <1>3

\* A step that records no ExifIFD and loses sight of none.
LEMMA AnchorsKept ==
  ASSUME NoteInv, NEW t, NoteGrows(t),
         \A start \in Addresses : EnteredNext(start) \/ OpenAt(stack, start) =>
            OpenAt(stack', start) \/ Settled(disk', walks', start),
         \A i \in DOMAIN t : t[i].kind # "ExifIfdAnchor"
  PROVE  AnchorsFollowed'
<1>1. ASSUME NEW k \in DOMAIN deferred_subdirs', NEW start \in Addresses,
             AnchorOf(deferred_subdirs'[k], start)
      PROVE  OpenAt(stack', start) \/ Settled(disk', walks', start)
  <2>1. k \in DOMAIN deferred_subdirs
    BY <1>1 DEF NoteGrows, GrownBy, AnchorOf
  <2> QED
    BY <1>1, <2>1, AnchorsStay
<1> QED
  BY <1>1 DEF AnchorsFollowed, AnchorFollowed

\* The maker note that was found.
LEMMA NoteKept ==
  ASSUME WalkInv, NoteInv, NEW t, NoteGrows(t), UNCHANGED maker_note,
         \A i \in DOMAIN t : t[i].kind # "MakerNote"
  PROVE  NotePlaced'
<1> SUFFICES ASSUME maker_note # NoNote
             PROVE  PlacedAt(disk', walks', deferred_subdirs', maker_note)
  BY DEF NotePlaced
<1>1. PlacedAt(disk, walks, deferred_subdirs, maker_note)
  BY DEF NoteInv, NotePlaced
<1> DEFINE w == maker_note.walk
<1>2. w \in DOMAIN walks /\ walks[w].start \in Addresses
  BY <1>1, WalksTyped DEF PlacedAt, WalkInv
<1>3. /\ w \in DOMAIN walks' /\ walks'[w].start = walks[w].start /\ walks'[w].kind = walks[w].kind
      /\ walks'[w].before = walks[w].before
  BY <1>2 DEF NoteGrows, WalksGrow, SameWalk
<1>4. EntryAt(disk', walks[w].start, maker_note.index, "MakerNote")
  BY <1>1, <1>2, EntryStays DEF PlacedAt, NoteGrows
<1>5. \A k \in DOMAIN deferred_subdirs' : deferred_subdirs'[k].kind = "MakerNote" =>
        k \in DOMAIN deferred_subdirs /\ deferred_subdirs'[k] = deferred_subdirs[k]
  BY DEF NoteGrows, GrownBy
<1>6. walks[w].kind = "ExifIFD" =>
        EnteredFirst(deferred_subdirs', walks[w].start, walks[w].before)
  BY <1>1, FirstStays DEF PlacedAt, NoteGrows
<1> QED
  BY <1>1, <1>3, <1>4, <1>5, <1>6 DEF PlacedAt

\* The directories that were read to their end.
LEMMA EndedKept ==
  ASSUME NoteInv, NEW t, NoteGrows(t), maker_note = NoNote,
         NEW w \in DOMAIN walks, walks[w].outcome \in {"whole", "aborted"}, walks[w].kind # "GPS"
  PROVE  NoNoteIn(disk'[walks'[w].start].entries, Len(disk'[walks'[w].start].entries))
<1>1. walks'[w].start = walks[w].start
  BY DEF NoteGrows, WalksGrow, SameWalk
<1>2. disk'[walks[w].start].entries = disk[walks[w].start].entries
  BY DEF NoteGrows, DiskGrows
<1> QED
  BY <1>1, <1>2 DEF NoteInv, NoNoteRead

-----------------------------------------------------------------------------
(* A pointer is taken.                                                      *)

\* The records of a pointer are records of the block.
LEMMA RecordsAreDeferrals == \A r \in Seq(Record) : r \in Seq(Deferrals)
<1>1. \A x \in Record : x \in Deferrals
  BY DEF Record, Deferrals
<1> QED
  BY <1>1

\* Records that are added behind the others.
LEMMA RecordsGrown ==
  ASSUME FoundTyped, NEW t \in Seq(Deferrals), deferred_subdirs' = deferred_subdirs \o t,
         DiskGrows, WalksGrow
  PROVE  NoteGrows(t)
<1>1. deferred_subdirs \in Seq(Deferrals) /\ deferred_subdirs' \in Seq(Deferrals)
  BY DEF FoundTyped
<1>2. GrownBy(deferred_subdirs', deferred_subdirs, t)
  BY <1>1, ConcatGrows
<1> QED
  BY <1>1, <1>2 DEF NoteGrows

\* The pointer that is followed next was the last entry read in its directory.
LEMMA PointerIs ==
  ASSUME WalkInv, NoteInv, Pending, NEW sub, sub = Head(Top.pending)
  PROVE  /\ Top.kind # "GPS"
         /\ sub.kind # "InteropIFD" => sub.record = <<>>
         /\ sub.kind = "InteropIFD" =>
              /\ sub.record = <<InteropOf(Top.kind, Top.start, Top.index - 1, sub.start)>>
              /\ EntryAt(disk, Top.start, Top.index - 1, "InteropIFD")
         /\ sub.kind = "ExifIFD" =>
              LET last == Len(deferred_subdirs)
              IN  /\ last \in DOMAIN deferred_subdirs
                  /\ AnchorOf(deferred_subdirs[last], sub.start)
                  /\ deferred_subdirs[last].dispatch_index = Len(entries)
<1>1. /\ Top = stack[Len(stack)] /\ Len(stack) \in DOMAIN stack /\ Top \in Dir
      /\ Top.pending # <<>>
  BY TopKnown DEF Pending
<1>2. 1 \in DOMAIN Top.pending /\ sub = Top.pending[1]
  <2>1. Top.pending \in Seq(Sub)
    BY <1>1 DEF Dir
  <2> QED
    BY <1>1, <2>1
<1>3. PointersOf(disk, Top)
  BY <1>1 DEF NoteInv, PointersKept
<1>4. sub.kind = "ExifIFD" =>
              LET last == Len(deferred_subdirs)
              IN  /\ last \in DOMAIN deferred_subdirs
                  /\ AnchorOf(deferred_subdirs[last], sub.start)
                  /\ deferred_subdirs[last].dispatch_index = Len(entries)
  BY <1>1, <1>2 DEF NoteInv, PointerAnchored
<1> QED
  BY <1>2, <1>3, <1>4 DEF PointersOf

\* The directories that stay open when a pointer is taken: no ExifIFD is left to enter.
LEMMA TakenCarried ==
  ASSUME WalkInv, NoteInv, Pending
  PROVE  /\ DOMAIN WithTop(Taken) = DOMAIN stack
         /\ \A n \in DOMAIN stack :
              /\ CarriedFrom(n, WithTop(Taken)[n])
              /\ \A j \in DOMAIN WithTop(Taken)[n].pending : WithTop(Taken)[n].pending[j].kind # "ExifIFD"
<1>1. /\ Top = stack[Len(stack)] /\ Len(stack) \in DOMAIN stack /\ Top \in Dir
      /\ Top.pending # <<>> /\ stack # <<>> /\ Typed
  BY TopKnown DEF Pending, WalkInv
<1>2. Taken \in Dir
  BY <1>1, TakenTyped
<1>3. /\ DOMAIN WithTop(Taken) = DOMAIN stack /\ WithTop(Taken)[Len(stack)] = Taken
      /\ \A n \in DOMAIN stack : n # Len(stack) => WithTop(Taken)[n] = stack[n]
  BY <1>1, <1>2, WithTopTyped
<1>4. ASSUME NEW n \in DOMAIN stack, n # Len(stack)
      PROVE  /\ CarriedFrom(n, stack[n])
             /\ \A j \in DOMAIN stack[n].pending : stack[n].pending[j].kind # "ExifIFD"
  <2>1. \A j \in DOMAIN stack[n].pending : stack[n].pending[j].kind # "ExifIFD"
    BY <1>4 DEF NoteInv, PointerAnchored
  <2> QED
    BY <2>1 DEF CarriedFrom, SameDir
<1>5. /\ Taken.start = Top.start /\ Taken.kind = Top.kind /\ Taken.index = Top.index
      /\ Taken.walk = Top.walk /\ Taken.record = Top.record
      /\ Taken.pending = Tail(Top.pending)
  BY <1>1 DEF Taken, Dir
<1>6. \A j \in DOMAIN Tail(Top.pending) :
        /\ j + 1 \in DOMAIN Top.pending /\ Tail(Top.pending)[j] = Top.pending[j + 1]
        /\ Len(Top.pending) # 1
  <2>1. PICK pending \in Seq(Sub) : pending = Top.pending /\ pending # <<>>
    BY <1>1 DEF Dir
  <2>2. \A j \in DOMAIN Tail(pending) : j + 1 \in DOMAIN pending /\ Tail(pending)[j] = pending[j + 1]
                                        /\ Len(pending) # 1
    BY <2>1
  <2> QED
    BY <2>1, <2>2
<1>7. CarriedFrom(Len(stack), Taken)
  BY <1>1, <1>5, <1>6 DEF CarriedFrom, SameDir
<1>8. \A j \in DOMAIN Taken.pending : Taken.pending[j].kind # "ExifIFD"
  BY <1>1, <1>5, <1>6 DEF NoteInv, PointerAnchored
<1> QED
  BY <1>3, <1>4, <1>7, <1>8

\* The walk of the directory that a pointer leads to.
LEMMA PointedWalk ==
  ASSUME WalkInv, NoteInv, Pending, DiskGrows, NEW sub, sub = Head(Top.pending), NEW outcome,
         walks' = Append(walks, Walk(sub.start, sub.kind, outcome))
  PROVE  LET new == Len(walks) + 1
         IN  /\ DOMAIN walks' = DOMAIN walks \cup {new} /\ new \notin DOMAIN walks
             /\ walks'[new].start = sub.start /\ walks'[new].kind = sub.kind
             /\ walks'[new].outcome = outcome /\ walks'[new].before = Len(entries)
             /\ RecordOf(walks', new) = sub.record
             /\ walks'[new].kind = "InteropIFD" =>
                  /\ walks'[new].parent \in DOMAIN walks'
                  /\ EntryAt(disk', walks'[walks'[new].parent].start, walks'[new].index, "InteropIFD")
<1> DEFINE new == Len(walks) + 1
           walk == Walk(sub.start, sub.kind, outcome)
<1>1. /\ Top.walk \in DOMAIN walks /\ walks[Top.walk].start = Top.start
      /\ walks[Top.walk].kind = Top.kind /\ Top.start \in Addresses /\ stack # <<>>
  BY TopKnown DEF Pending
<1>2. walks \in Seq(WalkRecord)
  BY DEF WalkInv, Typed
<1>3. /\ walk.start = sub.start /\ walk.kind = sub.kind /\ walk.outcome = outcome
      /\ walk.before = Len(entries) /\ walk.parent = Top.walk /\ walk.index = Top.index - 1
  BY <1>1 DEF Walk
<1> HIDE DEF walk
<1>4. /\ DOMAIN walks' = DOMAIN walks \cup {new} /\ new \notin DOMAIN walks
      /\ walks'[new] = walk /\ \A w \in DOMAIN walks : walks'[w] = walks[w]
  <2>1. walks' = Append(walks, walk)
    BY DEF walk
  <2> QED
    BY <1>2, <2>1
<1>5. Top.walk \in DOMAIN walks' /\ walks'[Top.walk] = walks[Top.walk]
  BY <1>1, <1>4
<1> HIDE DEF new
<1>6. RecordOf(walks', new) = sub.record
  <2>1. /\ walks'[new].kind = sub.kind /\ walks'[new].parent = Top.walk
        /\ walks'[new].index = Top.index - 1 /\ walks'[new].start = sub.start
    BY <1>3, <1>4
  <2>2. walks'[Top.walk].kind = Top.kind /\ walks'[Top.walk].start = Top.start
    BY <1>1, <1>5
  <2>3. RecordOf(walks', new) =
          IF sub.kind = "InteropIFD"
          THEN <<InteropOf(Top.kind, Top.start, Top.index - 1, sub.start)>> ELSE <<>>
    BY <2>1, <2>2 DEF RecordOf
  <2> QED
    BY <2>3, PointerIs
<1>7. walks'[new].kind = "InteropIFD" =>
                  /\ walks'[new].parent \in DOMAIN walks'
                  /\ EntryAt(disk', walks'[walks'[new].parent].start, walks'[new].index, "InteropIFD")
  BY <1>1, <1>3, <1>4, <1>5, PointerIs, EntryStays
<1> QED
  BY <1>3, <1>4, <1>6, <1>7 DEF new

\* The open directories that stay open, with their pointers.
LEMMA CarriedParts ==
  ASSUME WalkInv, NoteInv, NEW t, NoteGrows(t), NEW n \in DOMAIN stack, NEW dir, CarriedFrom(n, dir)
  PROVE  /\ PointersOf(disk', dir)
         /\ dir.record = RecordOf(walks', dir.walk)
         /\ FirstAt(disk', walks', deferred_subdirs', dir)
         /\ maker_note = NoNote => NoNoteAt(disk', dir)
         /\ n < Len(stack) => dir.kind # "GPS"
<1>1. PointersOf(disk', dir)
  <2>1. PointersKept /\ DiskGrows
    BY DEF NoteInv, NoteGrows
  <2> QED
    BY <2>1, PointersStay
<1>2. SameDir(dir, stack[n]) /\ dir.index = stack[n].index
  BY DEF CarriedFrom
<1>3. n < Len(stack) => dir.kind # "GPS"
  BY <1>2 DEF NoteInv, RecordsCarried, SameDir
<1> QED
  BY <1>1, <1>2, <1>3, DirKept

\* An address on the path of the recursion is that of an open directory.
LEMMA PathIsOpen ==
  ASSUME WalkInv, NoteInv, Pending, NEW start
  PROVE  OpenAt(stack, start) <=> OnPath(start)
<1>1. active_ifd_offsets = [n \in DOMAIN stack |-> stack[n].start]
  BY DEF WalkInv, PathNeverRepeats
<1>2. OnPath(start) <=> \E n \in DOMAIN stack : stack[n].start = start
  <2>1. OnPath(start) <=> \E n \in DOMAIN active_ifd_offsets : active_ifd_offsets[n] = start
    BY DEF OnPath, ToSet
  <2> QED
    BY <1>1, <2>1
<1>3. ASSUME NEW n \in DOMAIN stack PROVE stack[n].kind # "GPS"
  <2>1. /\ Top = stack[Len(stack)] /\ DOMAIN stack = 1..Len(stack) /\ Len(stack) \in Nat
    BY TopKnown DEF Pending, WalkInv, Typed
  <2>2. CASE n = Len(stack)
    BY <2>1, <2>2, PointerIs
  <2>3. CASE n # Len(stack)
    <3>1. n < Len(stack)
      BY <2>1, <2>3
    <3> QED
      BY <3>1 DEF NoteInv, RecordsCarried
  <2> QED
    BY <2>2, <2>3
<1> QED
  BY <1>2, <1>3 DEF OpenAt

-----------------------------------------------------------------------------
(* A pointer that leads to no directory to read.                            *)

\* The pointer is passed over, refused, or leads to what cannot be read.
TakesPointer(t) ==
  LET sub == Head(Top.pending)
  IN  /\ Pending /\ stack' = WithTop(Taken) /\ UNCHANGED <<entries, maker_note>>
      /\ \/ t = <<>> /\ sub.start = NoAddress /\ UNCHANGED <<walks, deferred_subdirs>>
         \/ /\ t = sub.record /\ (OnPath(sub.start) \/ disk'[sub.start] = Broken)
            /\ deferred_subdirs' = deferred_subdirs \o sub.record
            /\ \E outcome \in {"refused", "broken"} :
                 walks' = Append(walks, Walk(sub.start, sub.kind, outcome))

\* Such a step only adds to what was recorded.
LEMMA TakesGrow ==
  ASSUME WalkInv, FoundTyped, DiskGrows, WalksGrow, NEW t, TakesPointer(t)
  PROVE  NoteGrows(t)
<1>1. deferred_subdirs \in Seq(Deferrals)
  BY DEF FoundTyped
<1>2. CASE t = <<>> /\ UNCHANGED deferred_subdirs
  <2>1. t \in Seq(Deferrals) /\ deferred_subdirs' = deferred_subdirs \o t
    BY <1>1, <1>2
  <2> QED
    BY <2>1, RecordsGrown
<1>3. CASE t = Head(Top.pending).record /\ deferred_subdirs' = deferred_subdirs \o Head(Top.pending).record
  <2>1. t \in Seq(Deferrals)
    BY <1>3, PathTyped, RecordsAreDeferrals DEF TakesPointer
  <2> QED
    BY <1>3, <2>1, RecordsGrown
<1> QED
  BY <1>2, <1>3 DEF TakesPointer

\* The walks of open directories stay, and there is at most the walk of the pointer more.
LEMMA TakeKeepsNote ==
  ASSUME WalkInv, NoteInv, Recorded, DiskGrows, WalksGrow, NEW t, TakesPointer(t)
  PROVE  NoteInv'
<1> DEFINE sub == Head(Top.pending)
           new == Len(walks) + 1
<1>1. NoteGrows(t) /\ Pending /\ stack' = WithTop(Taken) /\ UNCHANGED <<entries, maker_note>>
  BY TakesGrow DEF TakesPointer, Recorded
<1>2. /\ DOMAIN stack' = DOMAIN stack
      /\ \A n \in DOMAIN stack :
           /\ CarriedFrom(n, stack'[n])
           /\ \A j \in DOMAIN stack'[n].pending : stack'[n].pending[j].kind # "ExifIFD"
  BY <1>1, TakenCarried
<1>3. \A n \in DOMAIN stack : SameDir(stack'[n], stack[n])
  BY <1>2 DEF CarriedFrom
<1>4. Len(stack') = Len(stack)
  BY <1>1, TakenStack
<1>5. PointersKept'
  BY <1>1, <1>2, CarriedParts DEF PointersKept
<1>6. PointerAnchored'
  BY <1>2 DEF PointerAnchored
<1>7. RecordsCarried'
  BY <1>1, <1>2, <1>4, CarriedParts DEF RecordsCarried
<1>8. FirstEntered'
  <2>1. \A n \in DOMAIN stack : FirstAt(disk', walks', deferred_subdirs', stack'[n])
    BY <1>1, <1>2, CarriedParts
  <2> QED
    BY <1>2, <2>1 DEF FirstEntered, FirstAt
<1>9. \A w : IsOpen(stack, w) => IsOpen(stack', w)
  BY <1>2, <1>3 DEF IsOpen, SameDir
<1>10. \A start : OpenAt(stack, start) => OpenAt(stack', start)
  BY <1>2, <1>3 DEF OpenAt, SameDir
<1>11. \A i \in DOMAIN t : t[i].kind = "Interop"
  <2>1. \A r \in Seq(Record) : \A i \in DOMAIN r : r[i].kind = "Interop"
    <3>1. \A x \in Record : x.kind = "Interop"
      BY DEF Record
    <3> QED
      BY <3>1
  <2>2. sub.record \in Seq(Record)
    BY <1>1, PathTyped
  <2> QED
    BY <2>1, <2>2 DEF TakesPointer
<1>12. /\ \A w \in DOMAIN walks' : w \in DOMAIN walks \/ walks'[w].outcome \notin {"whole", "aborted"}
       /\ \A w \in DOMAIN walks' : w \in DOMAIN walks \/ walks'[w].kind # "InteropIFD"
                                   \/ WalkRecorded(disk', walks', deferred_subdirs', stack', w)
       /\ \A i \in DOMAIN t : RecordWalked(walks', t[i])
  <2>1. CASE t = <<>> /\ UNCHANGED walks
    BY <2>1
  <2>2. ASSUME NEW outcome \in {"refused", "broken"}, t = sub.record,
               walks' = Append(walks, Walk(sub.start, sub.kind, outcome))
        PROVE  /\ \A w \in DOMAIN walks' : w = new \/ w \in DOMAIN walks
               /\ walks'[new].outcome \notin {"whole", "aborted"}
               /\ walks'[new].kind # "InteropIFD" \/ WalkRecorded(disk', walks', deferred_subdirs', stack', new)
               /\ \A i \in DOMAIN t : RecordWalked(walks', t[i])
    <3>1. /\ DOMAIN walks' = DOMAIN walks \cup {new} /\ walks'[new].kind = sub.kind
          /\ walks'[new].outcome = outcome /\ RecordOf(walks', new) = t
          /\ walks'[new].kind = "InteropIFD" =>
               /\ walks'[new].parent \in DOMAIN walks'
               /\ EntryAt(disk', walks'[walks'[new].parent].start, walks'[new].index, "InteropIFD")
      BY <1>1, <2>2, PointedWalk DEF NoteGrows
    <3>2. /\ sub.kind # "InteropIFD" => t = <<>>
          /\ sub.kind = "InteropIFD" => \E record : t = <<record>>
      BY <1>1, <2>2, PointerIs
    <3>3. \A i \in DOMAIN t : \E k \in DOMAIN deferred_subdirs' : deferred_subdirs'[k] = t[i]
      BY <1>1 DEF NoteGrows, GrownBy
    <3> HIDE DEF sub, new
    <3>4. CASE sub.kind # "InteropIFD"
      BY <2>2, <3>1, <3>2, <3>4
    <3>5. CASE sub.kind = "InteropIFD"
      <4>1. PICK record : t = <<record>>
        BY <3>2, <3>5
      <4>2. DOMAIN t = {1} /\ t[1] = record
        BY <4>1
      <4>3. IsRecorded(deferred_subdirs', t)
        BY <3>3, <4>1, <4>2 DEF IsRecorded
      <4>4. RecordWalked(walks', record)
        BY <3>1, <3>5, <4>1 DEF RecordWalked
      <4> QED
        BY <2>2, <3>1, <4>2, <4>3, <4>4 DEF WalkRecorded
    <3> QED
      BY <3>4, <3>5
  <2>3. ASSUME NEW outcome \in {"refused", "broken"}, t = sub.record,
               walks' = Append(walks, Walk(sub.start, sub.kind, outcome))
        PROVE  /\ \A w \in DOMAIN walks' : w \in DOMAIN walks \/ walks'[w].outcome \notin {"whole", "aborted"}
               /\ \A w \in DOMAIN walks' : w \in DOMAIN walks \/ walks'[w].kind # "InteropIFD"
                                           \/ WalkRecorded(disk', walks', deferred_subdirs', stack', w)
               /\ \A i \in DOMAIN t : RecordWalked(walks', t[i])
    <3> HIDE DEF new
    <3> QED
      BY <2>2, <2>3
  <2> QED
    BY <2>1, <2>3 DEF TakesPointer
<1> HIDE DEF new
<1>13. InteropsRecorded'
  BY <1>1, <1>9, <1>12, InteropsKept
<1>14. AnchorsFollowed'
  <2>1. ASSUME NEW start \in Addresses, EnteredNext(start)
        PROVE  OpenAt(stack', start) \/ Settled(disk', walks', start)
    <3>1. sub.start = start /\ start # NoAddress
      BY <2>1, AddressesAssumption DEF EnteredNext
    <3>2. OnPath(start) \/ disk'[start] = Broken
      BY <3>1 DEF TakesPointer
    <3> QED
      BY <1>1, <1>10, <3>2, PathIsOpen DEF Settled
  <2> QED
    BY <1>1, <1>10, <1>11, <2>1, AnchorsKept
<1>15. NoNoteRead'
  <2>1. ASSUME maker_note = NoNote, NEW n \in DOMAIN stack
        PROVE  NoNoteAt(disk', stack'[n])
    BY <1>1, <1>2, <2>1, CarriedParts
  <2>2. ASSUME maker_note = NoNote, NEW w \in DOMAIN walks', walks'[w].outcome \in {"whole", "aborted"},
               walks'[w].kind # "GPS"
        PROVE  NoNoteIn(disk'[walks'[w].start].entries, Len(disk'[walks'[w].start].entries))
    <3>1. w \in DOMAIN walks
      BY <1>12, <2>2
    <3>2. walks[w].kind = walks'[w].kind
      BY <1>1, <3>1 DEF NoteGrows, WalksGrow, SameWalk
    <3>3. walks[w].outcome \in {"whole", "aborted"}
      <4>1. walks'[w] = walks[w]
        <5>1. walks \in Seq(WalkRecord)
          BY DEF WalkInv, Typed
        <5>2. PICK walk : UNCHANGED walks \/ walks' = Append(walks, walk)
          BY DEF TakesPointer
        <5> QED
          BY <3>1, <5>1, <5>2
      <4> QED
        BY <2>2, <4>1
    <3> QED
      BY <1>1, <2>2, <3>1, <3>2, <3>3, EndedKept
  <2> QED
    BY <1>1, <1>2, <2>1, <2>2 DEF NoNoteRead, NoNoteAt
<1>16. NotePlaced'
  BY <1>1, <1>11, NoteKept
<1> QED
  BY <1>5, <1>6, <1>7, <1>8, <1>13, <1>14, <1>15, <1>16 DEF NoteInv

-----------------------------------------------------------------------------
(* A pointer that leads to a directory.                                     *)

\* No record is added.
LEMMA NoRecordGrown ==
  ASSUME FoundTyped, UNCHANGED deferred_subdirs, DiskGrows, WalksGrow
  PROVE  NoteGrows(<<>>)
<1>1. <<>> \in Seq(Deferrals) /\ deferred_subdirs' = deferred_subdirs \o <<>>
  BY DEF FoundTyped
<1> QED
  BY <1>1, RecordsGrown

\* The directory that a pointer leads to is opened.
EntersPointer(opened) ==
  LET sub == Head(Top.pending)
  IN  /\ Pending /\ stack' = Append(WithTop(Taken), opened)
      /\ UNCHANGED <<entries, maker_note, deferred_subdirs>>
      /\ sub.start \in Addresses /\ ~OnPath(sub.start)
      /\ opened.start = sub.start /\ opened.kind = sub.kind /\ opened.record = sub.record
      /\ opened.index = 0 /\ opened.pending = <<>> /\ opened.walk = Len(walks) + 1
      /\ walks' = Append(walks, Walk(sub.start, sub.kind, "open"))

\* A directory that a pointer leads to is opened.
LEMMA EnterKeepsNote ==
  ASSUME WalkInv, NoteInv, Recorded, DiskGrows, WalksGrow, NEW opened, EntersPointer(opened)
  PROVE  NoteInv'
<1> DEFINE sub == Head(Top.pending)
           new == Len(walks) + 1
           l == Len(stack)
           last == Len(deferred_subdirs)
<1>1. /\ NoteGrows(<<>>) /\ Pending /\ stack' = Append(WithTop(Taken), opened)
      /\ UNCHANGED <<entries, maker_note, deferred_subdirs>>
      /\ sub.start \in Addresses /\ ~OnPath(sub.start)
      /\ opened.start = sub.start /\ opened.kind = sub.kind /\ opened.record = sub.record
      /\ opened.index = 0 /\ opened.pending = <<>> /\ opened.walk = new
      /\ walks' = Append(walks, Walk(sub.start, sub.kind, "open"))
  BY NoRecordGrown DEF EntersPointer, Recorded
<1>2. /\ DOMAIN stack = 1..l /\ l \in Nat \ {0} /\ DOMAIN stack' = 1..(l + 1) /\ Len(stack') = l + 1
      /\ stack'[l + 1] = opened
      /\ \A n \in DOMAIN stack :
           /\ CarriedFrom(n, stack'[n])
           /\ \A j \in DOMAIN stack'[n].pending : stack'[n].pending[j].kind # "ExifIFD"
  <2>1. PICK below \in Seq(Dir) : below = WithTop(Taken) /\ Len(below) = l
    BY <1>1, TakenStack
  <2>2. l \in Nat \ {0} /\ DOMAIN stack = 1..l
    BY <1>1, TopTyped DEF Pending, WalkInv, Typed
  <2>3. stack' = Append(below, opened)
    BY <1>1, <2>1
  <2> HIDE DEF l
  <2>4. /\ DOMAIN stack' = 1..(l + 1) /\ Len(stack') = l + 1 /\ stack'[l + 1] = opened
        /\ \A n \in 1..l : stack'[n] = below[n]
    BY <2>1, <2>2, <2>3
  <2> QED
    BY <1>1, <2>1, <2>2, <2>4, TakenCarried
<1>3. \A n \in DOMAIN stack' : n \in DOMAIN stack \/ n = l + 1
  <2> HIDE DEF l
  <2> QED
    BY <1>2
<1>4. DOMAIN stack \subseteq DOMAIN stack' /\ l + 1 \in DOMAIN stack'
  <2> HIDE DEF l
  <2> QED
    BY <1>2
<1>5. /\ DOMAIN walks' = DOMAIN walks \cup {new} /\ new \notin DOMAIN walks
      /\ walks'[new].start = sub.start /\ walks'[new].kind = sub.kind
      /\ walks'[new].outcome = "open" /\ walks'[new].before = Len(entries)
      /\ RecordOf(walks', new) = sub.record
      /\ walks'[new].kind = "InteropIFD" =>
           /\ walks'[new].parent \in DOMAIN walks'
           /\ EntryAt(disk', walks'[walks'[new].parent].start, walks'[new].index, "InteropIFD")
  BY <1>1, PointedWalk
<1>6. \A w \in DOMAIN walks : walks'[w] = walks[w]
  <2>1. PICK walk : walks' = Append(walks, walk)
    BY <1>1
  <2>2. walks \in Seq(WalkRecord)
    BY DEF WalkInv, Typed
  <2> QED
    BY <2>1, <2>2
<1> HIDE DEF new, l
<1>7. \A n \in DOMAIN stack : SameDir(stack'[n], stack[n])
  BY <1>2 DEF CarriedFrom
<1>8. PointersKept'
  <2>1. PointersOf(disk', opened)
    BY <1>1 DEF PointersOf
  <2> QED
    BY <1>1, <1>2, <1>3, <2>1, CarriedParts DEF PointersKept
<1>9. PointerAnchored'
  BY <1>1, <1>2, <1>3 DEF PointerAnchored
<1>10. RecordsCarried'
  <2>1. opened.record = RecordOf(walks', opened.walk)
    BY <1>1, <1>5
  <2>2. ASSUME NEW n \in DOMAIN stack
        PROVE  stack'[n].record = RecordOf(walks', stack'[n].walk) /\ stack'[n].kind # "GPS"
    <3>1. Top = stack[l] /\ Top.kind # "GPS"
      BY <1>1, PointerIs, TopKnown DEF Pending, l
    <3>2. stack'[n].kind = stack[n].kind
      BY <1>7 DEF SameDir
    <3>3. n < l => stack'[n].kind # "GPS"
      BY <1>1, <1>2, CarriedParts DEF l
    <3>4. n < l \/ n = l
      BY <1>2
    <3> QED
      BY <1>1, <1>2, <3>1, <3>2, <3>3, <3>4, CarriedParts
  <2>3. \A n \in DOMAIN stack' :
          /\ stack'[n].record = RecordOf(walks', stack'[n].walk)
          /\ n < l + 1 => stack'[n].kind # "GPS"
    <3> TAKE n \in DOMAIN stack'
    <3>1. CASE n \in DOMAIN stack
      BY <2>2, <3>1
    <3>2. CASE n = l + 1
      BY <1>2, <2>1, <3>2
    <3> QED
      BY <1>3, <3>1, <3>2
  <2> QED
    BY <1>2, <2>3 DEF RecordsCarried
<1>11. \A w : IsOpen(stack, w) => IsOpen(stack', w)
  BY <1>4, <1>7 DEF IsOpen, SameDir
<1>12. IsOpen(stack', new)
  BY <1>1, <1>2, <1>4 DEF IsOpen
<1>13. InteropsRecorded'
  <2>1. \A w \in DOMAIN walks' : w \in DOMAIN walks \/ walks'[w].kind # "InteropIFD"
                                 \/ WalkRecorded(disk', walks', deferred_subdirs', stack', w)
    <3>1. walks'[new].kind = "InteropIFD" => WalkRecorded(disk', walks', deferred_subdirs', stack', new)
      BY <1>5, <1>12 DEF WalkRecorded
    <3> QED
      BY <1>5, <3>1
  <2>2. \A i \in DOMAIN <<>> : FALSE
    OBVIOUS
  <2>3. \A i \in DOMAIN <<>> : <<>>[i].kind = "Interop" => RecordWalked(walks', <<>>[i])
    BY <2>2
  <2>4. \A w \in DOMAIN walks : IsOpen(stack, w) =>
          IsOpen(stack', w) \/ IsRecorded(deferred_subdirs', RecordOf(walks, w))
    BY <1>11
  <2> QED
    BY <1>1, <2>1, <2>3, <2>4, InteropsKept
<1>14. \A start : OpenAt(stack, start) => OpenAt(stack', start)
  BY <1>4, <1>7 DEF OpenAt, SameDir
<1>15. AnchorsFollowed'
  <2>1. ASSUME NEW start \in Addresses, EnteredNext(start)
        PROVE  OpenAt(stack', start)
    <3>1. sub.start = start /\ sub.kind = "ExifIFD"
      BY <2>1 DEF EnteredNext
    <3> QED
      BY <1>1, <1>2, <1>4, <3>1 DEF OpenAt
  <2>2. \A i \in DOMAIN <<>> : <<>>[i].kind # "ExifIfdAnchor"
    OBVIOUS
  <2> QED
    BY <1>1, <1>14, <2>1, <2>2, AnchorsKept
<1>16. FirstEntered'
  <2>1. ASSUME sub.kind = "ExifIFD"
        PROVE  \/ Settled(disk', walks', sub.start)
               \/ EnteredFirst(deferred_subdirs', sub.start, Len(entries))
    <3>1. /\ last \in DOMAIN deferred_subdirs /\ AnchorOf(deferred_subdirs[last], sub.start)
          /\ deferred_subdirs[last].dispatch_index = Len(entries)
      BY <1>1, <2>1, PointerIs
    <3>2. DOMAIN deferred_subdirs = 1..last /\ last \in Nat
      BY DEF Recorded, FoundTyped
    <3>3. CASE \E j \in DOMAIN deferred_subdirs : j # last /\ AnchorOf(deferred_subdirs[j], sub.start)
      <4>1. PICK j \in DOMAIN deferred_subdirs : j # last /\ AnchorOf(deferred_subdirs[j], sub.start)
        BY <3>3
      <4>2. OpenAt(stack, sub.start) \/ Settled(disk, walks, sub.start)
        BY <1>1, <4>1 DEF NoteInv, AnchorsFollowed, AnchorFollowed
      <4>3. Settled(disk, walks, sub.start)
        BY <1>1, <4>2, PathIsOpen
      <4> QED
        BY <1>1, <4>3, SettledStays
    <3>4. CASE \A j \in DOMAIN deferred_subdirs : AnchorOf(deferred_subdirs[j], sub.start) => j = last
      <4> HIDE DEF last
      <4>1. EnteredFirst(deferred_subdirs, sub.start, Len(entries))
        BY <3>1, <3>2, <3>4 DEF EnteredFirst
      <4> QED
        BY <1>1, <4>1
    <3> QED
      BY <3>3, <3>4
  <2>2. FirstAt(disk', walks', deferred_subdirs', opened)
    BY <1>1, <1>5, <2>1 DEF FirstAt
  <2>3. \A n \in DOMAIN stack : FirstAt(disk', walks', deferred_subdirs', stack'[n])
    BY <1>1, <1>2, CarriedParts
  <2> QED
    BY <1>2, <1>3, <2>2, <2>3 DEF FirstEntered, FirstAt
<1>17. NoNoteRead'
  <2>1. ASSUME maker_note = NoNote, NEW n \in DOMAIN stack
        PROVE  NoNoteAt(disk', stack'[n])
    BY <1>1, <1>2, <2>1, CarriedParts
  <2>2. NoNoteAt(disk', opened)
    BY <1>1 DEF NoNoteAt, NoNoteIn
  <2>3. ASSUME maker_note = NoNote, NEW w \in DOMAIN walks', walks'[w].outcome \in {"whole", "aborted"},
               walks'[w].kind # "GPS"
        PROVE  NoNoteIn(disk'[walks'[w].start].entries, Len(disk'[walks'[w].start].entries))
    <3>1. w \in DOMAIN walks /\ walks'[w] = walks[w]
      BY <1>5, <1>6, <2>3
    <3> QED
      BY <1>1, <2>3, <3>1, EndedKept
  <2> QED
    BY <1>1, <1>2, <1>3, <2>1, <2>2, <2>3 DEF NoNoteRead, NoNoteAt
<1>18. NotePlaced'
  <2>1. \A i \in DOMAIN <<>> : <<>>[i].kind # "MakerNote"
    OBVIOUS
  <2> QED
    BY <1>1, <2>1, NoteKept
<1> QED
  BY <1>8, <1>9, <1>10, <1>13, <1>15, <1>16, <1>17, <1>18 DEF NoteInv

-----------------------------------------------------------------------------
(* The chain, and the end of the block.                                     *)

\* A directory of the chain is opened or not.
ChainsOn(outcome) ==
  /\ stack = <<>> /\ UNCHANGED <<entries, maker_note, deferred_subdirs>>
  /\ walks' = Append(walks, Walk(offset, ChainKind, outcome))
  /\ \/ stack' = <<>>
     \/ \E body : stack' = <<Opened(offset, ChainKind, body, <<>>)>>

\* The chain goes on, or stops.
LEMMA ChainKeepsNote ==
  ASSUME WalkInv, NoteInv, Recorded, DiskGrows, WalksGrow,
         NEW outcome \in {"refused", "broken", "open"}, ChainsOn(outcome)
  PROVE  NoteInv'
<1> DEFINE new == Len(walks) + 1
<1>1. /\ NoteGrows(<<>>) /\ stack = <<>> /\ UNCHANGED <<entries, maker_note, deferred_subdirs>>
      /\ DOMAIN stack = {}
  BY NoRecordGrown DEF ChainsOn, Recorded
<1>2. ChainKind \notin {"GPS", "ExifIFD", "InteropIFD"}
  <2>1. IsChain(ChainKind)
    BY ChainKindIsChain DEF WalkInv, Typed
  <2> QED
    BY <2>1, KindsListed DEF IsChain
<1>3. /\ DOMAIN walks' = DOMAIN walks \cup {new} /\ new \notin DOMAIN walks
      /\ walks'[new].kind = ChainKind /\ walks'[new].outcome = outcome
      /\ \A w \in DOMAIN walks : walks'[w] = walks[w]
  <2>1. PICK walk : walk = Walk(offset, ChainKind, outcome)
    OBVIOUS
  <2>2. walk.kind = ChainKind /\ walk.outcome = outcome
    BY <2>1 DEF Walk
  <2>3. walks \in Seq(WalkRecord) /\ walks' = Append(walks, walk)
    BY <2>1 DEF WalkInv, Typed, ChainsOn
  <2> QED
    BY <2>2, <2>3
<1>4. \A n \in DOMAIN stack' :
        /\ n = Len(stack') /\ stack'[n].kind = ChainKind /\ stack'[n].walk = new
        /\ stack'[n].record = <<>> /\ stack'[n].index = 0 /\ DOMAIN stack'[n].pending = {}
  <2>1. CASE stack' = <<>>
    BY <2>1
  <2>2. ASSUME NEW body, stack' = <<Opened(offset, ChainKind, body, <<>>)>>
        PROVE  <1>4
    <3>1. PICK dir : dir = Opened(offset, ChainKind, body, <<>>)
      OBVIOUS
    <3>2. /\ dir.kind = ChainKind /\ dir.walk = new /\ dir.record = <<>> /\ dir.index = 0
          /\ DOMAIN dir.pending = {}
      BY <3>1 DEF Opened
    <3>3. stack' = <<dir>>
      BY <2>2, <3>1
    <3> HIDE DEF new
    <3> QED
      BY <3>2, <3>3
  <2> QED
    BY <2>1, <2>2 DEF ChainsOn
<1> HIDE DEF new
<1>5. PointersKept' /\ PointerAnchored' /\ FirstEntered'
  BY <1>2, <1>4 DEF PointersKept, PointersOf, PointerAnchored, FirstEntered
<1>6. RecordsCarried'
  <2>1. RecordOf(walks', new) = <<>>
    BY <1>2, <1>3 DEF RecordOf
  <2>2. \A n \in DOMAIN stack' : stack'[n].kind # "GPS"
    BY <1>2, <1>4
  <2> QED
    BY <1>4, <2>1, <2>2 DEF RecordsCarried
<1>7. InteropsRecorded'
  <2>1. \A w : ~IsOpen(stack, w)
    BY <1>1 DEF IsOpen
  <2>2. \A i \in DOMAIN <<>> : <<>>[i].kind = "Interop" => RecordWalked(walks', <<>>[i])
    <3>1. \A i \in DOMAIN <<>> : FALSE
      OBVIOUS
    <3> QED
      BY <3>1
  <2>3. \A w \in DOMAIN walks' : w \in DOMAIN walks \/ walks'[w].kind # "InteropIFD"
    BY <1>2, <1>3
  <2> QED
    BY <1>1, <2>1, <2>2, <2>3, InteropsKept
<1>8. AnchorsFollowed'
  <2>1. \A start : ~OpenAt(stack, start) /\ ~EnteredNext(start)
    BY <1>1 DEF OpenAt, EnteredNext, Pending
  <2>2. \A i \in DOMAIN <<>> : <<>>[i].kind # "ExifIfdAnchor"
    OBVIOUS
  <2> QED
    BY <1>1, <2>1, <2>2, AnchorsKept
<1>9. NoNoteRead'
  <2>1. \A n \in DOMAIN stack' : NoNoteIn(disk'[stack'[n].start].entries, stack'[n].index)
    BY <1>4 DEF NoNoteIn
  <2>2. ASSUME maker_note = NoNote, NEW w \in DOMAIN walks', walks'[w].outcome \in {"whole", "aborted"},
               walks'[w].kind # "GPS"
        PROVE  NoNoteIn(disk'[walks'[w].start].entries, Len(disk'[walks'[w].start].entries))
    <3>1. w \in DOMAIN walks /\ walks'[w] = walks[w]
      BY <1>3, <2>2
    <3> QED
      BY <1>1, <2>2, <3>1, EndedKept
  <2> QED
    BY <1>1, <2>1, <2>2 DEF NoNoteRead
<1>10. NotePlaced'
  <2>1. \A i \in DOMAIN <<>> : <<>>[i].kind # "MakerNote"
    OBVIOUS
  <2> QED
    BY <1>1, <2>1, NoteKept
<1> QED
  BY <1>5, <1>6, <1>7, <1>8, <1>9, <1>10 DEF NoteInv

\* Every step that opens or refuses a directory, or passes a pointer over.
LEMMA OpeningKeepsNote ==
  ASSUME WalkInv, NoteInv, Recorded,
         WalkChainDir \/ RefuseChainDir \/ WalkSubdir \/ RefuseSubdir \/ PassOverSubdir
  PROVE  NoteInv'
<1>1. DiskGrows /\ WalksGrow
  BY OpeningGrows
<1>2. CASE RefuseChainDir
  <2>1. ChainsOn("refused")
    BY <1>2 DEF RefuseChainDir, InChain, ChainsOn, found
  <2> QED
    BY <1>1, <2>1, ChainKeepsNote
<1>3. CASE WalkChainDir
  <2>1. PICK body \in Bodies(offset) :
          /\ Open(offset, ChainKind, body)
          /\ IF body = Broken THEN UNCHANGED stack
             ELSE stack' = <<Opened(offset, ChainKind, body, <<>>)>>
    BY <1>3 DEF WalkChainDir
  <2>2. PICK outcome \in {"broken", "open"} : walks' = Append(walks, Walk(offset, ChainKind, outcome))
    BY <2>1 DEF Open
  <2>3. ChainsOn(outcome)
    <3>1. stack = <<>> /\ UNCHANGED <<entries, maker_note, deferred_subdirs>>
      BY <1>3 DEF WalkChainDir, InChain, found
    <3> QED
      BY <2>1, <2>2, <3>1 DEF ChainsOn
  <2> QED
    BY <1>1, <2>3, ChainKeepsNote
<1>4. CASE PassOverSubdir
  <2>1. TakesPointer(<<>>)
    BY <1>4 DEF PassOverSubdir, TakesPointer, found
  <2> QED
    BY <1>1, <2>1, TakeKeepsNote
<1>5. CASE RefuseSubdir
  <2>1. TakesPointer(Head(Top.pending).record)
    BY <1>5 DEF RefuseSubdir, TakesPointer
  <2> QED
    BY <1>1, <2>1, TakeKeepsNote
<1>6. CASE WalkSubdir
  <2> DEFINE sub == Head(Top.pending)
  <2>1. /\ Pending /\ sub.start \in Addresses /\ ~OnPath(sub.start)
        /\ UNCHANGED <<entries, maker_note>>
    <3>1. Pending /\ sub.start # NoAddress /\ ~OnPath(sub.start) /\ UNCHANGED <<entries, maker_note>>
      BY <1>6 DEF WalkSubdir
    <3> QED
      BY <3>1, PathTyped
  <2>2. PICK body \in Bodies(sub.start) :
          /\ Open(sub.start, sub.kind, body)
          /\ IF body = Broken
             THEN stack' = WithTop(Taken) /\ deferred_subdirs' = deferred_subdirs \o sub.record
             ELSE /\ stack' = Append(WithTop(Taken), Opened(sub.start, sub.kind, body, sub.record))
                  /\ UNCHANGED deferred_subdirs
    BY <1>6 DEF WalkSubdir
  <2>3. CASE body = Broken
    <3>1. disk'[sub.start] = Broken
      BY <2>1, <2>2, <2>3 DEF Open, WalkInv, Typed
    <3>2. walks' = Append(walks, Walk(sub.start, sub.kind, "broken"))
      BY <2>2, <2>3 DEF Open
    <3>3. TakesPointer(sub.record)
      BY <2>1, <2>2, <2>3, <3>1, <3>2 DEF TakesPointer
    <3> QED
      BY <1>1, <3>3, TakeKeepsNote
  <2>4. CASE body # Broken
    <3>1. walks' = Append(walks, Walk(sub.start, sub.kind, "open"))
      BY <2>2, <2>4 DEF Open
    <3>2. PICK opened : opened = Opened(sub.start, sub.kind, body, sub.record)
      OBVIOUS
    <3>3. /\ opened.start = sub.start /\ opened.kind = sub.kind /\ opened.record = sub.record
          /\ opened.index = 0 /\ opened.pending = <<>> /\ opened.walk = Len(walks) + 1
      BY <3>2 DEF Opened
    <3>4. EntersPointer(opened)
      BY <2>1, <2>2, <2>4, <3>1, <3>2, <3>3 DEF EntersPointer
    <3> QED
      BY <1>1, <3>4, EnterKeepsNote
  <2> QED
    BY <2>3, <2>4
<1> QED
  BY <1>2, <1>3, <1>4, <1>5, <1>6

\* Nothing is walked.
LEMMA RestKeepsNote ==
  ASSUME NoteInv, UNCHANGED <<disk, stack, deferred_subdirs, maker_note, walks>>,
         stack # <<>> => UNCHANGED entries
  PROVE  NoteInv'
<1>1. PointerAnchored'
  <2>1. CASE stack = <<>>
    BY <2>1 DEF PointerAnchored
  <2>2. CASE UNCHANGED entries
    BY <2>2 DEF NoteInv, PointerAnchored
  <2> QED
    BY <2>1, <2>2
<1>2. PointersKept' /\ RecordsCarried' /\ InteropsRecorded'
  BY DEF NoteInv, PointersKept, RecordsCarried, InteropsRecorded
<1>3. AnchorsFollowed' /\ FirstEntered'
  <2>1. \A start : EnteredNext(start)' <=> EnteredNext(start)
    BY DEF EnteredNext, Pending, Top
  <2>2. FirstEntered'
    BY DEF NoteInv, FirstEntered
  <2> QED
    BY <2>1, <2>2 DEF NoteInv, AnchorsFollowed, AnchorFollowed
<1>4. NoNoteRead' /\ NotePlaced'
  BY DEF NoteInv, NoNoteRead, NotePlaced
<1> QED
  BY <1>1, <1>2, <1>3, <1>4 DEF NoteInv

-----------------------------------------------------------------------------
(* A directory ends.                                                        *)

\* What ends a directory is no maker note.
LEMMA EndReadsNoNote ==
  ASSUME WalkInv, \A a \in Addresses : Passable(disk[a].entries), NoNoteRead, maker_note = NoNote,
         NEW outcome \in {"whole", "aborted"}, Ends(outcome), Top.kind # "GPS"
  PROVE  NoNoteIn(disk'[Top.start].entries, Len(disk'[Top.start].entries))
<1> DEFINE read == disk[Top.start].entries
           more == disk'[Top.start].entries
           i == Top.index
<1>1. stack # <<>>
  BY DEF Ends
<1>2. /\ Top = stack[Len(stack)] /\ Len(stack) \in DOMAIN stack /\ Top.start \in Addresses
      /\ i \in Nat /\ i <= Len(read) /\ read \in Seq(AnEntry)
      /\ Top.num_entries = disk[Top.start].num_entries
  BY <1>1, TopKnown
<1>3. NoNoteIn(read, i)
  BY <1>2 DEF NoNoteRead
<1>4. CASE outcome = "whole" /\ Top.index = Top.num_entries /\ UNCHANGED disk
  <2>1. Len(read) = i
    <3>1. Len(read) <= disk[Top.start].num_entries
      BY <1>2 DEF WalkInv, ReadSoFar, Read
    <3> QED
      BY <1>2, <1>4, <3>1
  <2> QED
    BY <1>3, <1>4, <2>1
<1>5. CASE warn_count > MaxWarnings /\ UNCHANGED disk
  <2>1. Len(read) = i
    BY <1>1, <1>2, <1>5, CutOffIsRead
  <2> QED
    BY <1>3, <1>5, <2>1
<1>6. CASE \E entry \in Shapes : ReadEntry(entry) /\ Stopper(entry, Top.index)
  <2>1. PICK entry \in Shapes : ReadEntry(entry) /\ Stopper(entry, Top.index)
    BY <1>6
  <2>2. /\ more[i + 1] = entry /\ Len(more) = i + 1 /\ \A m \in 1..i : more[m] = read[m]
    BY <2>1, ReadsOn DEF ReadOn
  <2>3. entry.what # "MakerNote"
    BY <2>1 DEF Stopper, Malformed
  <2> HIDE DEF read, more, i
  <2>4. \A m \in 1..(i + 1) : m \in 1..i \/ m = i + 1
    BY <1>2
  <2>5. NoNoteIn(more, i + 1)
    BY <1>3, <2>2, <2>3, <2>4 DEF NoNoteIn
  <2> QED
    BY <2>2, <2>5 DEF more
<1> QED
  BY <1>4, <1>5, <1>6 DEF Ends

\* What is recorded when a directory ends.
LEMMA EndRecords ==
  ASSUME WalkInv, NoteInv, FoundTyped, DiskGrows, WalksGrow,
         NEW outcome \in {"whole", "aborted"}, Ends(outcome)
  PROVE  \E t \in Seq(Record) : /\ NoteGrows(t) /\ (Top.kind = "InteropIFD" => t = Top.record)
                                /\ t = Top.record \/ t = <<>>
<1>1. stack # <<>> /\ Typed /\ CloseDir(outcome)
  BY DEF Ends, WalkInv
<1>2. Top.record \in Seq(Record) /\ <<>> \in Seq(Record) /\ Top = stack[Len(stack)]
      /\ Len(stack) \in DOMAIN stack
  BY <1>1, TopTyped DEF Dir
<1>3. CASE CloseSubdir(outcome)
  <2>1. deferred_subdirs' = deferred_subdirs \o Top.record /\ Top.record \in Seq(Deferrals)
    BY <1>2, <1>3, RecordsAreDeferrals DEF CloseSubdir
  <2>2. NoteGrows(Top.record)
    BY <2>1, RecordsGrown
  <2> QED
    BY <1>2, <2>2
<1>4. CASE CloseChainDir(outcome)
  <2>1. UNCHANGED deferred_subdirs /\ Len(stack) = 1
    BY <1>4 DEF CloseChainDir, found
  <2>2. NoteGrows(<<>>)
    BY <2>1, NoRecordGrown
  <2>3. Top.kind # "InteropIFD"
    <3>1. IsChain(Top.kind)
      BY <1>2, <2>1 DEF WalkInv, Nested
    <3> QED
      BY <3>1, KindsListed DEF IsChain
  <2> QED
    BY <1>2, <2>2, <2>3
<1> QED
  BY <1>1, <1>3, <1>4 DEF CloseDir

\* A directory ends and its record is made.
LEMMA EndKeepsNote ==
  ASSUME WalkInv, NoteInv, Recorded, \A a \in Addresses : Passable(disk[a].entries),
         NEW outcome \in {"whole", "aborted"}, Ends(outcome)
  PROVE  NoteInv'
<1> DEFINE l == Len(stack)
           w == Top.walk
<1>1. DiskGrows /\ WalksGrow
  BY EndGrowsOn
<1>2. PICK t \in Seq(Record) : /\ NoteGrows(t) /\ (Top.kind = "InteropIFD" => t = Top.record)
                               /\ t = Top.record \/ t = <<>>
  BY <1>1, EndRecords DEF Recorded
<1>3. /\ stack # <<>> /\ Top.pending = <<>> /\ Close(outcome) /\ UNCHANGED <<entries, maker_note>>
  BY DEF Ends, CloseDir, CloseSubdir, CloseChainDir, found
<1>4. /\ Top = stack[l] /\ l \in DOMAIN stack /\ DOMAIN stack = 1..l /\ l \in Nat \ {0}
      /\ w \in DOMAIN walks /\ walks[w].start = Top.start /\ walks[w].kind = Top.kind
      /\ Top.start \in Addresses /\ Typed
  BY <1>3, TopKnown, TopTyped DEF WalkInv
<1>5. /\ DOMAIN stack' = 1..(l - 1) /\ Len(stack') = l - 1
      /\ \A n \in 1..(l - 1) : stack'[n] = stack[n]
      /\ DOMAIN walks' = DOMAIN walks
      /\ \A v \in DOMAIN walks : v # w => walks'[v] = walks[v]
      /\ walks'[w] = [walks[w] EXCEPT !.outcome = outcome]
  <2>1. Len(active_ifd_offsets) = Len(stack)
    BY <1>4 DEF WalkInv, PathNeverRepeats
  <2>2. /\ stack' \in Seq(Dir) /\ Len(stack') = Len(stack) - 1
        /\ \A n \in 1..(Len(stack) - 1) : stack'[n] = stack[n]
        /\ walks' \in Seq(WalkRecord) /\ Len(walks') = Len(walks)
        /\ \A n \in DOMAIN walks : n # Top.walk => walks'[n] = walks[n]
        /\ walks'[Top.walk] = [walks[Top.walk] EXCEPT !.outcome = outcome]
    BY <1>3, <1>4, <2>1, CloseTyped DEF Outcomes
  <2>3. DOMAIN walks' = DOMAIN walks
    BY <1>4, <2>2 DEF Typed
  <2> QED
    BY <2>2, <2>3
<1>6. walks'[w].start = Top.start /\ walks'[w].kind = Top.kind /\ walks'[w].outcome = outcome
  <2>1. walks[w] \in WalkRecord
    BY <1>4, WalksTyped
  <2> QED
    BY <1>4, <1>5, <2>1 DEF WalkRecord
<1>7. \A n \in DOMAIN stack' : n \in DOMAIN stack /\ n < l /\ stack'[n] = stack[n]
  <2> HIDE DEF l
  <2> QED
    BY <1>4, <1>5
<1>8. \A n \in DOMAIN stack : n = l \/ n \in DOMAIN stack'
  <2> HIDE DEF l
  <2> QED
    BY <1>4, <1>5
<1>9. \A n \in DOMAIN stack' : CarriedFrom(n, stack'[n])
  BY <1>7 DEF CarriedFrom, SameDir
<1> HIDE DEF l, w
<1>10. PointersKept'
  BY <1>2, <1>7, <1>9, CarriedParts DEF PointersKept
<1>11. PointerAnchored'
  <2>1. \A n \in DOMAIN stack' : \A j \in DOMAIN stack'[n].pending : stack'[n].pending[j].kind # "ExifIFD"
    <3> TAKE n \in DOMAIN stack'
    <3>1. n \in DOMAIN stack /\ n # Len(stack) /\ stack'[n] = stack[n]
      BY <1>4, <1>7 DEF l
    <3> QED
      BY <3>1 DEF NoteInv, PointerAnchored
  <2> QED
    BY <2>1 DEF PointerAnchored
<1>12. RecordsCarried'
  BY <1>2, <1>7, <1>9, CarriedParts DEF RecordsCarried, l
<1>13. Top.record = RecordOf(walks', w) /\ Top.record = RecordOf(walks, w)
  <2>1. SameDir(Top, stack[l])
    BY <1>4 DEF SameDir
  <2>2. Top.record = RecordOf(walks', w)
    BY <1>2, <1>4, <2>1, DirKept DEF w
  <2> QED
    BY <1>4, <2>2 DEF NoteInv, RecordsCarried, w
<1>14. InteropsRecorded'
  <2>1. ASSUME NEW v \in DOMAIN walks, walks[v].kind = "InteropIFD", IsOpen(stack, v)
        PROVE  IsOpen(stack', v) \/ IsRecorded(deferred_subdirs', RecordOf(walks, v))
    <3>1. PICK n \in DOMAIN stack : stack[n].walk = v
      BY <2>1 DEF IsOpen
    <3>2. CASE n = l
      <4>1. v = w /\ Top.kind = "InteropIFD"
        BY <1>4, <2>1, <3>1, <3>2 DEF w
      <4>2. PICK record : Top.record = <<record>>
        BY <1>13, <2>1, <4>1 DEF RecordOf
      <4>3. t = <<record>> /\ 1 \in DOMAIN t /\ t[1] = record
        BY <1>2, <4>1, <4>2
      <4>4. \E k \in DOMAIN deferred_subdirs' : deferred_subdirs'[k] = record
        BY <1>2, <4>3 DEF NoteGrows, GrownBy
      <4> QED
        BY <1>13, <4>1, <4>2, <4>4 DEF IsRecorded
    <3>3. CASE n \in DOMAIN stack'
      BY <1>7, <3>1, <3>3 DEF IsOpen
    <3> QED
      BY <1>8, <3>2, <3>3
  <2>2. ASSUME NEW i \in DOMAIN t, t[i].kind = "Interop"
        PROVE  RecordWalked(walks', t[i])
    <3>1. t = Top.record /\ t # <<>>
      BY <1>2, <2>2
    <3>2. Top.kind = "InteropIFD" /\ walks'[w].kind = "InteropIFD"
      BY <1>4, <1>6, <1>13, <3>1 DEF RecordOf
    <3>3. PICK record : t = <<record>>
      BY <1>13, <3>1, <3>2 DEF RecordOf
    <3>4. t[i] = record
      BY <2>2, <3>3
    <3> QED
      BY <1>4, <1>5, <1>13, <3>1, <3>2, <3>3, <3>4, ZenonT(30) DEF RecordWalked
  <2> QED
    BY <1>2, <1>5, <2>1, <2>2, InteropsKept
<1>15. AnchorsFollowed'
  <2>1. ASSUME NEW start \in Addresses, EnteredNext(start) \/ OpenAt(stack, start)
        PROVE  OpenAt(stack', start) \/ Settled(disk', walks', start)
    <3>1. OpenAt(stack, start)
      BY <1>3, <2>1 DEF EnteredNext, Pending
    <3>2. PICK n \in DOMAIN stack : stack[n].start = start /\ stack[n].kind # "GPS"
      BY <3>1 DEF OpenAt
    <3>3. CASE n = l
      BY <1>4, <1>5, <1>6, <3>2, <3>3 DEF Settled
    <3>4. CASE n \in DOMAIN stack'
      BY <1>7, <3>2, <3>4 DEF OpenAt
    <3> QED
      BY <1>8, <3>3, <3>4
  <2>2. \A i \in DOMAIN t : t[i].kind # "ExifIfdAnchor"
    <3>1. \A x \in Record : x.kind # "ExifIfdAnchor"
      BY DEF Record
    <3> QED
      BY <3>1
  <2> QED
    BY <1>2, <2>1, <2>2, AnchorsKept
<1>16. FirstEntered'
  <2>1. \A n \in DOMAIN stack' : FirstAt(disk', walks', deferred_subdirs', stack'[n])
    BY <1>2, <1>7, <1>9, CarriedParts
  <2> QED
    BY <2>1 DEF FirstEntered, FirstAt
<1>17. NoNoteRead'
  <2>1. ASSUME maker_note = NoNote, NEW n \in DOMAIN stack'
        PROVE  NoNoteAt(disk', stack'[n])
    BY <1>2, <1>7, <1>9, <2>1, CarriedParts
  <2>2. ASSUME maker_note = NoNote, NEW v \in DOMAIN walks', walks'[v].outcome \in {"whole", "aborted"},
               walks'[v].kind # "GPS"
        PROVE  NoNoteIn(disk'[walks'[v].start].entries, Len(disk'[walks'[v].start].entries))
    <3>1. CASE v = w
      BY <1>6, <2>2, <3>1, EndReadsNoNote DEF NoteInv
    <3>2. CASE v # w
      BY <1>2, <1>5, <2>2, <3>2, EndedKept
    <3> QED
      BY <3>1, <3>2
  <2> QED
    BY <1>3, <2>1, <2>2 DEF NoNoteRead, NoNoteAt
<1>18. NotePlaced'
  <2>1. \A x \in Record : x.kind # "MakerNote"
    BY DEF Record
  <2>2. \A i \in DOMAIN t : t[i].kind # "MakerNote"
    BY <2>1
  <2> QED
    BY <1>2, <1>3, <2>2, NoteKept
<1> QED
  BY <1>10, <1>11, <1>12, <1>14, <1>15, <1>16, <1>17, <1>18 DEF NoteInv

-----------------------------------------------------------------------------
(* An entry is passed.                                                      *)

\* An entry that leads to no recorded place: a leaf, a SubIFD, what is dropped.
PassedBy(entry, pending) ==
  /\ UNCHANGED <<maker_note, deferred_subdirs>>
  /\ entry.what = "MakerNote" => maker_note # NoNote \/ Top.kind = "GPS"
  /\ \A j \in DOMAIN pending : /\ Top.kind # "GPS" /\ pending[j].record = <<>>
                               /\ pending[j].kind \notin {"ExifIFD", "InteropIFD"}

\* A pointer, an ExifIFD with its place.
PointedBy(entry, pending) ==
  LET start == entry.at[1]
  IN  /\ UNCHANGED <<maker_note, entries>> /\ Top.kind # "GPS" /\ entry.what \in PointerKinds
      /\ start \in Addresses
      /\ pending = <<[kind |-> entry.what, start |-> start,
                      record |-> IF entry.what = "InteropIFD" THEN InteropRecord(start) ELSE <<>>]>>
      /\ deferred_subdirs' =
           IF entry.what = "ExifIFD"
           THEN Append(deferred_subdirs,
                       Deferred("ExifIfdAnchor", "ExifIFD", start, 0, NoAddress, Len(entries)))
           ELSE deferred_subdirs

\* The first maker note.
CapturedBy(entry, pending) ==
  /\ pending = <<>> /\ entry.what = "MakerNote" /\ Top.kind # "GPS" /\ maker_note = NoNote
  /\ maker_note' = [walk |-> Top.walk, index |-> Top.index]
  /\ deferred_subdirs' =
       Append(deferred_subdirs, Deferred("MakerNote", Top.kind, Top.start, Top.index, NoAddress, 0))

\* There is one entry that is read, and one list of pointers.
LEMMA PassIsOne ==
  ASSUME WalkInv, \A a \in Addresses : Passable(disk[a].entries),
         NEW entry \in Shapes, NEW pending \in Seq(Sub), Passes(entry, pending)
  PROVE  /\ \A e \in Shapes : ReadEntry(e) => e = entry
         /\ \A p : stack' = WithTop([Top EXCEPT !.index = @ + 1, !.pending = p]) => p = pending
<1>1. \A e \in Shapes : ReadEntry(e) => e = entry
  BY ReadsOn DEF Passes
<1>2. /\ stack # <<>> /\ stack \in Seq(Dir) /\ Top \in Dir
  BY TopTyped DEF Passes, ReadEntry, WalkInv, Typed
<1>3. ASSUME NEW p, stack' = WithTop([Top EXCEPT !.index = @ + 1, !.pending = p]) PROVE p = pending
  <2>1. PICK one : one = [Top EXCEPT !.index = @ + 1, !.pending = p]
    OBVIOUS
  <2>2. PICK other : other = [Top EXCEPT !.index = @ + 1, !.pending = pending]
    OBVIOUS
  <2>3. WithTop(one) = WithTop(other)
    BY <1>3, <2>1, <2>2 DEF Passes
  <2>4. one = other
    BY <1>2, <2>3 DEF WithTop
  <2>5. one.pending = p /\ other.pending = pending
    BY <1>2, <2>1, <2>2 DEF Dir
  <2> QED
    BY <2>4, <2>5
<1> QED
  BY <1>1, <1>3

\* Every entry that is passed is one of these.
LEMMA PassIs ==
  ASSUME WalkInv, \A a \in Addresses : Passable(disk[a].entries), PassEntry
  PROVE  \E entry \in Shapes, pending \in Seq(Sub) :
           /\ Passes(entry, pending)
           /\ PassedBy(entry, pending) \/ PointedBy(entry, pending) \/ CapturedBy(entry, pending)
<1>1. PICK entry \in Shapes, pending \in Seq(Sub) : Passes(entry, pending)
  BY PassEntryPasses DEF WalkInv
<1>2. stack # <<>> /\ Top.pending = <<>> /\ Top \in Dir /\ active_table = table_for_ifd_kind(Top.kind)
  BY <1>1, TopKnown DEF Passes, ReadEntry
<1>3. /\ \A e \in Shapes : ReadEntry(e) => e = entry
      /\ \A p : stack' = WithTop([Top EXCEPT !.index = @ + 1, !.pending = p]) => p = pending
  BY <1>1, PassIsOne
<1>4. [Top EXCEPT !.index = @ + 1] = [Top EXCEPT !.index = @ + 1, !.pending = <<>>]
  BY <1>2 DEF Dir
<1>5. NextEntry => pending = <<>>
  BY <1>3, <1>4 DEF NextEntry
<1>6. CASE SkipEntry
  <2>1. PICK e \in Shapes :
          /\ ReadEntry(e)
          /\ \/ e.what \in {"skipped", "wrong format"}
             \/ e.what \in Malformed /\ Top.index > 0
             \/ e.what = "SubIFD" /\ file_type = "SRW"
             \/ active_table = "Gps" /\ e.what \in Unknown
    BY <1>6 DEF SkipEntry
  <2>2. active_table = "Gps" => Top.kind = "GPS"
    BY <1>2 DEF table_for_ifd_kind
  <2>3. entry.what = "MakerNote" => Top.kind = "GPS"
    BY <1>3, <2>1, <2>2 DEF Malformed
  <2>4. pending = <<>> /\ UNCHANGED <<maker_note, deferred_subdirs>>
    BY <1>5, <1>6 DEF SkipEntry, found
  <2>5. PassedBy(entry, pending)
    BY <2>3, <2>4 DEF PassedBy
  <2> QED
    BY <1>1, <2>5
<1>7. CASE FollowPointer
  <2>1. PICK e \in Shapes :
          /\ ReadEntry(e) /\ Points(e, Top.kind) /\ e.what \in PointerKinds
          /\ stack' = WithTop([Top EXCEPT !.index = @ + 1, !.pending =
               <<[kind |-> e.what, start |-> e.at[1],
                  record |-> IF e.what = "InteropIFD" THEN InteropRecord(e.at[1]) ELSE <<>>]>>])
          /\ deferred_subdirs' =
               IF e.what = "ExifIFD"
               THEN Append(deferred_subdirs, Deferred("ExifIfdAnchor", "ExifIFD", e.at[1], 0,
                                                      NoAddress, Len(entries)))
               ELSE deferred_subdirs
    BY <1>7 DEF FollowPointer
  <2>2. e = entry
    BY <1>3, <2>1
  <2>3. pending = <<[kind |-> e.what, start |-> e.at[1],
                  record |-> IF e.what = "InteropIFD" THEN InteropRecord(e.at[1]) ELSE <<>>]>>
    BY <1>3, <2>1
  <2>4. e.at[1] \in Addresses /\ Top.kind # "GPS"
    BY <2>1, ShapeTyped DEF Points, WalkInv
  <2>5. UNCHANGED <<maker_note, entries>>
    BY <1>7 DEF FollowPointer
  <2>6. PointedBy(entry, pending)
    BY <2>1, <2>2, <2>3, <2>4, <2>5 DEF PointedBy
  <2> QED
    BY <1>1, <2>6
<1>8. CASE FollowSubIfds
  <2>1. PICK e \in Shapes :
          /\ ReadEntry(e) /\ Points(e, Top.kind) /\ e.what = "SubIFD"
          /\ stack' = WithTop([Top EXCEPT !.index = @ + 1, !.pending = SubIfds(e.at)])
    BY <1>8 DEF FollowSubIfds
  <2>2. entry = e /\ pending = SubIfds(e.at) /\ Top.kind # "GPS"
    BY <1>3, <2>1 DEF Points
  <2>3. \A j \in DOMAIN SubIfds(e.at) :
          SubIfds(e.at)[j].record = <<>> /\ SubIfds(e.at)[j].kind \notin {"ExifIFD", "InteropIFD"}
    <3> TAKE j \in DOMAIN SubIfds(e.at)
    <3>1. e.at \in Seq(Addresses \cup {NoAddress})
      BY ShapeTyped DEF AnEntry, WalkInv
    <3>2. j \in 1..10 /\ SubIfds(e.at)[j] = SubIfd(j, e.at[j])
      BY <3>1, LimitsAssumption DEF SubIfds
    <3>3. SubIfdKinds[j] \notin {"ExifIFD", "InteropIFD"}
      BY <3>2, KindsListed
    <3> QED
      BY <3>2, <3>3 DEF SubIfd
  <2>4. PassedBy(entry, pending)
    <3>1. UNCHANGED <<maker_note, deferred_subdirs>>
      BY <1>8 DEF FollowSubIfds, found
    <3> QED
      BY <2>1, <2>2, <2>3, <3>1 DEF PassedBy
  <2> QED
    BY <1>1, <2>4
<1>9. CASE CaptureMakerNote
  <2>1. PICK e \in Shapes : ReadEntry(e) /\ Points(e, Top.kind) /\ e.what = "MakerNote"
    BY <1>9 DEF CaptureMakerNote
  <2>2. entry.what = "MakerNote" /\ Top.kind # "GPS"
    BY <1>3, <2>1 DEF Points
  <2>3. pending = <<>>
    BY <1>5, <1>9 DEF CaptureMakerNote
  <2>4. CASE maker_note # NoNote
    <3>1. PassedBy(entry, pending)
      BY <1>9, <2>3, <2>4 DEF CaptureMakerNote, PassedBy
    <3> QED
      BY <1>1, <3>1
  <2>5. CASE maker_note = NoNote
    <3>1. CapturedBy(entry, pending)
      BY <1>9, <2>2, <2>3, <2>5 DEF CaptureMakerNote, CapturedBy
    <3> QED
      BY <1>1, <3>1
  <2> QED
    BY <2>4, <2>5
<1>10. CASE EmitLeaf
  <2>1. PICK e \in Shapes : ReadEntry(e) /\ e.what \in LeavesOf(active_table)
    BY <1>10 DEF EmitLeaf
  <2>2. entry.what # "MakerNote"
    BY <1>3, <2>1 DEF LeavesOf, MainLeaves
  <2>3. pending = <<>> /\ UNCHANGED <<maker_note, deferred_subdirs>>
    BY <1>5, <1>10 DEF EmitLeaf
  <2>4. PassedBy(entry, pending)
    BY <2>2, <2>3 DEF PassedBy
  <2> QED
    BY <1>1, <2>4
<1> QED
  BY <1>6, <1>7, <1>8, <1>9, <1>10 DEF PassEntry

\* What passing an entry does to the open directories.
PassedStack(pending) ==
  LET l == Len(stack)
  IN  /\ stack # <<>> /\ l \in DOMAIN stack /\ l \in Nat /\ Top = stack[l] /\ Top.pending = <<>>
      /\ DOMAIN stack = 1..l
      /\ DOMAIN stack' = DOMAIN stack /\ Len(stack') = l
      /\ \A n \in DOMAIN stack : SameDir(stack'[n], stack[n]) /\ (n # l => stack'[n] = stack[n])
      /\ stack'[l].index = Top.index + 1 /\ stack'[l].pending = pending

\* Passing an entry leaves the other directories alone.
LEMMA PassStacks ==
  ASSUME WalkInv, NEW entry \in Shapes, NEW pending \in Seq(Sub), Passes(entry, pending)
  PROVE  PassedStack(pending)
<1>1. Typed /\ stack # <<>> /\ Top.pending = <<>>
  BY DEF WalkInv, Passes, ReadEntry
<1>2. /\ Top = stack[Len(stack)] /\ Top \in Dir /\ Len(stack) \in DOMAIN stack /\ Len(stack) \in Nat
      /\ DOMAIN stack = 1..Len(stack)
  BY <1>1, TopTyped, TopKnown
<1> DEFINE passed == Passed(Top, pending)
<1>3. /\ passed \in Dir /\ passed.start = Top.start /\ passed.kind = Top.kind
      /\ passed.index = Top.index + 1 /\ passed.walk = Top.walk /\ passed.pending = pending
  BY <1>2, PassedTyped
<1>4. passed.record = Top.record
  BY <1>2 DEF Passed, Dir
<1>5. stack' = WithTop(passed)
  BY DEF Passes, Passed
<1> HIDE DEF passed
<1>6. /\ DOMAIN stack' = DOMAIN stack /\ stack'[Len(stack)] = passed /\ Len(stack') = Len(stack)
      /\ \A n \in DOMAIN stack : n # Len(stack) => stack'[n] = stack[n]
  BY <1>1, <1>3, <1>5, WithTopTyped
<1>7. \A n \in DOMAIN stack : SameDir(stack'[n], stack[n])
  BY <1>2, <1>3, <1>4, <1>6 DEF SameDir
<1> QED
  BY <1>1, <1>2, <1>3, <1>6, <1>7 DEF PassedStack

\* What is kept whatever the entry is.
LEMMA PassKeepsMost ==
  ASSUME WalkInv, NoteInv, \A a \in Addresses : Passable(disk[a].entries),
         NEW entry \in Shapes, NEW pending \in Seq(Sub), Passes(entry, pending),
         NEW t, NoteGrows(t), \A i \in DOMAIN t : t[i].kind # "Interop"
  PROVE  /\ RecordsCarried' /\ InteropsRecorded' /\ FirstEntered'
         /\ PointersOf(disk', stack'[Len(stack)]) => PointersKept'
         /\ \A start : OpenAt(stack, start) => OpenAt(stack', start)
         /\ \A start : ~EnteredNext(start)
         /\ \A n \in DOMAIN stack : n # Len(stack) =>
              \A j \in DOMAIN stack'[n].pending : stack'[n].pending[j].kind # "ExifIFD"
<1> DEFINE l == Len(stack)
<1>1. /\ stack # <<>> /\ l \in DOMAIN stack /\ l \in Nat /\ Top = stack[l] /\ Top.pending = <<>>
      /\ DOMAIN stack = 1..l
      /\ DOMAIN stack' = DOMAIN stack /\ Len(stack') = l
      /\ \A n \in DOMAIN stack : SameDir(stack'[n], stack[n]) /\ (n # l => stack'[n] = stack[n])
  BY PassStacks DEF PassedStack
<1> HIDE DEF l
<1>2. \A n \in DOMAIN stack : n # l => CarriedFrom(n, stack'[n])
  BY <1>1 DEF CarriedFrom, SameDir
<1>3. RecordsCarried'
  <2>1. \A n \in DOMAIN stack : stack'[n].record = RecordOf(walks', stack'[n].walk)
    BY <1>1, DirKept
  <2>2. \A n \in DOMAIN stack : n < l => stack'[n].kind # "GPS"
    BY <1>1 DEF NoteInv, RecordsCarried, l
  <2> QED
    BY <1>1, <2>1, <2>2 DEF RecordsCarried
<1>4. FirstEntered'
  <2>1. \A n \in DOMAIN stack : FirstAt(disk', walks', deferred_subdirs', stack'[n])
    BY <1>1, DirKept
  <2> QED
    BY <1>1, <2>1 DEF FirstEntered, FirstAt
<1>5. InteropsRecorded'
  <2>1. \A w : IsOpen(stack, w) => IsOpen(stack', w)
    BY <1>1 DEF IsOpen, SameDir
  <2>2. DOMAIN walks' = DOMAIN walks
    BY PassFrames DEF PassFrame
  <2> QED
    BY <2>1, <2>2, InteropsKept
<1>6. PointersOf(disk', stack'[l]) => PointersKept'
  <2>1. \A n \in DOMAIN stack : n # l => PointersOf(disk', stack'[n])
    BY <1>2, CarriedParts
  <2> QED
    BY <1>1, <2>1 DEF PointersKept
<1>7. \A start : OpenAt(stack, start) => OpenAt(stack', start)
  BY <1>1 DEF OpenAt, SameDir
<1>8. \A start : ~EnteredNext(start)
  BY <1>1 DEF EnteredNext, Pending
<1>9. \A n \in DOMAIN stack : n # l =>
        \A j \in DOMAIN stack'[n].pending : stack'[n].pending[j].kind # "ExifIFD"
  BY <1>1 DEF NoteInv, PointerAnchored, l
<1> QED
  BY <1>3, <1>4, <1>5, <1>6, <1>7, <1>8, <1>9 DEF l

\* No maker note is passed without being kept.
LEMMA PassReadsNoNote ==
  ASSUME WalkInv, NoteInv, \A a \in Addresses : Passable(disk[a].entries),
         NEW entry \in Shapes, NEW pending \in Seq(Sub), Passes(entry, pending),
         NEW t, NoteGrows(t), UNCHANGED maker_note,
         entry.what = "MakerNote" => maker_note # NoNote \/ Top.kind = "GPS"
  PROVE  NoNoteRead'
<1> DEFINE l == Len(stack)
           more == disk'[Top.start].entries
           i == Top.index
<1>1. /\ stack # <<>> /\ l \in DOMAIN stack /\ Top = stack[l] /\ DOMAIN stack' = DOMAIN stack
      /\ \A n \in DOMAIN stack : SameDir(stack'[n], stack[n]) /\ (n # l => stack'[n] = stack[n])
      /\ stack'[l].index = Top.index + 1
  BY PassStacks DEF PassedStack
<1>2. i \in Nat /\ more[i + 1] = entry
  BY <1>1, TopKnown, ReadsOn DEF Passes
<1> SUFFICES ASSUME maker_note = NoNote
             PROVE  /\ \A n \in DOMAIN stack' : NoNoteAt(disk', stack'[n])
                    /\ \A w \in DOMAIN walks' :
                         walks'[w].outcome \in {"whole", "aborted"} /\ walks'[w].kind # "GPS" =>
                           NoNoteIn(disk'[walks'[w].start].entries, Len(disk'[walks'[w].start].entries))
  BY DEF NoNoteRead, NoNoteAt
<1>3. \A n \in DOMAIN stack : n # l => NoNoteAt(disk', stack'[n])
  <2> TAKE n \in DOMAIN stack
  <2>1. n # l => SameDir(stack'[n], stack[n]) /\ stack'[n].index = stack[n].index
    BY <1>1
  <2> QED
    BY <2>1, DirKept
<1>4. NoNoteAt(disk', Top)
  <2>1. SameDir(Top, stack[l]) /\ Top.index = stack[l].index
    BY <1>1 DEF SameDir
  <2> QED
    BY <1>1, <2>1, DirKept
<1>5. NoNoteAt(disk', stack'[l])
  <2>1. stack'[l].start = Top.start /\ stack'[l].kind = Top.kind
    BY <1>1 DEF SameDir
  <2>2. ASSUME Top.kind # "GPS" PROVE NoNoteIn(more, i + 1)
    <3>1. NoNoteIn(more, i) /\ entry.what # "MakerNote"
      BY <1>4, <2>2 DEF NoNoteAt
    <3> HIDE DEF more, i
    <3>2. \A m \in 1..(i + 1) : m \in 1..i \/ m = i + 1
      BY <1>2
    <3> QED
      BY <1>2, <3>1, <3>2 DEF NoNoteIn
  <2> QED
    BY <1>1, <2>1, <2>2 DEF NoNoteAt
<1>6. ASSUME NEW w \in DOMAIN walks', walks'[w].outcome \in {"whole", "aborted"}, walks'[w].kind # "GPS"
      PROVE  NoNoteIn(disk'[walks'[w].start].entries, Len(disk'[walks'[w].start].entries))
  <2>1. w \in DOMAIN walks /\ walks[w].outcome = walks'[w].outcome /\ walks[w].kind = walks'[w].kind
    BY <1>6, PassFrames DEF PassFrame
  <2> QED
    BY <1>6, <2>1, EndedKept
<1> HIDE DEF l
<1> QED
  BY <1>1, <1>3, <1>5, <1>6

\* A leaf, a SubIFD, or what is dropped.
LEMMA PassedKeepsNote ==
  ASSUME WalkInv, NoteInv, Recorded, \A a \in Addresses : Passable(disk[a].entries),
         NEW entry \in Shapes, NEW pending \in Seq(Sub), Passes(entry, pending), PassedBy(entry, pending)
  PROVE  NoteInv'
<1> DEFINE l == Len(stack)
           t == <<>>
<1>1. /\ UNCHANGED <<maker_note, deferred_subdirs>>
      /\ entry.what = "MakerNote" => maker_note # NoNote \/ Top.kind = "GPS"
      /\ \A j \in DOMAIN pending : /\ Top.kind # "GPS" /\ pending[j].record = <<>>
                                   /\ pending[j].kind \notin {"ExifIFD", "InteropIFD"}
  BY DEF PassedBy
<1>2. NoteGrows(t)
  <2>1. DiskGrows /\ WalksGrow
    BY PassGrowsOn
  <2> QED
    BY <1>1, <2>1, NoRecordGrown DEF Recorded
<1>3. \A i \in DOMAIN t : FALSE
  OBVIOUS
<1> HIDE DEF t
<1>4. PassedStack(pending)
  BY PassStacks
<1>5. /\ RecordsCarried' /\ InteropsRecorded' /\ FirstEntered'
      /\ PointersOf(disk', stack'[l]) => PointersKept'
      /\ \A start : OpenAt(stack, start) => OpenAt(stack', start)
      /\ \A start : ~EnteredNext(start)
      /\ \A n \in DOMAIN stack : n # l =>
           \A j \in DOMAIN stack'[n].pending : stack'[n].pending[j].kind # "ExifIFD"
  BY <1>2, <1>3, PassKeepsMost
<1>6. stack'[l].kind = Top.kind /\ stack'[l].pending = pending
  BY <1>4 DEF PassedStack, SameDir
<1>7. PointersKept'
  BY <1>1, <1>5, <1>6 DEF PointersOf
<1>8. PointerAnchored'
  <2>1. \A n \in DOMAIN stack' : \A j \in DOMAIN stack'[n].pending : stack'[n].pending[j].kind # "ExifIFD"
    BY <1>1, <1>4, <1>5, <1>6 DEF PassedStack
  <2> QED
    BY <2>1 DEF PointerAnchored
<1>9. AnchorsFollowed'
  BY <1>2, <1>3, <1>5, AnchorsKept
<1>10. NoNoteRead'
  BY <1>1, <1>2, PassReadsNoNote
<1>11. NotePlaced'
  BY <1>1, <1>2, <1>3, NoteKept
<1> QED
  BY <1>5, <1>7, <1>8, <1>9, <1>10, <1>11 DEF NoteInv

\* A pointer: an ExifIFD is recorded, and entered next.
LEMMA PointedKeepsNote ==
  ASSUME WalkInv, NoteInv, Recorded, \A a \in Addresses : Passable(disk[a].entries),
         NEW entry \in Shapes, NEW pending \in Seq(Sub), Passes(entry, pending), PointedBy(entry, pending)
  PROVE  NoteInv'
<1> DEFINE l == Len(stack)
           at == entry.at[1]
           anchor == Deferred("ExifIfdAnchor", "ExifIFD", at, 0, NoAddress, Len(entries))
           record == IF entry.what = "InteropIFD" THEN InteropRecord(at) ELSE <<>>
           t == IF entry.what = "ExifIFD" THEN <<anchor>> ELSE <<>>
           last == Len(deferred_subdirs) + 1
<1>1. /\ UNCHANGED <<maker_note, entries>> /\ Top.kind # "GPS" /\ entry.what \in PointerKinds
      /\ at \in Addresses
      /\ pending = <<[kind |-> entry.what, start |-> at, record |-> record]>>
      /\ deferred_subdirs' = IF entry.what = "ExifIFD" THEN Append(deferred_subdirs, anchor)
                             ELSE deferred_subdirs
  BY DEF PointedBy
<1>2. /\ anchor \in Deferrals /\ anchor.kind = "ExifIfdAnchor" /\ anchor.parent = "ExifIFD"
      /\ anchor.parent_ifd_start = at /\ anchor.dispatch_index = Len(entries)
  <2>1. "ExifIFD" \in Kinds
    BY DEF Kinds, SubKinds, PointerKinds
  <2>2. Len(entries) \in Nat
    BY DEF Recorded, FoundTyped
  <2> QED
    BY <1>1, <2>1, <2>2 DEF Deferred, Deferrals
<1> HIDE DEF anchor
<1>3. deferred_subdirs \in Seq(Deferrals) /\ FoundTyped
  BY DEF Recorded, FoundTyped
<1>4. NoteGrows(t)
  <2>1. DiskGrows /\ WalksGrow
    BY PassGrowsOn
  <2>2. t \in Seq(Deferrals) /\ deferred_subdirs' = deferred_subdirs \o t
    BY <1>1, <1>2, <1>3
  <2> QED
    BY <1>3, <2>1, <2>2, RecordsGrown
<1>5. \A i \in DOMAIN t : t[i] = anchor
  OBVIOUS
<1>6. /\ \A k \in DOMAIN deferred_subdirs' :
           k \in DOMAIN deferred_subdirs \/ (entry.what = "ExifIFD" /\ k = last)
      /\ entry.what = "ExifIFD" => /\ last \in DOMAIN deferred_subdirs' /\ deferred_subdirs'[last] = anchor
                                   /\ Len(deferred_subdirs') = last
  BY <1>1, <1>2, <1>3
<1> HIDE DEF t, last
<1>7. PassedStack(pending)
  BY PassStacks
<1>8. /\ RecordsCarried' /\ InteropsRecorded' /\ FirstEntered'
      /\ PointersOf(disk', stack'[l]) => PointersKept'
      /\ \A start : OpenAt(stack, start) => OpenAt(stack', start)
      /\ \A start : ~EnteredNext(start)
      /\ \A n \in DOMAIN stack : n # l =>
           \A j \in DOMAIN stack'[n].pending : stack'[n].pending[j].kind # "ExifIFD"
  BY <1>2, <1>4, <1>5, PassKeepsMost
<1>9. /\ stack'[l].kind = Top.kind /\ stack'[l].start = Top.start /\ stack'[l].pending = pending
      /\ stack'[l].index = Top.index + 1 /\ l \in DOMAIN stack' /\ Len(stack') = l
      /\ DOMAIN stack' = DOMAIN stack /\ stack' # <<>> /\ stack # <<>> /\ Last(stack') = stack'[l]
  <2>1. /\ stack'[l].kind = Top.kind /\ stack'[l].start = Top.start /\ stack'[l].pending = pending
        /\ stack'[l].index = Top.index + 1 /\ l \in DOMAIN stack' /\ Len(stack') = l
        /\ DOMAIN stack' = DOMAIN stack /\ stack # <<>>
    BY <1>7 DEF PassedStack, SameDir
  <2> QED
    BY <2>1 DEF Last
<1>10. /\ DOMAIN pending = {1} /\ Len(pending) = 1 /\ pending # <<>> /\ Head(pending) = pending[1]
       /\ pending[1].kind = entry.what /\ pending[1].start = at /\ pending[1].record = record
  <2>1. PICK sub : sub = [kind |-> entry.what, start |-> at, record |-> record]
    OBVIOUS
  <2>2. sub.kind = entry.what /\ sub.start = at /\ sub.record = record
    BY <2>1
  <2>3. pending = <<sub>>
    BY <1>1, <2>1
  <2> HIDE DEF at, record
  <2> QED
    BY <2>2, <2>3
<1>11. /\ Top.index \in Nat /\ (Top.index + 1) - 1 = Top.index
       /\ EntryAt(disk', Top.start, Top.index, entry.what)
  <2>1. /\ Top.index \in Nat /\ disk'[Top.start].entries[Top.index + 1] = entry
        /\ disk'[Top.start].entries \in Seq(AnEntry)
        /\ Top.index + 1 <= Len(disk'[Top.start].entries)
    BY <1>9, TopKnown, ReadsOn DEF Passes
  <2> QED
    BY <2>1 DEF EntryAt
<1>12. PointersKept'
  <2>1. entry.what = "InteropIFD" => record = <<InteropOf(Top.kind, Top.start, Top.index, at)>>
    BY DEF InteropRecord, InteropOf
  <2> HIDE DEF at, record
  <2>2. PointersOf(disk', stack'[l])
    <3> HIDE DEF l
    <3>1. entry.what # "InteropIFD" => record = <<>>
      BY DEF record
    <3> QED
      BY <1>1, <1>9, <1>10, <1>11, <2>1, <3>1 DEF PointersOf
  <2> QED
    BY <1>8, <2>2
<1> HIDE DEF at, record
<1>13. PointerAnchored'
  <2> SUFFICES ASSUME NEW n \in DOMAIN stack', NEW j \in DOMAIN stack'[n].pending,
                      stack'[n].pending[j].kind = "ExifIFD"
               PROVE  LET lst == Len(deferred_subdirs')
                      IN  /\ n = Len(stack') /\ Len(stack'[n].pending) = 1
                          /\ lst \in DOMAIN deferred_subdirs'
                          /\ AnchorOf(deferred_subdirs'[lst], stack'[n].pending[j].start)
                          /\ deferred_subdirs'[lst].dispatch_index = Len(entries')
    BY DEF PointerAnchored
  <2>1. n = l
    BY <1>8, <1>9
  <2>2. j = 1 /\ entry.what = "ExifIFD" /\ stack'[n].pending[j].start = at
    BY <1>9, <1>10, <2>1
  <2> QED
    BY <1>1, <1>2, <1>6, <1>9, <1>10, <2>1, <2>2 DEF AnchorOf
<1>14. AnchorsFollowed'
  <2>1. \A start \in Addresses : EnteredNext(start) \/ OpenAt(stack, start) =>
            OpenAt(stack', start) \/ Settled(disk', walks', start)
    BY <1>8
  <2>2. ASSUME NEW k \in DOMAIN deferred_subdirs', NEW start \in Addresses,
               AnchorOf(deferred_subdirs'[k], start), k \notin DOMAIN deferred_subdirs
        PROVE  EnteredNext(start)' /\ k = Len(deferred_subdirs')
    <3>1. entry.what = "ExifIFD" /\ k = last
      BY <1>6, <2>2
    <3>2. at = start
      BY <1>2, <1>6, <2>2, <3>1 DEF AnchorOf
    <3> QED
      BY <1>6, <1>9, <1>10, <3>1, <3>2 DEF EnteredNext, Pending, Top
  <2>3. \A k \in DOMAIN deferred_subdirs' : \A start \in Addresses :
          AnchorOf(deferred_subdirs'[k], start) =>
            \/ EnteredNext(start)' /\ k = Len(deferred_subdirs')
            \/ OpenAt(stack', start) \/ Settled(disk', walks', start)
    <3> TAKE k \in DOMAIN deferred_subdirs'
    <3> TAKE start \in Addresses
    <3>1. CASE k \in DOMAIN deferred_subdirs
      BY <1>4, <2>1, <3>1, AnchorsStay
    <3>2. CASE k \notin DOMAIN deferred_subdirs
      BY <2>2, <3>2
    <3> QED
      BY <3>1, <3>2
  <2> QED
    BY <2>3 DEF AnchorsFollowed, AnchorFollowed
<1>15. NoNoteRead'
  <2>1. entry.what # "MakerNote"
    BY <1>1 DEF PointerKinds
  <2> QED
    BY <1>1, <1>4, <2>1, PassReadsNoNote
<1>16. NotePlaced'
  <2>1. \A i \in DOMAIN t : t[i].kind # "MakerNote"
    BY <1>2, <1>5
  <2> QED
    BY <1>1, <1>4, <2>1, NoteKept
<1> QED
  BY <1>8, <1>12, <1>13, <1>14, <1>15, <1>16 DEF NoteInv

\* The first maker note: no directory at this address was read before.
LEMMA CaptureFirst ==
  ASSUME WalkInv, NoteInv, \A a \in Addresses : Passable(disk[a].entries),
         NEW entry \in Shapes, ReadEntry(entry), entry.what = "MakerNote", maker_note = NoNote
  PROVE  ~Settled(disk, walks, Top.start)
<1> DEFINE read == disk[Top.start].entries
<1>1. /\ stack # <<>> /\ Top = stack[Len(stack)] /\ Len(stack) \in DOMAIN stack
      /\ Top.start \in Addresses /\ Top.index \in Nat /\ read \in Seq(AnEntry)
      /\ Top.index < Top.num_entries /\ warn_count <= MaxWarnings
  BY TopKnown DEF ReadEntry
<1>2. disk[Top.start] # Broken
  BY <1>1 DEF WalkInv, ReadSoFar, Broken
<1>3. ASSUME NEW w \in DOMAIN walks, walks[w].start = Top.start, walks[w].kind # "GPS",
             walks[w].outcome \in {"whole", "aborted"}
      PROVE  FALSE
  <2>1. Top.index < Len(read)
    BY <1>1, <1>3, EndedIsRead
  <2>2. entry = read[Top.index + 1]
    BY <2>1 DEF ReadEntry
  <2>3. NoNoteIn(read, Len(read))
    BY <1>3 DEF NoteInv, NoNoteRead
  <2>4. Top.index + 1 \in 1..Len(read)
    <3> HIDE DEF read
    <3> QED
      BY <1>1, <2>1
  <2> QED
    BY <2>2, <2>3, <2>4 DEF NoNoteIn
<1> QED
  BY <1>2, <1>3 DEF Settled

\* A maker note is read and kept.
LEMMA CapturedKeepsNote ==
  ASSUME WalkInv, NoteInv, Recorded, \A a \in Addresses : Passable(disk[a].entries),
         NEW entry \in Shapes, NEW pending \in Seq(Sub), Passes(entry, pending), CapturedBy(entry, pending)
  PROVE  NoteInv'
<1> DEFINE l == Len(stack)
           record == Deferred("MakerNote", Top.kind, Top.start, Top.index, NoAddress, 0)
           t == <<record>>
           w == Top.walk
<1>1. /\ pending = <<>> /\ entry.what = "MakerNote" /\ Top.kind # "GPS" /\ maker_note = NoNote
      /\ maker_note' = [walk |-> w, index |-> Top.index]
      /\ deferred_subdirs' = Append(deferred_subdirs, record)
  BY DEF CapturedBy
<1>2. PassedStack(pending)
  BY PassStacks
<1>3. /\ stack # <<>> /\ l \in DOMAIN stack /\ l \in DOMAIN stack' /\ Top = stack[l]
      /\ DOMAIN stack' = DOMAIN stack /\ stack'[l].pending = <<>>
      /\ Top \in Dir /\ w \in DOMAIN walks /\ walks[w].start = Top.start /\ walks[w].kind = Top.kind
      /\ Top.start \in Addresses /\ Top.kind \in Kinds /\ Top.index \in Nat /\ w \in Nat
  BY <1>1, <1>2, TopKnown DEF PassedStack, Dir
<1>4. /\ record \in Deferrals /\ record.kind = "MakerNote" /\ record.parent = Top.kind
      /\ record.parent_ifd_start = Top.start /\ record.pointer_index = Top.index
  BY <1>3 DEF Deferred, Deferrals
<1> HIDE DEF record
<1>5. deferred_subdirs \in Seq(Deferrals) /\ FoundTyped
  BY DEF Recorded, FoundTyped
<1>6. DiskGrows /\ WalksGrow
  BY PassGrowsOn
<1>7. NoteGrows(t)
  <2>1. t \in Seq(Deferrals) /\ deferred_subdirs' = deferred_subdirs \o t
    BY <1>1, <1>4, <1>5
  <2> QED
    BY <1>5, <1>6, <2>1, RecordsGrown
<1>8. \A i \in DOMAIN t : t[i] = record
  OBVIOUS
<1> HIDE DEF t, l, w
<1>9. /\ RecordsCarried' /\ InteropsRecorded' /\ FirstEntered'
      /\ PointersOf(disk', stack'[l]) => PointersKept'
      /\ \A start : OpenAt(stack, start) => OpenAt(stack', start)
      /\ \A start : ~EnteredNext(start)
      /\ \A n \in DOMAIN stack : n # l =>
           \A j \in DOMAIN stack'[n].pending : stack'[n].pending[j].kind # "ExifIFD"
  BY <1>4, <1>7, <1>8, PassKeepsMost DEF l
<1>10. PointersKept'
  BY <1>3, <1>9 DEF PointersOf
<1>11. PointerAnchored'
  <2>1. \A n \in DOMAIN stack' : \A j \in DOMAIN stack'[n].pending : stack'[n].pending[j].kind # "ExifIFD"
    BY <1>3, <1>9
  <2> QED
    BY <2>1 DEF PointerAnchored
<1>12. AnchorsFollowed'
  BY <1>4, <1>7, <1>8, <1>9, AnchorsKept
<1>13. maker_note' # NoNote /\ maker_note'.walk = w /\ maker_note'.index = Top.index
  <2>1. w # 0
    BY <1>3 DEF WalkInv, Typed
  <2> QED
    BY <1>1, <2>1 DEF NoNote
<1>14. NoNoteRead'
  BY <1>13 DEF NoNoteRead
<1>15. /\ w \in DOMAIN walks' /\ walks'[w].start = Top.start /\ walks'[w].kind = Top.kind
       /\ walks'[w].before = walks[w].before
  BY <1>3, <1>6 DEF WalksGrow, SameWalk
<1>16. EntryAt(disk', Top.start, Top.index, "MakerNote")
  <2>1. /\ disk'[Top.start].entries[Top.index + 1] = entry
        /\ disk'[Top.start].entries \in Seq(AnEntry)
        /\ Top.index + 1 <= Len(disk'[Top.start].entries)
    BY ReadsOn DEF Passes
  <2> QED
    BY <1>1, <1>3, <2>1 DEF EntryAt
<1>17. \A k \in DOMAIN deferred_subdirs' : deferred_subdirs'[k].kind = "MakerNote" =>
         deferred_subdirs'[k] = record
  <2>1. \A k \in DOMAIN deferred_subdirs : deferred_subdirs[k].kind # "MakerNote"
    BY <1>1 DEF Recorded, NoteRecorded
  <2> QED
    BY <1>7, <1>8, <2>1 DEF NoteGrows, GrownBy
<1>18. Top.kind = "ExifIFD" => EnteredFirst(deferred_subdirs', Top.start, walks[w].before)
  <2>1. ~Settled(disk, walks, Top.start)
    BY <1>1, CaptureFirst DEF Passes
  <2>2. Top.kind = "ExifIFD" => EnteredFirst(deferred_subdirs, Top.start, walks[w].before)
    BY <1>3, <2>1 DEF NoteInv, FirstEntered, w
  <2> QED
    BY <1>7, <2>2, FirstStays DEF NoteGrows
<1>19. NotePlaced'
  BY <1>4, <1>13, <1>15, <1>16, <1>17, <1>18 DEF NotePlaced, PlacedAt
<1> QED
  BY <1>9, <1>10, <1>11, <1>12, <1>14, <1>19 DEF NoteInv

\* A step of the walk keeps what is known of the maker note.
LEMMA NoteNext ==
  ASSUME WalkInv, NoteInv, Recorded, ~finished => \A a \in Addresses : Passable(disk[a].entries),
         [Next]_vars
  PROVE  NoteInv'
<1>1. CASE WalkChainDir \/ RefuseChainDir \/ WalkSubdir \/ RefuseSubdir \/ PassOverSubdir
  BY <1>1, OpeningKeepsNote
<1>2. stack # <<>> => \A a \in Addresses : Passable(disk[a].entries)
  BY DEF WalkInv, Typed
<1>3. CASE EndDirectory
  <2>1. PICK outcome \in {"whole", "aborted"} : Ends(outcome)
    BY <1>3, EndDirectoryEnds
  <2> QED
    BY <1>2, <2>1, EndKeepsNote DEF Ends
<1>4. CASE PassEntry
  <2>1. \A a \in Addresses : Passable(disk[a].entries)
    BY <1>2, <1>4 DEF PassEntry, SkipEntry, FollowPointer, FollowSubIfds, CaptureMakerNote, EmitLeaf,
                      ReadEntry
  <2>2. PICK entry \in Shapes, pending \in Seq(Sub) :
           /\ Passes(entry, pending)
           /\ PassedBy(entry, pending) \/ PointedBy(entry, pending) \/ CapturedBy(entry, pending)
    BY <1>4, <2>1, PassIs
  <2> QED
    BY <2>1, <2>2, PassedKeepsNote, PointedKeepsNote, CapturedKeepsNote
<1>5. CASE Finalize
  BY <1>5, RestKeepsNote DEF Finalize
<1>6. CASE UNCHANGED vars
  BY <1>6, RestKeepsNote DEF vars, found
<1> QED
  BY <1>1, <1>3, <1>4, <1>5, <1>6 DEF Next, EndDirectory, PassEntry

\* A block that no directory was walked of.
LEMMA FreshNote == Fresh => NoteInv
BY DEF Fresh, NoteInv, PointersKept, PointerAnchored, RecordsCarried, InteropsRecorded,
       AnchorsFollowed, FirstEntered, NoNoteRead, NotePlaced

=============================================================================
