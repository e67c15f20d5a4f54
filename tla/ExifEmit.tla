------------------------------ MODULE ExifEmit ------------------------------
(***************************************************************************)
(* The EXIF blocks of a JPEG (src/src/exif/jpeg.rs, merge_exif_block),     *)
(* each walked by a walker of its own and merged in the order of their     *)
(* APP1 segments, and the order in which the tags of the result are        *)
(* emitted around its one maker note (src/src/exif/mod.rs,                 *)
(* push_exif_tags).  A file of one block is a standalone TIFF.             *)
(***************************************************************************)
EXTENDS ExifWalk

CONSTANT MaxBlocks  \* bound on the blocks of a file (TLC only)

VARIABLES
  meta,             \* the blocks merged: entries, deferred_subdirs, maker_note
  next_exif_block   \* the ordinal of the block being walked

emitVars == <<vars, meta, next_exif_block>>

NoMeta == [entries |-> <<>>, deferred_subdirs |-> <<>>, maker_note |-> NoNote, walks |-> <<>>]

Stamped(records) == [n \in DOMAIN records |-> [records[n] EXCEPT !.source_block = next_exif_block]]

\* Mutant: the anchor keeps the index it had in its block.
RebasedNot(record) == record

\* The place of an ExifIFD among the entries of all blocks.
Rebased(record) ==
  IF record.kind = "ExifIfdAnchor"
  THEN [record EXCEPT !.dispatch_index = @ + Len(meta.entries)] ELSE record

\* merge_exif_block: the first maker note wins and brings the records of its block.
Merged ==
  LET wins == meta.maker_note = NoNote /\ maker_note # NoNote
      records == Stamped(deferred_subdirs)
  IN  [entries |-> meta.entries \o Stamped(entries),
       maker_note |-> IF wins THEN maker_note ELSE meta.maker_note,
       deferred_subdirs |-> IF wins THEN [n \in DOMAIN records |-> Rebased(records[n])]
                            ELSE meta.deferred_subdirs,
       walks |-> IF wins THEN walks ELSE meta.walks]

\* A block is merged and the next one is walked; a standalone file is one block.
NextBlock ==
  /\ finished /\ next_exif_block + 1 < MaxBlocks
  /\ file_type \notin Standalone
  /\ meta' = Merged
  /\ next_exif_block' = next_exif_block + 1
  /\ disk' = [a \in Addresses |-> Unseen]
  /\ offset' \in Addresses /\ hops' = 0
  /\ chain_guard' = <<>> /\ cycle_guard_warnings' = <<>>
  /\ stack' = <<>> /\ active_ifd_offsets' = <<>>
  /\ warn_count' = 0 /\ active_table' = table_for_ifd_kind("IFD0") /\ captured' = NoMembers
  /\ entries' = <<>> /\ deferred_subdirs' = <<>> /\ maker_note' = NoNote
  /\ data_tag_pairs' = <<>> /\ data_tag_lengths' = <<>>
  /\ finished' = FALSE /\ walks' = <<>>
  /\ UNCHANGED file_type

EmitInit == Init /\ meta = NoMeta /\ next_exif_block = 0
EmitNext == NextBlock \/ (Next /\ UNCHANGED <<meta, next_exif_block>>)
EmitSpec == EmitInit /\ [][EmitNext]_emitVars

-----------------------------------------------------------------------------
(* push_exif_tags, on the merged blocks m.  Entries are told by position;   *)
(* 0 stands for the tags of the maker note.                                 *)

\* The record of the maker note kept, the first of its kind.
Note(m) ==
  LET notes == {n \in DOMAIN m.deferred_subdirs : m.deferred_subdirs[n].kind = "MakerNote"}
  IN  m.deferred_subdirs[Min(notes)]

\* A record made in the directory of the maker note.
OfNote(m, d) ==
  /\ d.source_block = Note(m).source_block
  /\ d.parent = Note(m).parent /\ d.parent_ifd_start = Note(m).parent_ifd_start

\* Where the directories start that its InteropIFD pointers lead to.
InteropStarts(m) ==
  {m.deferred_subdirs[n].subdir_ifd_start : n \in
     {n \in DOMAIN m.deferred_subdirs : m.deferred_subdirs[n].kind = "Interop"
                                        /\ OfNote(m, m.deferred_subdirs[n])}}

Direct(m, n) ==
  m.entries[n].ifd = Note(m).parent /\ m.entries[n].own_ifd_start = Note(m).parent_ifd_start

\* The leaves of the directory of the maker note, and of its InteropIFDs.
Subtree(m) ==
  {n \in DOMAIN m.entries :
     /\ m.entries[n].source_block = Note(m).source_block
     /\ \/ Direct(m, n)
        \/ Note(m).parent = "ExifIFD" /\ m.entries[n].ifd = "InteropIFD"
             /\ m.entries[n].own_ifd_start \in InteropStarts(m)}

Anchors(m) ==
  {n \in DOMAIN m.deferred_subdirs :
     m.deferred_subdirs[n].kind = "ExifIfdAnchor" /\ OfNote(m, m.deferred_subdirs[n])}

\* Where the maker note goes when its directory has no leaf.
SpliceAt(m) ==
  IF Anchors(m) # {}
  THEN Min({m.deferred_subdirs[Min(Anchors(m))].dispatch_index, Len(m.entries)})
  ELSE Max({n \in 0..Len(m.entries) : \A k \in 1..n :
              \/ m.entries[k].source_block < Note(m).source_block
              \/ m.entries[k].source_block = Note(m).source_block /\ m.entries[k].ifd = "IFD0"})

Positions(from, to) == [n \in 1..(to - from + 1) |-> from + n - 1]

\* The first run of leaves of the subtree.
Region(m) == {n \in Subtree(m) : Min(Subtree(m))..n \subseteq Subtree(m)}

\* What is emitted by the pointers of the directory of the maker note.
Records(m) ==
  {k \in DOMAIN m.deferred_subdirs :
     m.deferred_subdirs[k].kind # "ExifIfdAnchor" /\ OfNote(m, m.deferred_subdirs[k])}

\* By the entry of their pointers, and then as they were recorded.
Turn(m, k) == <<m.deferred_subdirs[k].pointer_index, k>>

\* Mutant: two pointers to one InteropIFD emit its leaves twice.
FirstOfAny(m, k) == TRUE

\* The first record of the InteropIFD it points to.
FirstOf(m, k) ==
  \A l \in Records(m) :
    /\ m.deferred_subdirs[l].kind = "Interop"
    /\ m.deferred_subdirs[l].subdir_ifd_start = m.deferred_subdirs[k].subdir_ifd_start
    => ~Precedes(Turn(m, l), Turn(m, k))

\* The maker note and the InteropIFDs of a region, by the entry of their pointers;
\* what no record covers comes last.
DeferredTags(m) ==
  LET others == {n \in Region(m) : ~Direct(m, n)}
      Tags(k) ==
        IF m.deferred_subdirs[k].kind = "MakerNote" THEN {0}
        ELSE {n \in others :
                FirstOf(m, k) /\ m.entries[n].own_ifd_start = m.deferred_subdirs[k].subdir_ifd_start}
      slots == Sorted(UNION {{Turn(m, k) \o <<n>> : n \in Tags(k)} : k \in Records(m)})
  IN  [p \in DOMAIN slots |-> slots[p][3]]
        \o Ascending({n \in others : m.entries[n].own_ifd_start \notin InteropStarts(m)})

\* What is emitted, in order.
Emission(m) ==
  LET all == Len(m.entries)
      region == Region(m)
  IN  IF m.maker_note = NoNote THEN Positions(1, all)
      ELSE IF Subtree(m) = {}
      THEN Positions(1, SpliceAt(m)) \o <<0>> \o Positions(SpliceAt(m) + 1, all)
      ELSE Positions(1, Min(region) - 1)
             \o Ascending({n \in region : Direct(m, n)})
             \o DeferredTags(m)
             \o Positions(Max(region) + 1, all)

-----------------------------------------------------------------------------
(* Properties, of the file as merged so far.                                *)

Place(m, n) == CHOOSE p \in DOMAIN Emission(m) : Emission(m)[p] = n

\* No leaf is lost or repeated by the splice, whatever records the blocks made,
\* and the maker note is emitted once.
EmissionComplete ==
  finished =>
    LET m == Merged
        tags == DOMAIN m.entries \cup (IF m.maker_note = NoNote THEN {} ELSE {0})
    IN  Len(Emission(m)) = Cardinality(tags) /\ ToSet(Emission(m)) = tags

\* The blocks are emitted one after the other, and the maker note within the
\* block it was found in.
BlocksInOrder ==
  finished =>
    LET m == Merged
        Block(n) == IF n = 0 THEN Note(m).source_block ELSE m.entries[n].source_block
    IN  \A p, q \in DOMAIN Emission(m) :
          p <= q => Block(Emission(m)[p]) <= Block(Emission(m)[q])

\* The maker note stands where its pointer does among the pointers of its
\* directory: after the leaves of the directory, after the InteropIFDs with an
\* earlier pointer and before those with a later one; and where the ExifIFD was
\* entered if it has no leaf.  Told from the walks, not from the records.
MakerNoteAtItsPointer ==
  finished /\ Merged.maker_note # NoNote /\ Note(Merged).parent = "ExifIFD" =>
    LET m == Merged
        dir == m.walks[m.maker_note.walk]
        pointers(n) == {w \in ToSet(m.walks) :
                          /\ w.kind = "InteropIFD" /\ w.start = m.entries[n].own_ifd_start
                          /\ w.parent # 0
                          /\ m.walks[w.parent].start = dir.start
                          /\ m.walks[w.parent].kind = dir.kind}
        earlier == Cardinality({n \in DOMAIN m.entries :
                                  m.entries[n].source_block < Note(m).source_block})
        mn == Place(m, 0)
    IN  IF Subtree(m) = {} THEN mn = earlier + dir.before + 1
        ELSE Min(Subtree(m))..Max(Subtree(m)) = Subtree(m) =>
               \A n \in Subtree(m) :
                 Place(m, n) < mn <=>
                   \/ Direct(m, n)
                   \/ \E w \in pointers(n) : w.index < m.maker_note.index
=============================================================================
