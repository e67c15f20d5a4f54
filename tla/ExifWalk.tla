------------------------------ MODULE ExifWalk ------------------------------
(***************************************************************************)
(* The directory walk of one TIFF block (src/src/exif/mod.rs, Walker): the *)
(* chain IFD0 -> IFD1 -> ..., the recursion into ExifIFD, GPS, InteropIFD  *)
(* and SubIFD, the warning cap, the leaves found on the way, and the pass  *)
(* that pairs offsets with lengths at the end.                             *)
(*                                                                         *)
(* The recursion is a stack of open directories.  What stands at an        *)
(* address is decided when the walk first reads it and stays, so that a    *)
(* body reached by two pointers reads the same both times.                 *)
(***************************************************************************)
EXTENDS Integers, Sequences, FiniteSets, SequencesExt, Listing

CONSTANTS
  Addresses,       \* the addresses directories start at
  NoAddress,       \* a next pointer of 0
  EntryShapes,     \* what the entries of a block can be, by the type of the file
  FileTypes,       \* the values of $$self{TIFF_TYPE}, "" in an embedded block
  Shared,          \* ChainGuard::Shared, of several blocks; else Owned
  MaxWarnings,     \* 10: the counted warnings a directory survives
  MaxSubdirs,      \* MAX_SUBDIRS
  MaxBlob,         \* DATA_TAG_MAX_BLOB
  BlockLength,     \* the bytes of the block
  Standalone,      \* the types of the blocks that are files, their base 0
  MaxBlockEntries, \* bound on the entries of a block, by the type (TLC only)
  MaxWalks         \* bound on the directories walked (TLC only)

ASSUME AddressesAssumption == NoAddress \notin Addresses
ASSUME LimitsAssumption == MaxWarnings \in Nat /\ MaxSubdirs \in 1..10 /\ MaxBlob \in Nat
ASSUME BlockAssumption == \A type \in FileTypes : MaxBlockEntries[type] \in Nat

VARIABLES
  file_type,            \* the type of the file the block is in
  disk,                 \* what stands at each address, as far as it was read
  offset, hops,         \* the next directory of the chain; the hops taken to it
  chain_guard,          \* the chain directories claimed, with their names
  cycle_guard_warnings, \* revisits refused: the directory and the name that claimed it
  stack,                \* the open directories, the outermost first
  active_ifd_offsets,   \* the addresses on the recursion path
  warn_count,           \* counted warnings of the directory being walked
  active_table,         \* the tag table in force
  captured,             \* the Compression and SubfileType members
  entries,              \* the leaves found
  deferred_subdirs,     \* positions recorded for the emission
  maker_note,           \* the maker note kept: the walk and the entry it was in
  data_tag_pairs, data_tag_lengths,
  finished,             \* the block is finalized
  walks                 \* history: every directory walked or refused

context == <<file_type, offset, hops, chain_guard, cycle_guard_warnings>>
images == <<data_tag_pairs, data_tag_lengths>>
found == <<entries, deferred_subdirs, maker_note, images>>
vars == <<disk, context, stack, active_ifd_offsets, warn_count, active_table, captured, found,
          finished, walks>>

\* A member that no leaf of the directory has set, which is not the member set to 0.
None == -1
NoNote == [walk |-> 0, index |-> 0]
NoMembers == [Compression |-> None, SubfileType |-> None]
Top == Last(stack)
WithTop(dir) == [stack EXCEPT ![Len(stack)] = dir]

-----------------------------------------------------------------------------
(* Kinds of directory and shapes of entry.                                  *)

ChainKinds == <<"IFD0", "IFD1", "IFD2", "IFD3">>
SubIfdKinds == <<"SubIFD", "SubIFD1", "SubIFD2", "SubIFD3", "SubIFD4", "SubIFD5", "SubIFD6",
                 "SubIFD7", "SubIFD8", "SubIFD9">>
PointerKinds == {"ExifIFD", "GPS", "InteropIFD"}

\* The kind of the next chain directory; later trailing directories share the
\* last label here, out of reach of a chain over three addresses.
ChainKind == ChainKinds[IF hops < Len(ChainKinds) THEN hops + 1 ELSE Len(ChainKinds)]

table_for_ifd_kind(kind) ==
  CASE kind = "GPS" -> "Gps" [] kind = "InteropIFD" -> "Interop" [] OTHER -> "Exif"

\* An entry, with the addresses a pointer holds and the number a leaf holds.
Entry(what, at, value) == [what |-> what, at |-> at, value |-> value]

Malformed == {"padding", "bad format"}    \* a format code of zero, or an unknown one
CountedWarning == {"bad format", "skipped"} \* "skipped": bad size, suspicious offset
MainLeaves == {"leaf", "SubfileType", "Compression", "StripOffsets", "StripByteCounts",
               "ThumbnailOffset", "ThumbnailLength"}
Pointing == PointerKinds \cup {"SubIFD", "MakerNote"}
Whats == Malformed \cup CountedWarning \cup {"overrun", "wrong format"} \cup MainLeaves \cup Pointing
LeavesOf(table) == IF table = "Gps" THEN {"leaf"} ELSE MainLeaves

\* sub_dir_for: a tag of the GPS directory never points.
Points(entry, kind) ==
  kind # "GPS" /\ entry.what \in Pointing

\* What the GPS table has no tag for; it is not extracted.
Unknown == (MainLeaves \ {"leaf"}) \cup Pointing

-----------------------------------------------------------------------------
(* Reading the block.                                                       *)

Unseen == [head |-> "unseen", num_entries |-> 0, entries |-> <<>>]
Broken == [head |-> "broken", num_entries |-> 0, entries |-> <<>>]
Readable(n) == [head |-> "readable", num_entries |-> n, entries |-> <<>>]

EntriesLeft ==
  MaxBlockEntries[file_type] - MapThenSumSet(LAMBDA a : disk[a].num_entries, Addresses)

\* The count and the extent of the directory at an address, or that they are bad.
Bodies(start) ==
  IF disk[start] # Unseen THEN {disk[start]}
  ELSE {Broken} \cup {Readable(n) : n \in {n \in 0..MaxBlockEntries[file_type] : n <= EntriesLeft}}

\* Every pointer but a SubIFD has one address, which can be used.
ASSUME ShapesAssumption ==
  \A type \in FileTypes : \A entry \in EntryShapes[type] :
    /\ entry \in [what : Whats, at : Seq(Addresses \cup {NoAddress}), value : Nat]
    /\ entry.what \in PointerKinds => Len(entry.at) = 1 /\ entry.at[1] \in Addresses

Shapes == EntryShapes[file_type]

\* The next entry of the innermost directory, below the cap on warnings.
ReadEntry(entry) ==
  /\ stack # <<>> /\ Top.pending = <<>> /\ Top.index < Top.num_entries
  /\ warn_count <= MaxWarnings
  /\ LET read == disk[Top.start].entries
     IN  IF Top.index < Len(read)
         THEN entry = read[Top.index + 1] /\ UNCHANGED disk
         ELSE /\ entry \in Shapes
              /\ disk' = [disk EXCEPT ![Top.start].entries = Append(@, entry)]

NextEntry == stack' = WithTop([Top EXCEPT !.index = @ + 1])

-----------------------------------------------------------------------------
(* Opening a directory: walk_one_ifd and the head of walk_one_ifd_body.     *)

\* A directory that is walked or refused: the warnings it counted, the leaves
\* found before it, and the walk and the entry that led to it.
Walk(start, kind, outcome) ==
  [start |-> start, kind |-> kind, outcome |-> outcome, counted |-> 0, before |-> Len(entries),
   parent |-> IF stack = <<>> THEN 0 ELSE Top.walk,
   index |-> IF stack = <<>> THEN 0 ELSE Top.index - 1]

\* An admitted directory resets the members, then reads its head.
Open(start, kind, body) ==
  /\ Len(walks) < MaxWalks
  /\ captured' = NoMembers
  /\ disk' = [disk EXCEPT ![start] = body]
  /\ walks' = Append(walks, Walk(start, kind, IF body = Broken THEN "broken" ELSE "open"))

Opened(start, kind, body, record) ==
  [start |-> start, kind |-> kind, num_entries |-> body.num_entries, index |-> 0,
   pending |-> <<>>, record |-> record, walk |-> Len(walks) + 1,
   saved_warn_count |-> warn_count, saved_table |-> active_table]

\* Mutant: the name of the first directory is recorded for every one.
ClaimAsIFD0(start) ==
  chain_guard' = [a \in DOMAIN chain_guard \cup {start} |->
                    IF a = start THEN "IFD0" ELSE chain_guard[a]]

\* An address is claimed before its directory is read.
Claim(start) ==
  chain_guard' = [a \in DOMAIN chain_guard \cup {start} |->
                    IF a = start THEN ChainKind ELSE chain_guard[a]]

InChain == stack = <<>> /\ offset # NoAddress /\ ~finished

\* A chain directory at an address claimed before: the chain ends.
RefuseChainDir ==
  /\ InChain
  /\ Len(walks) < MaxWalks
  /\ offset \in DOMAIN chain_guard
  /\ cycle_guard_warnings' =
       IF Shared
       THEN Append(cycle_guard_warnings, [dir |-> ChainKind, prev |-> chain_guard[offset]])
       ELSE cycle_guard_warnings
  /\ walks' = Append(walks, Walk(offset, ChainKind, "refused"))
  /\ offset' = NoAddress
  /\ UNCHANGED <<file_type, disk, hops, chain_guard, stack, active_ifd_offsets, warn_count,
                 active_table, captured, found, finished>>

\* walk_ifd_chain: one turn of the loop.
WalkChainDir ==
  /\ InChain
  /\ offset \notin DOMAIN chain_guard
  /\ \E body \in Bodies(offset) :
       /\ Open(offset, ChainKind, body)
       /\ Claim(offset)
       /\ IF body = Broken
          THEN offset' = NoAddress /\ UNCHANGED <<stack, active_ifd_offsets>>
          ELSE /\ stack' = <<Opened(offset, ChainKind, body, <<>>)>>
               /\ active_ifd_offsets' = Append(active_ifd_offsets, offset)
               /\ UNCHANGED offset
  /\ warn_count' = 0
  /\ UNCHANGED <<file_type, hops, cycle_guard_warnings, active_table, found, finished>>

\* Mutant: only the parent is compared, not every ancestor.
OnPathParent(start) == start = Last(active_ifd_offsets)

\* The ancestor cycle guard of a sub-directory.
OnPath(start) == start \in ToSet(active_ifd_offsets)

\* The parent once the next of its pointers is taken.
Taken == [Top EXCEPT !.pending = Tail(@)]
Pending == stack # <<>> /\ Top.pending # <<>>

\* An offset that cannot be used is passed over, its number is not.
PassOverSubdir ==
  /\ Pending
  /\ Head(Top.pending).start = NoAddress
  /\ stack' = WithTop(Taken)
  /\ UNCHANGED <<disk, context, active_ifd_offsets, warn_count, active_table, captured, found,
                 finished, walks>>

\* process_subdir onto an ancestor: nothing is walked.
RefuseSubdir ==
  /\ Pending
  /\ Len(walks) < MaxWalks
  /\ LET sub == Head(Top.pending)
     IN  /\ OnPath(sub.start)
         /\ walks' = Append(walks, Walk(sub.start, sub.kind, "refused"))
         /\ deferred_subdirs' = deferred_subdirs \o sub.record
  /\ stack' = WithTop(Taken)
  /\ UNCHANGED <<disk, context, active_ifd_offsets, warn_count, active_table, captured, entries,
                 maker_note, images, finished>>

\* process_subdir: the table and the count of the parent are put aside.
WalkSubdir ==
  /\ Pending
  /\ LET sub == Head(Top.pending)
     IN  /\ sub.start # NoAddress /\ ~OnPath(sub.start)
         /\ \E body \in Bodies(sub.start) :
              /\ Open(sub.start, sub.kind, body)
              /\ IF body = Broken
                 THEN /\ stack' = WithTop(Taken)
                      /\ deferred_subdirs' = deferred_subdirs \o sub.record
                      /\ UNCHANGED <<active_ifd_offsets, warn_count, active_table>>
                 ELSE /\ stack' = Append(WithTop(Taken),
                                         Opened(sub.start, sub.kind, body, sub.record))
                      /\ active_ifd_offsets' = Append(active_ifd_offsets, sub.start)
                      /\ warn_count' = 0
                      /\ active_table' = table_for_ifd_kind(sub.kind)
                      /\ UNCHANGED deferred_subdirs
  /\ UNCHANGED <<context, entries, maker_note, images, finished>>
-----------------------------------------------------------------------------
(* The entries: walk_entries and walk_entry.                                *)

\* The end of the innermost directory, which returned a next pointer or None.
Close(outcome) ==
  /\ active_ifd_offsets' = Front(active_ifd_offsets)
  /\ walks' = [walks EXCEPT ![Top.walk].outcome = outcome]
  /\ stack' = Front(stack)

\* Mutant: the parent goes on with the count of its sub-directory.
RestoreTable ==
  /\ warn_count' = warn_count
  /\ active_table' = Top.saved_table

\* What process_subdir puts back.
Restore ==
  /\ warn_count' = Top.saved_warn_count
  /\ active_table' = Top.saved_table

CloseSubdir(outcome) ==
  /\ Len(stack) > 1
  /\ Close(outcome)
  /\ Restore
  /\ deferred_subdirs' = deferred_subdirs \o Top.record
  /\ UNCHANGED <<context, captured, entries, maker_note, images, finished>>

\* walk_ifd_chain goes on at the next pointer of a directory read whole.
CloseChainDir(outcome) ==
  /\ Len(stack) = 1
  /\ Close(outcome)
  /\ IF outcome = "whole"
     THEN \E next \in Addresses \cup {NoAddress} :
            offset' = next /\ hops' = IF next = NoAddress THEN hops ELSE hops + 1
     ELSE offset' = NoAddress /\ UNCHANGED hops
  /\ UNCHANGED <<file_type, chain_guard, cycle_guard_warnings, warn_count, active_table, captured,
                 found, finished>>

CloseDir(outcome) == CloseSubdir(outcome) \/ CloseChainDir(outcome)

EndOfDirectory ==
  /\ stack # <<>> /\ Top.pending = <<>> /\ Top.index = Top.num_entries
  /\ CloseDir("whole")
  /\ UNCHANGED disk

\* Mutant: a directory with too many warnings ends like one read whole.
TooManyWarningsWhole ==
  /\ stack # <<>> /\ Top.pending = <<>> /\ Top.index < Top.num_entries
  /\ warn_count > MaxWarnings
  /\ CloseDir("whole")
  /\ UNCHANGED disk

\* The cap is looked at before each entry, and so never after the last.
TooManyWarnings ==
  /\ stack # <<>> /\ Top.pending = <<>> /\ Top.index < Top.num_entries
  /\ warn_count > MaxWarnings
  /\ CloseDir("aborted")
  /\ UNCHANGED disk

\* A first entry without a known format, or a value past the end of the file.
AbortDir ==
  /\ \E entry \in Shapes :
       /\ ReadEntry(entry)
       /\ entry.what = "overrun" \/ (entry.what \in Malformed /\ Top.index = 0)
  /\ CloseDir("aborted")

\* An entry dropped, with or without a counted warning; "wrong format" is a
\* pointer that is no integer, and is not counted.
SkipEntry ==
  /\ \E entry \in Shapes :
       /\ ReadEntry(entry)
       /\ \/ entry.what \in {"skipped", "wrong format"}
          \/ entry.what \in Malformed /\ Top.index > 0
          \/ entry.what = "SubIFD" /\ file_type = "SRW"
          \/ active_table = "Gps" /\ entry.what \in Unknown
       /\ IF entry.what \in CountedWarning
          THEN /\ warn_count' = warn_count + 1
               /\ walks' = [walks EXCEPT ![Top.walk].counted = @ + 1]
          ELSE UNCHANGED <<warn_count, walks>>
  /\ NextEntry
  /\ UNCHANGED <<context, active_ifd_offsets, active_table, captured, found, finished>>

-----------------------------------------------------------------------------
(* Pointers.                                                                *)

Deferred(what, parent, parent_start, index, start, at) ==
  [kind |-> what, parent |-> parent, parent_ifd_start |-> parent_start, pointer_index |-> index,
   subdir_ifd_start |-> start, dispatch_index |-> at, source_block |-> 0]

\* Mutant: the entry of the pointer is not recorded.
InteropRecordNoIndex(start) == <<Deferred("Interop", Top.kind, Top.start, 0, start, 0)>>

\* The position of an InteropIFD, recorded once it was walked.
InteropRecord(start) == <<Deferred("Interop", Top.kind, Top.start, Top.index, start, 0)>>

\* dispatch_subdir: a pointer to ExifIFD, GPS or InteropIFD.  The place of an
\* ExifIFD among the entries is recorded before it is walked.
FollowPointer ==
  /\ \E entry \in Shapes :
       /\ ReadEntry(entry)
       /\ Points(entry, Top.kind) /\ entry.what \in PointerKinds
       /\ LET start == entry.at[1]
              record == IF entry.what = "InteropIFD" THEN InteropRecord(start) ELSE <<>>
          IN  /\ stack' = WithTop([Top EXCEPT !.index = @ + 1, !.pending =
                                     <<[kind |-> entry.what, start |-> start, record |-> record]>>])
              /\ deferred_subdirs' =
                   IF entry.what = "ExifIFD"
                   THEN Append(deferred_subdirs, Deferred("ExifIfdAnchor", "ExifIFD", start, 0,
                                                          NoAddress, Len(entries)))
                   ELSE deferred_subdirs
  /\ UNCHANGED <<context, active_ifd_offsets, warn_count, active_table, captured, entries,
                 maker_note, images, finished, walks>>

SubIfd(number, start) == [kind |-> SubIfdKinds[number], start |-> start, record |-> <<>>]

\* Mutant: the offsets past the tenth are walked too.
SubIfdsUncapped(at) == [n \in DOMAIN at |-> SubIfd(n, at[n])]

\* The offsets kept of a SubIFD pointer.
SubIfds(at) ==
  [n \in 1..(IF Len(at) > MaxSubdirs THEN MaxSubdirs ELSE Len(at)) |-> SubIfd(n, at[n])]

\* dispatch_classic_subifd: the offsets are taken in turn.
FollowSubIfds ==
  /\ file_type # "SRW"
  /\ \E entry \in Shapes :
       /\ ReadEntry(entry)
       /\ Points(entry, Top.kind) /\ entry.what = "SubIFD"
       /\ stack' = WithTop([Top EXCEPT !.index = @ + 1, !.pending = SubIfds(entry.at)])
  /\ UNCHANGED <<context, active_ifd_offsets, warn_count, active_table, captured, found, finished,
                 walks>>

\* The first maker note of the block is kept, with its position.
CaptureMakerNote ==
  /\ \E entry \in Shapes :
       ReadEntry(entry) /\ Points(entry, Top.kind) /\ entry.what = "MakerNote"
  /\ IF maker_note # NoNote THEN UNCHANGED <<maker_note, deferred_subdirs>>
     ELSE /\ maker_note' = [walk |-> Top.walk, index |-> Top.index]
          /\ deferred_subdirs' =
               Append(deferred_subdirs,
                      Deferred("MakerNote", Top.kind, Top.start, Top.index, NoAddress, 0))
  /\ NextEntry
  /\ UNCHANGED <<context, active_ifd_offsets, warn_count, active_table, captured, entries, images,
                 finished, walks>>
-----------------------------------------------------------------------------
(* Leaves: emit.                                                            *)

Strip == {"StripOffsets", "StripByteCounts"}
Thumbnail == {"ThumbnailOffset", "ThumbnailLength"}
Lengths == {"StripByteCounts", "ThumbnailLength"}
OffsetPair(what) == IF what = "StripOffsets" THEN "StripByteCounts" ELSE "ThumbnailLength"

\* dng_tiff_jpeg_preview: JPEG data of an image that is not said to be the full one;
\* a SubfileType that is not set passes too.
JpegPreview(members) ==
  file_type \in {"DNG", "TIFF"} /\ members.Compression = 7 /\ members.SubfileType # 0

\* What an offset or length leaf of a directory locates:
\* exif_main_offset_name_override and exif_main_data_tag_spec_in_context.
ImageOf(what, kind, members) ==
  IF what \in Thumbnail
  THEN IF kind = "IFD0" /\ file_type \in {"ARW", "SR2"} THEN "PreviewImage"
       ELSE IF kind = "IFD2" THEN "JpgFromRaw" ELSE "ThumbnailImage"
  ELSE IF what \in Strip /\ kind = "IFD0" /\ file_type = "CR2" THEN "PreviewImage"
  ELSE IF what \in Strip /\ JpegPreview(members)
  THEN IF kind = "SubIFD2" THEN "JpgFromRaw" ELSE "PreviewImage"
  ELSE what

\* Only the main table renames.
NameOf(what) ==
  IF what \in Strip \cup Thumbnail /\ active_table = "Exif"
  THEN ImageOf(what, Top.kind, captured) ELSE what

Leaf(ifd, start, what, name, value, walk) ==
  [ifd |-> ifd, own_ifd_start |-> start, what |-> what, name |-> name, value |-> value,
   source_block |-> 0, walk |-> walk]

EmitLeaf ==
  /\ \E entry \in Shapes :
       /\ ReadEntry(entry)
       /\ entry.what \in LeavesOf(active_table)
       /\ captured' = IF entry.what \in DOMAIN captured
                      THEN [captured EXCEPT ![entry.what] = entry.value] ELSE captured
       /\ LET image == ImageOf(entry.what, Top.kind, captured)
          IN  data_tag_pairs' =
                IF entry.what \in (Strip \cup Thumbnail) \ Lengths /\ image # entry.what
                THEN Append(data_tag_pairs,
                            [ifd |-> Top.kind, ifd_start |-> Top.start, offset |-> entry.value,
                             length_tag |-> OffsetPair(entry.what), data_tag |-> image])
                ELSE data_tag_pairs
       /\ data_tag_lengths' =
            IF entry.what \in Lengths
            THEN Append(data_tag_lengths,
                        [ifd |-> Top.kind, ifd_start |-> Top.start, tag |-> entry.what,
                         length |-> entry.value])
            ELSE data_tag_lengths
       /\ entries' = Append(entries, Leaf(Top.kind, Top.start, entry.what, NameOf(entry.what),
                                          entry.value, Top.walk))
  /\ NextEntry
  /\ UNCHANGED <<context, active_ifd_offsets, warn_count, active_table, deferred_subdirs,
                 maker_note, finished, walks>>

-----------------------------------------------------------------------------
(* finalize_data_tags.                                                      *)

PairKey(pair) == <<pair.ifd_start, pair.ifd, pair.data_tag>>

\* The last pair of each key, in the order the keys appeared in.
DedupPairs ==
  LET At(key) == {n \in DOMAIN data_tag_pairs : PairKey(data_tag_pairs[n]) = key}
      First(n) == \A m \in At(PairKey(data_tag_pairs[n])) : n <= m
      firsts == Ascending({n \in DOMAIN data_tag_pairs : First(n)})
  IN  [n \in DOMAIN firsts |-> data_tag_pairs[Max(At(PairKey(data_tag_pairs[firsts[n]])))]]

\* Mutant: a length of any directory of the same name will do.
LengthsByName(pair) ==
  {n \in DOMAIN data_tag_lengths : data_tag_lengths[n].ifd = pair.ifd
                                  /\ data_tag_lengths[n].tag = pair.length_tag}

\* The lengths found under the address and the name of the pair's directory.
LengthsFor(pair) ==
  {n \in DOMAIN data_tag_lengths :
     LET found_length == data_tag_lengths[n]
     IN  /\ found_length.ifd = pair.ifd /\ found_length.ifd_start = pair.ifd_start
         /\ found_length.tag = pair.length_tag}

\* An image lies in the block; a preview in a file may run past its end.
Extractable(data_tag, at, length) ==
  /\ length \in 1..MaxBlob
  /\ at + length > BlockLength =>
       file_type \in Standalone /\ data_tag \in {"PreviewImage", "JpgFromRaw"}

Finalize ==
  /\ stack = <<>> /\ offset = NoAddress /\ ~finished
  /\ LET Length(pair) == data_tag_lengths[Max(LengthsFor(pair))].length
          Located(pair) ==
            LengthsFor(pair) # {} /\ Extractable(pair.data_tag, pair.offset, Length(pair))
          Image(pair) == Leaf(pair.ifd, pair.ifd_start, "image", pair.data_tag, Length(pair), 0)
          kept == Ascending({n \in DOMAIN DedupPairs : Located(DedupPairs[n])})
     IN  entries' = entries \o [n \in DOMAIN kept |-> Image(DedupPairs[kept[n]])]
  /\ data_tag_pairs' = <<>>
  /\ data_tag_lengths' = IF data_tag_pairs = <<>> THEN data_tag_lengths ELSE <<>>
  /\ finished' = TRUE
  /\ UNCHANGED <<disk, context, stack, active_ifd_offsets, warn_count, active_table, captured,
                 deferred_subdirs, maker_note, walks>>

-----------------------------------------------------------------------------

\* The fields of a new walker that no block has touched.
Fresh ==
  /\ file_type \in FileTypes
  /\ disk = [a \in Addresses |-> Unseen]
  /\ hops = 0
  /\ chain_guard = <<>> /\ cycle_guard_warnings = <<>>
  /\ stack = <<>> /\ active_ifd_offsets = <<>>
  /\ warn_count = 0 /\ active_table = table_for_ifd_kind("IFD0") /\ captured = NoMembers
  /\ entries = <<>> /\ deferred_subdirs = <<>> /\ maker_note = NoNote
  /\ data_tag_pairs = <<>> /\ data_tag_lengths = <<>>
  /\ walks = <<>>

Init == Fresh /\ offset \in Addresses /\ finished = FALSE

Next ==
  \/ WalkChainDir \/ RefuseChainDir \/ WalkSubdir \/ RefuseSubdir \/ PassOverSubdir
  \/ EndOfDirectory \/ TooManyWarnings \/ AbortDir \/ SkipEntry
  \/ FollowPointer \/ FollowSubIfds \/ CaptureMakerNote \/ EmitLeaf
  \/ Finalize

Spec == Init /\ [][Next]_vars
FairSpec == Spec /\ WF_vars(Next)

-----------------------------------------------------------------------------
(* Properties.                                                              *)

Outcomes == {"open", "whole", "aborted", "broken", "refused"}
IsChain(kind) == kind \in ToSet(ChainKinds)

\* A directory never has more sub-directories to walk than MaxSubdirs, the count
\* of warnings stops one past the cap, and every record is of its kind.
TypeOK ==
  /\ offset \in Addresses \cup {NoAddress} /\ hops \in Nat
  /\ DOMAIN chain_guard \subseteq Addresses
  /\ active_ifd_offsets \in Seq(Addresses)
  /\ warn_count \in 0..(MaxWarnings + 1)
  /\ \A n \in DOMAIN stack : Len(stack[n].pending) <= MaxSubdirs
  /\ \A n \in DOMAIN walks : walks[n].outcome \in Outcomes

\* The recursion path holds the open directories and no directory twice, however
\* the pointers of the block loop; so its depth is bounded by the addresses.
PathNeverRepeats ==
  /\ active_ifd_offsets = [n \in DOMAIN stack |-> stack[n].start]
  /\ \A m, n \in DOMAIN active_ifd_offsets :
       active_ifd_offsets[m] = active_ifd_offsets[n] => m = n

\* Why a directory cannot be read to its end, told from its own entries alone.
Stops(body) ==
  LET counted(n) == Cardinality({m \in 1..(n - 1) : body.entries[m].what \in CountedWarning})
  IN  \/ \E n \in DOMAIN body.entries :
           \/ body.entries[n].what = "overrun"
           \/ body.entries[n].what \in Malformed /\ n = 1
      \/ \E n \in 1..body.num_entries : n <= Len(body.entries) + 1 /\ counted(n) > MaxWarnings

\* What happens in a sub-directory stays inside it: a directory ends whole or
\* aborted by its own entries alone, the warnings of what it points to are not
\* held against it, and its next entry is named by its own table again.
FailureContained ==
  /\ \A n \in DOMAIN walks :
       walks[n].outcome \in {"whole", "aborted"} =>
         (walks[n].outcome = "aborted" <=> Stops(disk[walks[n].start]))
  /\ stack # <<>> =>
       /\ warn_count = walks[Top.walk].counted
       /\ active_table = table_for_ifd_kind(Top.kind)

\* The chain goes on only past directories that could be read to their end, so
\* that nothing is taken from what follows a corrupt one; and no address is
\* walked twice in the chain, which is therefore finite.
ChainStopsAtCorruption ==
  \A m, n \in DOMAIN walks :
    m < n /\ IsChain(walks[m].kind) /\ IsChain(walks[n].kind) =>
      /\ disk[walks[m].start].head = "readable" /\ ~Stops(disk[walks[m].start])
      /\ walks[n].outcome # "refused" => walks[m].start # walks[n].start

\* The leaves of one walk, by what they are.
LeavesIn(walk, whats) ==
  {n \in DOMAIN entries : entries[n].walk = walk /\ entries[n].what \in whats}

\* The thumbnails of a walk: its last offset of one with its last length.
ThumbnailOf(kind) == ImageOf("ThumbnailOffset", kind, NoMembers)

ThumbnailsIn(w) ==
  {<<walks[w].start, walks[w].kind, ThumbnailOf(walks[w].kind), entries[l].value>> :
     l \in {l \in LeavesIn(w, {"ThumbnailLength"}) :
             /\ l = Max(LeavesIn(w, {"ThumbnailLength"}))
             /\ \E o \in LeavesIn(w, {"ThumbnailOffset"}) :
                  /\ o = Max(LeavesIn(w, {"ThumbnailOffset"}))
                  /\ Extractable(ThumbnailOf(walks[w].kind), entries[o].value, entries[l].value)}}

\* "An offset only pairs with a length from the SAME emitted walk": a thumbnail
\* is announced for exactly the walks that found both of its leaves, with the
\* length that walk found; any other image has an offset and a length of one
\* walk of its directory; and no image is announced twice.
ImagesFromOneWalk ==
  finished =>
    LET announced == {n \in DOMAIN entries : entries[n].what = "image"}
        At(n) == <<entries[n].own_ifd_start, entries[n].ifd, entries[n].name, entries[n].value>>
    IN  /\ {At(n) : n \in {n \in announced : entries[n].name = ThumbnailOf(entries[n].ifd)}}
             = UNION {ThumbnailsIn(w) : w \in DOMAIN walks}
        /\ \A n \in announced : \E w \in DOMAIN walks :
             \E o \in LeavesIn(w, {"StripOffsets", "ThumbnailOffset"}) :
               \E l \in LeavesIn(w, {OffsetPair(entries[o].what)}) :
                 /\ At(n) = <<walks[w].start, walks[w].kind, entries[n].name, entries[l].value>>
                 /\ Extractable(entries[n].name, entries[o].value, entries[l].value)
        /\ \A m, n \in announced :
             entries[m].ifd = entries[n].ifd /\ entries[m].own_ifd_start = entries[n].own_ifd_start
               /\ entries[m].name = entries[n].name => m = n

\* The value of a member as the leaves of the same walk before an entry set it.
OwnMember(n, member) ==
  LET set == {m \in LeavesIn(entries[n].walk, {member}) : m < n}
  IN  IF set = {} THEN None ELSE entries[Max(set)].value

\* "0x111 tests THIS IFD's Compression/SubfileType, not a sibling/parent's stale
\* value": every strip leaf is named after the members of its own directory.
MembersAreOwn ==
  \A n \in DOMAIN entries :
    entries[n].what \in Strip /\ entries[n].ifd \notin {"GPS", "InteropIFD"} =>
      entries[n].name = ImageOf(entries[n].what, entries[n].ifd,
        [Compression |-> OwnMember(n, "Compression"), SubfileType |-> OwnMember(n, "SubfileType")])

\* Every block is read to an end, whatever its pointers.
Terminates == <>finished
=============================================================================
