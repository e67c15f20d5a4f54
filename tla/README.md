# A TLA+ model of exifast

exifast is a Rust port of ExifTool: it finds the type of a file, parses it, and
reports its tags, either as a JSON document that is to equal ExifTool's or as
typed values. It has no threads and no persistent state. What is hard in it is
*order*: many handlers, written one by one after ExifTool's Perl, share mutable
state (a tag sink, a level stack, flags, a list of candidates), and what a tag
ends up with depends on the whole sequence of calls. The bytes of the file choose
that sequence, so a sequence that no test wrote down is one file away.

## Parts of the system

| part | source | state | operations |
|---|---|---|---|
| File detection | `filetype.rs`, `filetype_data.rs` | none | name and head of the file to a list of candidate types |
| Candidate loop | `parser.rs` (`extract_info_typed`), `lib.rs` (`parse_bytes_inner`) | position in the list, `SharedFlags`, first warning and error, `File:*` triplet | try a parser, reject, accept, finalize, give up |
| Format parsers | `formats/`, `exif/`, some 40 | a meta per format | bytes to meta |
| JUMBF walker | `exif/jumbf/mod.rs` | level stack, document counter, active label, depth | one handler per box type |
| TIFF directory walk | `exif/mod.rs`, `exif/tables.rs` | `Walker`: chain and path guards, warning count, table in force, members, leaves, records | directories, sub-directories, entries, the pairing of images at the end |
| PNG chunk loop | `formats/png.rs`, `metadata/png.rs` | `PngMeta` (a list per source, `diag_order`, trailer watermarks), the inflate budget | one step per kind of chunk, nested inflation, the drain of the diagnostics |
| EXIF sources of a file | `formats/png.rs`, `exif/jpeg.rs`, `exif/mod.rs` (`push_exif_tags`) | the shared guard of a PNG; the merged blocks of a JPEG | replay, merge, emission around the maker note |
| Chained audio parsers | `formats/id3/process.rs`, `ape.rs`, `flac.rs` ... | `SharedFlags` (DoneID3, the header end, DoneAPE) | parsers that run each other's parsers |
| Ogg page loop | `formats/ogg.rs` | per logical stream: expected page, pending packet | read a page, flush a packet, end |
| Emission engine | `emit.rs` | none | a meta's tag iterator into a sink |
| Tag sink | `tagmap.rs` | entries, index, `next_seq`, warnings, errors | `insert`, `write_warning`, `write_error` |
| Typed sink | `format_parser.rs` (`collect_deduped_tags`) | a vector | the same fold for a typed caller |
| Diagnostics | `diagnostics.rs` | list of messages with counts | drain of a meta's warnings and errors |
| Composite engine | `composite/` | pending list, `not_built`, the sink | a fixpoint of derived tags |
| Rendering | `parser.rs` (`DocObject`), `serialize_key.rs`, `serialize.rs` | none | entries to JSON members |

A driver asks detection for the candidates and offers the bytes to one parser
after another. The parser that accepts returns a meta; the emission engine walks
its tags into a sink; the Composite engine reads the sink and appends to it; the
diagnostics are drained into it; rendering writes it out. Parsers share only
`SharedFlags`, which the drivers reset after a rejection.

For each part, what makes it correct: **detection**, the two drivers claim the
same file alike; **candidate loop**, a rejected candidate leaves no trace; **JUMBF
walker**, the numbers and labels of a tag are those of the box it is in, and the
descent is bounded; **directory walk**, every walk ends, a corrupt directory costs
what follows it and no more, and what the code keeps per directory is never that of
another one; **PNG chunk loop**, each diagnostic comes out in walk order and in the
group of its chunk, and inflation stays within its budget; **chained audio**, whoever
ran before, a body is found and ID3 is reported once; **Ogg**, a packet is put
together from its own pages alone; **EXIF sources**, a block is refused only for a directory claimed since
the last reset, and the emission loses nothing and puts the note at its pointer;
**sinks**, the survivor of a key is the winner by ExifTool's
rule, in the slot of its first occurrence, the same in every sink; **diagnostics**,
first and counts are exact; **Composite engine**, a derived tag is computed from
final inputs, and the fixpoint ends; **rendering**, one member per key.

## Modules

| module | models | state ↔ code |
|---|---|---|
| `Duplicates` | `effective_priority`, `dedup_override`; `Best` is the reference definition of a fold's result | none |
| `KeyedFold` | what a sink promises: an abstract map from identities to the tag each keeps | `order`, `kept`; no code |
| `TagMap` | `TagMap::insert` under `run_emission` | `entries`, `index`, `next_seq` are the fields; `walked` is the history of the walk |
| `TagSinks` | extends `TagMap` with the typed sink and the rendering of keys | `vec` is `out` of `collect_deduped_tags` |
| `Composite` | `run_fixpoint`, `build_at_doc`, both `CompositeSink`s | the locals of `run_fixpoint`; `attempts` is history |
| `JumbfWalk` | every handler of `JumbfWalker` | `walks` is the call stack, `jumd_level`, `doc_count`, `cur_label` the fields; `opened`, `parents` are history |
| `FileDetection` | `detection_candidates` | none |
| `ExtractInfo` | both drivers over `FileDetection` | the locals of each driver; `verdicts` makes a parser a function of its arguments |
| `ExifWalk` | `Walker`: `walk_ifd_chain`, `walk_one_ifd`, `walk_entries`, `walk_entry`, `process_subdir`, `dispatch_*`, `emit`, `finalize_data_tags` | the fields of `Walker`; `stack` is the recursion, `disk` what the block holds; `walks` is history |
| `PngChunks` | `parse_inner` of `formats/png.rs` with the raw profiles and the nested eXIf chunks, `PngMeta` | `png` is the meta, `zxif_inflated_total`, `depth` the locals; `chunks`, `retained`, `peak` are history |
| `PngReplay` | extends `ExifWalk` and `PngChunks` with `replay_exif_events` and the drain of `diagnostics` | the events are those the chunk loop left; `chain_guard` lives on from block to block; `replayed` is history |
| `ExifEmit` | extends `ExifWalk` with `merge_exif_block` and `push_exif_tags` | `meta` is the merged `ExifMeta` |
| `Listing` | the elements of a finite set in an order: the filters and the stable sort of `push_exif_tags`, `dedup_pairs` | an element stands where the number of those before it says, so that the provers can reason about it |
| `OggPages` | `parse_inner` of `formats/ogg.rs`, the page loop | the locals of the loop; `pagesRead`, `packets`, `cut` are history |
| `AudioChain` | extends `OggPages` with the parsers ID3, MP3, APE, FLAC, Ogg, Musepack, WavPack | `flags` is `SharedFlags`; `calls` is the history of answers |
| `Diagnostics` | `run_diagnostics_with_options` | `warned` is the local list; `fired` is history |

The proofs stand in modules of their own, each over the component it is named after
and those that one extends: `TagSinksProofs` (with `Duplicates` and `TagMap`),
`CompositeProofs`, `JumbfWalkProofs`, `ExtractInfoProofs` (with `FileDetection`),
`DiagnosticsProofs`, `ExifWalkProofs` (with `Listing`), `ExifFileProofs` and
`AudioChainProofs` (with `OggPages`). `ExifWalkProofs` is about one block, and
`ExifFileProofs`, which extends it, about the files of several: those of `ExifEmit`, and
those of `PngReplay` (with `PngChunks`). `MC*` modules give the constants values.

Composition. `TagMap`, `TagSinks`, `Composite` and `Diagnostics` share `Duplicates`,
as the code shares `dedup_override`. `TagSinks` runs the two sinks in lock step,
because the walk is a pure function of the file. `TagMap` and `TagSinks` each
instantiate `KeyedFold` (`MapFold`, `VecFold`) with a refinement mapping: the
identity is the whole key for the one and family-1 group and name for the other, the
abstract map is read off the slots, and a tag that loses is a stutter. `ExtractInfo`
composes detection with the drivers and runs the typed driver after the other one on
the same bytes and the same parsers. `PngReplay` composes the chunk loop with the
directory walker: first all chunks, then the blocks they left, as the code does when
a document is asked for. `AudioChain` runs the parsers in any order, all on the same
flags or each on fresh ones, and the Ogg parser runs `OggPages` between its two looks
at the flags.

Abstractions. A tag is a key, a priority, a family 0 and a value from a small set.
A parser is an arbitrary function from its arguments to accept or reject, and the
arguments include the shared flags, so a leaked flag may change its answer. A
derivation is an arbitrary choice whether to yield a value; a Composite value is
named by the definition that made it, a file's by 0, which tells stale reads from
fresh ones. Bytes are the choice of the next box. The two views of the Composite
engine (ValueConv, PrintConv) hold the same keys, and one is modelled. In
`Composite` the `seq` of an entry is its position, which `WalkOrder` justifies
below saturation.

An audio file is a row of segments with their sizes; a parser sees the segment that
begins where it looks. The kinds of chunks of a PNG are those the loop tells apart, a
warning is the words it is made of, and an inflation is the number of its bytes.

A TIFF block is a map from addresses to directories. What stands at an address is
chosen when it is first read and kept in `disk`, so that all files are covered and
a body reached twice is the same body; the bound is on the entries of a block, not
on the walk. An entry is what the walker distinguishes: a pointer with its
addresses, a leaf with a number, or one of the ways it can be wrong. A recursive
call of the code is a directory pushed on `stack`, and one step handles one entry
or opens or closes one directory. Which of the images a leaf locates depends on the
file type, the directory and two members, and `ImageOf` folds the two tables of the
code that say so into one. A member that no leaf has set is `None`, apart from every
number: a directory without a SubfileType is named as one with SubfileType 1, and not as
one with SubfileType 0.

## Runs

| run | question | bounds |
|---|---|---|
| `MCTagSinks` | is the survivor of each key the winner, do slots, index and stamps agree, do the two sinks, and does rendering keep keys apart? | 13 tags over 5 keys (one label in 3 documents, a pseudo-tag, a key of the orchestration object), priorities 0..2, walks of 5; `MaxSeq` = 3 so that `next_seq` saturates inside the walk |
| `MCTagSinksJumbf_DocumentKeysUniqueG1` | a claim the code's comments make of all walks (violated) | the tags of two sibling superboxes |
| `MCComposite` | is every input final, does the fixpoint end, is only a cycle dropped? | all registries of three definitions with at most one Composite link each (any kind, to itself, another or nowhere), sub-documents by each rule, a definition that may decline; and the 23 definitions of the crate that read or feed a Composite (`MCCompositeRegistry`), with every combination of 6 groups of file tags, in both sinks |
| `MCJumbfWalk` | are numbers, labels and depth right for every stream? | budget 3, streams of 6 headers: a superbox past the budget with a sibling fits |
| `MCJumbfWalk_ContentsNeverCollide` | a claim of the module's doc (violated) | streams of 5 headers |
| `MCExtractInfo` | who claims a file, and does the document say so? | 12 types, one or more of each kind the tables distinguish; 8 names; 38 contents |
| `MCDiagnostics` | are warnings first-wins and counted exactly? | every stream of 3 diagnostics over two texts, two channels, four prefixes |
| `MCExifWalk` | is the path acyclic, does the chain end at a corrupt directory, does a directory end by its own entries, does every walk end? | 2 addresses, 3 entries in a block, every pointer and every failure, a raw file with and without SubIFDs; a cap of 2 sub-directories and of no warning, which one entry passes |
| `MCExifWalk_MembersAreOwn` | a claim of two comments (violated) | 4 entries |
| `MCPngReplay` | is a directory refused for the right claim, do the diagnostics come out in order, is inflation bounded? | files of 4 chunks of every kind, the longest with a trailer (`LongFiles`); budget 3, depth 2, levels of 1 or 2 bytes, in files of nothing but eXIf chunks (`Inflated`); blocks walked for up to 3 EXIF sources of 2 addresses and 1 entry each, the third without sub-directories (`Replayed`); addresses symmetric |
| `MCAudioChain` | is a body found and ID3 reported once, is the APE tag found, are packets well formed and holes reported? | 7 parsers in any order, on shared or own flags; every combination of 5 ID3v2 tags, 8 bodies, an APE tag and the two ID3v1 tags, APE tags that declare too little or too much; `MaxPages` = 4 of two streams, `MaxPackets` = 1, `ScanLen` = 256; streams but the shortest in a file of their own (`LongStreams`) |
| `MCExifEmit` | is the emission complete, are blocks kept apart, is the note at its pointer, is an image joined from one walk? | 2 blocks at 3 addresses, each with a chain of IFD0 alone (`Layout`); together 5 entries, leaves and records (`FileFits`): in one block, two InteropIFDs around a note, or one reached twice; in two, leaves before the block of the note. A raw file of 4 entries with a chain over two addresses: two offsets and three lengths, bodies reached as ExifIFD and InteropIFD; a TIFF file of 5 entries, IFD0 and what it points to: compression, a subfile type of 0 or 1 or none, an offset of strips, lengths of 2 or 9, and a SubIFD pointer to one body twice; block of 6 bytes, cap of 8 |

The bounds are enough where each case of the code occurs and can occur twice: a
walk of 5 has a chain of three duplicates of a key beside other keys; six headers
close an inner superbox and continue in the outer one; three definitions make
every cycle shape up to length three, also behind an inhibitor; two addresses make
a directory that points to itself, to its parent and to a sibling's body. The bounds
`MaxWalk`, `MaxBoxes` and `MaxFired` only cap histories; `MaxSeq`, `MaxPriority`,
`MaxBoxDepth`, `MaxWarnings`, `MaxSubdirs`, `MaxBlob`, `MaxPackets`, `ScanLen`,
`MAX_ZXIF_INFLATE_TOTAL` and `MAX_ZXIF_DEPTH` are constants of the code made small.
`MaxBlockEntries`, `MaxBlocks`, `MaxChunks` and `MaxPages` bound the file; what the
entries of a block may be, and how many there are, is a function of the file type
(`EntryShapes`, `MaxBlockEntries`), so that one run asks about several kinds of
files. No walk of such a file reaches `MaxWalks` directories. A cfg's CONSTRAINT
leaves out combinations that meet no new case: long streams inside every kind of
file, compressed chunks among others, blocks walked in files whose chunks say
something else; each of the combined parts is covered in full by itself. `MCJumbfWalk` compares
states without the set of warnings, which no guard reads. Deadlock is not checked:
every one of these programs stops when its input is consumed.

Fairness is stated for `Terminates` of `Composite` and of `ExifWalk`, which assume
`WF_vars(Next)`: both are loops of one thread that wait for nothing, so an enabled
step is taken. The other properties are safety.

### What the violated runs show

* `DocumentKeysUniqueG1` (code): `DocObject::serialize` writes one member per entry
  and the -G1 key drops the document, so a file with two JUMBF superboxes at top
  level yields an object with the same key twice.
* `ContentsNeverCollide` (comment): content of a superbox that follows a nested one
  carries the path of the nested one. `OwnPathsDistinct` is what does hold.
* `MembersAreOwn` (comments): the members that decide the name of a strip leaf are
  cleared when a directory starts and not put back when it ends, so a leaf after a
  SubIFD pointer is named after the SubIFD.

More sentences of the comments do not hold, which the models show and no run
repeats. The two sinks "CANNOT diverge" (`format_parser.rs:706`): over several
documents they do, since the typed sink compares no document (`Token` in
`TagSinks`); `SinksAgreeOneDocument` and `VecImplementsFold` say what holds. The
override by content "fires ONLY when" the file was claimed as XMP
(`parser.rs:983`): its gate looks at the first candidate (`ExtractInfo`). The leaves
of an ExifIFD "are one contiguous block" (`exif/mod.rs:9557`): two pointers to one
ExifIFD with a leaf between them cut them in two; `EmissionComplete` holds all the
same.

Seen while modelling the newer parts:

* Ogg: "if we were on the synthetic raf_done pass and have nothing to do, exit the
  loop", but the code exits after that pass in any case, so the pending packet of a
  second stream is dropped; `NothingLeftBehind` states the bound that holds.
* `formats/id3/process.rs` skips ID3 when DoneID3 is set, and `format_parser.rs` says
  that MP3 is dispatched with the same flags; both drivers reset the flags after a
  rejection, so within a file the parsers of different candidates never share them.
  On shared flags Musepack and WavPack look for the APE trailer without asking
  DoneAPE.
* PNG: the watermarks of the trailer cover three of the five lists; the warnings of a
  caBX or cpIp chunk after IEND stay in the group of the image. The model has it so
  (`Watermarked`), and `DiagnosticsInWalkOrder` states it.
* PNG: "only ONE inflate buffer is alive at a time"; the buffer of the level before is
  alive while the next is inflated. `InflationBounded` counts both and holds, for the
  lengths; what an allocator keeps in reserve is not modelled.

## Proofs

All proofs are for every value of the constants under the named assumptions of the
component modules (bounds are naturals, constant sets have their types).

| module | proves | argument |
|---|---|---|
| `TagSinksProofs` | `BestUnique` and the lemmas on `Best`; `TypeOK`, `IndexExact`, `SurvivorIsWinner`, `WalkOrder`, `SlotsStable`, `MapImplementsFold` of `TagMap`; `SinksTypeOK`, `VecSurvivorIsWinner`, `VecImplementsFold`, `SinksAgreeOneDocument`, `DocumentKeysUniqueG3`, `DocumentKeysUniqueOneDocument` | below; a behaviour of the sinks is one of `TagMap`, so its theorems carry over; the vector has its own winner invariant over tokens; on one document a token tells the key, and the two sinks then step alike; keys rendered with their document are injective |
| `ExifWalkProofs` | `TypeOK`, `PathNeverRepeats`, `FailureContained`, `ChainStopsAtCorruption` of `ExifWalk`; the lemmas on `Listing`; what one block leaves of its leaves, images and maker note | `WalkInv`; `Recorded`, `LeavesInv`, `NoteInv`, below |
| `ExifFileProofs` | `EmissionComplete`, `BlocksInOrder`, `MakerNoteAtItsPointer` of `ExifEmit`, and `ImagesFromOneWalk` for each of its blocks; `RefusedIfClaimed`, `WarningsNameFirstClaim`, `InflationBounded`, `DiagnosticsInWalkOrder` of `PngReplay` | `EmitInv`, `ImagesInv` and `FileNote`, `ReplayInv` and `StoryInv`, below; for inflation, what is alive never exceeds what was charged (`AliveIsCharged`), and a charge is never given back. The two on refusals assume `Shared`, that the walkers of a PNG share one guard, as `walk_shared` does |
| `CompositeProofs` | `TypeOK`, `DroppedOnCycle` | `FixInv`, below |
| `ExtractInfoProofs` | `ClaimedByFirst`, `DriversAgree`, `DocumentTellsOutcome` | `ClaimInv`: a rejection puts fresh flags back, so every call is the call a parser would get alone; its answer is remembered and never changes (`Kept`). `DriverInv`, below |
| `DiagnosticsProofs` | `WarningsInOrder`, `CountsExact` | `DrainInv`: the local list holds the distinct warnings fired so far in the order of their first occurrences; one more diagnostic is the first of its message, a repetition that counts, or one that does not |
| `AudioChainProofs` | `BodyDecides`, `Id3ReportedOnce`, `TrailerFound`, and `PacketsWellFormed`, `HolesReported`, `NothingLeftBehind` in the composition | `ChainInv`: flags are empty or exactly what ID3 measures on this file, so every reader finds what it would have measured; while Ogg runs, at most one call waits. `ScanInv`, below, for the APE tag. In `OggPages` a pending packet is a run of the pages read of its stream, open at the end; reading a page of another stream keeps it, one of its own extends, ends or restarts it |
| `JumbfWalkProofs` | `TypeOK` (the depth budget), `DocumentIsTopLevelBox`, `LabelStaysInside`, `OwnPathsDistinct` | `StackInv`: each walk knows the superboxes of the one it is in; `LevelInv`: the level stack is as deep as they are and starts with the number of the document; `TagFits`: a tag has the open document's number exactly if it has its top-level superbox, and numbers are never reused. `PathInv`, for the paths: the levels over the open superboxes are their numbers; the path of a tag is, where it follows the levels, at most at the number reached (`Behind`), and it is the path of an open superbox exactly if the tag is that superbox's (`OfItsBox`); so the next number makes a path no tag has |

The argument of `TagMap`. `Best` is a statement about a set of positions of a walk;
the first lemmas show what one more tag does to it (`BestOfOne`, `BestReplaced`,
`BestKept`), that it depends on nothing else of the walk (`BestSame`), and that it is
unique (`BestUnique`). Types come first, from `Spec` alone. `IndexExact` is inductive
with them: only `Push` changes keys, and it appends the slot that it writes into the
index. `SurvivorIsWinner` needs both, because `insert` compares with the priority
stored in the slot the index finds, and this must be the priority of the best tag
so far. `WalkOrder` is not inductive as it stands: a new slot has to be stamped no
lower than every slot before it, and it has to come after the first occurrence of
each. The invariant adds that a stamp never exceeds `next_seq`, and stays strictly
below it until saturation. `SlotsStable` follows from the same invariants step by
step, and so does the refinement: `Push` is a `Claim`, `Replace` an `Override`.

The argument of `ExifWalk`. `PathNeverRepeats` is inductive with the types, since a
directory is pushed only after `OnPath` has looked for it. `FailureContained` compares
the way a directory ended with a predicate on its body alone, and is not inductive:
between the start of a directory and its end its count, its table and its position are
overwritten by its sub-directories and put back. `WalkInv` therefore says what each
open directory has read so far (`ReadSoFar`), which entries it passed and what they
counted (`PassedOver`), and that the count and the table of each directory are either in
force or put aside in the one above it on the stack (`PutAside`); the body of an address
only ever grows while its directory is open (`DiskKept`). For the chain, `ChainSound`
adds that all its directories but the last were read to their end, and that the last one
was too if there is a next one.

The argument of `ExifEmit`. A sequence `Lists` a set if it has each element once, and the
lemmas on `Listing` say that `Ascending` and `Sorted` do, in their orders; concatenation
keeps this for sets that share nothing (`ListsConcat`), and it keeps that a function
rises (`RisingConcat`). For one merged file that is `Sound` (the leaves rise with their
blocks; the note kept has exactly one record, all records are those of its block, and an
ExifIFD of that block was entered between the leaves of the blocks before and those of
the blocks behind), the emission lists all leaves and the note and rises with the blocks:
around a note without leaves it is cut at `SpliceAt`, otherwise the region is an interval
(`RegionIs`), and every deferred leaf of it has exactly one slot among the sorted turns
of the records, or none and is left over (`OneSlot`, `SlotsAre`, `DeferredListed`). Two
pointers to one InteropIFD are two records with one body: only the first has the slots of
its leaves. That the file is `Sound` is the invariant of the blocks: `Recorded` says of
the walk of one block that it makes one record for the note it keeps and none for another,
and that an ExifIFD is entered behind the leaves found so far; `FileSound` carries this
through the merge (`MergedSound`), where the index of an anchor is moved by the leaves
merged before.

The argument of `ImagesFromOneWalk`. The code keeps the halves of images apart, offsets
in one list and lengths in another, and joins them at the end of the block by the key of
their directory, although one body may have been walked several times under one key: the
last length of the key is taken, which need not be from the walk of the offset. It is the
length that walk found all the same. `LeavesInv` says that every leaf is placed in the
directory of its walk (`LeavesPlaced`); that an open walk has found, of each kind of leaf its
table knows, what it has read last, and an ended one what was ever read of that body last
(`FoundAsRead`); that the last half kept under a key is that of its last leaf
(`HalvesKept`); and that a pair stems from an offset leaf, with thumbnails told by their name
(`PairsPlaced`). A body is only read on where all entries before could be passed
(`Passable`), so a walk that ended, whether whole (`EndedIsRead`) or cut off by its warnings
(`CutOffIsRead`), has read all that any walk of the body reads. Any two ended walks of a key
therefore say the same last (`AnyWalkTells`), and the joined halves are those of each. What
`Finalize` appends to the leaves is then kept as it is (`Announced`, in `ImagesInv`).

The argument of `MakerNoteAtItsPointer`. The code places the note by the records it made;
the property tells the place from the walks. `NoteInv` ties the two together while a block
is walked. For the InteropIFDs: the pointers still to be followed stand in the last entry
that their directory read (`PointersKept`), and an open InteropIFD carries the record of its
pointer (`RecordsCarried`), so each one walked is recorded or still open, and each record is
that of a walk (`InteropsRecorded`). For the place: an ExifIFD is recorded right before it is
entered (`PointerAnchored`), but `SpliceAt` takes the first record of an address, and the same
ExifIFD may have been entered before, elsewhere. Then the note would have been found there: a
recorded address is entered next, is open, or is `Settled`, either unreadable or read to its end
(`AnchorsFollowed`); an open ExifIFD is where its first record says unless its address is
settled (`FirstEntered`); and as long as no note is kept no settled body has one
(`NoNoteRead`), so the directory in which the note is found is open for the first time
(`CaptureFirst`, `NotePlaced`). A GPS directory keeps no note and follows no pointer, which is
why each part leaves it out. `FileNote` carries this through the merge, with the leaves of
the earlier blocks counted in (`NoteWins`, `NoteStands`). For one merged file, a note without
leaves is then where the first record says (`SplicedAt`, `EnteredThere`). Otherwise the slots
are sorted by pointer (`SlotsFollow`), and the first record of an InteropIFD lies ahead of the
note exactly if a walk was led there ahead of it (`FirstTells`, `LeafAround`).

The argument of `TrailerFound`. A file is a row of segments, each there or not, and the
offset of each is a function over the row; the row has at most six places, so the offsets
are built up one segment after the other (`LaidOut`), without induction. The footer scan
looks at one offset, the end of the file less what ID3 measured. `FooterFound` says that,
when the file has a whole tag, the footer lies exactly there, whichever of the ID3v1 tags follow
it; `NoFooterFound` that, when it has none, no segment there starts with the letters of
one. `ScanInv` carries this through the calls: a parser that accepts reports what that scan
found, with the sizes of this file, whoever measured them, and only one that looked leaves
`done_ape` behind.

The argument of `PngReplay`. A step of `ReplaySpec` is a step of the walker on the block
at hand, the end of a block, or a step of the chunk loop, so `WalkInv` is an invariant of
each block. `Guarded` ties the claimed addresses, which live on from block to block, to
the history: the map holds exactly the addresses of the chain directories walked since
the last profile, each under the name of the first of them. A refusal then needs an
address of the map, and its warning reads the name there. `RefusalEnds` says that a block
is over with its first refusal, so that it raises one warning at most.

The argument of `DiagnosticsInWalkOrder`. What was said is in five lists, an order and
three watermarks; `Told` says that these tell one story, a sequence of what was said with
its group: the k-th place of the order draws the item it names, and each list holds as many
items as the order has turns for it. Saying one thing more puts it behind the story in the
group of the moment (`PushTold`), since the new item has the next number of its list and the
watermarks lie at or below the old lengths; `begin_trailer` leaves the story as it is
(`BeginTold`), since no old item lies behind a watermark set at the length of its list.
`StoryInv` is that the meta tells the story of the chunks read, unfolded chunk by chunk, and
that the flags of the loop are what the chunks say (`Position`): a chunk is followed through
the stages of the code (`PastTrailer` to `PastBody`), each of which says what the property
asks for there and nothing else (`BodyTold`, `BodyIs`), and a level of an eXIf chunk lengthens
what the last chunk has said (`StoryLengthens`). The group of the first warning of a trailer
comes out as the document's because it is said before `begin_trailer`. The property then reads
the story back, for any warnings of the replayed blocks (`ToldInOrder`). The fold over the
chunks is a recursive function; that its value is the story is an induction over the chunks.

The argument of `Composite`. `FixInv` has the partition of the definitions as sets
(`Partition`, `Apart`) and as numbers (`Shares`), and `PassWaits`: while nothing of a pass
has been attempted, everything it deferred had to be deferred, and still has to, since
`not_built` has not changed. The fixpoint gives up after such a pass only, and what must be
deferred waits for a name in `not_built`, which is the name of another one not settled. The
view after an attempt is a recursive function over the documents; that it keeps its type is
shown by induction over them.

The argument of `ExtractInfo` for two drivers. `Offered` is the loop over the scanned
types as a recursive function, and the lemmas `OffersSound`, `OfferedSound` and
`CandidatesAre` show by induction over that list what both drivers rely on: a candidate
of an unsupported type is the last one, and one after an unknown header is the marker's,
behind all others. A marker at the start of the file is that of a type offered before
(`MarkerOffered`), by the very call that was rejected; so a claim past an unknown header
skips at least one byte. `DriverInv` adds where each driver stands when it ends
(`EndsRight`) and what the document says at that point (`Told`). The driver that went
further rejected the candidate that the other one accepted, by the same call with fresh
flags, which `Kept` excludes (`SameClaim`); and the one that ended at an unsupported type had
no candidate left (`NoClaimUnsupported`).

The inductions over numbers above are first-order: the least number at which a formula
fails exists because the order of the naturals is well-founded (`LeastNumber`), and the
lemma `Induction` states this for a set of numbers, so that no operator is passed to a
theorem of the library.

The assumptions that the proofs rest on are named in the modules. Those beyond types:
the scan list of detection has JPEG and TIFF (`ScanAssumption`), a marker is of one of
them, and at the start of the file it is the magic number itself (`FilesAssumption`); no
type with a parser is an unsupported one (`ParsedAssumption`); the cases of `Composite` are
registries over one set of words that has `Composite` (`WordsAssumption`,
`CasesAssumption`); a pointer entry that is not a list has one address (`ShapesAssumption`);
a SubIFD pointer has ten names for at most ten directories (`LimitsAssumption`); an ID3v2
tag has at least its three letters, and a body starts with one of the magics that the
audio parsers tell apart (`AudioChainAssumption`).

Model-checked only. Liveness (`Terminates` of `Composite` and `ExifWalk`), which this
prover cannot reach. `ReadsFinal` of `Composite`, which compares reads of an attempt with
what later attempts write; it depends on which inputs the registry spells with a group, so
it is not a fact about every registry.

## What could come next

1. The segment loop of a JPEG and the recovery of a truncated file, composed with
   `ExifEmit` (`exif/jpeg.rs`, `recovery.rs`).
2. The BigTIFF walk beside the classic one, with the same guards.
3. The atom walk of QuickTime: depth, sizes and the open `moov` of a cut file.
4. The packet reassembly of transport streams (`formats/m2ts.rs`).

## Not modelled

Value conversion, character sets, number formatting and the vendor tables: functions
of one value, where a model would repeat the code. They are most of the source: the
tables of tags, the generated tables of XMP and QuickTime brands, and the maker notes
are data without control. Parsers of one linear record layout. Of the directory walk:
BigTIFF, the walks inside vendor maker notes, the walk of a block without file access
(CTMD) and of a GPS block by itself, PrintIM, GeoTiff and SR2, the page count, the Sony
A100 offset, and a pointer whose value cannot be read or is negative. Of the audio
formats: the ID3 frames, the item loop of APE, the block loop of FLAC, the codecs
inside an Ogg packet, DSF and AIFF. Of PNG: the fields of single chunks, MNG and JNG
tables. QuickTime, Matroska, RIFF, Real, MXF, transport streams. The domain metadata
projection, which reads a finished meta.

One hazard of `PROJECT.json` has no property: the gate of the property list override
(`parser.rs:603`), which is in the model and of which no document says what it should be.
