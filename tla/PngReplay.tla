----------------------------- MODULE PngReplay -----------------------------
(***************************************************************************)
(* The EXIF sources of a PNG, replayed in the order of its chunks when the *)
(* chunk loop has ended (src/src/formats/png.rs, replay_exif_events): each *)
(* block is walked by a walker of its own, and all share one map of the    *)
(* chain directories that were claimed.  A well-formed raw profile clears  *)
(* the map first, whether or not it holds EXIF; a native eXIf chunk does   *)
(* not.  The walkers are those of ChainGuard::Shared: Shared is TRUE.      *)
(***************************************************************************)
EXTENDS ExifWalk, PngChunks

VARIABLES
  event,     \* the event being replayed
  replayed   \* history: the events before it, with what their walks did

replayVars == <<vars, chunkVars, event, replayed>>

\* Mutant: only a profile that holds EXIF clears the map.
ProcessedUnlessExif(kind) == IF kind = "ExifProfile" THEN <<>> ELSE chain_guard

\* The map a block of an event starts with.
Processed(kind) == IF kind = "NativeTiff" THEN chain_guard ELSE <<>>

\* The next event of the file begins; what the last one left is kept.  Before
\* the first there is an event that does nothing.
Replay(kind) ==
  /\ ~walking /\ finished
  /\ Len(replayed) < Len(png.exif_events)
  /\ kind = png.exif_events[Len(replayed) + 1]
  /\ event' = kind
  /\ replayed' = Append(replayed, [event |-> event, walks |-> walks,
                                   warnings |-> cycle_guard_warnings])
  /\ chain_guard' = Processed(kind)
  /\ walks' = <<>> /\ cycle_guard_warnings' = <<>>
  /\ UNCHANGED chunkVars

\* A profile without EXIF, or a block that has no TIFF header: nothing is walked.
ReplayNothing ==
  /\ \E kind \in {"ResetOnlyProfile", "ExifProfile", "NativeTiff"} : Replay(kind)
  /\ UNCHANGED <<file_type, disk, offset, hops, stack, active_ifd_offsets, warn_count, active_table,
                 captured, found, finished>>

\* walk_shared: a new walker starts at the first directory of the block.
ReplayBlock ==
  /\ \E kind \in {"ExifProfile", "NativeTiff"} : Replay(kind)
  /\ disk' = [a \in Addresses |-> Unseen]
  /\ offset' \in Addresses /\ hops' = 0
  /\ stack' = <<>> /\ active_ifd_offsets' = <<>>
  /\ warn_count' = 0 /\ active_table' = table_for_ifd_kind("IFD0") /\ captured' = NoMembers
  /\ entries' = <<>> /\ deferred_subdirs' = <<>> /\ maker_note' = NoNote
  /\ data_tag_pairs' = <<>> /\ data_tag_lengths' = <<>>
  /\ finished' = FALSE
  /\ UNCHANGED file_type

ReplayInit ==
  /\ ChunkInit
  /\ Fresh /\ offset = NoAddress /\ finished = TRUE
  /\ event = "ResetOnlyProfile" /\ replayed = <<>>

ReplayNext ==
  \/ ChunkNext /\ UNCHANGED <<vars, event, replayed>>
  \/ ReplayNothing \/ ReplayBlock
  \/ Next /\ UNCHANGED <<chunkVars, event, replayed>>

ReplaySpec == ReplayInit /\ [][ReplayNext]_replayVars

-----------------------------------------------------------------------------

\* The events up to the present one.
Events ==
  Append(replayed, [event |-> event, walks |-> walks, warnings |-> cycle_guard_warnings])

\* The chain directories among the walks of an event, by their places.
ChainDirsOf(e, list) ==
  {[event |-> e, place |-> n, start |-> list[n].start, kind |-> list[n].kind,
    refused |-> list[n].outcome = "refused"] : n \in {n \in DOMAIN list : IsChain(list[n].kind)}}

\* Every chain directory walked or refused.
ChainDirs == UNION {ChainDirsOf(e, Events[e].walks) : e \in DOMAIN Events}

\* The walker came to directory c before it came to directory d.
CameBefore(c, d) == c.event < d.event \/ (c.event = d.event /\ c.place < d.place)

\* No profile has cleared the map between an earlier event and a later one.
SameMap(earlier, later) == \A e \in (earlier + 1)..later : Events[e].event = "NativeTiff"

\* The chain directories that started at the address of d before d.
Claimants(d) == {c \in ChainDirs : c.start = d.start /\ CameBefore(c, d) /\ SameMap(c.event, d.event)}

\* A chain directory is refused exactly when a chain directory of this block, or
\* of a block since the last profile, started at its address; sub-directories
\* neither claim an address nor are refused for another block's claim.
RefusedIfClaimed == \A d \in ChainDirs : d.refused <=> Claimants(d) # {}

\* Each refusal raises one warning, which names the directory that claimed the
\* address first, in its own block: "<DirName> pointer references previous
\* <prev> directory".
WarningsNameFirstClaim ==
  \A e \in DOMAIN Events :
    LET refused == {d \in ChainDirs : d.event = e /\ d.refused}
    IN  /\ refused = {} => Events[e].warnings = <<>>
        /\ \A d \in refused : \E c \in Claimants(d) :
             /\ \A other \in Claimants(d) : other = c \/ CameBefore(c, other)
             /\ Events[e].warnings = <<[dir |-> d.kind, prev |-> c.kind]>>

\* What each event of the file warns of, as far as they are replayed.
Replays ==
  [n \in DOMAIN png.exif_events |->
     LET warned == IF n + 1 \in DOMAIN Events THEN Events[n + 1].warnings ELSE <<>>
     IN  [k \in DOMAIN warned |-> <<"references previous", warned[k].dir, warned[k].prev>>]]

\* The diagnostics of a PNG, those of its replayed EXIF blocks among them, stand
\* in the order of its chunks, each in the group of the chunk it is about.
DiagnosticsInWalkOrder == ~walking /\ finished => InWalkOrder(Replays)
=============================================================================
