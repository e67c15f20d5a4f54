---------------------------- MODULE MCPngReplay ----------------------------
(* Values for the run of PngReplay.                                         *)
EXTENDS PngReplay

\* The blocks of a PNG share one map; what is proved of their refusals assumes it.
ASSUME SharedAssumption == Shared

\* A sub-directory that may start where a chain directory of another block does.
ReplayShapes == {Entry("ExifIFD", <<a>>, 0) : a \in Addresses}
PngShapes == ("" :> ReplayShapes)
PngEntries == ("" :> 1)

Body(what, wrong_size, warnings) ==
  [what |-> what, wrong_size |-> wrong_size, warnings |-> warnings]
SomeTextBodies ==
  {Body(what, FALSE, <<>>) : what \in {"text", "bad zlib", "exif", "unknown", "other", "xmp"}}
    \cup {Body("xmp", TRUE, <<<<"double UTF-encoded">>>>)}
SomeBoxWarnings == {<<<<"truncated">>, <<"missing label">>>>}

\* A walk treats all addresses alike.
AddressSymmetry == Permutations(Addresses)

Count(name) == Cardinality({i \in DOMAIN chunks : chunks[i].name = name})

\* The longest files have a trailer.
LongFiles == Len(chunks) > 3 => Count("IEND") > 0 \/ ~walking

\* Compressed chunks stand in files with nothing else.
Inflated == zxif_inflated_total > 0 => \A i \in DOMAIN chunks : chunks[i].name \in {"eXIf", ""}

\* Blocks are walked in files of nothing but EXIF events and the end: three of
\* them, or two around the end.  The last of three has chain directories alone.
Replayed ==
  replayed # <<>> =>
    /\ zxif_inflated_total = 0 /\ Last(chunks).fate = "empty"
    /\ Len(png.exif_events) + Count("IEND") = Len(chunks) - 1
    /\ Len(png.exif_events) + Count("IEND") <= 3
    /\ \A i \in DOMAIN chunks : Len(chunks[i].says) <= 1
    /\ Len(replayed) = 3 => \A a \in Addresses : disk[a].entries = <<>>
=============================================================================
