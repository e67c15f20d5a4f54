----------------------------- MODULE MCExifEmit -----------------------------
(* Values for the runs of ExifEmit.                                         *)
EXTENDS ExifEmit

CONSTANTS a1, a2, a3

Plain(whats) == {Entry(what, <<>>, 0) : what \in whats}

\* An ExifIFD at a2, InteropIFDs at a2 and a3, and a maker note.
OrderShapes ==
  Plain({"leaf", "MakerNote"}) \cup {Entry("ExifIFD", <<a2>>, 0)}
    \cup {Entry("InteropIFD", <<a>>, 0) : a \in {a2, a3}}

\* Offsets, lengths that fit or do not, and pointers that lead to a body twice.
ImageShapes ==
  {Entry("ThumbnailOffset", <<>>, at) : at \in {1, 5}}
    \cup {Entry("ThumbnailLength", <<>>, n) : n \in {0, 2, 9}}
    \cup {Entry(what, <<a>>, 0) : what \in {"ExifIFD", "InteropIFD"}, a \in {a1, a2}}

\* A preview in the strips of a SubIFD that two pointers lead to, unless its
\* SubfileType is 0.
PreviewShapes ==
  {Entry("Compression", <<>>, 7), Entry("StripOffsets", <<>>, 1), Entry("SubIFD", <<a2, a2>>, 0)}
    \cup {Entry("SubfileType", <<>>, n) : n \in {0, 1}}
    \cup {Entry("StripByteCounts", <<>>, n) : n \in {2, 9}}

\* The blocks of a JPEG, a raw file with previews, and a TIFF file with one.
EmitShapes == ("" :> OrderShapes) @@ ("SR2" :> ImageShapes) @@ ("TIFF" :> PreviewShapes)
EmitEntries == ("" :> 5) @@ ("SR2" :> 4) @@ ("TIFF" :> 5)

\* The raw file has a chain over two addresses, the others have IFD0 alone, at a1.
Layout == IF file_type = "SR2" THEN offset # a3 ELSE hops = 0 /\ offset \in {a1, NoAddress}

\* The entries of the block being walked, and what was kept of those before.
FileFits ==
  MapThenSumSet(LAMBDA a : disk[a].num_entries, Addresses)
    + Len(meta.entries) + Len(meta.deferred_subdirs) <= 5
=============================================================================
