----------------------------- MODULE MCExifWalk -----------------------------
(* Values for the runs of ExifWalk: the shapes of the entries of a block.    *)
EXTENDS ExifWalk

Plain(whats) == {Entry(what, <<>>, 0) : what \in whats}
Pointers(whats) == {Entry(what, <<a>>, 0) : what \in whats, a \in Addresses}

\* SubIFD pointers with one offset more than are walked, or an unusable one.
Lists ==
  {Entry("SubIFD", <<NoAddress, a>>, 0) : a \in Addresses}
    \cup {Entry("SubIFD", <<p[1], p[2], p[1]>>, 0) :
             p \in {p \in Addresses \X Addresses : p[1] # p[2]}}

\* Every way an entry can go wrong, and every kind of pointer but that of a
\* maker note.
ControlShapes ==
  Plain({"padding", "bad format", "skipped", "overrun", "wrong format"})
    \cup Pointers(PointerKinds) \cup Lists

\* What the name of a strip leaf depends on.
StripShapes ==
  {Entry("Compression", <<>>, n) : n \in {6, 7}} \cup {Entry("SubfileType", <<>>, n) : n \in {0, 1}}
    \cup Plain({"StripOffsets"}) \cup {Entry("SubIFD", <<a>>, 0) : a \in Addresses}

\* A raw file with a leaf and a maker note whose SubIFDs are not followed, one
\* with every shape, and a TIFF with strips.
WalkShapes ==
  [SRW |-> Plain({"leaf", "MakerNote"}) \cup Pointers({"ExifIFD"}) \cup Lists, ARW |-> ControlShapes,
   TIFF |-> StripShapes]
WalkEntries == [SRW |-> 3, ARW |-> 3, TIFF |-> 4]
=============================================================================
