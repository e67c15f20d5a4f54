-------------------------- MODULE MCTagSinksJumbf --------------------------
(* What a PNG whose caBX chunk holds two sibling JUMBF superboxes emits: the *)
(* dimensions of the Main document and one JUMBF:JUMDLabel per superbox, in  *)
(* Doc1 and Doc2 (src/src/exif/jumbf/tests.rs,                               *)
(* sibling_jumbs_open_doc1_then_doc2).                                       *)
EXTENDS MCTagSinks

JumbfDocs == 0..2
JumbfNames == {"ImageWidth", "JUMDLabel"}
JumbfFamilies == {"PNG", "JUMBF"}

JumbfEmissions ==
  {T(K(0, "", "PNG", "ImageWidth"), "PNG", 1, 1)}
  \cup {T(K(d, "", "JUMBF", "JUMDLabel"), "JUMBF", 1, d) : d \in 1..2}
=============================================================================
