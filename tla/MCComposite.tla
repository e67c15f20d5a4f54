---------------------------- MODULE MCComposite ----------------------------
(* Every registry of three definitions A, B, C, each with at most one       *)
(* composite input of any kind (on itself, on another one, or on a name no  *)
(* definition has), the first also reading a tag of the file; C is built    *)
(* per document.                                                            *)
EXTENDS MCCompositeRegistry

In(kind, groups, name) == [kind |-> kind, groups |-> groups, group0 |-> "", name |-> name]

Links == {<<>>} \cup
  {<<In(k, {"Composite"}, n)>> : k \in {"Require", "Desire", "Inhibit"}, n \in {"A", "B", "C", "Z"}}

Def(name, inputs, sub) ==
  [name |-> name, inputs |-> inputs, sub_doc |-> sub, probes |-> {0}, priority |-> 1]

MCFiles == {<<>>, <<Tag(0, "GPS", "EXIF", "X", 1)>>, <<Tag(1, "GPS", "EXIF", "X", 1)>>}

LinkCases ==
  {[order |-> <<Def("A", <<In("Require", {}, "X")>> \o a, "No"), Def("B", b, "No"),
                Def("C", c, sub)>>,
    file |-> f, sink |-> "TagMap"] :
     a \in Links, b \in Links, c \in Links, f \in MCFiles, sub \in {"No", "All", "Indices"}}

MCWords == STRING

\* Those, and the registry of the crate.
MCCases == LinkCases \cup RegistryCases
=============================================================================
