----------------------------- MODULE MCTagSinks -----------------------------
(* One label carried by the Main document and by two embedded documents, a *)
(* pseudo-tag, and a tag that collides with an orchestration key.           *)
EXTENDS TagSinks

MCDocs == 0..1
MCSubpaths == {"", "-1"}
MCFamilies == {"JUMBF", "Sony", "File"}
MCNames == {"Label", "Warning", "FileType"}

K(d, s, g, n) == [doc |-> d, doc_subpath |-> s, family1 |-> g, name |-> n]
T(k, f, p, v) == [key |-> k, family0 |-> f, priority |-> p, value |-> v, unknown |-> FALSE]

MCReservedKeys == {K(0, "", "File", "FileType")}

MCEmissions ==
  {T(K(0, "", "JUMBF", "Label"), "JUMBF", p, 1) : p \in 0..2}
  \cup {T(K(0, "", "JUMBF", "Label"), "Sony", p, 2) : p \in 0..2}
  \cup {T(K(1, s, "JUMBF", "Label"), "JUMBF", 1, 2) : s \in MCSubpaths}
  \cup {T(K(0, "", "JUMBF", "Warning"), "JUMBF", 1, v) : v \in 1..2}
  \cup {T(K(0, "", "File", "FileType"), "File", 1, 1)}
  \cup {[T(K(0, "", "JUMBF", "Label"), "JUMBF", 2, 2) EXCEPT !.unknown = TRUE]}
=============================================================================
