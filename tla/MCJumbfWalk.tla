---------------------------- MODULE MCJumbfWalk ----------------------------
(* Every stream of a few boxes: siblings, nesting up to and past the budget, *)
(* associations, descriptions with and without a private region.             *)
EXTENDS JumbfWalk

\* No guard reads the warnings and no property is about them.
withoutWarnings == <<walks, jumd_level, doc_count, cur_label, tags, headers, opened, parents>>
=============================================================================
