----------------------------- MODULE Duplicates -----------------------------
(***************************************************************************)
(* ExifTool's rule for duplicate tags, as the crate states it once         *)
(* (src/src/tagmap.rs: effective_priority, dedup_override,                 *)
(* emitted_dedup_override) for all its sinks, and a reference definition   *)
(* of what folding that rule over a walk keeps.                            *)
(***************************************************************************)
EXTENDS Naturals, Sequences

PseudoTags == {"Warning", "Error"}

\* Mutant: the pseudo-tags keep the priority their producer passed.
EffectivePriorityUnforced(name, priority) == priority

EffectivePriority(name, priority) == IF name \in PseudoTags THEN 0 ELSE priority

\* Mutants: an equal priority does not replace; any non-zero one does; a
\* priority-0 duplicate replaces another.
DedupOverrideStrict(new, stored) == new # 0 /\ new > stored
DedupOverrideAny(new, stored) == new # 0
DedupOverrideZero(new, stored) == new >= stored

DedupOverride(new, stored) == new # 0 /\ new >= stored

\* The priority of an emitted tag, as every sink computes it.
TagPriority(t) == EffectivePriority(t.key.name, t.priority)

\* Among the positions S of a walk w, i is the one ExifTool's rule keeps: the
\* last of the highest effective priorities, except that when all of them are
\* 0 the first one stays.
Best(w, S, i) ==
  /\ i \in S
  /\ \A j \in S :
       /\ TagPriority(w[j]) <= TagPriority(w[i])
       /\ TagPriority(w[j]) = TagPriority(w[i]) =>
            IF TagPriority(w[i]) = 0 THEN i <= j ELSE j <= i
=============================================================================
