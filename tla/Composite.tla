----------------------------- MODULE Composite -----------------------------
(***************************************************************************)
(* The Composite engine (src/src/composite/mod.rs): a fixpoint over a      *)
(* registry of definitions.  Each definition reads tags the walk left in   *)
(* the sink, or composites other definitions appended to it, and may       *)
(* append one tag per document.  A definition that reads a composite not   *)
(* yet built is deferred to the next pass; when a pass settles nothing, a  *)
(* last pass ignores the Inhibit inputs, then the rest is dropped.         *)
(*                                                                         *)
(* The two views of the engine (ValueConv and PrintConv) hold the same     *)
(* keys and are appended to together; the model has one.  A value is named *)
(* by its origin: 0 for a tag of the file, n for the n-th definition.      *)
(***************************************************************************)
EXTENDS Integers, Sequences, FiniteSets, Duplicates

CONSTANTS
  Words,      \* what tags and groups are called
  Cases,      \* a registry, sorted by sort_key, a walk's tags, and the sink
  DocCount,   \* the highest family-3 ordinal of the file
  MayDecline  \* names of the definitions whose derivation may yield nothing

Docs == 0..DocCount

Input == [kind : {"Require", "Desire", "Inhibit"}, groups : SUBSET Words,
          group0 : Words, name : Words]
Definition == [name : Words, inputs : Seq(Input), sub_doc : {"No", "All", "Indices"},
               probes : SUBSET Nat, priority : Nat]
TagOf(values) == [doc : Docs, family1 : Words, family0 : Words, name : Words,
                  priority : Nat, value : values]

ASSUME WordsAssumption == "Composite" \in Words
ASSUME DocCountAssumption == DocCount \in Nat
ASSUME CasesAssumption ==
  \A c \in Cases : /\ c.order \in Seq(Definition)
                   /\ c.file \in Seq(TagOf({0}))
                   /\ c.sink \in {"TagMap", "Vec"}

VARIABLES
  order,     \* the sorted registry
  sink,      \* which implementation of CompositeSink is in use
  view,      \* the sink's entries
  not_built, \* names neither built nor proven unbuildable
  pending,   \* definitions of this pass still to attempt, by rank in `order`
  pass_len,  \* pending_len: how many the pass began with
  deferred,  \* definitions put off to the next pass
  all_built, \* the last-ditch pass is on
  ended,     \* run_fixpoint has returned
  attempts   \* history: what each attempt resolved, and whether it built

vars == <<order, sink, view, not_built, pending, pass_len, deferred, all_built,
          ended, attempts>>

Ranks == DOMAIN order

-----------------------------------------------------------------------------
(* CompositeSink.                                                           *)

Missing == -1

MainScope == [doc |-> 0, cross |-> 1..DocCount]
Exact(d) == [doc |-> d, cross |-> {}]

Matches(v, input, docs) ==
  {p \in DOMAIN v : /\ v[p].doc \in docs
                    /\ v[p].name = input.name
                    /\ input.groups = {} \/ v[p].family1 \in input.groups
                    /\ input.group0 = "" \/ v[p].family0 = input.group0}

Lowest(S) == CHOOSE p \in S : \A q \in S : p <= q
Highest(S) == CHOOSE p \in S : \A q \in S : q <= p

Strength(v, p) == EffectivePriority(v[p].name, v[p].priority)

\* Within a document a bare name takes the first entry of the highest
\* effective priority, a group-scoped one the last entry.
Pick(v, input, S) ==
  IF input.groups = {}
  THEN Lowest({p \in S : \A q \in S : Strength(v, q) <= Strength(v, p)})
  ELSE Highest(S)

\* The document of the scope first; without a match there, the first entry of
\* the documents it falls back to.
Resolve(v, input, scope) ==
  LET here  == Matches(v, input, {scope.doc})
      cross == Matches(v, input, scope.cross)
  IN  IF here # {} THEN v[Pick(v, input, here)].value
      ELSE IF cross # {} THEN v[Lowest(cross)].value
      ELSE Missing

HasComposite(v, name, d) ==
  \E p \in DOMAIN v : v[p].doc = d /\ v[p].family1 = "Composite" /\ v[p].name = name

CompositeTag(i, d) ==
  [doc |-> d, family1 |-> "Composite", family0 |-> "Composite",
   name |-> order[i].name, priority |-> order[i].priority, value |-> i]

SameKey(a, b) == a.doc = b.doc /\ a.family1 = b.family1 /\ a.name = b.name

\* TagMap appends through its deduplicating insert; the vector pushes.
AppendTag(v, t) ==
  LET same == {p \in DOMAIN v : SameKey(v[p], t)}
  IN  IF sink = "Vec" \/ same = {} THEN Append(v, t)
      ELSE [p \in DOMAIN v |->
              IF p \in same /\ DedupOverride(Strength(<<t>>, 1), Strength(v, p))
              THEN t ELSE v[p]]

-----------------------------------------------------------------------------
(* The attempt of one definition.                                           *)

\* Mutant: the references of Desire inputs do not defer.
ReferencesUnbuiltRequired(input) ==
  /\ input.kind = "Require"
  /\ "Composite" \in input.groups
  /\ ~HasComposite(view, input.name, 0)
  /\ input.name \in not_built

ReferencesUnbuilt(input) ==
  /\ "Composite" \in input.groups
  /\ ~HasComposite(view, input.name, 0)
  /\ input.name \in not_built

MustDefer(def) ==
  \E k \in DOMAIN def.inputs :
    /\ ReferencesUnbuilt(def.inputs[k])
    /\ ~(def.inputs[k].kind = "Inhibit" /\ all_built)

\* $val[i] of every input.
Resolved(v, def, scope) == [k \in DOMAIN def.inputs |-> Resolve(v, def.inputs[k], scope)]

\* No Inhibit input is present and no Require input is missing.
Buildable(def, vals) ==
  \A k \in DOMAIN def.inputs :
    /\ def.inputs[k].kind = "Inhibit" => vals[k] = Missing
    /\ def.inputs[k].kind = "Require" => vals[k] # Missing

\* sub_doc_has_chance; the probed indices count from 0.
SubDocHasChance(def, v, d) ==
  LET vals == Resolved(v, def, Exact(d))
  IN  CASE def.sub_doc = "No" -> FALSE
        [] def.sub_doc = "All" ->
             \A k \in DOMAIN vals : def.inputs[k].kind = "Require" => vals[k] # Missing
        [] def.sub_doc = "Indices" ->
             \E n \in def.probes : n + 1 \in DOMAIN vals /\ vals[n + 1] # Missing

ScopeAt(def, d) == IF d = 0 /\ def.sub_doc = "No" THEN MainScope ELSE Exact(d)

Attempts(def, v, d) == d = 0 \/ SubDocHasChance(def, v, d)

\* build_at_doc, unless the derivation yields nothing.
BuildAtDoc(v, i, d, declined) ==
  IF /\ Attempts(order[i], v, d)
     /\ Buildable(order[i], Resolved(v, order[i], ScopeAt(order[i], d)))
     /\ d \notin declined
  THEN AppendTag(v, CompositeTag(i, d)) ELSE v

\* The view after the documents 0..d have been tried in turn.
Views(i, declined) ==
  LET after[d \in -1..DocCount] ==
        IF d = -1 THEN view ELSE BuildAtDoc(after[d - 1], i, d, declined)
  IN  after

\* Mutant: only a definition that built leaves not_built.
SettleIfBuilt(i) == IF Buildable(order[i], Resolved(view, order[i], ScopeAt(order[i], 0)))
                    THEN not_built \ {order[i].name} ELSE not_built

Settle(i) == not_built \ {order[i].name}

-----------------------------------------------------------------------------
(* The fixpoint.                                                            *)

Init ==
  /\ \E c \in Cases : order = c.order /\ view = c.file /\ sink = c.sink
  /\ not_built = {order[i].name : i \in Ranks}
  /\ pending = [i \in Ranks |-> i]
  /\ pass_len = Len(order)
  /\ deferred = <<>>
  /\ all_built = FALSE
  /\ ended = FALSE
  /\ attempts = {}

Defer ==
  /\ ~ended
  /\ pending # <<>>
  /\ MustDefer(order[Head(pending)])
  /\ deferred' = Append(deferred, Head(pending))
  /\ pending' = Tail(pending)
  /\ UNCHANGED <<order, sink, view, not_built, pass_len, all_built, ended, attempts>>

\* The documents in which a derivation yields nothing.
Declined(def) == IF def.name \in MayDecline THEN SUBSET Docs ELSE {{}}

Attempt ==
  /\ ~ended
  /\ pending # <<>>
  /\ ~MustDefer(order[Head(pending)])
  /\ LET i == Head(pending) IN
       \E declined \in Declined(order[i]) :
         LET after == Views(i, declined)
             tried == {d \in Docs : Attempts(order[i], after[d - 1], d)}
         IN /\ view' = after[DocCount]
            /\ attempts' = attempts \cup
                 {[def |-> i, doc |-> d, declined |-> d \in declined,
                   vals |-> Resolved(after[d - 1], order[i], ScopeAt(order[i], d))] : d \in tried}
            /\ not_built' = Settle(i)
  /\ pending' = Tail(pending)
  /\ UNCHANGED <<order, sink, pass_len, deferred, all_built, ended>>

\* Nothing deferred, or nothing settled by a last-ditch pass: stop.
Stop ==
  /\ ~ended
  /\ pending = <<>>
  /\ deferred = <<>> \/ (Len(deferred) = pass_len /\ all_built)
  /\ ended' = TRUE
  /\ UNCHANGED <<order, sink, view, not_built, pending, pass_len, deferred, all_built, attempts>>

\* Mutant: a pass that settles nothing is simply run again.
StuckNever == FALSE

Stuck == Len(deferred) = pass_len

NextPass ==
  /\ ~ended
  /\ pending = <<>>
  /\ deferred # <<>>
  /\ ~(Len(deferred) = pass_len /\ all_built)
  /\ all_built' = (all_built \/ Stuck)
  /\ pending' = deferred
  /\ pass_len' = Len(deferred)
  /\ deferred' = <<>>
  /\ UNCHANGED <<order, sink, view, not_built, ended, attempts>>

Next == Defer \/ Attempt \/ Stop \/ NextPass

Spec == Init /\ [][Next]_vars

\* run_fixpoint is a loop with nothing to wait for: it keeps taking steps.
FairSpec == Spec /\ WF_vars(Next)

-----------------------------------------------------------------------------
(* Properties.                                                              *)

Settled == {a.def : a \in attempts}
SeqRange(s) == {s[n] : n \in DOMAIN s}

\* Every definition is either settled, or waiting in the pass, or deferred,
\* and only one of these; a name is settled with its first definition.
TypeOK ==
  /\ view \in Seq(TagOf({0} \cup Ranks))
  /\ \A a \in attempts : Cardinality({b \in attempts : b.def = a.def /\ b.doc = a.doc}) = 1
  /\ Settled \cup SeqRange(pending) \cup SeqRange(deferred) = Ranks
  /\ Cardinality(Settled) + Len(pending) + Len(deferred) = Len(order)
  /\ not_built = {order[i].name : i \in Ranks} \ {order[i].name : i \in Settled}

\* What an attempt read of the sink, and what it found missing, is still what
\* the finished sink holds: no later definition adds, replaces or outranks an
\* input of an earlier one (references_unbuilt_composite, the name-keyed
\* not_built, the bare names that do not defer).  Only the last-ditch pass,
\* which builds without waiting for inhibitors, may break it.
ReadsFinal ==
  ended /\ ~all_built =>
    \A a \in attempts :
      a.vals = Resolved(view, order[a.def], ScopeAt(order[a.def], a.doc))

\* A definition is given up only behind a dependency cycle: each one dropped
\* waits, by an input that is not an Inhibit, for another one dropped.  In
\* particular an acyclic registry is attempted to the last definition.
DroppedOnCycle ==
  ended =>
    \A i \in Ranks \ Settled :
      \E k \in DOMAIN order[i].inputs :
        /\ "Composite" \in order[i].inputs[k].groups
        /\ order[i].inputs[k].kind # "Inhibit"
        /\ \E j \in Ranks \ Settled : order[j].name = order[i].inputs[k].name

\* The fixpoint is reached whatever the registry, cyclic ones included.
Terminates == <>ended
=============================================================================
