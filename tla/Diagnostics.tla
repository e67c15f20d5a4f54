---------------------------- MODULE Diagnostics ----------------------------
(***************************************************************************)
(* The drain of a meta's diagnostics into the tag sink                     *)
(* (src/src/diagnostics.rs, run_diagnostics_with_options), after its tags  *)
(* have been emitted.  Equal document warnings are counted and written     *)
(* once, at the end; errors are written as they come; a diagnostic of a    *)
(* group becomes a Warning or Error tag of that group, in the TagMap.  A   *)
(* message is its minor prefix with its text; the count stays beside it.   *)
(***************************************************************************)
EXTENDS Naturals, Sequences, SequencesExt, Duplicates

CONSTANTS
  Texts,      \* message texts, none of which begins with a prefix
  Groups,     \* family-1 groups of the group-scoped diagnostics
  Document,   \* the group of a document-level diagnostic
  Emitted,    \* what the walk may have left in the sink's Warning/Error tags
  MaxFired    \* bound on the stream (TLC only)

ASSUME DocumentAssumption == Document \notin Groups
ASSUME MaxFiredAssumption == MaxFired \in Nat

VARIABLES
  fired,    \* the diagnostics consumed so far, in occurrence order
  warned,   \* the local list: messages with their counts
  warnings, \* TagMap.warnings
  errors,   \* TagMap.errors
  tagged,   \* the sink's <group>:Warning and <group>:Error entries
  drained

vars == <<fired, warned, warnings, errors, tagged, drained>>

Diagnostic == [group : Groups \cup {Document}, severity : {"Warning", "Error"},
               ignorable : 0..3, text : Texts, no_count : BOOLEAN]

\* apply_minor_prefix.
Message(d) ==
  [prefix |-> CASE d.ignorable = 0 -> "" [] d.ignorable = 2 -> "[Minor] " [] OTHER -> "[minor] ",
   text   |-> d.text]

Known(m) == {i \in DOMAIN warned : warned[i].message = m}

\* Mutant: every repetition counts.
BumpAlways(d, w) == [w EXCEPT !.count = @ + 1]

Bump(d, w) == IF d.no_count THEN w ELSE [w EXCEPT !.count = @ + 1]

Consume(d) ==
  /\ ~drained
  /\ Len(fired) < MaxFired
  /\ fired' = Append(fired, d)

FirstWarning(d) ==
  /\ d.group = Document /\ d.severity = "Warning"
  /\ Known(Message(d)) = {}
  /\ Consume(d)
  /\ warned' = Append(warned, [message |-> Message(d), count |-> 1])
  /\ UNCHANGED <<warnings, errors, tagged, drained>>

RepeatedWarning(d) ==
  /\ d.group = Document /\ d.severity = "Warning"
  /\ Known(Message(d)) # {}
  /\ Consume(d)
  /\ warned' = [i \in DOMAIN warned |->
                  IF i \in Known(Message(d)) THEN Bump(d, warned[i]) ELSE warned[i]]
  /\ UNCHANGED <<warnings, errors, tagged, drained>>

DocumentError(d) ==
  /\ d.group = Document /\ d.severity = "Error"
  /\ Consume(d)
  /\ errors' = Append(errors, Message(d))
  /\ UNCHANGED <<warned, warnings, tagged, drained>>

\* write_value with the default priority, which the pseudo-tags lose.
GroupTag(d) ==
  LET key == [family1 |-> d.group, name |-> d.severity]
      priority == EffectivePriority(d.severity, 1)
  IN  /\ d.group # Document
      /\ Consume(d)
      /\ tagged' = [k \in DOMAIN tagged \cup {key} |->
                      IF k = key /\ (k \in DOMAIN tagged => DedupOverride(priority, priority))
                      THEN Message(d) ELSE tagged[k]]
      /\ UNCHANGED <<warned, warnings, errors, drained>>

\* Mutant: the list is written from its end.
WrittenReversed == Reverse(warned)

Written == warned

\* The end of the stream: the counted warnings reach the sink.
Drain ==
  /\ ~drained
  /\ drained' = TRUE
  /\ warnings' = warnings \o Written
  /\ UNCHANGED <<fired, warned, errors, tagged>>

Init ==
  /\ fired = <<>>
  /\ warned = <<>>
  /\ warnings = <<>>
  /\ errors = <<>>
  /\ tagged \in Emitted
  /\ drained = FALSE

Next ==
  \/ \E d \in Diagnostic : FirstWarning(d) \/ RepeatedWarning(d) \/ DocumentError(d) \/ GroupTag(d)
  \/ Drain

Spec == Init /\ [][Next]_vars

-----------------------------------------------------------------------------
(* Properties.                                                              *)

\* The document warnings of the stream with message m, by position.
Fired(m) == {i \in DOMAIN fired : /\ fired[i].group = Document
                                  /\ fired[i].severity = "Warning"
                                  /\ Message(fired[i]) = m}
FirstOf(S) == CHOOSE i \in S : \A j \in S : i <= j

\* The first warning of the sink, the one the document shows, is the first
\* one fired, and no distinct warning is lost, repeated or out of order:
\* WAS_WARNED keeps the first occurrences in order.
WarningsInOrder ==
  drained =>
    /\ \A i \in DOMAIN fired :
         fired[i].group = Document /\ fired[i].severity = "Warning" =>
           \E p \in DOMAIN warnings : warnings[p].message = Message(fired[i])
    /\ \A p, q \in DOMAIN warnings :
         p < q => FirstOf(Fired(warnings[p].message)) < FirstOf(Fired(warnings[q].message))

\* A warning's " [x<n>]" is 1 plus the repetitions that may be counted; the
\* minor and the Minor form of a text are counted apart.
CountsExact ==
  \A p \in DOMAIN warnings :
    LET all == Fired(warnings[p].message) IN
    warnings[p].count =
      1 + Cardinality({i \in all \ {FirstOf(all)} : ~fired[i].no_count})
=============================================================================
