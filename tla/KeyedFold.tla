----------------------------- MODULE KeyedFold -----------------------------
(***************************************************************************)
(* What a tag sink promises, whatever it is made of: a map from identities *)
(* to tags, and the order in which the identities were first seen.  A tag  *)
(* claims a new identity, or overrides the tag its identity keeps when     *)
(* ExifTool's duplicate rule says so; any other tag changes nothing.       *)
(* TagMap and the vector of TagSinks implement it, with two notions of     *)
(* identity: the whole key, and the family-1 group and name alone.         *)
(***************************************************************************)
EXTENDS Duplicates

CONSTANTS
  Offered,  \* the tags a walk may hand to the sink
  Identity  \* a function on them: what makes two tags duplicates

VARIABLES
  order,  \* the identities seen, in the order of their first tags
  kept    \* identity -> the tag it keeps

foldVars == <<order, kept>>

Stored(t) == [key |-> t.key, priority |-> TagPriority(t), value |-> t.value,
              family0 |-> t.family0]

Claim(t) ==
  /\ Identity[t] \notin DOMAIN kept
  /\ order' = Append(order, Identity[t])
  /\ kept' = [k \in DOMAIN kept \cup {Identity[t]} |->
                IF k = Identity[t] THEN Stored(t) ELSE kept[k]]

Override(t) ==
  /\ Identity[t] \in DOMAIN kept
  /\ DedupOverride(TagPriority(t), kept[Identity[t]].priority)
  /\ kept' = [kept EXCEPT ![Identity[t]] = Stored(t)]
  /\ UNCHANGED order

FoldInit ==
  /\ order = <<>>
  /\ kept = <<>>

FoldNext == \E t \in Offered : Claim(t) \/ Override(t)

FoldSpec == FoldInit /\ [][FoldNext]_foldVars
=============================================================================
