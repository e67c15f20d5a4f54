--------------------------- MODULE TagSinksProofs ---------------------------
(***************************************************************************)
(* Machine-checked proofs about the duplicate rule and the two sinks of a  *)
(* walk: the rule folded over a walk keeps the Best of it, the map and the *)
(* vector keep the winner of each key, both implement the abstract fold,   *)
(* and the document of a walk rendered under -G3 has no key twice, for     *)
(* every walk, every set of tags and every bound.                          *)
(***************************************************************************)
EXTENDS TagSinks, SequenceTheorems, TLAPS

USE BoundsAssumption

-----------------------------------------------------------------------------
(* The duplicate rule, one tag at a time, for any set of positions.         *)

\* The first tag under a key is the best of the one there is.
THEOREM BestOfOne ==
  ASSUME NEW w, NEW n \in Nat, TagPriority(w[n]) \in Nat
  PROVE  Best(w, {n}, n)
BY DEF Best

\* A duplicate that overrides the best so far is the best from then on.
THEOREM BestReplaced ==
  ASSUME NEW w, NEW S, \A j \in S : j \in Nat /\ TagPriority(w[j]) \in Nat,
         NEW n \in Nat, \A j \in S : j < n, TagPriority(w[n]) \in Nat,
         NEW i, Best(w, S, i),
         DedupOverride(TagPriority(w[n]), TagPriority(w[i]))
  PROVE  Best(w, S \cup {n}, n)
BY DEF Best, DedupOverride

\* A duplicate that does not override it leaves it the best.
THEOREM BestKept ==
  ASSUME NEW w, NEW S, \A j \in S : j \in Nat /\ TagPriority(w[j]) \in Nat,
         NEW n \in Nat, \A j \in S : j < n, TagPriority(w[n]) \in Nat,
         NEW i, Best(w, S, i),
         ~DedupOverride(TagPriority(w[n]), TagPriority(w[i]))
  PROVE  Best(w, S \cup {n}, i)
BY DEF Best, DedupOverride

\* Only the tags at the positions compared matter.
THEOREM BestSame ==
  ASSUME NEW w, NEW v, NEW S, \A j \in S : v[j] = w[j], NEW i, Best(w, S, i)
  PROVE  Best(v, S, i)
BY DEF Best, TagPriority

\* Two positions cannot both be the best: the surviving value is determined.
THEOREM BestUnique ==
  ASSUME NEW w, NEW S, \A j \in S : j \in Nat /\ TagPriority(w[j]) \in Nat,
         NEW i, Best(w, S, i), NEW k, Best(w, S, k)
  PROVE  i = k
BY DEF Best

-----------------------------------------------------------------------------
(* TagMap, the sink of a walk.                                              *)

\* The effective priority of a tag is a u8, like the one it was given.
LEMMA TagPriorityType ==
  ASSUME NEW t \in Emissions
  PROVE  t \in Emission /\ TagPriority(t) \in 0..MaxPriority
<1>1. t \in Emission
  BY EmissionsAssumption
<1> QED
  BY <1>1 DEF Emission, Key, TagPriority, EffectivePriority

\* The fields of a fresh entry.
LEMMA NewEntryFields ==
  ASSUME NEW t
  PROVE  /\ NewEntry(t).key = t.key
         /\ NewEntry(t).priority = TagPriority(t)
         /\ NewEntry(t).value = t.value
         /\ NewEntry(t).family0 = t.family0
         /\ NewEntry(t).seq = next_seq
BY DEF NewEntry

\* A fresh entry is well-formed.
LEMMA NewEntryType ==
  ASSUME TypeOK, NEW t \in Emissions
  PROVE  NewEntry(t) \in Entry
BY TagPriorityType DEF TypeOK, NewEntry, Entry, Emission

\* What one more step of the walk does to the history.
LEMMA WalkAppends ==
  ASSUME TypeOK, NEW t \in Emissions, Walk(t)
  PROVE  /\ walked' \in Seq(Emissions)
         /\ DOMAIN walked' = DOMAIN walked \cup {Len(walked) + 1}
         /\ Len(walked) + 1 \notin DOMAIN walked
         /\ \A i \in DOMAIN walked : i \in Nat /\ i < Len(walked) + 1 /\ walked'[i] = walked[i]
         /\ walked'[Len(walked) + 1] = t
BY AppendProperties, LenProperties DEF TypeOK, Walk

\* ... and to the set of positions seen under each key.
LEMMA SeenAfterWalk ==
  ASSUME TypeOK, NEW t \in Emissions, Walk(t), NEW k
  PROVE  Seen(walked', k) = IF ~t.unknown /\ t.key = k
                            THEN Seen(walked, k) \cup {Len(walked) + 1}
                            ELSE Seen(walked, k)
BY WalkAppends DEF Seen

-----------------------------------------------------------------------------
\* Type correctness of the sink: one step per action.
LEMMA TypeInductive ==
  ASSUME TypeOK, [Next]_vars
  PROVE  TypeOK'
<1> SUFFICES ASSUME NEW t \in Emissions,
                    SkipUnknown(t) \/ Push(t) \/ Replace(t) \/ Keep(t)
             PROVE  TypeOK'
  BY DEF Next, vars, TypeOK
<1>1. walked' \in Seq(Emissions)
  BY WalkAppends DEF SkipUnknown, Push, Replace, Keep
<1>2. NextSeq \in 0..MaxSeq
  BY DEF TypeOK, NextSeq
<1>3. CASE SkipUnknown(t)
  BY <1>1, <1>3 DEF TypeOK, SkipUnknown
<1>4. CASE Keep(t)
  BY <1>1, <1>2, <1>4 DEF TypeOK, Keep
<1>5. CASE Push(t)
  <2>1. entries' \in Seq(Entry) /\ DOMAIN entries' = DOMAIN entries \cup {NewSlot}
    BY <1>5, NewEntryType, AppendProperties, LenProperties DEF TypeOK, Push, NewSlot
  <2>2. t.key \in Key
    BY TagPriorityType DEF Emission
  <2> QED
    BY <1>1, <1>2, <1>5, <2>1, <2>2 DEF TypeOK, Push
<1>6. CASE Replace(t)
  <2>1. Replaced(t) \in Entry
    <3>1. index[t.key] \in 1..Len(entries)
      BY <1>6, LenProperties DEF TypeOK, Replace
    <3>2. entries[index[t.key]] \in Entry
      BY <3>1, ElementOfSeq DEF TypeOK
    <3>3. NewEntry(t) \in Entry
      BY NewEntryType
    <3> QED
      BY <3>2, <3>3 DEF Replaced, Entry
  <2>2. entries' \in Seq(Entry) /\ DOMAIN entries' = DOMAIN entries
    BY <1>6, <2>1, ExceptSeq, LenProperties DEF TypeOK, Replace
  <2> QED
    BY <1>1, <1>2, <1>6, <2>2 DEF TypeOK, Replace
<1> QED
  BY <1>3, <1>4, <1>5, <1>6

\* The sink is well-typed in every reachable state.
THEOREM TypeCorrect == Spec => []TypeOK
<1>1. Init => TypeOK
  BY EmptySeq DEF Init, TypeOK
<1>2. TypeOK /\ [Next]_vars => TypeOK'
  BY TypeInductive
<1> QED
  BY <1>1, <1>2, PTL DEF Spec

-----------------------------------------------------------------------------
(* What the two writing actions do to the slots.                            *)

LEMMA PushShape ==
  ASSUME TypeOK, NEW t \in Emissions, Push(t)
  PROVE  /\ DOMAIN entries' = DOMAIN entries \cup {NewSlot}
         /\ \A p \in DOMAIN entries : p \in Nat /\ p < NewSlot /\ entries'[p] = entries[p]
         /\ entries'[NewSlot] = NewEntry(t)
         /\ NewSlot \in Nat
         /\ DOMAIN index' = DOMAIN index \cup {t.key}
         /\ \A k \in DOMAIN index' : index'[k] = IF k = t.key THEN NewSlot ELSE index[k]
<1>1. NewEntry(t) \in Entry
  BY NewEntryType
<1>2. entries \in Seq(Entry) /\ entries' = Append(entries, NewEntry(t))
  BY DEF TypeOK, Push
<1>3. /\ DOMAIN entries' = DOMAIN entries \cup {NewSlot}
      /\ \A p \in DOMAIN entries : p \in Nat /\ p < NewSlot /\ entries'[p] = entries[p]
      /\ entries'[NewSlot] = NewEntry(t)
      /\ NewSlot \in Nat
  BY <1>1, <1>2, AppendProperties, LenProperties DEF NewSlot
<1> QED
  BY <1>3 DEF Push

LEMMA ReplaceShape ==
  ASSUME TypeOK, NEW t \in Emissions, Replace(t)
  PROVE  /\ DOMAIN entries' = DOMAIN entries
         /\ index[t.key] \in DOMAIN entries
         /\ \A p \in DOMAIN entries :
              entries'[p] = IF p = index[t.key] THEN Replaced(t) ELSE entries[p]
         /\ Replaced(t).key = t.key
         /\ Replaced(t).priority = TagPriority(t)
         /\ Replaced(t).value = t.value
         /\ Replaced(t).family0 = t.family0
         /\ Replaced(t).seq = entries[index[t.key]].seq
<1>1. index[t.key] \in DOMAIN entries
  BY DEF TypeOK, Replace
<1>2. /\ DOMAIN entries' = DOMAIN entries
      /\ \A p \in DOMAIN entries :
           entries'[p] = IF p = index[t.key] THEN Replaced(t) ELSE entries[p]
  BY <1>1, LenProperties DEF TypeOK, Replace
<1>3. NewEntry(t) = [key |-> t.key, priority |-> TagPriority(t), value |-> t.value,
                     family0 |-> t.family0, seq |-> next_seq]
  BY DEF NewEntry
<1>4. /\ Replaced(t).key = t.key
      /\ Replaced(t).priority = TagPriority(t)
      /\ Replaced(t).value = t.value
      /\ Replaced(t).family0 = t.family0
      /\ Replaced(t).seq = entries[index[t.key]].seq
  BY <1>3 DEF Replaced
<1> QED
  BY <1>1, <1>2, <1>4

LEMMA EntryTyped ==
  ASSUME TypeOK, NEW p \in DOMAIN entries
  PROVE  /\ p \in Nat
         /\ entries[p].key \in Key
         /\ entries[p].priority \in Nat
         /\ entries[p].seq \in Nat
         /\ entries[p].seq <= MaxSeq
<1>1. p \in 1..Len(entries)
  BY LenProperties DEF TypeOK
<1>2. entries[p] \in Entry
  BY <1>1, ElementOfSeq DEF TypeOK
<1> QED
  BY <1>1, <1>2 DEF Entry

\* The step of the walk that each action takes, in one place.
LEMMA StepWalks ==
  ASSUME NEW t, SkipUnknown(t) \/ Push(t) \/ Replace(t) \/ Keep(t)
  PROVE  Walk(t)
BY DEF SkipUnknown, Push, Replace, Keep

-----------------------------------------------------------------------------
(* The index is exact.                                                      *)

LEMMA IndexInductive ==
  ASSUME TypeOK, IndexExact, [Next]_vars
  PROVE  IndexExact'
<1> SUFFICES ASSUME NEW t \in Emissions,
                    SkipUnknown(t) \/ Push(t) \/ Replace(t) \/ Keep(t)
             PROVE  IndexExact'
  BY DEF Next, vars, IndexExact, Seen
<1>0. t.key \in Key
  BY TagPriorityType DEF Emission
<1>1. \A k : Seen(walked', k) = IF ~t.unknown /\ t.key = k
                                THEN Seen(walked, k) \cup {Len(walked) + 1}
                                ELSE Seen(walked, k)
  BY StepWalks, SeenAfterWalk
<1>2. CASE SkipUnknown(t)
  BY <1>1, <1>2 DEF IndexExact, SkipUnknown
<1>3. CASE Keep(t)
  BY <1>1, <1>3 DEF IndexExact, Keep
<1>4. CASE Push(t)
  <2>1. \A k \in DOMAIN index' : entries'[index'[k]].key = k
    <3> SUFFICES ASSUME NEW k \in DOMAIN index'
                 PROVE  entries'[index'[k]].key = k
      OBVIOUS
    <3>1. CASE k = t.key
      <4>1. index'[k] = NewSlot
        BY <1>4, <3>1, PushShape
      <4>2. entries'[NewSlot].key = t.key
        BY <1>4, PushShape, NewEntryFields
      <4> QED
        BY <3>1, <4>1, <4>2
    <3>2. CASE k # t.key
      <4>1. k \in DOMAIN index /\ index'[k] = index[k]
        BY <1>4, <3>2, PushShape, ZenonT(60)
      <4>2. index[k] \in DOMAIN entries /\ entries[index[k]].key = k
        BY <4>1 DEF IndexExact, TypeOK
      <4>3. entries'[index[k]] = entries[index[k]]
        BY <1>4, <4>2, PushShape
      <4> QED
        BY <4>1, <4>2, <4>3
    <3> QED
      BY <3>1, <3>2
  <2>2. \A p \in DOMAIN entries' : entries'[p].key \in DOMAIN index' /\ index'[entries'[p].key] = p
    BY <1>4, PushShape, NewEntryFields DEF IndexExact, Push
  <2>3. \A k \in Key : k \in DOMAIN index' <=> Seen(walked', k) # {}
    <3>1. DOMAIN index' = DOMAIN index \cup {t.key} /\ ~t.unknown
      BY <1>4, PushShape DEF Push
    <3>2. \A k \in Key : k \in DOMAIN index <=> Seen(walked, k) # {}
      BY DEF IndexExact
    <3> QED
      BY <1>1, <3>1, <3>2
  <2> QED
    BY <2>1, <2>2, <2>3 DEF IndexExact
<1>5. CASE Replace(t)
  <2>1. \A p \in DOMAIN entries : entries'[p].key = entries[p].key
    BY <1>5, ReplaceShape DEF IndexExact, Replace
  <2>2. index' = index /\ t.key \in DOMAIN index /\ ~t.unknown
    BY <1>5 DEF Replace
  <2>3. \A k \in DOMAIN index' : entries'[index'[k]].key = k
    BY <2>1, <2>2 DEF IndexExact, TypeOK
  <2>4. \A p \in DOMAIN entries' : entries'[p].key \in DOMAIN index' /\ index'[entries'[p].key] = p
    BY <1>5, <2>1, <2>2, ReplaceShape DEF IndexExact
  <2>5. \A k \in Key : k \in DOMAIN index' <=> Seen(walked', k) # {}
    <3>1. \A k \in Key : k \in DOMAIN index <=> Seen(walked, k) # {}
      BY DEF IndexExact
    <3> QED
      BY <1>0, <1>1, <2>2, <3>1
  <2> QED
    BY <2>3, <2>4, <2>5 DEF IndexExact
<1> QED
  BY <1>2, <1>3, <1>4, <1>5

\* The index and the entries describe the same map in every reachable state.
THEOREM IndexAlwaysExact == Spec => []IndexExact
<1>1. Init => IndexExact
  BY DEF Init, IndexExact, Seen
<1>2. TypeOK /\ IndexExact /\ [Next]_vars => IndexExact'
  BY IndexInductive
<1> QED
  BY <1>1, <1>2, TypeCorrect, PTL DEF Spec

-----------------------------------------------------------------------------
(* The surviving entry is the winner of the whole walk.                     *)

\* Positions seen under a key are numbers, and the tags there are typed.
LEMMA SeenTyped ==
  ASSUME TypeOK, NEW k
  PROVE  \A i \in Seen(walked, k) :
           /\ i \in DOMAIN walked
           /\ i \in Nat
           /\ TagPriority(walked[i]) \in Nat
<1> SUFFICES ASSUME NEW i \in Seen(walked, k)
             PROVE  i \in DOMAIN walked /\ i \in Nat /\ TagPriority(walked[i]) \in Nat
  OBVIOUS
<1>1. i \in DOMAIN walked /\ i \in Nat /\ walked[i] \in Emissions
  BY LenProperties, ElementOfSeq DEF Seen, TypeOK
<1> QED
  BY <1>1, TagPriorityType

LEMMA WinnerInductive ==
  ASSUME TypeOK, IndexExact, SurvivorIsWinner, [Next]_vars
  PROVE  SurvivorIsWinner'
<1>1. CASE UNCHANGED vars
  BY <1>1 DEF vars, SurvivorIsWinner
<1>2. ASSUME NEW t \in Emissions,
             SkipUnknown(t) \/ Push(t) \/ Replace(t) \/ Keep(t)
      PROVE  SurvivorIsWinner'
  <2> DEFINE n == Len(walked) + 1
  <2>0. Walk(t) /\ t.key \in Key /\ TagPriority(t) \in Nat
    BY <1>2, StepWalks, TagPriorityType DEF Emission
  <2>1. \A k : Seen(walked', k) = IF ~t.unknown /\ t.key = k
                                  THEN Seen(walked, k) \cup {n} ELSE Seen(walked, k)
    BY <2>0, SeenAfterWalk
  <2>2. /\ walked'[n] = t
        /\ n \in Nat
        /\ n \in DOMAIN walked'
        /\ \A i \in DOMAIN walked : i \in DOMAIN walked' /\ walked'[i] = walked[i] /\ i < n
    BY <2>0, WalkAppends, LenProperties DEF TypeOK
  \* The old winner of a key is still the best of the old positions.
  <2>3. ASSUME NEW i \in DOMAIN walked, NEW e, Holds(walked, i, e)
        PROVE  /\ Best(walked', Seen(walked, e.key), i)
               /\ walked'[i] = walked[i]
               /\ \A j \in Seen(walked, e.key) :
                    j \in Nat /\ j < n /\ TagPriority(walked'[j]) \in Nat
    <3>1. \A j \in Seen(walked, e.key) : walked'[j] = walked[j]
      BY <2>2, SeenTyped
    <3>2. Best(walked', Seen(walked, e.key), i)
      BY <2>3, <3>1, BestSame DEF Holds
    <3> QED
      BY <2>2, <3>1, <3>2, SeenTyped
  \* An entry under whose key nothing was seen in this step keeps its winner.
  <2>4. ASSUME NEW i \in DOMAIN walked, NEW e, Holds(walked, i, e), t.unknown \/ t.key # e.key
        PROVE  Holds(walked', i, e)
    BY <2>1, <2>3, <2>4 DEF Holds
  <2>5. ASSUME NEW p \in DOMAIN entries, t.unknown \/ t.key # entries[p].key
        PROVE  \E i \in DOMAIN walked' : Holds(walked', i, entries[p])
    BY <2>2, <2>4, <2>5 DEF SurvivorIsWinner
  <2>6. CASE SkipUnknown(t)
    BY <2>5, <2>6 DEF SkipUnknown, SurvivorIsWinner
  <2>7. CASE Keep(t)
    <3>1. SUFFICES ASSUME NEW p \in DOMAIN entries, t.key = entries[p].key
                   PROVE  \E i \in DOMAIN walked' : Holds(walked', i, entries[p])
      BY <2>5, <2>7 DEF Keep, SurvivorIsWinner
    <3>2. PICK i \in DOMAIN walked : Holds(walked, i, entries[p])
      BY DEF SurvivorIsWinner
    <3>3. ~DedupOverride(TagPriority(walked'[n]), TagPriority(walked'[i]))
      BY <2>2, <2>3, <2>7, <3>1, <3>2 DEF Keep, Overrides, Holds, IndexExact
    <3>4. Best(walked', Seen(walked, t.key) \cup {n}, i)
      BY <2>0, <2>2, <2>3, <3>1, <3>2, <3>3, BestKept
    <3>5. Seen(walked', t.key) = Seen(walked, t.key) \cup {n}
      BY <2>1, <2>7 DEF Keep
    <3> QED
      BY <2>2, <3>1, <3>2, <3>4, <3>5 DEF Holds
  <2>8. CASE Push(t)
    <3>1. ASSUME NEW p \in DOMAIN entries
          PROVE  \E i \in DOMAIN walked' : Holds(walked', i, entries'[p])
      <4>1. entries'[p] = entries[p] /\ t.key # entries[p].key
        BY <2>8, PushShape DEF IndexExact, Push
      <4> QED
        BY <2>5, <4>1
    <3>2. Holds(walked', n, NewEntry(t))
      <4>1. Seen(walked', t.key) = {n}
        BY <2>0, <2>1, <2>8 DEF IndexExact, Push
      <4>2. Best(walked', {n}, n)
        BY <2>0, <2>2, BestOfOne
      <4> QED
        BY <2>2, <4>1, <4>2, NewEntryFields DEF Holds
    <3> QED
      BY <2>2, <2>8, <3>1, <3>2, PushShape, ZenonT(60) DEF SurvivorIsWinner
  <2>9. CASE Replace(t)
    <3>1. ASSUME NEW p \in DOMAIN entries, p # index[t.key]
          PROVE  \E i \in DOMAIN walked' : Holds(walked', i, entries'[p])
      <4>1. entries'[p] = entries[p] /\ t.key # entries[p].key
        BY <2>9, <3>1, ReplaceShape DEF IndexExact
      <4> QED
        BY <2>5, <4>1
    <3>2. Holds(walked', n, Replaced(t))
      <4> DEFINE e == entries[index[t.key]]
      <4>1. e.key = t.key
        BY <2>9 DEF IndexExact, Replace
      <4>2. PICK i \in DOMAIN walked : Holds(walked, i, e)
        BY <2>9, ReplaceShape DEF SurvivorIsWinner
      <4>3. DedupOverride(TagPriority(walked'[n]), TagPriority(walked'[i]))
        BY <2>2, <2>3, <2>9, <4>2 DEF Replace, Overrides, Holds
      <4>4. Best(walked', Seen(walked, t.key) \cup {n}, n)
        BY <2>0, <2>2, <2>3, <4>1, <4>2, <4>3, BestReplaced
      <4>5. Seen(walked', t.key) = Seen(walked, t.key) \cup {n}
        BY <2>1, <2>9 DEF Replace
      <4> QED
        BY <2>2, <2>9, <4>4, <4>5, ReplaceShape DEF Holds
    <3> QED
      BY <2>2, <2>9, <3>1, <3>2, ReplaceShape DEF SurvivorIsWinner
  <2> QED
    BY <1>2, <2>6, <2>7, <2>8, <2>9
<1> QED
  BY <1>1, <1>2 DEF Next

\* Whatever the order of a walk, each entry holds the value, priority and
\* family 0 of the one tag ExifTool's rule keeps.
THEOREM SurvivorIsAlwaysWinner == Spec => []SurvivorIsWinner
<1>1. Init => SurvivorIsWinner
  BY DEF Init, SurvivorIsWinner
<1>2. TypeOK /\ IndexExact /\ SurvivorIsWinner /\ [Next]_vars => SurvivorIsWinner'
  BY WinnerInductive
<1> QED
  BY <1>1, <1>2, TypeCorrect, IndexAlwaysExact, PTL DEF Spec

-----------------------------------------------------------------------------
(* Slots are in walk order, and seq agrees with it.                         *)

\* next_seq is above every stamp given out, until it saturates.
SeqBelowNext ==
  \A p \in DOMAIN entries :
    /\ entries[p].seq <= next_seq
    /\ entries[p].seq < MaxSeq => entries[p].seq < next_seq

OrderInv == WalkOrder /\ SeqBelowNext

LEMMA OrderInductive ==
  ASSUME TypeOK, IndexExact, OrderInv, [Next]_vars
  PROVE  OrderInv'
<1>1. CASE UNCHANGED vars
  BY <1>1 DEF vars, OrderInv, WalkOrder, SeqBelowNext
<1>2. ASSUME NEW t \in Emissions,
             SkipUnknown(t) \/ Push(t) \/ Replace(t) \/ Keep(t)
      PROVE  OrderInv'
  <2> DEFINE n == Len(walked) + 1
  <2>0. Walk(t) /\ t.key \in Key
    BY <1>2, StepWalks, TagPriorityType DEF Emission
  <2>1. \A k : Seen(walked', k) = IF ~t.unknown /\ t.key = k
                                  THEN Seen(walked, k) \cup {n} ELSE Seen(walked, k)
    BY <2>0, SeenAfterWalk
  <2>2. \A p \in DOMAIN entries : /\ entries[p].seq \in Nat
                                 /\ p \in Nat
                                 /\ entries[p].seq <= MaxSeq
                                 /\ entries[p].key \in Key
    BY EntryTyped
  <2>3. /\ next_seq \in Nat /\ next_seq <= MaxSeq /\ MaxSeq \in Nat
        /\ NextSeq \in Nat /\ next_seq <= NextSeq
        /\ next_seq < MaxSeq => next_seq < NextSeq
    BY DEF TypeOK, NextSeq
  \* A key seen before another one stays seen before it.
  <2>4. ASSUME NEW k, NEW l, Precedes(walked, k, l)
        PROVE  Precedes(walked', k, l)
    <3>1. PICK i \in Seen(walked, k) : \A j \in Seen(walked, l) : i < j
      BY <2>4 DEF Precedes
    <3>2. i < n /\ i \in Seen(walked', k)
      BY <2>0, <2>1, <3>1, SeenTyped, WalkAppends
    <3> QED
      BY <2>1, <3>1, <3>2 DEF Precedes
  <2>5. CASE SkipUnknown(t)
    BY <2>4, <2>5 DEF SkipUnknown, OrderInv, WalkOrder, SeqBelowNext
  <2>6. CASE Keep(t)
    <3>1. WalkOrder'
      BY <2>4, <2>6 DEF Keep, OrderInv, WalkOrder
    <3>2. SeqBelowNext'
      BY <2>2, <2>3, <2>6 DEF Keep, OrderInv, SeqBelowNext
    <3> QED
      BY <3>1, <3>2 DEF OrderInv
  <2>7. CASE Replace(t)
    <3>1. /\ DOMAIN entries' = DOMAIN entries
          /\ \A p \in DOMAIN entries : /\ entries'[p].key = entries[p].key
                                       /\ entries'[p].seq = entries[p].seq
      BY <2>7, ReplaceShape DEF Replace, IndexExact
    <3>2. next_seq' = NextSeq
      BY <2>7 DEF Replace
    <3>3. WalkOrder'
      BY <2>4, <3>1 DEF OrderInv, WalkOrder
    <3>4. SeqBelowNext'
      BY <2>2, <2>3, <3>1, <3>2 DEF OrderInv, SeqBelowNext
    <3> QED
      BY <3>3, <3>4 DEF OrderInv
  <2>8. CASE Push(t)
    <3>1. /\ DOMAIN entries' = DOMAIN entries \cup {NewSlot}
          /\ \A p \in DOMAIN entries : p < NewSlot /\ entries'[p] = entries[p]
          /\ entries'[NewSlot].key = t.key
          /\ entries'[NewSlot].seq = next_seq
          /\ NewSlot \in Nat
          /\ next_seq' = NextSeq
      BY <2>8, PushShape, NewEntryFields DEF Push
    <3>2. \A p \in DOMAIN entries : Precedes(walked', entries[p].key, t.key)
      <4> SUFFICES ASSUME NEW p \in DOMAIN entries
                   PROVE  Precedes(walked', entries[p].key, t.key)
        OBVIOUS
      <4>1. Seen(walked, t.key) = {} /\ Seen(walked', t.key) = {n}
        BY <2>0, <2>1, <2>8 DEF IndexExact, Push
      <4>2. PICK i : i \in Seen(walked, entries[p].key)
        BY <2>2 DEF IndexExact
      <4>3. i < n /\ i \in Seen(walked', entries[p].key)
        BY <2>0, <2>1, <4>2, SeenTyped, WalkAppends
      <4> QED
        BY <4>1, <4>3 DEF Precedes
    <3>3. WalkOrder'
      <4> SUFFICES ASSUME NEW p \in DOMAIN entries', NEW q \in DOMAIN entries', p < q
                   PROVE  /\ Precedes(walked', entries'[p].key, entries'[q].key)
                          /\ entries'[p].seq <= entries'[q].seq
                          /\ entries'[p].seq < MaxSeq => entries'[p].seq < entries'[q].seq
        BY DEF WalkOrder
      <4>1. p \in DOMAIN entries
        BY <2>2, <3>1
      <4>2. CASE q \in DOMAIN entries
        BY <2>4, <3>1, <4>1, <4>2 DEF OrderInv, WalkOrder
      <4>3. CASE q = NewSlot
        BY <3>1, <3>2, <4>1, <4>3 DEF OrderInv, SeqBelowNext
      <4> QED
        BY <3>1, <4>2, <4>3
    <3>4. SeqBelowNext'
      BY <2>2, <2>3, <3>1 DEF OrderInv, SeqBelowNext
    <3> QED
      BY <3>3, <3>4 DEF OrderInv
  <2> QED
    BY <1>2, <2>5, <2>6, <2>7, <2>8
<1> QED
  BY <1>1, <1>2 DEF Next

\* The order of slots is the order of first occurrence, and no saturation of
\* next_seq ever makes seq disagree with it.
THEOREM WalkOrderAlways == Spec => []WalkOrder
<1>1. Init => OrderInv
  BY DEF Init, OrderInv, WalkOrder, SeqBelowNext
<1>2. TypeOK /\ IndexExact /\ OrderInv /\ [Next]_vars => OrderInv'
  BY OrderInductive
<1>3. OrderInv => WalkOrder
  BY DEF OrderInv
<1> QED
  BY <1>1, <1>2, <1>3, TypeCorrect, IndexAlwaysExact, PTL DEF Spec

-----------------------------------------------------------------------------
(* Slots are stable.                                                        *)

\* No step moves, renames or re-stamps a slot, or lowers its priority.
THEOREM SlotsAlwaysStable == Spec => SlotsStable
<1>1. TypeOK /\ IndexExact /\ [Next]_vars => [SlotStep]_vars
  <2> SUFFICES ASSUME TypeOK, IndexExact, NEW t \in Emissions,
                      SkipUnknown(t) \/ Push(t) \/ Replace(t) \/ Keep(t)
               PROVE  SlotStep
    BY DEF Next
  <2>0. \A p \in DOMAIN entries : entries[p].priority \in Nat
    BY EntryTyped
  <2>1. CASE SkipUnknown(t) \/ Keep(t)
    <3>1. entries' = entries
      BY <2>1 DEF SkipUnknown, Keep
    <3> QED
      BY <2>0, <3>1 DEF SlotStep
  <2>2. CASE Push(t)
    <3>1. \A p \in DOMAIN entries : p \in DOMAIN entries' /\ entries'[p] = entries[p]
      BY <2>2, PushShape
    <3> QED
      BY <2>0, <3>1 DEF SlotStep
  <2>3. CASE Replace(t)
    <3>1. TagPriority(t) >= entries[index[t.key]].priority
      BY <2>3 DEF Replace, Overrides, DedupOverride
    <3>2. entries[index[t.key]].key = t.key
      BY <2>3 DEF IndexExact, Replace
    <3> QED
      BY <2>0, <2>3, <3>1, <3>2, ReplaceShape DEF SlotStep
  <2> QED
    BY <2>1, <2>2, <2>3
<1> QED
  BY <1>1, TypeCorrect, IndexAlwaysExact, PTL DEF Spec, SlotsStable

-----------------------------------------------------------------------------
(* TagMap implements the abstract map with the rule.                        *)

\* The abstract map applies the rule the sink does.
LEMMA FoldRule ==
  /\ \A t : MapFold!TagPriority(t) = TagPriority(t)
  /\ \A new, stored : MapFold!DedupOverride(new, stored) = DedupOverride(new, stored)
BY DEF TagPriority, EffectivePriority, PseudoTags, DedupOverride, MapFold!TagPriority,
       MapFold!EffectivePriority, MapFold!PseudoTags, MapFold!DedupOverride

LEMMA FoldOrderType ==
  ASSUME TypeOK
  PROVE  FoldOrder \in Seq(Key) /\ Len(FoldOrder) = Len(entries)
<1>1. FoldOrder \in [1..Len(entries) -> Key] /\ Len(entries) \in Nat
  BY EntryTyped, LenProperties DEF FoldOrder, TypeOK
<1>2. FoldOrder \in Seq(Key)
  BY <1>1, SeqDef
<1> QED
  BY <1>1, <1>2, LenProperties

LEMMA PushClaims ==
  ASSUME TypeOK, IndexExact, NEW t \in Emissions, Push(t)
  PROVE  MapFold!Claim(t)
<1>0. t.key \in Key /\ ~t.unknown /\ t.key \notin DOMAIN index
  BY TagPriorityType DEF Emission, Push
<1>1. FoldOrder' = Append(FoldOrder, t.key)
  <2>1. FoldOrder \in Seq(Key) /\ Len(FoldOrder) = Len(entries)
    BY FoldOrderType
  <2>2. entries' \in Seq(Entry) /\ DOMAIN entries' = 1..(Len(entries) + 1)
    BY NewEntryType, AppendProperties, LenProperties DEF TypeOK, Push
  <2>3. /\ Append(FoldOrder, t.key) \in Seq(Key)
        /\ Len(Append(FoldOrder, t.key)) = Len(entries) + 1
        /\ \A p \in 1..Len(entries) : Append(FoldOrder, t.key)[p] = FoldOrder[p]
        /\ Append(FoldOrder, t.key)[Len(entries) + 1] = t.key
    BY <1>0, <2>1, AppendProperties
  <2>4. \A p \in 1..(Len(entries) + 1) : entries'[p].key = Append(FoldOrder, t.key)[p]
    <3>1. \A p \in 1..Len(entries) : FoldOrder[p] = entries[p].key
      BY <2>1, LenProperties DEF FoldOrder
    <3>2. /\ entries'[Len(entries) + 1] = NewEntry(t)
          /\ \A p \in 1..Len(entries) : entries'[p] = entries[p]
      BY PushShape, LenProperties DEF NewSlot, TypeOK
    <3>3. entries'[Len(entries) + 1].key = t.key
      BY <3>2, NewEntryFields
    <3>4. Len(entries) \in Nat
      BY LenProperties DEF TypeOK
    <3> QED
      BY <2>3, <3>1, <3>2, <3>3, <3>4
  <2>5. Append(FoldOrder, t.key) =
          [p \in 1..(Len(entries) + 1) |-> Append(FoldOrder, t.key)[p]]
    BY <2>3, LenProperties
  <2>6. FoldOrder' = [p \in 1..(Len(entries) + 1) |-> entries'[p].key]
    BY <2>2 DEF FoldOrder
  <2> QED
    BY <2>4, <2>5, <2>6
<1>2. FoldKept' = [k \in DOMAIN FoldKept \cup {t.key} |->
                     IF k = t.key THEN MapFold!Stored(t) ELSE FoldKept[k]]
  <2>1. \A k \in DOMAIN index :
          index'[k] = index[k] /\ entries'[index[k]] = entries[index[k]]
    BY <1>0, PushShape DEF TypeOK
  <2>2. Content(entries'[index'[t.key]]) = MapFold!Stored(t)
    <3>1. entries'[index'[t.key]] = NewEntry(t)
      <4>1. t.key \in DOMAIN index' /\ index'[t.key] = NewSlot
        BY PushShape
      <4> QED
        BY <4>1, PushShape
    <3> QED
      BY <3>1, NewEntryFields, FoldRule DEF Content, MapFold!Stored
  <2>3. DOMAIN index' = DOMAIN index \cup {t.key}
    BY PushShape
  <2>4. \A k \in DOMAIN index' :
          Content(entries'[index'[k]]) = IF k = t.key THEN MapFold!Stored(t) ELSE FoldKept[k]
    BY <1>0, <2>1, <2>2, <2>3 DEF FoldKept
  <2>5. FoldKept' = [k \in DOMAIN index' |-> Content(entries'[index'[k]])]
    BY DEF FoldKept, Content
  <2> QED
    BY <2>3, <2>4, <2>5 DEF FoldKept
<1> QED
  BY <1>0, <1>1, <1>2 DEF MapFold!Claim, FoldKept

LEMMA ReplaceOverrides ==
  ASSUME TypeOK, IndexExact, NEW t \in Emissions, Replace(t)
  PROVE  MapFold!Override(t)
<1>0. /\ ~t.unknown /\ t.key \in DOMAIN index
      /\ index' = index
      /\ DedupOverride(TagPriority(t), entries[index[t.key]].priority)
  BY DEF Replace, Overrides
<1>1. FoldOrder' = FoldOrder
  <2>1. DOMAIN entries' = DOMAIN entries
    BY ReplaceShape
  <2>2. \A p \in DOMAIN entries : entries'[p].key = entries[p].key
    BY <1>0, ReplaceShape DEF IndexExact
  <2> QED
    BY <2>1, <2>2 DEF FoldOrder
<1>2. FoldKept' = [FoldKept EXCEPT ![t.key] = MapFold!Stored(t)]
  <2>1. Content(entries'[index[t.key]]) = MapFold!Stored(t)
    BY ReplaceShape, FoldRule DEF Content, MapFold!Stored
  \* The slot of another key is another slot.
  <2>2. \A k \in DOMAIN index : k # t.key => entries'[index[k]] = entries[index[k]]
    BY <1>0, ReplaceShape, SMTT(30) DEF IndexExact, TypeOK
  <2>3. FoldKept' = [k \in DOMAIN index |-> Content(entries'[index[k]])]
    BY <1>0 DEF FoldKept, Content
  <2> QED
    BY <1>0, <2>1, <2>2, <2>3 DEF FoldKept
<1>3. MapFold!DedupOverride(MapFold!TagPriority(t), FoldKept[t.key].priority)
  BY <1>0, FoldRule DEF FoldKept, Content
<1> QED
  BY <1>0, <1>1, <1>2, <1>3 DEF MapFold!Override, FoldKept

\* An insert into TagMap is a claim or an override of the abstract map, or
\* nothing the map can tell: TagMap implements it.
THEOREM MapFoldImplemented == Spec => MapImplementsFold
<1>1. Init => MapFold!FoldInit
  BY DEF Init, MapFold!FoldInit, FoldOrder, FoldKept
<1>2. TypeOK /\ IndexExact /\ [Next]_vars => [MapFold!FoldNext]_(MapFold!foldVars)
  <2> SUFFICES ASSUME TypeOK, IndexExact, [Next]_vars
               PROVE  [MapFold!FoldNext]_(MapFold!foldVars)
    OBVIOUS
  <2>1. CASE UNCHANGED vars
    BY <2>1 DEF vars, MapFold!foldVars, FoldOrder, FoldKept, Content
  <2>2. ASSUME NEW t \in Emissions, SkipUnknown(t) \/ Keep(t)
        PROVE  UNCHANGED MapFold!foldVars
    BY <2>2 DEF SkipUnknown, Keep, MapFold!foldVars, FoldOrder, FoldKept, Content
  <2>3. ASSUME NEW t \in Emissions, Push(t) \/ Replace(t)
        PROVE  MapFold!FoldNext
    <3>1. MapFold!Claim(t) \/ MapFold!Override(t)
      BY <2>3, PushClaims, ReplaceOverrides
    <3>2. ~t.unknown
      BY <2>3 DEF Push, Replace
    <3> QED
      BY <3>1, <3>2 DEF MapFold!FoldNext
  <2> QED
    BY <2>1, <2>2, <2>3 DEF Next
<1> QED
  BY <1>1, <1>2, TypeCorrect, IndexAlwaysExact, PTL DEF Spec, MapImplementsFold, MapFold!FoldSpec

-----------------------------------------------------------------------------
(* The two sinks of one walk.                                               *)

VecTag == [key : Key, priority : 0..MaxPriority, value : Values, family0 : Families]

\* Every step of the two sinks is a step of the first.
LEMMA SinksStepIsStep ==
  ASSUME [SinksNext]_svars
  PROVE  [Next]_vars
BY DEF SinksNext, svars, Next, vars

\* What is proved of TagMap holds of the first sink.
LEMMA SinksRunTagMap == SinksSpec => Spec
<1>1. SinksInit => Init
  BY DEF SinksInit
<1>2. [SinksNext]_svars => [Next]_vars
  BY SinksStepIsStep
<1> QED
  BY <1>1, <1>2, PTL DEF SinksSpec, Spec

-----------------------------------------------------------------------------
(* The document under -G3.                                                  *)

\* The key of an entry is the key of a tag of the walk.
LEMMA EntryKeyEmitted ==
  ASSUME TypeOK, IndexExact, NEW p \in DOMAIN entries
  PROVE  \E t \in Emissions : t.key = entries[p].key
<1>1. entries[p].key \in DOMAIN index /\ entries[p].key \in Key
  BY EntryTyped DEF IndexExact
<1>2. PICK i : i \in Seen(walked, entries[p].key)
  BY <1>1 DEF IndexExact
<1>3. walked[i] \in Emissions /\ walked[i].key = entries[p].key
  BY <1>2, LenProperties, ElementOfSeq DEF Seen, TypeOK
<1> QED
  BY <1>3

\* The rendering of -G3 keeps apart any two keys a walk can yield.
LEMMA RenderKeyInjective ==
  ASSUME NEW s \in Emissions, NEW t \in Emissions,
         RenderKey(s.key, "G3") = RenderKey(t.key, "G3")
  PROVE  s.key = t.key
<1>1. s.key \in Key /\ t.key \in Key
  BY TagPriorityType DEF Emission
<1>2. \A u \in Emissions : RenderKey(u.key, "G3") = u.key
  <2>1. \A u \in Emissions : u.key \in Key
    BY TagPriorityType DEF Emission
  <2>2. \A u \in Emissions : u.key.doc = 0 => u.key.doc_subpath = ""
    BY MainHasNoTail
  <2> QED
    BY <2>1, <2>2 DEF RenderKey, Key
<1> QED
  BY <1>2

\* No member of a document rendered under -G3 is written twice.
THEOREM DocumentKeysAlwaysUniqueG3 == SinksSpec => []DocumentKeysUniqueG3
<1>1. TypeOK /\ IndexExact => DocumentKeysUniqueG3
  <2> SUFFICES ASSUME TypeOK, IndexExact, NEW p \in DOMAIN entries, NEW q \in DOMAIN entries,
                      RenderKey(entries[p].key, "G3") = RenderKey(entries[q].key, "G3")
               PROVE  p = q
    BY DEF DocumentKeysUniqueG3, UniqueKeys, Written
  <2>1. entries[p].key = entries[q].key
    BY EntryKeyEmitted, RenderKeyInjective
  <2> QED
    BY <2>1 DEF IndexExact
<1> QED
  BY <1>1, SinksRunTagMap, TypeCorrect, IndexAlwaysExact, PTL

-----------------------------------------------------------------------------
(* The vector.                                                              *)

VecStep(t) == VecSkipUnknown(t) \/ VecPush(t) \/ VecReplace(t) \/ VecKeep(t)

\* A tag as the vector stores it.
LEMMA VecEntryFields ==
  ASSUME NEW t
  PROVE  /\ VecEntry(t).key = t.key
         /\ VecEntry(t).priority = TagPriority(t)
         /\ VecEntry(t).value = t.value
         /\ VecEntry(t).family0 = t.family0
BY DEF VecEntry

LEMMA VecEntryType ==
  ASSUME NEW t \in Emissions
  PROVE  VecEntry(t) \in VecTag
BY TagPriorityType DEF VecEntry, VecTag, Emission

\* What the two writing actions do to the vector.
LEMMA VecPushShape ==
  ASSUME vec \in Seq(VecTag), NEW t \in Emissions, VecPush(t)
  PROVE  /\ vec' \in Seq(VecTag)
         /\ Len(vec) \in Nat
         /\ DOMAIN vec = 1..Len(vec)
         /\ DOMAIN vec' = 1..(Len(vec) + 1)
         /\ \A p \in DOMAIN vec : vec'[p] = vec[p]
         /\ vec'[Len(vec) + 1] = VecEntry(t)
BY VecEntryType, AppendProperties, LenProperties DEF VecPush

LEMMA VecReplaceShape ==
  ASSUME vec \in Seq(VecTag), NEW t \in Emissions, VecReplace(t)
  PROVE  \E p \in DOMAIN vec :
           /\ Token(vec[p].key) = Token(t.key)
           /\ DedupOverride(TagPriority(t), vec[p].priority)
           /\ vec' \in Seq(VecTag)
           /\ DOMAIN vec' = DOMAIN vec
           /\ \A q \in DOMAIN vec : vec'[q] = IF q = p THEN VecEntry(t) ELSE vec[q]
<1>1. PICK p \in VecSlots(t) : /\ DedupOverride(TagPriority(t), vec[p].priority)
                               /\ vec' = [vec EXCEPT ![p] = VecEntry(t)]
  BY DEF VecReplace
<1>2. p \in DOMAIN vec /\ Token(vec[p].key) = Token(t.key) /\ DOMAIN vec = 1..Len(vec)
  BY <1>1, LenProperties DEF VecSlots
<1>3. vec' \in Seq(VecTag) /\ Len(vec') = Len(vec)
  BY <1>1, <1>2, VecEntryType, ExceptSeq
<1>4. DOMAIN vec' = DOMAIN vec
  BY <1>2, <1>3, LenProperties
<1> QED
  BY <1>1, <1>2, <1>3, <1>4

LEMMA VecTypeInductive ==
  ASSUME vec \in Seq(VecTag), [SinksNext]_svars
  PROVE  vec' \in Seq(VecTag)
<1>1. CASE UNCHANGED svars
  BY <1>1 DEF svars
<1>2. ASSUME NEW t \in Emissions, VecStep(t)
      PROVE  vec' \in Seq(VecTag)
  <2>1. CASE VecSkipUnknown(t) \/ VecKeep(t)
    BY <2>1 DEF VecSkipUnknown, VecKeep
  <2>2. CASE VecPush(t)
    BY <2>2, VecPushShape
  <2>3. CASE VecReplace(t)
    BY <2>3, VecReplaceShape
  <2> QED
    BY <1>2, <2>1, <2>2, <2>3 DEF VecStep
<1> QED
  BY <1>1, <1>2 DEF SinksNext, VecStep

\* Both sinks are well-typed in every reachable state.
THEOREM SinksTypeCorrect == SinksSpec => []SinksTypeOK
<1>1. SinksInit => vec \in Seq(VecTag)
  BY EmptySeq DEF SinksInit
<1>2. vec \in Seq(VecTag) /\ [SinksNext]_svars => (vec \in Seq(VecTag))'
  BY VecTypeInductive
<1>3. SinksTypeOK <=> TypeOK /\ vec \in Seq(VecTag)
  BY DEF SinksTypeOK, VecTag
<1> QED
  BY <1>1, <1>2, <1>3, SinksRunTagMap, TypeCorrect, PTL DEF SinksSpec

-----------------------------------------------------------------------------
(* What the vector keeps.                                                   *)

VecHolds(w, i, v) ==
  /\ Best(w, SeenToken(w, v.key), i)
  /\ SameTag(v, VecEntry(w[i]))

\* No token has two slots, every token seen has one, and what is in it is the
\* best of its token.
VecInv ==
  /\ \A p, q \in DOMAIN vec : Token(vec[p].key) = Token(vec[q].key) => p = q
  /\ \A i \in DOMAIN walked :
       ~walked[i].unknown => \E p \in DOMAIN vec : Token(vec[p].key) = Token(walked[i].key)
  /\ \A p \in DOMAIN vec : \E i \in DOMAIN walked : VecHolds(walked, i, vec[p])

LEMMA SeenTokenTyped ==
  ASSUME TypeOK, NEW k
  PROVE  \A i \in SeenToken(walked, k) :
           i \in DOMAIN walked /\ i \in Nat /\ TagPriority(walked[i]) \in Nat
<1> SUFFICES ASSUME NEW i \in SeenToken(walked, k)
             PROVE  i \in DOMAIN walked /\ i \in Nat /\ TagPriority(walked[i]) \in Nat
  OBVIOUS
<1>1. i \in DOMAIN walked /\ i \in Nat /\ walked[i] \in Emissions
  BY LenProperties, ElementOfSeq DEF SeenToken, TypeOK
<1> QED
  BY <1>1, TagPriorityType

LEMMA SeenTokenAfterWalk ==
  ASSUME TypeOK, NEW t \in Emissions, Walk(t), NEW k
  PROVE  SeenToken(walked', k) = IF ~t.unknown /\ Token(t.key) = Token(k)
                                 THEN SeenToken(walked, k) \cup {Len(walked) + 1}
                                 ELSE SeenToken(walked, k)
BY WalkAppends DEF SeenToken

LEMMA VecInductive ==
  ASSUME TypeOK, vec \in Seq(VecTag), VecInv, [SinksNext]_svars
  PROVE  VecInv'
<1>1. CASE UNCHANGED svars
  BY <1>1 DEF svars, VecInv
<1>2. ASSUME NEW t \in Emissions, Walk(t), VecStep(t)
      PROVE  VecInv'
  <2> DEFINE n == Len(walked) + 1
  <2>0. TagPriority(t) \in Nat
    BY TagPriorityType
  <2>1. \A k : SeenToken(walked', k) = IF ~t.unknown /\ Token(t.key) = Token(k)
                                       THEN SeenToken(walked, k) \cup {n}
                                       ELSE SeenToken(walked, k)
    BY <1>2, SeenTokenAfterWalk
  <2>2. /\ walked'[n] = t
        /\ n \in Nat
        /\ DOMAIN walked' = DOMAIN walked \cup {n}
        /\ \A i \in DOMAIN walked : walked'[i] = walked[i] /\ i < n
    <3>1. Walk(t) /\ n \in Nat
      BY <1>2, LenProperties DEF TypeOK
    <3> QED
      BY <3>1, WalkAppends
  \* The old winner of a token is still the best of the old positions.
  <2>3. ASSUME NEW i \in DOMAIN walked, NEW v, VecHolds(walked, i, v)
        PROVE  /\ Best(walked', SeenToken(walked, v.key), i)
               /\ SameTag(v, VecEntry(walked'[i]))
               /\ \A j \in SeenToken(walked, v.key) :
                    j \in Nat /\ j < n /\ TagPriority(walked'[j]) \in Nat
    <3>1. \A j \in SeenToken(walked, v.key) : walked'[j] = walked[j]
      BY <2>2, SeenTokenTyped
    <3>2. Best(walked', SeenToken(walked, v.key), i)
      BY <2>2, <2>3, <3>1, BestSame DEF VecHolds
    <3> QED
      BY <2>2, <2>3, <3>1, <3>2, SeenTokenTyped DEF VecHolds
  <2>4. ASSUME NEW p \in DOMAIN vec, t.unknown \/ Token(t.key) # Token(vec[p].key)
        PROVE  \E i \in DOMAIN walked' : VecHolds(walked', i, vec[p])
    <3>1. PICK i \in DOMAIN walked : VecHolds(walked, i, vec[p])
      BY DEF VecInv
    <3>2. VecHolds(walked', i, vec[p])
      BY <2>1, <2>3, <2>4, <3>1 DEF VecHolds
    <3> QED
      BY <2>2, <3>2
  <2>5. CASE VecSkipUnknown(t)
    <3>1. vec' = vec /\ t.unknown
      BY <2>5 DEF VecSkipUnknown
    <3> QED
      BY <2>2, <2>4, <3>1 DEF VecInv
  <2>6. CASE VecPush(t)
    <3>1. ~t.unknown /\ \A p \in DOMAIN vec : Token(vec[p].key) # Token(t.key)
      BY <2>6 DEF VecPush, VecSlots
    <3>2. SeenToken(walked', t.key) = {n}
      BY <2>1, <3>1 DEF VecInv, SeenToken
    <3>3. VecHolds(walked', n, VecEntry(t))
      <4>1. Best(walked', {n}, n)
        BY <2>0, <2>2, BestOfOne
      <4>2. SeenToken(walked', VecEntry(t).key) = {n}
        BY <3>2, VecEntryFields
      <4>3. SameTag(VecEntry(t), VecEntry(walked'[n]))
        BY <2>2 DEF SameTag
      <4> QED
        BY <4>1, <4>2, <4>3 DEF VecHolds
    <3>4. \A p \in DOMAIN vec' : \E i \in DOMAIN walked' : VecHolds(walked', i, vec'[p])
      BY <2>2, <2>4, <2>6, <3>1, <3>3, VecPushShape
    <3>5. \A p \in DOMAIN vec' :
            Token(vec'[p].key) = IF p = Len(vec) + 1 THEN Token(t.key) ELSE Token(vec[p].key)
      BY <2>6, VecPushShape, VecEntryFields
    <3>6. \A p \in DOMAIN vec' : p \in DOMAIN vec \/ p = Len(vec) + 1
      BY <2>6, VecPushShape
    <3>7. \A p, q \in DOMAIN vec' : Token(vec'[p].key) = Token(vec'[q].key) => p = q
      BY <3>1, <3>5, <3>6 DEF VecInv
    <3>8. \A i \in DOMAIN walked' :
            ~walked'[i].unknown => \E p \in DOMAIN vec' : Token(vec'[p].key) = Token(walked'[i].key)
      BY <2>2, <2>6, VecPushShape, VecEntryFields DEF VecInv
    <3> QED
      BY <3>4, <3>7, <3>8 DEF VecInv
  <2>7. CASE VecReplace(t)
    <3>1. PICK p \in DOMAIN vec :
            /\ Token(vec[p].key) = Token(t.key)
            /\ DedupOverride(TagPriority(t), vec[p].priority)
            /\ DOMAIN vec' = DOMAIN vec
            /\ \A q \in DOMAIN vec : vec'[q] = IF q = p THEN VecEntry(t) ELSE vec[q]
      BY <2>7, VecReplaceShape
    <3>2. \A q \in DOMAIN vec : Token(vec'[q].key) = Token(vec[q].key)
      BY <3>1, VecEntryFields
    <3>3. ~t.unknown
      BY <2>7 DEF VecReplace
    <3>4. VecHolds(walked', n, VecEntry(t))
      <4>1. PICK i \in DOMAIN walked : VecHolds(walked, i, vec[p])
        BY DEF VecInv
      <4>2. SeenToken(walked, vec[p].key) = SeenToken(walked, t.key)
        BY <3>1 DEF SeenToken
      <4>3. DedupOverride(TagPriority(walked'[n]), TagPriority(walked'[i]))
        BY <2>2, <3>1, <4>1, VecEntryFields DEF VecHolds, SameTag
      <4>4. Best(walked', SeenToken(walked, t.key) \cup {n}, n)
        BY <2>0, <2>2, <2>3, <4>1, <4>2, <4>3, BestReplaced
      <4>5. SeenToken(walked', VecEntry(t).key) = SeenToken(walked, t.key) \cup {n}
        BY <2>1, <3>3, VecEntryFields
      <4>6. SameTag(VecEntry(t), VecEntry(walked'[n]))
        BY <2>2 DEF SameTag
      <4> QED
        BY <4>4, <4>5, <4>6 DEF VecHolds
    <3>5. \A q \in DOMAIN vec' : \E i \in DOMAIN walked' : VecHolds(walked', i, vec'[q])
      BY <2>2, <2>4, <3>1, <3>4 DEF VecInv
    <3> QED
      BY <2>2, <3>1, <3>2, <3>5 DEF VecInv
  <2>8. CASE VecKeep(t)
    <3>1. /\ vec' = vec
          /\ ~t.unknown
          /\ \E p \in DOMAIN vec : /\ Token(vec[p].key) = Token(t.key)
                                   /\ ~DedupOverride(TagPriority(t), vec[p].priority)
      BY <2>8 DEF VecKeep, VecSlots
    <3>2. PICK p \in DOMAIN vec : /\ Token(vec[p].key) = Token(t.key)
                                  /\ ~DedupOverride(TagPriority(t), vec[p].priority)
      BY <3>1
    <3>3. \E i \in DOMAIN walked' : VecHolds(walked', i, vec[p])
      <4>1. PICK i \in DOMAIN walked : VecHolds(walked, i, vec[p])
        BY DEF VecInv
      <4>2. ~DedupOverride(TagPriority(walked'[n]), TagPriority(walked'[i]))
        BY <2>2, <3>2, <4>1, VecEntryFields DEF VecHolds, SameTag
      <4>3. Best(walked', SeenToken(walked, vec[p].key) \cup {n}, i)
        BY <2>0, <2>2, <2>3, <4>1, <4>2, BestKept
      <4>4. SeenToken(walked', vec[p].key) = SeenToken(walked, vec[p].key) \cup {n}
        BY <2>1, <3>1, <3>2
      <4> QED
        BY <2>2, <2>3, <4>1, <4>3, <4>4 DEF VecHolds
    <3>4. \A q \in DOMAIN vec : \E i \in DOMAIN walked' : VecHolds(walked', i, vec[q])
      BY <2>4, <3>2, <3>3 DEF VecInv
    <3> QED
      BY <2>2, <3>1, <3>2, <3>4 DEF VecInv
  <2> QED
    BY <1>2, <2>5, <2>6, <2>7, <2>8 DEF VecStep
<1> QED
  BY <1>1, <1>2, StepWalks DEF SinksNext, VecStep

\* The vector keeps, for each family-1 group and name, the best tag of the
\* whole walk, and keeps it in one slot.
THEOREM VecSurvivorIsAlwaysWinner == SinksSpec => []VecSurvivorIsWinner
<1>1. SinksInit => VecInv
  BY DEF SinksInit, Init, VecInv
<1>2. TypeOK /\ vec \in Seq(VecTag) /\ VecInv /\ [SinksNext]_svars => VecInv'
  BY VecInductive
<1>3. VecInv => VecSurvivorIsWinner
  BY DEF VecInv, VecHolds, VecSurvivorIsWinner
<1>4. SinksTypeOK => TypeOK /\ vec \in Seq(VecTag)
  BY DEF SinksTypeOK, VecTag
<1> QED
  BY <1>1, <1>2, <1>3, <1>4, SinksTypeCorrect, PTL DEF SinksSpec

-----------------------------------------------------------------------------
(* The vector implements the abstract map too, over its own identities.     *)

Tokens == {Token(vec[p].key) : p \in DOMAIN vec}

LEMMA VecFoldRule ==
  /\ \A t : VecFold!TagPriority(t) = TagPriority(t)
  /\ \A new, stored : VecFold!DedupOverride(new, stored) = DedupOverride(new, stored)
  /\ \A t : VecFold!Stored(t) = VecEntry(t)
BY DEF TagPriority, EffectivePriority, PseudoTags, DedupOverride, VecEntry,
       VecFold!TagPriority, VecFold!EffectivePriority, VecFold!PseudoTags,
       VecFold!DedupOverride, VecFold!Stored

\* The slot of a token is the one that holds it.
LEMMA SlotOfToken ==
  ASSUME VecInv, NEW p \in DOMAIN vec
  PROVE  SlotIn(vec, Token(vec[p].key)) = p
<1>1. \A q \in DOMAIN vec : Token(vec[q].key) = Token(vec[p].key) => q = p
  BY DEF VecInv
<1> QED
  BY <1>1 DEF SlotIn

LEMMA VecPushClaims ==
  ASSUME vec \in Seq(VecTag), VecInv, VecInv', NEW t \in Emissions, VecPush(t)
  PROVE  VecFold!Claim(t)
<1> DEFINE n == Len(vec) + 1
<1>1. /\ n \in DOMAIN vec'
      /\ DOMAIN vec' = DOMAIN vec \cup {n}
      /\ \A p \in DOMAIN vec : vec'[p] = vec[p]
      /\ vec'[n] = VecEntry(t)
  <2>1. DOMAIN vec = 1..Len(vec) /\ DOMAIN vec' = 1..n /\ Len(vec) \in Nat
    BY VecPushShape
  <2>2. /\ \A p \in DOMAIN vec : vec'[p] = vec[p]
        /\ vec'[n] = VecEntry(t)
    BY VecPushShape
  <2> QED
    BY <2>1, <2>2
<1>2. Token(t.key) \notin Tokens
  BY DEF VecPush, VecSlots, Tokens
<1>3. VecOrder' = Append(VecOrder, Token(t.key))
  <2> DEFINE T == Tokens \cup {Token(t.key)}
  <2>1. VecOrder \in Seq(T) /\ Len(VecOrder) = Len(vec)
    <3>1. VecOrder \in [1..Len(vec) -> T] /\ Len(vec) \in Nat
      BY LenProperties DEF VecOrder, Tokens
    <3>2. VecOrder \in Seq(T)
      BY <3>1, SeqDef
    <3> QED
      BY <3>1, <3>2, LenProperties
  <2>2. /\ Append(VecOrder, Token(t.key)) \in Seq(T)
        /\ Len(Append(VecOrder, Token(t.key))) = n
        /\ \A p \in 1..Len(vec) : Append(VecOrder, Token(t.key))[p] = VecOrder[p]
        /\ Append(VecOrder, Token(t.key))[n] = Token(t.key)
    BY <2>1, AppendProperties
  <2>3. Append(VecOrder, Token(t.key)) = [p \in 1..n |-> Append(VecOrder, Token(t.key))[p]]
    BY <2>2, LenProperties
  <2>4. DOMAIN vec = 1..Len(vec) /\ DOMAIN vec' = 1..n /\ Len(vec) \in Nat
    BY VecPushShape
  <2>5. \A p \in 1..n : Token(vec'[p].key) = Append(VecOrder, Token(t.key))[p]
    <3>1. \A p \in 1..Len(vec) : Token(vec'[p].key) = VecOrder[p]
      BY <1>1, <2>4 DEF VecOrder
    <3>2. Token(vec'[n].key) = Token(t.key)
      BY <1>1, VecEntryFields
    <3> QED
      BY <2>2, <2>4, <3>1, <3>2
  <2>6. VecOrder' = [p \in 1..n |-> Token(vec'[p].key)]
    BY <2>4 DEF VecOrder, Token
  <2> QED
    BY <2>3, <2>5, <2>6
<1>4. VecKept' = [k \in Tokens \cup {Token(t.key)} |->
                    IF k = Token(t.key) THEN VecFold!Stored(t) ELSE VecKept[k]]
  <2>1. Tokens' = Tokens \cup {Token(t.key)}
    <3>1. \A p \in DOMAIN vec : Token(vec'[p].key) = Token(vec[p].key)
      BY <1>1
    <3>2. Token(vec'[n].key) = Token(t.key)
      BY <1>1, VecEntryFields
    <3>3. Tokens' = {Token(vec'[p].key) : p \in DOMAIN vec'}
      BY DEF Tokens, Token
    <3> QED
      BY <1>1, <3>1, <3>2, <3>3 DEF Tokens
  <2>2. VecKept' = [k \in Tokens' |-> vec'[SlotIn(vec', k)]]
    BY DEF VecKept, Tokens, SlotIn, Token
  <2>3. SlotIn(vec', Token(t.key)) = n
    <3>1. \A q \in DOMAIN vec' : Token(vec'[q].key) = Token(vec'[n].key) => q = n
      BY <1>1 DEF VecInv, Token
    <3>2. Token(vec'[n].key) = Token(t.key)
      BY <1>1, VecEntryFields
    <3> QED
      BY <1>1, <3>1, <3>2 DEF SlotIn, Token
  <2>4. \A k \in Tokens : SlotIn(vec', k) = SlotIn(vec, k) /\ SlotIn(vec, k) \in DOMAIN vec
    <3> SUFFICES ASSUME NEW k \in Tokens
                 PROVE  SlotIn(vec', k) = SlotIn(vec, k) /\ SlotIn(vec, k) \in DOMAIN vec
      OBVIOUS
    <3>0. PICK p \in DOMAIN vec : k = Token(vec[p].key)
      BY DEF Tokens
    <3>1. SlotIn(vec, Token(vec[p].key)) = p
      BY SlotOfToken
    <3>2. \A q \in DOMAIN vec' : Token(vec'[q].key) = Token(vec'[p].key) => q = p
      BY <1>1 DEF VecInv, Token
    <3>3. SlotIn(vec', Token(vec[p].key)) = p
      BY <1>1, <3>2 DEF SlotIn, Token
    <3> QED
      BY <3>0, <3>1, <3>3
  <2>5. \A k \in Tokens' :
          vec'[SlotIn(vec', k)] = IF k = Token(t.key) THEN VecFold!Stored(t) ELSE VecKept[k]
    <3>1. \A k \in Tokens : VecKept[k] = vec[SlotIn(vec, k)]
      BY DEF VecKept, Tokens
    <3> QED
      BY <1>1, <1>2, <2>1, <2>3, <2>4, <3>1, VecFoldRule
  <2> QED
    BY <2>1, <2>2, <2>5
<1> QED
  BY <1>2, <1>3, <1>4 DEF VecFold!Claim, VecKept, Tokens, VecPush

LEMMA VecReplaceOverrides ==
  ASSUME vec \in Seq(VecTag), VecInv, NEW t \in Emissions, VecReplace(t)
  PROVE  VecFold!Override(t)
<1>1. PICK p \in DOMAIN vec :
        /\ Token(vec[p].key) = Token(t.key)
        /\ DedupOverride(TagPriority(t), vec[p].priority)
        /\ DOMAIN vec' = DOMAIN vec
        /\ \A q \in DOMAIN vec : vec'[q] = IF q = p THEN VecEntry(t) ELSE vec[q]
  BY VecReplaceShape
<1>2. \A q \in DOMAIN vec : Token(vec'[q].key) = Token(vec[q].key)
  BY <1>1, VecEntryFields
<1>3. Token(t.key) \in Tokens /\ SlotIn(vec, Token(t.key)) = p
  BY <1>1, SlotOfToken DEF Tokens
<1>4. VecOrder' = VecOrder
  <2>1. VecOrder' = [q \in DOMAIN vec' |-> Token(vec'[q].key)]
    BY DEF VecOrder, Token
  <2> QED
    BY <1>1, <1>2, <2>1 DEF VecOrder
<1>5. VecKept' = [VecKept EXCEPT ![Token(t.key)] = VecFold!Stored(t)]
  <2>1. Tokens' = Tokens
    <3>1. Tokens' = {Token(vec'[q].key) : q \in DOMAIN vec'}
      BY DEF Tokens, Token
    <3> QED
      BY <1>1, <1>2, <3>1 DEF Tokens
  <2>2. \A k \in Tokens : SlotIn(vec', k) = SlotIn(vec, k) /\ SlotIn(vec, k) \in DOMAIN vec
    <3> SUFFICES ASSUME NEW k \in Tokens
                 PROVE  SlotIn(vec', k) = SlotIn(vec, k) /\ SlotIn(vec, k) \in DOMAIN vec
      OBVIOUS
    <3>1. PICK q \in DOMAIN vec : k = Token(vec[q].key)
      BY DEF Tokens
    <3>2. SlotIn(vec, k) = q
      BY <3>1, SlotOfToken
    <3>3. \A r \in DOMAIN vec' : Token(vec'[r].key) = k => r = q
      BY <1>1, <1>2, <3>1 DEF VecInv
    <3>4. SlotIn(vec', k) = q
      BY <1>1, <1>2, <3>1, <3>3 DEF SlotIn
    <3> QED
      BY <3>2, <3>4
  <2>3. VecKept' = [k \in Tokens' |-> vec'[SlotIn(vec', k)]]
    BY DEF VecKept, Tokens, SlotIn, Token
  <2>4. \A k \in Tokens :
          vec'[SlotIn(vec', k)] = IF k = Token(t.key) THEN VecFold!Stored(t) ELSE VecKept[k]
    <3>1. \A k \in Tokens : VecKept[k] = vec[SlotIn(vec, k)]
      BY DEF VecKept, Tokens
    <3>2. \A k \in Tokens : SlotIn(vec, k) = p => k = Token(t.key)
      BY <1>1, SlotOfToken DEF Tokens
    <3> QED
      BY <1>1, <1>3, <2>2, <3>1, <3>2, VecFoldRule
  <2>5. VecKept = [k \in Tokens |-> VecKept[k]]
    BY DEF VecKept, Tokens
  <2> QED
    BY <1>3, <2>1, <2>3, <2>4, <2>5
<1>6. VecFold!DedupOverride(VecFold!TagPriority(t), VecKept[Token(t.key)].priority)
  BY <1>1, <1>3, VecFoldRule DEF VecKept, Tokens
<1>7. DOMAIN VecKept = Tokens
  BY DEF VecKept, Tokens
<1> QED
  BY <1>3, <1>4, <1>5, <1>6, <1>7 DEF VecFold!Override

\* An emission pushed to the vector is a claim or an override of the abstract
\* map over family-1 group and name, or nothing it can tell.
THEOREM VecFoldImplemented == SinksSpec => VecImplementsFold
<1>1. SinksInit => VecFold!FoldInit
  BY DEF SinksInit, VecFold!FoldInit, VecOrder, VecKept
<1>2. vec \in Seq(VecTag) /\ VecInv /\ VecInv' /\ [SinksNext]_svars
        => [VecFold!FoldNext]_(VecFold!foldVars)
  <2> SUFFICES ASSUME vec \in Seq(VecTag), VecInv, VecInv', [SinksNext]_svars
               PROVE  [VecFold!FoldNext]_(VecFold!foldVars)
    OBVIOUS
  <2>1. CASE UNCHANGED vec
    BY <2>1 DEF VecFold!foldVars, VecOrder, VecKept, SlotIn, Token
  <2>2. ASSUME NEW t \in Emissions, VecPush(t) \/ VecReplace(t)
        PROVE  VecFold!FoldNext
    <3>1. VecFold!Claim(t) \/ VecFold!Override(t)
      BY <2>2, VecPushClaims, VecReplaceOverrides
    <3>2. ~t.unknown
      BY <2>2 DEF VecPush, VecReplace
    <3> QED
      BY <3>1, <3>2 DEF VecFold!FoldNext
  <2>3. UNCHANGED vec \/ \E t \in Emissions : VecPush(t) \/ VecReplace(t)
    BY DEF SinksNext, svars, VecSkipUnknown, VecKeep
  <2> QED
    BY <2>1, <2>2, <2>3
<1>3. SinksInit => VecInv
  BY DEF SinksInit, Init, VecInv
<1>4. TypeOK /\ vec \in Seq(VecTag) /\ VecInv /\ [SinksNext]_svars => VecInv'
  BY VecInductive
<1>5. SinksTypeOK => TypeOK /\ vec \in Seq(VecTag)
  BY DEF SinksTypeOK, VecTag
<1> QED
  BY <1>1, <1>2, <1>3, <1>4, <1>5, SinksTypeCorrect, PTL
     DEF SinksSpec, VecImplementsFold, VecFold!FoldSpec

-----------------------------------------------------------------------------
(* Walks of one document.                                                   *)

\* In a walk of one document that goes on with t, a slot has t's token only if
\* it has t's key.
LEMMA TokenTellsKey ==
  ASSUME TypeOK, IndexExact, NEW t \in Emissions, Walk(t), OneDocument', NEW p \in DOMAIN entries,
         Token(entries[p].key) = Token(t.key)
  PROVE  entries[p].key = t.key
<1> DEFINE n == Len(walked) + 1
<1>1. entries[p].key \in DOMAIN index /\ entries[p].key \in Key /\ t.key \in Key
  BY EntryTyped, TagPriorityType DEF IndexExact, Emission
<1>2. PICK i : i \in Seen(walked, entries[p].key)
  BY <1>1 DEF IndexExact
<1>3. i \in DOMAIN walked' /\ n \in DOMAIN walked' /\ walked'[n] = t
  BY <1>2, WalkAppends DEF Seen
<1>4. walked'[i].key = entries[p].key
  BY <1>2, WalkAppends DEF Seen
<1>5. entries[p].key.doc = t.key.doc /\ entries[p].key.doc_subpath = t.key.doc_subpath
  BY <1>3, <1>4 DEF OneDocument
<1>6. entries[p].key.family1 = t.key.family1 /\ entries[p].key.name = t.key.name
  BY DEF Token
<1> QED
  BY <1>1, <1>5, <1>6 DEF Key

LEMMA AgreeInductive ==
  ASSUME TypeOK, IndexExact, vec \in Seq(VecTag), VecInv, SinksAgree,
         NEW t \in Emissions, Walk(t), OneDocument',
         SkipUnknown(t) \/ Push(t) \/ Replace(t) \/ Keep(t), VecStep(t)
  PROVE  SinksAgree'
<1>1. DOMAIN entries = DOMAIN vec /\ Len(vec) = Len(entries) /\ Len(vec) \in Nat
  BY LenProperties DEF SinksAgree, TypeOK
<1>2. \A p \in DOMAIN vec : SameTag(entries[p], vec[p])
  BY DEF SinksAgree
<1>3. ASSUME t.key \in DOMAIN index
      PROVE  /\ index[t.key] \in DOMAIN vec
             /\ vec[index[t.key]].key = t.key
             /\ vec[index[t.key]].priority = entries[index[t.key]].priority
             /\ \A p \in DOMAIN vec : Token(vec[p].key) = Token(t.key) => p = index[t.key]
  BY <1>1, <1>2, <1>3, SMTT(30) DEF IndexExact, TypeOK, SameTag, VecInv
<1>4. ASSUME NEW p \in DOMAIN vec, Token(vec[p].key) = Token(t.key)
      PROVE  t.key \in DOMAIN index
  <2>1. Token(entries[p].key) = Token(t.key) /\ p \in DOMAIN entries
    BY <1>1, <1>2, <1>4 DEF SameTag
  <2> QED
    BY <2>1, TokenTellsKey DEF IndexExact
<1>5. CASE vec' = vec /\ entries' = entries
  BY <1>5 DEF SinksAgree
<1>6. CASE VecPush(t)
  <2>1. ~t.unknown /\ t.key \notin DOMAIN index
    BY <1>3, <1>6 DEF VecPush, VecSlots
  <2>2. Push(t)
    BY <2>1 DEF SkipUnknown, Replace, Keep
  <2>3. NewSlot = Len(vec) + 1 /\ DOMAIN entries' = DOMAIN vec'
    <3>1. DOMAIN vec' = 1..(Len(vec) + 1) /\ DOMAIN vec = 1..Len(vec)
      BY <1>6, VecPushShape
    <3>2. DOMAIN entries' = DOMAIN entries \cup {NewSlot}
      BY <2>2, PushShape
    <3> QED
      BY <1>1, <3>1, <3>2 DEF NewSlot
  <2>4. SameTag(NewEntry(t), VecEntry(t))
    BY NewEntryFields, VecEntryFields DEF SameTag
  <2>5. \A p \in DOMAIN vec' : SameTag(entries'[p], vec'[p])
    <3>1. entries'[Len(vec) + 1] = NewEntry(t) /\ vec'[Len(vec) + 1] = VecEntry(t)
      BY <1>6, <2>2, <2>3, PushShape, VecPushShape
    <3>2. \A p \in DOMAIN vec : entries'[p] = entries[p] /\ vec'[p] = vec[p]
      BY <1>1, <1>6, <2>2, PushShape, VecPushShape
    <3>3. \A p \in DOMAIN vec' : p \in DOMAIN vec \/ p = Len(vec) + 1
      BY <1>6, VecPushShape
    <3> QED
      BY <1>2, <2>4, <3>1, <3>2, <3>3
  <2>6. Len(vec') = Len(entries')
    <3>1. vec' \in Seq(VecTag) /\ DOMAIN vec' = 1..(Len(vec) + 1)
      BY <1>6, VecPushShape
    <3>2. entries' \in Seq(Entry)
      BY <2>2, NewEntryType, AppendProperties DEF TypeOK, Push
    <3> QED
      BY <2>3, <3>1, <3>2, LenProperties
  <2> QED
    BY <2>5, <2>6 DEF SinksAgree, SameTag
<1>7. CASE VecReplace(t)
  <2>1. PICK p \in DOMAIN vec :
          /\ Token(vec[p].key) = Token(t.key)
          /\ DedupOverride(TagPriority(t), vec[p].priority)
          /\ vec' \in Seq(VecTag)
          /\ DOMAIN vec' = DOMAIN vec
          /\ \A q \in DOMAIN vec : vec'[q] = IF q = p THEN VecEntry(t) ELSE vec[q]
    BY <1>7, VecReplaceShape
  <2>2. t.key \in DOMAIN index /\ p = index[t.key]
    BY <1>3, <1>4, <2>1
  <2>3. Replace(t)
    BY <1>3, <1>7, <2>1, <2>2 DEF VecReplace, SkipUnknown, Push, Keep, Overrides
  <2>4. SameTag(Replaced(t), VecEntry(t))
    BY <2>3, ReplaceShape, VecEntryFields DEF SameTag
  <2>5. \A q \in DOMAIN vec' : SameTag(entries'[q], vec'[q])
    BY <1>1, <1>2, <2>1, <2>2, <2>3, <2>4, ReplaceShape
  <2>6. Len(vec') = Len(entries')
    <3>1. entries' \in Seq(Entry)
      BY TypeInductive, <2>3 DEF TypeOK, Next
    <3>2. DOMAIN entries' = DOMAIN entries
      BY <2>3, ReplaceShape
    <3>3. DOMAIN vec' = DOMAIN entries'
      BY <1>1, <2>1, <3>2
    <3> QED
      BY <2>1, <3>1, <3>3, LenProperties
  <2> QED
    BY <2>5, <2>6 DEF SinksAgree, SameTag
<1>8. CASE VecSkipUnknown(t) \/ VecKeep(t)
  <2>1. vec' = vec
    BY <1>8 DEF VecSkipUnknown, VecKeep
  <2>2. CASE t.unknown
    BY <1>5, <2>1, <2>2 DEF SkipUnknown, Push, Replace, Keep
  <2>3. CASE ~t.unknown
    <3>1. PICK p \in DOMAIN vec : /\ Token(vec[p].key) = Token(t.key)
                                  /\ ~DedupOverride(TagPriority(t), vec[p].priority)
      BY <1>8, <2>3 DEF VecSkipUnknown, VecKeep, VecSlots
    <3>2. t.key \in DOMAIN index /\ p = index[t.key]
      BY <1>3, <1>4, <3>1
    <3>3. Keep(t)
      BY <1>3, <2>3, <3>1, <3>2 DEF SkipUnknown, Push, Replace, Overrides
    <3> QED
      BY <1>5, <2>1, <3>3 DEF Keep
  <2> QED
    BY <2>2, <2>3
<1> QED
  BY <1>6, <1>7, <1>8 DEF VecStep

\* A typed caller and the JSON document see the same tags of a walk of one
\* document, in the same order.
THEOREM SinksAlwaysAgreeOneDocument == SinksSpec => []SinksAgreeOneDocument
<1>1. SinksInit => SinksAgreeOneDocument
  BY DEF SinksInit, Init, SinksAgreeOneDocument, SinksAgree
<1>2. TypeOK /\ IndexExact /\ vec \in Seq(VecTag) /\ VecInv /\ SinksAgreeOneDocument
        /\ [SinksNext]_svars => SinksAgreeOneDocument'
  <2> SUFFICES ASSUME TypeOK, IndexExact, vec \in Seq(VecTag), VecInv, SinksAgreeOneDocument,
                      [SinksNext]_svars, OneDocument'
               PROVE  SinksAgree'
    BY DEF SinksAgreeOneDocument
  <2>1. CASE UNCHANGED svars
    BY <2>1 DEF svars, SinksAgreeOneDocument, SinksAgree, OneDocument, SameTag
  <2>2. ASSUME NEW t \in Emissions, SkipUnknown(t) \/ Push(t) \/ Replace(t) \/ Keep(t), VecStep(t)
        PROVE  SinksAgree'
    <3>1. Walk(t)
      BY <2>2, StepWalks
    <3>2. OneDocument
      BY <3>1, WalkAppends DEF OneDocument
    <3> QED
      BY <2>2, <3>1, <3>2, AgreeInductive DEF SinksAgreeOneDocument
  <2> QED
    BY <2>1, <2>2 DEF SinksNext, VecStep
<1>3. SinksInit => VecInv
  BY DEF SinksInit, Init, VecInv
<1>4. TypeOK /\ vec \in Seq(VecTag) /\ VecInv /\ [SinksNext]_svars => VecInv'
  BY VecInductive
<1>5. SinksTypeOK => TypeOK /\ vec \in Seq(VecTag)
  BY DEF SinksTypeOK, VecTag
<1> QED
  BY <1>1, <1>2, <1>3, <1>4, <1>5, SinksTypeCorrect, SinksRunTagMap, IndexAlwaysExact, PTL
     DEF SinksSpec

\* The document of a walk of one document has no key twice under -G1 either.
THEOREM DocumentKeysAlwaysUniqueOneDocument == SinksSpec => []DocumentKeysUniqueOneDocument
<1>1. TypeOK /\ IndexExact => DocumentKeysUniqueOneDocument
  <2> SUFFICES ASSUME TypeOK, IndexExact, OneDocument,
                      NEW p \in DOMAIN entries, NEW q \in DOMAIN entries,
                      RenderKey(entries[p].key, "G1") = RenderKey(entries[q].key, "G1")
               PROVE  p = q
    BY DEF DocumentKeysUniqueOneDocument, UniqueKeys, Written
  <2>1. entries[p].key \in Key /\ entries[q].key \in Key
    BY EntryTyped
  <2>2. PICK i, j : i \in Seen(walked, entries[p].key) /\ j \in Seen(walked, entries[q].key)
    BY <2>1 DEF IndexExact
  <2>3. /\ entries[p].key.doc = entries[q].key.doc
        /\ entries[p].key.doc_subpath = entries[q].key.doc_subpath
    BY <2>2 DEF Seen, OneDocument
  <2>4. /\ [entries[p].key EXCEPT !.doc = 0, !.doc_subpath = ""]
             = [entries[q].key EXCEPT !.doc = 0, !.doc_subpath = ""]
    BY DEF RenderKey
  <2>5. entries[p].key.family1 = entries[q].key.family1 /\ entries[p].key.name = entries[q].key.name
    BY <2>1, <2>4 DEF Key
  <2>6. entries[p].key = entries[q].key
    BY <2>1, <2>3, <2>5 DEF Key
  <2> QED
    BY <2>6 DEF IndexExact
<1> QED
  BY <1>1, SinksRunTagMap, TypeCorrect, IndexAlwaysExact, PTL
=============================================================================
