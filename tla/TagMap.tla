------------------------------- MODULE TagMap -------------------------------
(***************************************************************************)
(* The tag sink of exifast (src/src/tagmap.rs) and the emission engine     *)
(* that feeds it (src/src/emit.rs, run_emission).  A format's Taggable     *)
(* walk yields tags one by one; the sink keeps one entry per key, decides  *)
(* by ExifTool priority whether a duplicate replaces the value that        *)
(* occupies the slot, and never moves a slot.                              *)
(*                                                                         *)
(* `walked` is the part of the walk consumed so far: it is the iterator's  *)
(* history, and the reference every property is stated against.            *)
(***************************************************************************)
EXTENDS Naturals, Sequences, Duplicates

CONSTANTS
  Emissions,   \* the tags a walk may yield, a subset of Emission
  Docs,        \* family-3 ordinals; 0 is the Main document
  Subpaths,    \* the pre-rendered tails "", "-1", "-1-1" ...
  Families,    \* family-0 and family-1 group names
  Names,       \* tag names
  Values,      \* tag values
  MaxPriority, \* u8::MAX in the code
  MaxSeq,      \* u32::MAX in the code, where next_seq saturates
  MaxWalk      \* bound on the length of the walk (TLC only)

Key == [doc : Docs, doc_subpath : Subpaths, family1 : Families, name : Names]

Emission == [key : Key, family0 : Families, priority : 0..MaxPriority,
             value : Values, unknown : BOOLEAN]

ASSUME BoundsAssumption ==
  /\ MaxPriority \in Nat
  /\ MaxSeq \in Nat
  /\ MaxWalk \in Nat

ASSUME EmissionsAssumption == Emissions \subseteq Emission

VARIABLES
  walked,   \* the tags the walk has yielded so far, Unknown ones included
  entries,  \* TagMap.entries: the surviving entries, in slot order
  index,    \* TagMap.index: key -> slot
  next_seq  \* TagMap.next_seq

vars == <<walked, entries, index, next_seq>>

Entry == [key : Key, priority : 0..MaxPriority, value : Values,
          family0 : Families, seq : 0..MaxSeq]

TypeOK ==
  /\ walked \in Seq(Emissions)
  /\ entries \in Seq(Entry)
  /\ DOMAIN index \subseteq Key
  /\ \A k \in DOMAIN index : index[k] \in DOMAIN entries
  /\ next_seq \in 0..MaxSeq

-----------------------------------------------------------------------------
(* The sink.                                                                *)

\* next_seq.saturating_add(1): every insert counts, the losing ones too.
NextSeq == IF next_seq < MaxSeq THEN next_seq + 1 ELSE MaxSeq

NewEntry(t) == [key |-> t.key, priority |-> TagPriority(t), value |-> t.value,
                family0 |-> t.family0, seq |-> next_seq]

\* Mutant: the slot of the previous entry.
NewSlotOffByOne == IF entries = <<>> THEN 1 ELSE Len(entries)

NewSlot == Len(entries) + 1

\* Mutant: a winning duplicate is stamped with its own walk order.
ReplacedRestamped(t) == NewEntry(t)

\* Mutant: the group of the displaced tag stays in the slot.
ReplacedKeepsFamily(t) ==
  [NewEntry(t) EXCEPT !.seq = entries[index[t.key]].seq,
                      !.family0 = entries[index[t.key]].family0]

Replaced(t) == [NewEntry(t) EXCEPT !.seq = entries[index[t.key]].seq]

Walk(t) ==
  /\ Len(walked) < MaxWalk
  /\ walked' = Append(walked, t)

Overrides(t) == DedupOverride(TagPriority(t), entries[index[t.key]].priority)

\* run_emission drops an Unknown tag before it reaches the sink.
SkipUnknown(t) ==
  /\ t.unknown
  /\ Walk(t)
  /\ UNCHANGED <<entries, index, next_seq>>

\* insert on a fresh key: a new slot at the end.
Push(t) ==
  /\ ~t.unknown
  /\ t.key \notin DOMAIN index
  /\ Walk(t)
  /\ entries' = Append(entries, NewEntry(t))
  /\ index' = [k \in DOMAIN index \cup {t.key} |->
                 IF k = t.key THEN NewSlot ELSE index[k]]
  /\ next_seq' = NextSeq

\* insert on a known key that wins: priority, value and family0 are replaced
\* together; position and seq stay those of the first occurrence.
Replace(t) ==
  /\ ~t.unknown
  /\ t.key \in DOMAIN index
  /\ Overrides(t)
  /\ Walk(t)
  /\ entries' = [entries EXCEPT ![index[t.key]] = Replaced(t)]
  /\ next_seq' = NextSeq
  /\ UNCHANGED index

\* insert on a known key that loses.
Keep(t) ==
  /\ ~t.unknown
  /\ t.key \in DOMAIN index
  /\ ~Overrides(t)
  /\ Walk(t)
  /\ next_seq' = NextSeq
  /\ UNCHANGED <<entries, index>>

Init ==
  /\ walked = <<>>
  /\ entries = <<>>
  /\ index = <<>>
  /\ next_seq = 0

Next == \E t \in Emissions : SkipUnknown(t) \/ Push(t) \/ Replace(t) \/ Keep(t)

Spec == Init /\ [][Next]_vars

-----------------------------------------------------------------------------
(* Properties.                                                              *)

\* The positions of walk w that reached the sink under key k.
Seen(w, k) == {i \in DOMAIN w : ~w[i].unknown /\ w[i].key = k}

\* Entry e is what the tag at position i of walk w, the best of its key, left.
Holds(w, i, e) ==
  /\ Best(w, Seen(w, e.key), i)
  /\ e.value = w[i].value
  /\ e.family0 = w[i].family0
  /\ e.priority = TagPriority(w[i])

\* The value, the priority and the family 0 an entry holds are those of the
\* one tag that wins its key over the whole walk, whatever the order in which
\* duplicates of different priorities arrived (TagMap::insert).
SurvivorIsWinner ==
  \A p \in DOMAIN entries : \E i \in DOMAIN walked : Holds(walked, i, entries[p])

\* The side index of TagMap and its entries describe the same map: every tag
\* that reached the sink has one slot, and the index finds it.
IndexExact ==
  /\ \A k \in DOMAIN index : entries[index[k]].key = k
  /\ \A p \in DOMAIN entries : /\ entries[p].key \in DOMAIN index
                               /\ index[entries[p].key] = p
  /\ \A k \in Key : k \in DOMAIN index <=> Seen(walked, k) # {}

\* Slots are in first-occurrence order, and seq, the walk order the Composite
\* resolver breaks ties with, agrees with it: strictly until it saturates, and
\* never against it.
Precedes(w, k, l) == \E i \in Seen(w, k) : \A j \in Seen(w, l) : i < j

WalkOrder ==
  \A p, q \in DOMAIN entries : p < q =>
    /\ Precedes(walked, entries[p].key, entries[q].key)
    /\ entries[p].seq <= entries[q].seq
    /\ entries[p].seq < MaxSeq => entries[p].seq < entries[q].seq

\* A step never moves, renames or re-stamps a slot, and the priority that
\* occupies it never drops: a later duplicate cannot reopen it to a weaker one.
SlotStep ==
  \A p \in DOMAIN entries :
    /\ p \in DOMAIN entries'
    /\ entries'[p].key = entries[p].key
    /\ entries'[p].seq = entries[p].seq
    /\ entries'[p].priority >= entries[p].priority

SlotsStable == [][SlotStep]_vars

\* What the slot of a key keeps, without the stamp of the walk order.
Content(e) == [key |-> e.key, priority |-> e.priority, value |-> e.value,
               family0 |-> e.family0]

FoldOrder == [p \in DOMAIN entries |-> entries[p].key]
FoldKept == [k \in DOMAIN index |-> Content(entries[index[k]])]

MapFold == INSTANCE KeyedFold WITH
  Offered <- {t \in Emissions : ~t.unknown},
  Identity <- [t \in Emissions |-> t.key],
  order <- FoldOrder,
  kept <- FoldKept

\* The slots and the side index of TagMap, read together, are a priority map
\* over whole keys: an insert writes the slot of its own key or a new one, and
\* no step of theirs does anything a plain map with the rule would not.
MapImplementsFold == MapFold!FoldSpec
=============================================================================
