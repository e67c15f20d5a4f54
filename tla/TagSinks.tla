------------------------------ MODULE TagSinks ------------------------------
(***************************************************************************)
(* The two sinks one walk may feed, and the documents rendered from them.  *)
(*                                                                         *)
(*  - serialize_tags (src/src/format_parser.rs) runs the walk into a       *)
(*    TagMap, which extract_info renders as JSON (src/src/parser.rs);      *)
(*  - collect_deduped_tags runs the same walk (-G1, no -ee) into a plain   *)
(*    vector, which iter_tags returns to a typed caller.                   *)
(*                                                                         *)
(* The walk is a pure function of the parsed file, so both sinks see the   *)
(* same tags; the model feeds them in lock step.                           *)
(***************************************************************************)
EXTENDS TagMap

CONSTANT ReservedKeys  \* rendered keys of the orchestration object

\* A tail exists only beneath a numbered document: GroupRef::with_subpath is
\* called with a document ordinal taken from the same path.
ASSUME MainHasNoTail == \A t \in Emissions : t.key.doc = 0 => t.key.doc_subpath = ""

VARIABLE vec  \* collect_deduped_tags' `out`: tags in slot order

svars == <<walked, entries, index, next_seq, vec>>

\* The identity the vector sink compares: no document in it.
Token(k) == [family1 |-> k.family1, name |-> k.name]

\* Mutant: the priority is stored as emitted, not as effective.
VecEntryRaw(t) == [key |-> t.key, priority |-> t.priority, value |-> t.value,
                   family0 |-> t.family0]

VecEntry(t) == [key |-> t.key, priority |-> TagPriority(t), value |-> t.value,
                family0 |-> t.family0]

\* out.iter_mut().find(..): the slots a new tag could land in.
VecSlots(t) == {p \in DOMAIN vec : Token(vec[p].key) = Token(t.key)}

VecSkipUnknown(t) ==
  /\ t.unknown
  /\ UNCHANGED vec

VecPush(t) ==
  /\ ~t.unknown
  /\ VecSlots(t) = {}
  /\ vec' = Append(vec, VecEntry(t))

\* *slot = (tag, effective): the winner's whole tag, its document included.
VecReplace(t) ==
  /\ ~t.unknown
  /\ \E p \in VecSlots(t) :
       /\ \A q \in VecSlots(t) : p <= q
       /\ DedupOverride(TagPriority(t), vec[p].priority)
       /\ vec' = [vec EXCEPT ![p] = VecEntry(t)]

VecKeep(t) ==
  /\ ~t.unknown
  /\ \E p \in VecSlots(t) :
       /\ \A q \in VecSlots(t) : p <= q
       /\ ~DedupOverride(TagPriority(t), vec[p].priority)
  /\ UNCHANGED vec

SinksInit ==
  /\ Init
  /\ vec = <<>>

SinksNext ==
  \E t \in Emissions :
    /\ SkipUnknown(t) \/ Push(t) \/ Replace(t) \/ Keep(t)
    /\ VecSkipUnknown(t) \/ VecPush(t) \/ VecReplace(t) \/ VecKeep(t)

SinksSpec == SinksInit /\ [][SinksNext]_svars

-----------------------------------------------------------------------------
(* Rendering: group_key_into, and DocObject::serialize over the entries.     *)

\* Mutant: -G3 forgets the tail beyond the first document level.
RenderKeyShallow(k, mode) ==
  IF mode = "G3" /\ k.doc # 0 THEN [k EXCEPT !.doc_subpath = ""]
  ELSE [k EXCEPT !.doc = 0, !.doc_subpath = ""]

RenderKey(k, mode) ==
  IF mode = "G3" /\ k.doc # 0 THEN k
  ELSE [k EXCEPT !.doc = 0, !.doc_subpath = ""]

\* The entries the JSON object carries, after the first-wins skip against the
\* orchestration object; each is written as one member of the object.
Written(mode) == {p \in DOMAIN entries : RenderKey(entries[p].key, mode) \notin ReservedKeys}

-----------------------------------------------------------------------------
(* Properties.                                                              *)

SinksTypeOK ==
  /\ TypeOK
  /\ vec \in Seq([key : Key, priority : 0..MaxPriority, value : Values, family0 : Families])

UniqueKeys(mode) ==
  \A p, q \in Written(mode) :
    RenderKey(entries[p].key, mode) = RenderKey(entries[q].key, mode) => p = q

\* Under -G3 no key of the rendered object is written twice, whatever the
\* documents of the tags (DocObject::serialize writes every entry).
DocumentKeysUniqueG3 == UniqueKeys("G3")

\* Under -G1, the default, the rendered object has one member per key: "one
\* File:* triplet, never duplicated", "%noDups first-wins is preserved EXACTLY".
DocumentKeysUniqueG1 == UniqueKeys("G1")

\* The same, for walks whose tags are all of one document.
OneDocument == \A i, j \in DOMAIN walked :
  /\ walked[i].key.doc = walked[j].key.doc
  /\ walked[i].key.doc_subpath = walked[j].key.doc_subpath

DocumentKeysUniqueOneDocument == OneDocument => UniqueKeys("G1")

SameTag(e, v) == /\ e.key = v.key
                 /\ e.value = v.value
                 /\ e.priority = v.priority
                 /\ e.family0 = v.family0

SinksAgree ==
  /\ Len(vec) = Len(entries)
  /\ \A p \in DOMAIN vec : SameTag(entries[p], vec[p])

\* On a walk of one document, a typed caller and the JSON document see the
\* same tags, in the same order, with the same values, priorities and groups.
SinksAgreeOneDocument == OneDocument => SinksAgree

\* What the vector sink does keep of several documents: for each family-1
\* group and name, the best tag of the whole walk, documents ignored.
SeenToken(w, k) == {i \in DOMAIN w : ~w[i].unknown /\ Token(w[i].key) = Token(k)}

VecSurvivorIsWinner ==
  \A p \in DOMAIN vec :
    \E i \in DOMAIN walked :
      /\ Best(walked, SeenToken(walked, vec[p].key), i)
      /\ SameTag(vec[p], VecEntry(walked[i]))
      /\ \A q \in DOMAIN vec : Token(vec[q].key) = Token(vec[p].key) => q = p

\* The state of the same abstract map that the vector stands for.
SlotIn(v, k) == CHOOSE p \in DOMAIN v : Token(v[p].key) = k

VecOrder == [p \in DOMAIN vec |-> Token(vec[p].key)]
VecKept == [k \in {Token(vec[p].key) : p \in DOMAIN vec} |-> vec[SlotIn(vec, k)]]

VecFold == INSTANCE KeyedFold WITH
  Offered <- {t \in Emissions : ~t.unknown},
  Identity <- [t \in Emissions |-> Token(t.key)],
  order <- VecOrder,
  kept <- VecKept

\* The vector collect_deduped_tags searches linearly is the same priority map,
\* with documents left out of the identity.
VecImplementsFold == VecFold!FoldSpec
=============================================================================
