-------------------------- MODULE CompositeProofs --------------------------
(***************************************************************************)
(* The Composite engine for every registry, file and sink: each definition *)
(* is attempted once at most and is never lost between the passes, and the *)
(* ones given up are given up behind a dependency cycle.                   *)
(***************************************************************************)
EXTENDS Composite, FiniteSetTheorems, SequenceTheorems, TLAPS

ViewTag == TagOf({0} \cup Ranks)

Once == \A a, b \in attempts : a.def = b.def /\ a.doc = b.doc => a = b

NoRepeats(s) == \A p, q \in DOMAIN s : s[p] = s[q] => p = q

Apart ==
  /\ \A p \in DOMAIN pending : /\ pending[p] \notin Settled
                               /\ \A q \in DOMAIN deferred : pending[p] # deferred[q]
  /\ \A q \in DOMAIN deferred : deferred[q] \notin Settled

Partition == Settled \cup SeqRange(pending) \cup SeqRange(deferred) = Ranks

Shares ==
  /\ IsFiniteSet(Settled)
  /\ Cardinality(Settled) + Len(pending) + Len(deferred) = Len(order)

NotBuilt == not_built = {order[i].name : i \in Ranks} \ {order[i].name : i \in Settled}

MustWait == {i \in Ranks : MustDefer(order[i])}

\* As long as a pass has attempted nothing, what it deferred must be deferred.
PassWaits ==
  /\ Len(deferred) + Len(pending) <= pass_len
  /\ Len(deferred) + Len(pending) = pass_len =>
       \A q \in DOMAIN deferred : deferred[q] \in MustWait

EndedRight ==
  ended => pending = <<>> /\ (deferred = <<>> \/ (Len(deferred) = pass_len /\ all_built))

FixInv ==
  /\ order \in Seq(Definition)
  /\ view \in Seq(ViewTag)
  /\ pending \in Seq(Ranks) /\ deferred \in Seq(Ranks) /\ pass_len \in Nat
  /\ Once
  /\ NoRepeats(pending) /\ NoRepeats(deferred) /\ Apart
  /\ Partition /\ Shares /\ NotBuilt
  /\ PassWaits /\ EndedRight

-----------------------------------------------------------------------------
(* Induction over the documents of an attempt.                              *)

LEMMA LeastNumber ==
  ASSUME NEW S \in SUBSET Nat, S # {}
  PROVE  \E n \in S : \A m \in S : n <= m
<1> DEFINE Less == OpToRel(<, Nat)
<1>1. IsWellFoundedOn(Less, Nat)
  BY NatLessThanWellFounded
<1>2. \A n, m \in Nat : <<m, n>> \in Less <=> m < n
  BY DEF OpToRel
<1> HIDE DEF Less
<1>3. PICK n \in S : \A m \in S : ~ (<<m, n>> \in Less)
  BY <1>1, WFMin
<1>4. \A m \in S : n <= m
  <2> TAKE m \in S
  <2>1. m \in Nat /\ n \in Nat /\ ~(m < n)
    BY <1>2, <1>3
  <2> QED
    BY <2>1
<1> QED
  BY <1>4

LEMMA Induction ==
  ASSUME NEW S, 0 \in S, \A n \in Nat : n \in S => n + 1 \in S
  PROVE  Nat \subseteq S
<1> SUFFICES ASSUME Nat \ S # {} PROVE FALSE
  OBVIOUS
<1>1. PICK n \in Nat \ S : \A m \in Nat \ S : n <= m
  BY LeastNumber
<1>2. n - 1 \in Nat
  BY <1>1
<1>3. n - 1 \notin Nat \ S
  BY <1>1, <1>2
<1> QED
  BY <1>1, <1>2, <1>3

\* Views is the function its equation describes.
LEMMA ViewsAre ==
  ASSUME NEW i, NEW declined
  PROVE  Views(i, declined) = [d \in -1..DocCount |->
              IF d = -1 THEN view ELSE BuildAtDoc(Views(i, declined)[d - 1], i, d, declined)]
<1> DEFINE Build(v, d) == BuildAtDoc(v, i, d, declined)
           Is(f, n) == f = [d \in -1..n |-> IF d = -1 THEN view ELSE Build(f[d - 1], d)]
           Reached == {n \in Nat : \E f : Is(f, n - 1)}
<1> HIDE DEF Build
<1>1. 0 \in Reached
  <2> DEFINE f == [d \in -1..(-1) |-> view]
  <2>1. Is(f, 0 - 1)
    OBVIOUS
  <2> QED
    BY <2>1
<1>2. \A n \in Nat : n \in Reached => n + 1 \in Reached
  <2> SUFFICES ASSUME NEW n \in Nat, n \in Reached PROVE \E g : Is(g, n)
    OBVIOUS
  <2>1. PICK f : Is(f, n - 1)
    OBVIOUS
  <2> DEFINE g == [d \in -1..n |-> IF d = n THEN Build(f[n - 1], n) ELSE f[d]]
  <2>2. \A d \in -1..n : d = n \/ d \in -1..(n - 1)
    OBVIOUS
  <2>3. \A d \in -1..(n - 1) : f[d] = IF d = -1 THEN view ELSE Build(f[d - 1], d)
    BY <2>1
  <2>4. \A d \in -1..n : g[d] = IF d = -1 THEN view ELSE Build(g[d - 1], d)
    <3> TAKE d \in -1..n
    <3>1. CASE d = n
      <4>1. n - 1 \in -1..n /\ n - 1 # n /\ n # -1
        OBVIOUS
      <4> QED
        BY <3>1, <4>1
    <3>2. CASE d \in -1..(n - 1) /\ d = -1
      BY <2>3, <3>2
    <3>3. CASE d \in -1..(n - 1) /\ d # -1
      <4>1. d - 1 \in -1..n /\ d - 1 # n /\ d # n
        BY <3>3
      <4> QED
        BY <2>3, <3>3, <4>1
    <3> QED
      BY <2>2, <3>1, <3>2, <3>3
  <2>5. Is(g, n)
    BY <2>4
  <2> QED
    BY <2>5
<1>3. DocCount + 1 \in Reached
  BY <1>1, <1>2, Induction, DocCountAssumption
<1>4. \E f : Is(f, DocCount)
  BY <1>3, DocCountAssumption
<1>5. Views(i, declined) =
        CHOOSE f : f = [d \in -1..DocCount |-> IF d = -1 THEN view ELSE Build(f[d - 1], d)]
  BY DEF Views, Build
<1>6. Is(Views(i, declined), DocCount)
  BY <1>4, <1>5
<1> QED
  BY <1>6 DEF Build

-----------------------------------------------------------------------------
(* What an attempt does to the view.                                        *)

LEMMA CompositeTagTyped ==
  ASSUME order \in Seq(Definition), NEW i \in Ranks, NEW d \in Docs
  PROVE  CompositeTag(i, d) \in ViewTag
<1>1. order[i] \in Definition
  BY DEF Ranks
<1>2. order[i].name \in Words /\ order[i].priority \in Nat
  BY <1>1 DEF Definition
<1>3. i \in {0} \cup Ranks
  OBVIOUS
<1> QED
  BY <1>2, <1>3, WordsAssumption DEF CompositeTag, ViewTag, TagOf

LEMMA AppendTagTyped ==
  ASSUME NEW v \in Seq(ViewTag), NEW t \in ViewTag
  PROVE  AppendTag(v, t) \in Seq(ViewTag)
<1> DEFINE same == {p \in DOMAIN v : SameKey(v[p], t)}
           kept == [p \in DOMAIN v |->
                      IF p \in same /\ DedupOverride(Strength(<<t>>, 1), Strength(v, p))
                      THEN t ELSE v[p]]
<1>1. Append(v, t) \in Seq(ViewTag)
  OBVIOUS
<1>2. DOMAIN v = 1..Len(v) /\ Len(v) \in Nat /\ \A p \in DOMAIN v : v[p] \in ViewTag
  OBVIOUS
<1>3. kept \in [1..Len(v) -> ViewTag]
  BY <1>2
<1>4. kept \in Seq(ViewTag)
  BY <1>2, <1>3, SeqDef
<1>5. AppendTag(v, t) = IF sink = "Vec" \/ same = {} THEN Append(v, t) ELSE kept
  BY DEF AppendTag
<1> HIDE DEF kept, same
<1> QED
  BY <1>1, <1>4, <1>5

LEMMA BuildTyped ==
  ASSUME order \in Seq(Definition), NEW v \in Seq(ViewTag), NEW i \in Ranks, NEW d \in Docs,
         NEW declined
  PROVE  BuildAtDoc(v, i, d, declined) \in Seq(ViewTag)
BY CompositeTagTyped, AppendTagTyped DEF BuildAtDoc

LEMMA ViewsTyped ==
  ASSUME order \in Seq(Definition), view \in Seq(ViewTag), NEW i \in Ranks, NEW declined
  PROVE  Views(i, declined)[DocCount] \in Seq(ViewTag)
<1> DEFINE after == Views(i, declined)
           Typed == {n \in Nat : n <= DocCount + 1 => after[n - 1] \in Seq(ViewTag)}
<1>0. after = [d \in -1..DocCount |->
                 IF d = -1 THEN view ELSE BuildAtDoc(after[d - 1], i, d, declined)]
  BY ViewsAre
<1> HIDE DEF after
<1>1. \A d \in -1..DocCount :
        after[d] = IF d = -1 THEN view ELSE BuildAtDoc(after[d - 1], i, d, declined)
  BY <1>0
<1>2. 0 \in Typed
  <2>1. -1 \in -1..DocCount
    BY DocCountAssumption
  <2> QED
    BY <1>1, <2>1
<1>3. \A n \in Nat : n \in Typed => n + 1 \in Typed
  <2> SUFFICES ASSUME NEW n \in Nat, n \in Typed, n + 1 <= DocCount + 1
               PROVE  after[n] \in Seq(ViewTag)
    BY DocCountAssumption
  <2>1. n \in -1..DocCount /\ n \in Docs /\ n # -1 /\ n <= DocCount + 1
    BY DocCountAssumption DEF Docs
  <2>2. after[n - 1] \in Seq(ViewTag)
    BY <2>1
  <2>3. after[n] = BuildAtDoc(after[n - 1], i, n, declined)
    BY <1>1, <2>1
  <2> QED
    BY <2>1, <2>2, <2>3, BuildTyped
<1>4. DocCount + 1 \in Typed
  BY <1>2, <1>3, Induction, DocCountAssumption
<1> QED
  BY <1>4, DocCountAssumption DEF after

-----------------------------------------------------------------------------
(* The passes.                                                              *)

LEMMA InitFix == Init => FixInv
<1> SUFFICES ASSUME Init PROVE FixInv
  OBVIOUS
<1>1. order \in Seq(Definition) /\ view \in Seq(TagOf({0}))
  BY CasesAssumption DEF Init
<1>2. Ranks = 1..Len(order) /\ Len(order) \in Nat
  BY <1>1 DEF Ranks
<1>3. view \in Seq(ViewTag)
  <2>0. \A t \in TagOf({0}) : t \in ViewTag
    BY DEF ViewTag, TagOf
  <2>1. \A p \in DOMAIN view : view[p] \in ViewTag
    BY <1>1, <2>0
  <2>2. DOMAIN view = 1..Len(view) /\ Len(view) \in Nat /\ view \in [DOMAIN view -> ViewTag]
    BY <1>1, <2>1
  <2> QED
    BY <2>2, SeqDef
<1>4. /\ pending \in [1..Len(order) -> Ranks] /\ \A p \in Ranks : pending[p] = p
      /\ DOMAIN pending = Ranks
  BY <1>2 DEF Init
<1>5. pending \in Seq(Ranks) /\ Len(pending) = Len(order)
  BY <1>2, <1>4, SeqDef
<1>6. deferred = <<>> /\ attempts = {} /\ Settled = {} /\ ended = FALSE /\ pass_len = Len(order)
  BY DEF Init, Settled
<1>7. deferred \in Seq(Ranks) /\ DOMAIN deferred = {} /\ Len(deferred) = 0
  BY <1>6
<1>8. Once /\ NoRepeats(pending) /\ NoRepeats(deferred) /\ Apart
  BY <1>4, <1>6, <1>7 DEF Once, NoRepeats, Apart
<1>9. Partition
  BY <1>4, <1>6, <1>7 DEF Partition, SeqRange
<1>10. Shares
  BY <1>2, <1>5, <1>6, <1>7, FS_EmptySet DEF Shares
<1>11. NotBuilt
  BY <1>6 DEF Init, NotBuilt
<1>12. PassWaits /\ EndedRight
  BY <1>2, <1>5, <1>6, <1>7 DEF PassWaits, EndedRight
<1> QED
  BY <1>1, <1>2, <1>3, <1>5, <1>6, <1>7, <1>8, <1>9, <1>10, <1>11, <1>12 DEF FixInv

\* The first of a list and the rest.
LEMMA HeadAndTail ==
  ASSUME NEW R, NEW s \in Seq(R), s # <<>>
  PROVE  /\ Head(s) \in R /\ Head(s) = s[1] /\ 1 \in DOMAIN s
         /\ Tail(s) \in Seq(R) /\ Len(Tail(s)) = Len(s) - 1 /\ Len(s) \in Nat
         /\ \A p \in DOMAIN Tail(s) : p \in Nat /\ p + 1 \in DOMAIN s /\ Tail(s)[p] = s[p + 1] /\ p + 1 # 1
         /\ \A p \in DOMAIN s : p = 1 \/ (p - 1 \in DOMAIN Tail(s) /\ s[p] = Tail(s)[p - 1])
<1>1. Len(s) \in Nat /\ Len(s) >= 1 /\ DOMAIN s = 1..Len(s)
  OBVIOUS
<1>2. /\ Tail(s) \in Seq(R) /\ Len(Tail(s)) = Len(s) - 1 /\ DOMAIN Tail(s) = 1..(Len(s) - 1)
      /\ \A p \in 1..(Len(s) - 1) : Tail(s)[p] = s[p + 1]
  BY <1>1
<1>3. Head(s) = s[1] /\ Head(s) \in R
  BY <1>1
<1> QED
  BY <1>1, <1>2, <1>3

LEMMA OneMore ==
  ASSUME NEW R, NEW s \in Seq(R), NEW x \in R
  PROVE  /\ Append(s, x) \in Seq(R) /\ Len(Append(s, x)) = Len(s) + 1 /\ Len(s) \in Nat
         /\ DOMAIN s = 1..Len(s) /\ DOMAIN Append(s, x) = 1..(Len(s) + 1)
         /\ Append(s, x)[Len(s) + 1] = x
         /\ \A p \in DOMAIN s : p \in DOMAIN Append(s, x) /\ Append(s, x)[p] = s[p]
         /\ \A p \in DOMAIN Append(s, x) : p \in DOMAIN s \/ p = Len(s) + 1
OBVIOUS

\* The definition put off moves from what is pending to what is deferred.
LEMMA DeferKeeps == ASSUME FixInv, Defer PROVE FixInv'
<1> DEFINE i == Head(pending)
<1>1. /\ pending \in Seq(Ranks) /\ pending # <<>> /\ deferred \in Seq(Ranks)
      /\ order \in Seq(Definition) /\ view \in Seq(ViewTag) /\ pass_len \in Nat
      /\ Once /\ NoRepeats(pending) /\ NoRepeats(deferred) /\ Apart
      /\ Partition /\ Shares /\ NotBuilt /\ PassWaits /\ ended = FALSE
      /\ MustDefer(order[i])
      /\ deferred' = Append(deferred, i) /\ pending' = Tail(pending)
  BY DEF FixInv, Defer, EndedRight
<1>2. UNCHANGED <<order, sink, view, not_built, pass_len, all_built, ended, attempts>>
  BY DEF Defer
<1>3. /\ i \in Ranks /\ i = pending[1] /\ 1 \in DOMAIN pending
      /\ pending' \in Seq(Ranks) /\ Len(pending') = Len(pending) - 1 /\ Len(pending) \in Nat
      /\ \A p \in DOMAIN pending' : p \in Nat /\ p + 1 \in DOMAIN pending
                                  /\ pending'[p] = pending[p + 1] /\ p + 1 # 1
      /\ \A p \in DOMAIN pending :
           p = 1 \/ (p - 1 \in DOMAIN pending' /\ pending[p] = pending'[p - 1])
  BY <1>1, HeadAndTail
<1> HIDE DEF i
<1>4. /\ deferred' \in Seq(Ranks) /\ Len(deferred') = Len(deferred) + 1 /\ Len(deferred) \in Nat
      /\ deferred'[Len(deferred) + 1] = i /\ Len(deferred) + 1 \in DOMAIN deferred'
      /\ \A q \in DOMAIN deferred : q \in DOMAIN deferred' /\ deferred'[q] = deferred[q]
      /\ \A q \in DOMAIN deferred' : q \in DOMAIN deferred \/ q = Len(deferred) + 1
  BY <1>1, <1>3, OneMore
<1>5. Settled' = Settled /\ Ranks' = Ranks /\ ViewTag' = ViewTag
  BY <1>2 DEF Settled, Ranks, ViewTag
<1>6. i \notin Settled /\ \A q \in DOMAIN deferred : i # deferred[q]
  BY <1>1, <1>3 DEF Apart
<1>7. \A p \in DOMAIN pending' : pending'[p] # i
  BY <1>1, <1>3 DEF NoRepeats
<1>8. NoRepeats(pending)'
  <2> SUFFICES ASSUME NEW p \in DOMAIN pending', NEW q \in DOMAIN pending', pending'[p] = pending'[q]
               PROVE  p = q
    BY DEF NoRepeats
  <2>1. p + 1 = q + 1 /\ p \in Nat /\ q \in Nat
    BY <1>1, <1>3 DEF NoRepeats
  <2> QED
    BY <2>1
<1>9. NoRepeats(deferred)'
  <2> SUFFICES ASSUME NEW p \in DOMAIN deferred', NEW q \in DOMAIN deferred', deferred'[p] = deferred'[q]
               PROVE  p = q
    BY DEF NoRepeats
  <2> QED
    BY <1>1, <1>4, <1>6 DEF NoRepeats
<1>10. Apart'
  <2>1. \A p \in DOMAIN pending' : /\ pending'[p] \notin Settled
                                 /\ \A q \in DOMAIN deferred : pending'[p] # deferred[q]
    BY <1>1, <1>3 DEF Apart
  <2>2. \A p \in DOMAIN pending' : \A q \in DOMAIN deferred' : pending'[p] # deferred'[q]
    BY <1>4, <1>7, <2>1
  <2>3. \A q \in DOMAIN deferred' : deferred'[q] \notin Settled
    BY <1>1, <1>4, <1>6 DEF Apart
  <2> QED
    BY <1>5, <2>1, <2>2, <2>3 DEF Apart
<1>11. SeqRange(pending) \cup SeqRange(deferred) = SeqRange(pending') \cup SeqRange(deferred')
  <2>1. \A x : x \in SeqRange(pending) <=> (x = i \/ x \in SeqRange(pending'))
    BY <1>3, SMTT(30) DEF SeqRange
  <2>2. \A x : x \in SeqRange(deferred') <=> (x = i \/ x \in SeqRange(deferred))
    BY <1>4 DEF SeqRange
  <2> QED
    BY <2>1, <2>2
<1>12. Partition'
  BY <1>1, <1>5, <1>11 DEF Partition, SeqRange
<1>13. Shares'
  <2>1. Cardinality(Settled) \in Nat
    BY <1>1, FS_CardinalityType DEF Shares
  <2> QED
    BY <1>1, <1>2, <1>3, <1>4, <1>5, <2>1 DEF Shares
<1>14. NotBuilt'
  BY <1>1, <1>2, <1>5 DEF NotBuilt
<1>15. MustWait' = MustWait /\ i \in MustWait
  BY <1>1, <1>2, <1>3, <1>5 DEF MustWait, MustDefer, ReferencesUnbuilt, HasComposite, i
<1>16. PassWaits'
  <2>1. Len(deferred') + Len(pending') = Len(deferred) + Len(pending)
    BY <1>3, <1>4
  <2>2. Len(deferred) + Len(pending) = pass_len =>
          \A q \in DOMAIN deferred' : deferred'[q] \in MustWait
    BY <1>1, <1>4, <1>15 DEF PassWaits
  <2> QED
    BY <1>1, <1>2, <1>15, <2>1, <2>2 DEF PassWaits
<1>17. EndedRight'
  BY <1>1, <1>2 DEF EndedRight
<1>18. Once'
  BY <1>1, <1>2 DEF Once
<1> QED
  BY <1>1, <1>2, <1>3, <1>4, <1>5, <1>8, <1>9, <1>10, <1>12, <1>13, <1>14, <1>16, <1>17, <1>18
     DEF FixInv

\* The attempts of one step are those of one definition, one a document, the
\* main document always among them.
LEMMA AttemptedIs ==
  ASSUME FixInv, Attempt
  PROVE  \E new : /\ attempts' = attempts \cup new
                  /\ \A a \in new : a.def = Head(pending)
                  /\ \A a, b \in new : a.doc = b.doc => a = b
                  /\ \E a \in new : TRUE
<1> DEFINE i == Head(pending)
<1>1. PICK declined \in Declined(order[i]) :
        attempts' = attempts \cup
          {[def |-> i, doc |-> d, declined |-> d \in declined,
            vals |-> Resolved(Views(i, declined)[d - 1], order[i], ScopeAt(order[i], d))] :
              d \in {d \in Docs : Attempts(order[i], Views(i, declined)[d - 1], d)}}
  BY DEF Attempt
<1> DEFINE tried == {d \in Docs : Attempts(order[i], Views(i, declined)[d - 1], d)}
           row(d) == [def |-> i, doc |-> d, declined |-> d \in declined,
                      vals |-> Resolved(Views(i, declined)[d - 1], order[i], ScopeAt(order[i], d))]
           new == {row(d) : d \in tried}
<1>2. 0 \in tried
  BY DocCountAssumption DEF Docs, Attempts
<1>3. \A d : row(d).def = i /\ row(d).doc = d
  OBVIOUS
<1>4. attempts' = attempts \cup new
  BY <1>1
<1> HIDE DEF row, tried, i
<1>5. \A a \in new : a.def = i
  BY <1>3
<1>6. \A a, b \in new : a.doc = b.doc => a = b
  BY <1>3
<1>7. \E a \in new : TRUE
  BY <1>2
<1> HIDE DEF new
<1>8. \A a \in new : a.def = Head(pending)
  BY <1>5 DEF i
<1> QED
  BY <1>4, <1>6, <1>7, <1>8

\* The definition attempted moves from what is pending to what is settled.
LEMMA AttemptKeeps == ASSUME FixInv, Attempt PROVE FixInv'
<1> DEFINE i == Head(pending)
<1>1. /\ pending \in Seq(Ranks) /\ pending # <<>> /\ deferred \in Seq(Ranks)
      /\ order \in Seq(Definition) /\ view \in Seq(ViewTag) /\ pass_len \in Nat
      /\ Once /\ NoRepeats(pending) /\ NoRepeats(deferred) /\ Apart
      /\ Partition /\ Shares /\ NotBuilt /\ PassWaits /\ ended = FALSE
      /\ pending' = Tail(pending) /\ not_built' = not_built \ {order[i].name}
  BY DEF FixInv, Attempt, Settle
<1>2. UNCHANGED <<order, sink, pass_len, deferred, all_built, ended>>
  BY DEF Attempt
<1>3. /\ i \in Ranks /\ i = pending[1] /\ 1 \in DOMAIN pending
      /\ pending' \in Seq(Ranks) /\ Len(pending') = Len(pending) - 1 /\ Len(pending) \in Nat
      /\ \A p \in DOMAIN pending' : p \in Nat /\ p + 1 \in DOMAIN pending
                                  /\ pending'[p] = pending[p + 1] /\ p + 1 # 1
      /\ \A p \in DOMAIN pending :
           p = 1 \/ (p - 1 \in DOMAIN pending' /\ pending[p] = pending'[p - 1])
  BY <1>1, HeadAndTail
<1>4. PICK new : /\ attempts' = attempts \cup new
                 /\ \A a \in new : a.def = i
                 /\ \A a, b \in new : a.doc = b.doc => a = b
                 /\ \E a \in new : TRUE
  BY AttemptedIs
<1>5. view' \in Seq(ViewTag)
  <2>1. \E declined : view' = Views(i, declined)[DocCount]
    BY DEF Attempt
  <2> QED
    BY <1>1, <1>3, <2>1, ViewsTyped
<1> HIDE DEF i
<1>6. Ranks' = Ranks /\ ViewTag' = ViewTag
  BY <1>2 DEF Ranks, ViewTag
<1>7. i \notin Settled /\ \A q \in DOMAIN deferred : i # deferred[q]
  BY <1>1, <1>3 DEF Apart
<1>8. Settled' = Settled \cup {i}
  <2>1. \A x : x \in Settled' <=> \E a \in attempts \cup new : x = a.def
    BY <1>4 DEF Settled
  <2>2. \A x : x \in Settled <=> \E a \in attempts : x = a.def
    BY DEF Settled
  <2>3. \A x : x \in Settled' <=> x \in Settled \/ x = i
    BY <1>4, <2>1, <2>2
  <2> QED
    BY <2>3
<1>9. \A p \in DOMAIN pending' : pending'[p] # i
  BY <1>1, <1>3 DEF NoRepeats
<1>10. Once'
  <2>1. \A a \in attempts : a.def # i
    BY <1>7 DEF Settled
  <2>2. \A a, b \in attempts \cup new : a.def = b.def /\ a.doc = b.doc => a = b
    BY <1>1, <1>4, <2>1 DEF Once
  <2> QED
    BY <1>4, <2>2 DEF Once
<1>11. NoRepeats(pending)'
  <2> SUFFICES ASSUME NEW p \in DOMAIN pending', NEW q \in DOMAIN pending', pending'[p] = pending'[q]
               PROVE  p = q
    BY DEF NoRepeats
  <2>1. p + 1 = q + 1 /\ p \in Nat /\ q \in Nat
    BY <1>1, <1>3 DEF NoRepeats
  <2> QED
    BY <2>1
<1>12. NoRepeats(deferred)'
  BY <1>1, <1>2 DEF NoRepeats
<1>13. Apart'
  <2>1. \A p \in DOMAIN pending' : /\ pending'[p] \notin Settled
                                 /\ \A q \in DOMAIN deferred : pending'[p] # deferred[q]
    BY <1>1, <1>3 DEF Apart
  <2>2. \A q \in DOMAIN deferred : deferred[q] \notin Settled
    BY <1>1 DEF Apart
  <2> QED
    BY <1>2, <1>7, <1>8, <1>9, <2>1, <2>2 DEF Apart
<1>14. Partition'
  <2>1. \A x : x \in SeqRange(pending) <=> (x = i \/ x \in SeqRange(pending'))
    BY <1>3, SMTT(30) DEF SeqRange
  <2>2. Settled' \cup SeqRange(pending') \cup SeqRange(deferred) = Ranks
    BY <1>1, <1>8, <2>1 DEF Partition
  <2> QED
    BY <1>2, <1>6, <2>2 DEF Partition, SeqRange
<1>15. Shares'
  <2>1. /\ Cardinality(Settled) \in Nat /\ IsFiniteSet(Settled')
        /\ Cardinality(Settled') = Cardinality(Settled) + 1
    BY <1>1, <1>7, <1>8, FS_CardinalityType, FS_AddElement DEF Shares
  <2>2. Len(deferred) \in Nat
    BY <1>1
  <2> QED
    BY <1>1, <1>2, <1>3, <2>1, <2>2 DEF Shares
<1>16. NotBuilt'
  <2>1. {order[k].name : k \in Settled'} = {order[k].name : k \in Settled} \cup {order[i].name}
    BY <1>8
  <2>2. not_built' = {order[k].name : k \in Ranks} \ {order[k].name : k \in Settled'}
    BY <1>1, <2>1 DEF NotBuilt
  <2> QED
    BY <1>2, <1>6, <2>2 DEF NotBuilt
<1>17. PassWaits'
  <2>1. Len(deferred) \in Nat
    BY <1>1
  <2>2. Len(deferred') + Len(pending') < pass_len'
    BY <1>1, <1>2, <1>3, <2>1 DEF PassWaits
  <2>3. Len(deferred') \in Nat /\ Len(pending') \in Nat /\ pass_len' \in Nat
    BY <1>1, <1>2, <1>3, <2>1
  <2> QED
    BY <2>2, <2>3 DEF PassWaits
<1>18. EndedRight'
  BY <1>1, <1>2 DEF EndedRight
<1> QED
  BY <1>1, <1>2, <1>3, <1>5, <1>6, <1>10, <1>11, <1>12, <1>13, <1>14, <1>15, <1>16, <1>17, <1>18
     DEF FixInv

LEMMA StopKeeps == ASSUME FixInv, Stop PROVE FixInv'
<1>1. UNCHANGED <<order, sink, view, not_built, pending, pass_len, deferred, all_built, attempts>>
  BY DEF Stop
<1>2. EndedRight'
  BY DEF Stop, EndedRight
<1>3. Settled' = Settled /\ Ranks' = Ranks /\ ViewTag' = ViewTag
  BY <1>1 DEF Settled, Ranks, ViewTag
<1>4. MustWait' = MustWait
  BY <1>1, <1>3 DEF MustWait, MustDefer, ReferencesUnbuilt, HasComposite
<1>5. Once' /\ NoRepeats(pending)' /\ NoRepeats(deferred)' /\ Apart'
  BY <1>1, <1>3 DEF FixInv, Once, NoRepeats, Apart
<1>6. Partition' /\ Shares' /\ NotBuilt'
  BY <1>1, <1>3 DEF FixInv, Partition, Shares, NotBuilt, SeqRange
<1>7. PassWaits'
  BY <1>1, <1>4 DEF FixInv, PassWaits
<1> QED
  BY <1>1, <1>2, <1>3, <1>5, <1>6, <1>7 DEF FixInv

\* A new pass begins with what the last one deferred.
LEMMA NextPassKeeps == ASSUME FixInv, NextPass PROVE FixInv'
<1>1. /\ UNCHANGED <<order, sink, view, not_built, ended, attempts>>
      /\ pending = <<>> /\ pending' = deferred /\ deferred' = <<>> /\ pass_len' = Len(deferred)
      /\ ended = FALSE
  BY DEF NextPass, FixInv, EndedRight
<1>2. Settled' = Settled /\ Ranks' = Ranks /\ ViewTag' = ViewTag
  BY <1>1 DEF Settled, Ranks, ViewTag
<1>3. /\ DOMAIN pending = {} /\ Len(pending) = 0 /\ DOMAIN deferred' = {} /\ Len(deferred') = 0
      /\ deferred' \in Seq(Ranks) /\ deferred \in Seq(Ranks) /\ Len(deferred) \in Nat
  BY <1>1 DEF FixInv
<1>4. Once' /\ NoRepeats(pending)' /\ NoRepeats(deferred)' /\ Apart'
  BY <1>1, <1>2, <1>3 DEF FixInv, Once, NoRepeats, Apart
<1>5. Partition'
  BY <1>1, <1>2, <1>3 DEF FixInv, Partition, SeqRange
<1>6. Shares'
  <2>1. Cardinality(Settled) \in Nat
    BY FS_CardinalityType DEF FixInv, Shares
  <2> QED
    BY <1>1, <1>2, <1>3, <2>1 DEF FixInv, Shares
<1>7. NotBuilt'
  BY <1>1, <1>2 DEF FixInv, NotBuilt
<1>8. PassWaits' /\ EndedRight'
  BY <1>1, <1>3 DEF PassWaits, EndedRight
<1> QED
  BY <1>1, <1>2, <1>3, <1>4, <1>5, <1>6, <1>7, <1>8 DEF FixInv

LEMMA FixInductive == Spec => []FixInv
<1>1. FixInv /\ [Next]_vars => FixInv'
  <2> SUFFICES ASSUME FixInv, [Next]_vars PROVE FixInv'
    OBVIOUS
  <2>1. CASE UNCHANGED vars
    <3>1. UNCHANGED <<order, sink, view, not_built, pending, pass_len, deferred, all_built, ended,
                      attempts>>
      BY <2>1 DEF vars
    <3>2. Settled' = Settled /\ Ranks' = Ranks /\ ViewTag' = ViewTag
      BY <3>1 DEF Settled, Ranks, ViewTag
    <3>3. MustWait' = MustWait
      BY <3>1, <3>2 DEF MustWait, MustDefer, ReferencesUnbuilt, HasComposite
    <3>4. Once' /\ NoRepeats(pending)' /\ NoRepeats(deferred)' /\ Apart'
      BY <3>1, <3>2 DEF FixInv, Once, NoRepeats, Apart
    <3>5. Partition' /\ Shares' /\ NotBuilt'
      BY <3>1, <3>2 DEF FixInv, Partition, Shares, NotBuilt, SeqRange
    <3>6. PassWaits' /\ EndedRight'
      BY <3>1, <3>3 DEF FixInv, PassWaits, EndedRight
    <3> QED
      BY <3>1, <3>2, <3>4, <3>5, <3>6 DEF FixInv
  <2> QED
    BY <2>1, DeferKeeps, AttemptKeeps, StopKeeps, NextPassKeeps DEF Next
<1> QED
  BY <1>1, InitFix, PTL DEF Spec

-----------------------------------------------------------------------------
(* Type correctness: every definition is settled, pending or deferred, and  *)
(* only one of these, and no document is attempted twice (Composite.tla,    *)
(* for run_fixpoint's pending, deferred and not_built).                     *)
THEOREM CompositeTypeCorrect == Spec => []TypeOK
<1>1. FixInv => TypeOK
  <2> SUFFICES ASSUME FixInv PROVE TypeOK
    OBVIOUS
  <2>1. \A a \in attempts : Cardinality({b \in attempts : b.def = a.def /\ b.doc = a.doc}) = 1
    <3> TAKE a \in attempts
    <3>1. {b \in attempts : b.def = a.def /\ b.doc = a.doc} = {a}
      BY DEF FixInv, Once
    <3> QED
      BY <3>1, FS_Singleton
  <2> QED
    BY <2>1 DEF FixInv, TypeOK, ViewTag, Partition, Shares, NotBuilt
<1> QED
  BY <1>1, FixInductive, PTL

\* A definition that run_fixpoint gives up waits, by an input that is not an
\* Inhibit, for another one given up: whatever the registry, only a dependency
\* cycle loses a Composite tag.
THEOREM DropsOnlyCycles == Spec => []DroppedOnCycle
<1>1. FixInv => DroppedOnCycle
  <2> SUFFICES ASSUME FixInv, ended, NEW i \in Ranks \ Settled
               PROVE  \E k \in DOMAIN order[i].inputs :
                        /\ "Composite" \in order[i].inputs[k].groups
                        /\ order[i].inputs[k].kind # "Inhibit"
                        /\ \E j \in Ranks \ Settled : order[j].name = order[i].inputs[k].name
    BY DEF DroppedOnCycle
  <2>1. /\ pending = <<>> /\ (deferred = <<>> \/ (Len(deferred) = pass_len /\ all_built))
        /\ Partition /\ NotBuilt /\ PassWaits /\ deferred \in Seq(Ranks) /\ pass_len \in Nat
    BY DEF FixInv, EndedRight
  <2>2. SeqRange(pending) = {}
    BY <2>1 DEF SeqRange
  <2>3. PICK q \in DOMAIN deferred : deferred[q] = i
    BY <2>1, <2>2 DEF Partition, SeqRange
  <2>4. deferred # <<>> /\ Len(pending) = 0 /\ Len(deferred) \in Nat
    BY <2>1, <2>3
  <2>5. all_built /\ i \in MustWait
    BY <2>1, <2>3, <2>4 DEF PassWaits
  <2>6. PICK k \in DOMAIN order[i].inputs :
          ReferencesUnbuilt(order[i].inputs[k]) /\ order[i].inputs[k].kind # "Inhibit"
    BY <2>5 DEF MustWait, MustDefer
  <2>7. "Composite" \in order[i].inputs[k].groups /\ order[i].inputs[k].name \in not_built
    BY <2>6 DEF ReferencesUnbuilt
  <2>8. \E j \in Ranks \ Settled : order[j].name = order[i].inputs[k].name
    BY <2>1, <2>7 DEF NotBuilt
  <2> QED
    BY <2>6, <2>7, <2>8
<1> QED
  BY <1>1, FixInductive, PTL
=============================================================================
