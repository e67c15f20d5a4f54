------------------------- MODULE DiagnosticsProofs -------------------------
(***************************************************************************)
(* What the drain writes, for every stream of diagnostics: the document    *)
(* warnings in the order they were first fired, none lost and none twice,  *)
(* each with the count of the repetitions that may be counted.             *)
(***************************************************************************)
EXTENDS Diagnostics, FiniteSetTheorems, TLAPS

AMessage == [prefix : {"", "[Minor] ", "[minor] "}, text : Texts]
Entry == [message : AMessage, count : Nat]

IsWarning(d) == d.group = Document /\ d.severity = "Warning"

HasFirst(S) == \E i \in S : \A j \in S : i <= j

\* The document warnings of a stream with message m, and those that repeat the
\* first of them and count.
FiredIn(stream, m) == {i \in DOMAIN stream : IsWarning(stream[i]) /\ Message(stream[i]) = m}
Repeated(stream, m) ==
  {i \in FiredIn(stream, m) \ {FirstOf(FiredIn(stream, m))} : ~stream[i].no_count}

\* Every warning of the stream is in the list ...
Listed ==
  \A i \in DOMAIN fired :
    IsWarning(fired[i]) => \E p \in DOMAIN warned : warned[p].message = Message(fired[i])

\* ... and every entry of the list was fired.
WasFired == \A p \in DOMAIN warned : HasFirst(FiredIn(fired, warned[p].message))

InOrder ==
  \A p, q \in DOMAIN warned :
    p < q => FirstOf(FiredIn(fired, warned[p].message)) < FirstOf(FiredIn(fired, warned[q].message))

Counts ==
  \A p \in DOMAIN warned :
    warned[p].count = 1 + Cardinality(Repeated(fired, warned[p].message))

DrainInv ==
  /\ fired \in Seq(Diagnostic)
  /\ warned \in Seq(Entry)
  /\ drained \in BOOLEAN
  /\ warnings = IF drained THEN warned ELSE <<>>
  /\ Listed
  /\ WasFired
  /\ InOrder
  /\ Counts

-----------------------------------------------------------------------------
(* The first of a set of positions.                                         *)

LEMMA FirstIs ==
  ASSUME NEW S \in SUBSET Nat, HasFirst(S)
  PROVE  /\ FirstOf(S) \in S /\ FirstOf(S) \in Nat /\ \A j \in S : FirstOf(S) <= j
         /\ \A i \in S : (\A j \in S : i <= j) => FirstOf(S) = i
<1>1. \E i \in S : \A j \in S : i <= j
  BY DEF HasFirst
<1>2. FirstOf(S) \in S /\ \A j \in S : FirstOf(S) <= j
  BY <1>1 DEF FirstOf
<1>3. ASSUME NEW i \in S, \A j \in S : i <= j
      PROVE  FirstOf(S) = i
  <2>1. i <= FirstOf(S) /\ FirstOf(S) <= i
    BY <1>2, <1>3
  <2>2. i \in Nat /\ FirstOf(S) \in Nat
    BY <1>2
  <2> QED
    BY <2>1, <2>2
<1> QED
  BY <1>2, <1>3

LEMMA FirstOfOne == \A n \in Nat : HasFirst({n}) /\ FirstOf({n}) = n
<1> TAKE n \in Nat
<1>1. HasFirst({n})
  BY DEF HasFirst
<1> QED
  BY <1>1, FirstIs

\* A later position changes nothing about the first.
LEMMA FirstStays ==
  ASSUME NEW S \in SUBSET Nat, HasFirst(S), NEW n \in Nat, \A j \in S : j < n
  PROVE  HasFirst(S \cup {n}) /\ FirstOf(S \cup {n}) = FirstOf(S) /\ FirstOf(S) < n
<1>1. FirstOf(S) \in S /\ FirstOf(S) \in Nat /\ \A j \in S : FirstOf(S) <= j
  BY FirstIs
<1>2. FirstOf(S) < n /\ \A j \in S \cup {n} : FirstOf(S) <= j
  <2>1. FirstOf(S) < n
    BY <1>1
  <2> QED
    BY <1>1, <2>1
<1>3. HasFirst(S \cup {n})
  BY <1>1, <1>2 DEF HasFirst
<1> QED
  BY <1>1, <1>2, <1>3, FirstIs

-----------------------------------------------------------------------------
(* One more diagnostic.                                                     *)

LEMMA MessageTyped == \A d \in Diagnostic : Message(d) \in AMessage
BY DEF Diagnostic, Message, AMessage

LEMMA FiredTyped ==
  ASSUME NEW stream \in Seq(Diagnostic), NEW m
  PROVE  /\ FiredIn(stream, m) \subseteq 1..Len(stream) /\ FiredIn(stream, m) \in SUBSET Nat
         /\ \A i \in FiredIn(stream, m) : i < Len(stream) + 1
         /\ IsFiniteSet(Repeated(stream, m)) /\ Cardinality(Repeated(stream, m)) \in Nat
<1>1. FiredIn(stream, m) \subseteq 1..Len(stream) /\ Len(stream) \in Nat
  BY DEF FiredIn
<1>2. Repeated(stream, m) \subseteq 1..Len(stream)
  BY <1>1 DEF Repeated
<1>3. IsFiniteSet(1..Len(stream))
  BY <1>1, FS_Interval
<1>4. IsFiniteSet(Repeated(stream, m)) /\ Cardinality(Repeated(stream, m)) \in Nat
  BY <1>2, <1>3, FS_Subset, FS_CardinalityType
<1> QED
  BY <1>1, <1>4

LEMMA StreamGrows ==
  ASSUME NEW stream \in Seq(Diagnostic), NEW d \in Diagnostic
  PROVE  /\ Append(stream, d) \in Seq(Diagnostic)
         /\ DOMAIN stream = 1..Len(stream) /\ DOMAIN Append(stream, d) = 1..(Len(stream) + 1)
         /\ Append(stream, d)[Len(stream) + 1] = d
         /\ \A i \in 1..Len(stream) : Append(stream, d)[i] = stream[i]
         /\ Len(stream) \in Nat
OBVIOUS

\* A diagnostic that is no warning with message m changes nothing about m.
LEMMA FiredSame ==
  ASSUME NEW stream \in Seq(Diagnostic), NEW d \in Diagnostic, NEW m,
         ~(IsWarning(d) /\ Message(d) = m)
  PROVE  /\ FiredIn(Append(stream, d), m) = FiredIn(stream, m)
         /\ Repeated(Append(stream, d), m) = Repeated(stream, m)
<1> DEFINE longer == Append(stream, d)
<1>1. /\ DOMAIN stream = 1..Len(stream) /\ DOMAIN longer = 1..(Len(stream) + 1)
      /\ longer[Len(stream) + 1] = d /\ \A i \in 1..Len(stream) : longer[i] = stream[i]
      /\ Len(stream) \in Nat
  BY StreamGrows
<1>2. \A i \in 1..(Len(stream) + 1) : i \in 1..Len(stream) \/ i = Len(stream) + 1
  BY <1>1
<1>3. 1..Len(stream) \subseteq 1..(Len(stream) + 1)
  BY <1>1
<1> HIDE DEF longer
<1>4. FiredIn(longer, m) = FiredIn(stream, m)
  BY <1>1, <1>2, <1>3 DEF FiredIn
<1>5. \A i \in FiredIn(stream, m) : longer[i] = stream[i]
  BY <1>1, FiredTyped
<1>6. Repeated(longer, m) = Repeated(stream, m)
  BY <1>4, <1>5 DEF Repeated
<1> QED
  BY <1>4, <1>6 DEF longer

LEMMA FiredGrows ==
  ASSUME NEW stream \in Seq(Diagnostic), NEW d \in Diagnostic, IsWarning(d)
  PROVE  FiredIn(Append(stream, d), Message(d)) = FiredIn(stream, Message(d)) \cup {Len(stream) + 1}
<1> DEFINE longer == Append(stream, d)
<1>1. /\ DOMAIN stream = 1..Len(stream) /\ DOMAIN longer = 1..(Len(stream) + 1)
      /\ longer[Len(stream) + 1] = d /\ \A i \in 1..Len(stream) : longer[i] = stream[i]
      /\ Len(stream) \in Nat
  BY StreamGrows
<1>2. \A i \in 1..(Len(stream) + 1) : i \in 1..Len(stream) \/ i = Len(stream) + 1
  BY <1>1
<1>3. 1..Len(stream) \subseteq 1..(Len(stream) + 1) /\ Len(stream) + 1 \in 1..(Len(stream) + 1)
  BY <1>1
<1> HIDE DEF longer
<1>4. FiredIn(longer, Message(d)) = FiredIn(stream, Message(d)) \cup {Len(stream) + 1}
  BY <1>1, <1>2, <1>3 DEF FiredIn
<1> QED
  BY <1>4 DEF longer

\* One more warning of a message that was fired before is a repetition of it.
LEMMA RepeatedNext ==
  ASSUME NEW stream \in Seq(Diagnostic), NEW d \in Diagnostic, IsWarning(d),
         HasFirst(FiredIn(stream, Message(d)))
  PROVE  LET longer == Append(stream, d)
             m == Message(d)
         IN  /\ HasFirst(FiredIn(longer, m))
             /\ FirstOf(FiredIn(longer, m)) = FirstOf(FiredIn(stream, m))
             /\ Cardinality(Repeated(longer, m)) =
                  IF d.no_count THEN Cardinality(Repeated(stream, m))
                  ELSE Cardinality(Repeated(stream, m)) + 1
<1> DEFINE longer == Append(stream, d)
           m == Message(d)
           n == Len(stream) + 1
           before == FiredIn(stream, m)
           after == FiredIn(longer, m)
           first == FirstOf(before)
<1>1. /\ n \in Nat /\ after = before \cup {n} /\ before \in SUBSET Nat /\ HasFirst(before)
      /\ \A j \in before : j < n
  BY FiredGrows, FiredTyped
<1>2. longer[n] = d /\ \A i \in before : longer[i] = stream[i]
  <2>1. before \subseteq 1..Len(stream)
    BY FiredTyped
  <2> QED
    BY <2>1, StreamGrows
<1>3. Repeated(longer, m) = {i \in after \ {FirstOf(after)} : ~longer[i].no_count}
  BY DEF Repeated
<1>4. Repeated(stream, m) = {i \in before \ {first} : ~stream[i].no_count}
  BY DEF Repeated
<1>5. IsFiniteSet(Repeated(stream, m)) /\ Cardinality(Repeated(stream, m)) \in Nat
  BY FiredTyped
<1> HIDE DEF longer, m, n, before, after
<1>6. HasFirst(after) /\ FirstOf(after) = first /\ first < n
  BY <1>1, FirstStays
<1>7. first \in Nat
  BY <1>1, FirstIs
<1> HIDE DEF first
<1>8. n # first /\ n \notin before
  BY <1>1, <1>6, <1>7
<1>9. CASE d.no_count
  <2>1. Repeated(longer, m) = Repeated(stream, m)
    BY <1>1, <1>2, <1>3, <1>4, <1>6, <1>8, <1>9
  <2> QED
    BY <1>6, <1>9, <2>1 DEF longer, m, after, before, first
<1>10. CASE ~d.no_count
  <2>1. Repeated(longer, m) = Repeated(stream, m) \cup {n}
    BY <1>1, <1>2, <1>3, <1>4, <1>6, <1>8, <1>10
  <2>2. n \notin Repeated(stream, m)
    BY <1>4, <1>8
  <2>3. Cardinality(Repeated(stream, m) \cup {n}) = Cardinality(Repeated(stream, m)) + 1
    BY <1>5, <2>2, FS_AddElement
  <2> QED
    BY <1>6, <1>10, <2>1, <2>3 DEF longer, m, after, before, first
<1> QED
  BY <1>9, <1>10

\* The first warning of a message has no repetition.
LEMMA RepeatedNone ==
  ASSUME NEW stream \in Seq(Diagnostic), NEW d \in Diagnostic, IsWarning(d),
         FiredIn(stream, Message(d)) = {}
  PROVE  LET after == FiredIn(Append(stream, d), Message(d))
         IN  /\ HasFirst(after) /\ FirstOf(after) = Len(stream) + 1
             /\ Cardinality(Repeated(Append(stream, d), Message(d))) = 0
<1> DEFINE longer == Append(stream, d)
           m == Message(d)
<1>1. FiredIn(longer, m) = {Len(stream) + 1} /\ Len(stream) + 1 \in Nat
  BY FiredGrows, FiredTyped
<1>2. HasFirst(FiredIn(longer, m)) /\ FirstOf(FiredIn(longer, m)) = Len(stream) + 1
  BY <1>1, FirstOfOne
<1>3. Repeated(longer, m) = {}
  BY <1>1, <1>2 DEF Repeated
<1> QED
  BY <1>2, <1>3, FS_EmptySet

-----------------------------------------------------------------------------
(* The list is kept right.                                                  *)

LEMMA FirstWarningKeeps ==
  ASSUME DrainInv, NEW d \in Diagnostic, FirstWarning(d)
  PROVE  DrainInv'
<1> DEFINE n == Len(fired) + 1
           k == Len(warned) + 1
           m == Message(d)
           entry == [message |-> Message(d), count |-> 1]
<1>1. /\ fired \in Seq(Diagnostic) /\ warned \in Seq(Entry) /\ ~drained /\ IsWarning(d)
      /\ Known(m) = {} /\ fired' = Append(fired, d) /\ warned' = Append(warned, entry)
      /\ warnings = <<>> /\ UNCHANGED <<warnings, drained>> /\ WasFired /\ InOrder /\ Counts
  BY DEF DrainInv, FirstWarning, Consume, IsWarning
<1>2. entry \in Entry /\ entry.message = m /\ entry.count = 1
  BY MessageTyped DEF Entry
<1>3. FiredIn(fired, m) = {}
  BY DEF DrainInv, Listed, FiredIn, FirstWarning, Known
<1>4. /\ HasFirst(FiredIn(fired', m)) /\ FirstOf(FiredIn(fired', m)) = n
      /\ Cardinality(Repeated(fired', m)) = 0
  BY <1>1, <1>3, RepeatedNone
<1>5. \A p \in DOMAIN warned : warned[p].message # m
  BY <1>1 DEF Known
<1>6. \A p \in DOMAIN warned :
        /\ FiredIn(fired', warned[p].message) = FiredIn(fired, warned[p].message)
        /\ Repeated(fired', warned[p].message) = Repeated(fired, warned[p].message)
  BY <1>1, <1>5, FiredSame
<1>7. n \in Nat /\ \A x : FiredIn(fired, x) \in SUBSET Nat /\ \A i \in FiredIn(fired, x) : i < n
  BY <1>1, FiredTyped
<1>8. \A i \in DOMAIN fired' : IsWarning(fired'[i]) =>
        Message(fired'[i]) = m \/ \E p \in DOMAIN warned : warned[p].message = Message(fired'[i])
  <2> TAKE i \in DOMAIN fired'
  <2>1. i \in DOMAIN fired \/ fired'[i] = d
    BY <1>1, StreamGrows
  <2>2. CASE i \in DOMAIN fired
    <3>1. fired'[i] = fired[i]
      BY <1>1, <2>2, StreamGrows
    <3> QED
      BY <2>2, <3>1 DEF DrainInv, Listed
  <2> QED
    BY <2>1, <2>2
<1> HIDE DEF entry, m, n
<1>9. /\ warned' \in Seq(Entry) /\ DOMAIN warned' = 1..k /\ k \in 1..k
      /\ warned'[k] = entry /\ \A p \in DOMAIN warned : warned'[p] = warned[p] /\ p < k /\ p \in 1..k
      /\ \A p \in 1..k : p \in DOMAIN warned \/ p = k
      /\ \A p, q \in 1..k : p < q => p \in DOMAIN warned
  BY <1>1, <1>2
<1> HIDE DEF k
<1>10. Listed'
  BY <1>2, <1>8, <1>9 DEF Listed
<1>11. WasFired'
  BY <1>1, <1>2, <1>4, <1>6, <1>9 DEF WasFired
<1>12. InOrder'
  <2> SUFFICES ASSUME NEW p \in 1..k, NEW q \in 1..k, p < q
               PROVE  FirstOf(FiredIn(fired', warned'[p].message))
                        < FirstOf(FiredIn(fired', warned'[q].message))
    BY <1>9 DEF InOrder
  <2>1. p \in DOMAIN warned
    BY <1>9
  <2>2. FirstOf(FiredIn(fired', warned'[p].message)) = FirstOf(FiredIn(fired, warned[p].message))
    BY <1>6, <1>9, <2>1
  <2>3. CASE q = k
    <3>1. FirstOf(FiredIn(fired, warned[p].message)) \in FiredIn(fired, warned[p].message)
      BY <1>1, <1>7, <2>1, FirstIs DEF WasFired
    <3> QED
      BY <1>2, <1>4, <1>7, <1>9, <2>2, <2>3, <3>1
  <2>4. CASE q \in DOMAIN warned
    BY <1>1, <1>6, <1>9, <2>1, <2>2, <2>4 DEF InOrder
  <2> QED
    BY <1>9, <2>3, <2>4
<1>13. Counts'
  <2> SUFFICES ASSUME NEW p \in 1..k
               PROVE  warned'[p].count = 1 + Cardinality(Repeated(fired', warned'[p].message))
    BY <1>9 DEF Counts
  <2>1. CASE p = k
    BY <1>2, <1>4, <1>9, <2>1
  <2>2. CASE p \in DOMAIN warned
    BY <1>1, <1>6, <1>9, <2>2 DEF Counts
  <2> QED
    BY <1>9, <2>1, <2>2
<1>14. fired' \in Seq(Diagnostic)
  BY <1>1
<1> QED
  BY <1>1, <1>9, <1>10, <1>11, <1>12, <1>13, <1>14 DEF DrainInv

\* Two entries never have the same message.
LEMMA EntriesDiffer ==
  ASSUME DrainInv
  PROVE  \A p, q \in DOMAIN warned : warned[p].message = warned[q].message => p = q
<1> SUFFICES ASSUME NEW p \in DOMAIN warned, NEW q \in DOMAIN warned,
                    warned[p].message = warned[q].message, p # q
             PROVE  FALSE
  OBVIOUS
<1> DEFINE first == FirstOf(FiredIn(fired, warned[p].message))
<1>1. first \in Nat
  BY FiredTyped, FirstIs DEF DrainInv, WasFired
<1>2. p < q \/ q < p
  BY DEF DrainInv
<1>3. first < first
  BY <1>2 DEF DrainInv, InOrder
<1> QED
  BY <1>1, <1>3

LEMMA RepeatedWarningKeeps ==
  ASSUME DrainInv, NEW d \in Diagnostic, RepeatedWarning(d)
  PROVE  DrainInv'
<1> DEFINE m == Message(d)
<1>1. /\ fired \in Seq(Diagnostic) /\ warned \in Seq(Entry) /\ ~drained /\ IsWarning(d)
      /\ fired' = Append(fired, d)
      /\ warned' = [p \in DOMAIN warned |->
                      IF p \in Known(m) THEN Bump(d, warned[p]) ELSE warned[p]]
      /\ warnings = <<>> /\ UNCHANGED <<warnings, drained>> /\ WasFired /\ InOrder /\ Counts
  BY DEF DrainInv, RepeatedWarning, Consume, IsWarning
<1>2. PICK known \in DOMAIN warned : warned[known].message = m
  BY DEF RepeatedWarning, Known
<1>3. \A p \in DOMAIN warned : p \in Known(m) <=> warned[p].message = m
  BY DEF Known
<1>4. \A p \in DOMAIN warned : warned[p] \in Entry /\ warned[p].count \in Nat
  <2> TAKE p \in DOMAIN warned
  <2>1. warned[p] \in Entry
    BY <1>1
  <2> QED
    BY <2>1 DEF Entry
<1>5. \A e \in Entry : /\ Bump(d, e) \in Entry /\ Bump(d, e).message = e.message
                       /\ Bump(d, e).count = IF d.no_count THEN e.count ELSE e.count + 1
  BY DEF Bump, Entry
<1>6. /\ DOMAIN warned' = DOMAIN warned /\ warned' \in Seq(Entry)
      /\ \A p \in DOMAIN warned : warned'[p].message = warned[p].message
  <2>1. \A p \in DOMAIN warned :
          warned'[p] = IF p \in Known(m) THEN Bump(d, warned[p]) ELSE warned[p]
    BY <1>1
  <2>2. \A p \in DOMAIN warned :
          warned'[p] \in Entry /\ warned'[p].message = warned[p].message
    BY <1>4, <1>5, <2>1
  <2>3. DOMAIN warned' = DOMAIN warned
    BY <1>1
  <2>4. warned' = [p \in 1..Len(warned) |-> warned'[p]] /\ DOMAIN warned = 1..Len(warned)
    BY <1>1
  <2>5. warned' \in [1..Len(warned) -> Entry] /\ Len(warned) \in Nat
    BY <1>1, <2>2, <2>4
  <2>6. warned' \in Seq(Entry)
    BY <2>5
  <2> QED
    BY <2>2, <2>3, <2>6
<1>7. \A p \in DOMAIN warned :
        warned'[p].count = IF warned[p].message = m /\ ~d.no_count THEN warned[p].count + 1
                           ELSE warned[p].count
  BY <1>1, <1>3, <1>4, <1>5
<1>8. HasFirst(FiredIn(fired, m))
  BY <1>1, <1>2 DEF WasFired
<1>9. /\ HasFirst(FiredIn(fired', m)) /\ FirstOf(FiredIn(fired', m)) = FirstOf(FiredIn(fired, m))
      /\ Cardinality(Repeated(fired', m)) =
           IF d.no_count THEN Cardinality(Repeated(fired, m)) ELSE Cardinality(Repeated(fired, m)) + 1
  BY <1>1, <1>8, RepeatedNext
<1>10. \A x : x # m => /\ FiredIn(fired', x) = FiredIn(fired, x)
                      /\ Repeated(fired', x) = Repeated(fired, x)
  BY <1>1, FiredSame
<1>11. Cardinality(Repeated(fired, m)) \in Nat
  BY <1>1, FiredTyped
<1>12. \A i \in DOMAIN fired' : IsWarning(fired'[i]) =>
         \E p \in DOMAIN warned : warned[p].message = Message(fired'[i])
  <2> TAKE i \in DOMAIN fired'
  <2>1. i \in DOMAIN fired \/ fired'[i] = d
    BY <1>1, StreamGrows
  <2>2. CASE i \in DOMAIN fired
    <3>1. fired'[i] = fired[i]
      BY <1>1, <2>2, StreamGrows
    <3> QED
      BY <2>2, <3>1 DEF DrainInv, Listed
  <2> QED
    BY <1>2, <2>1, <2>2
<1> HIDE DEF m
<1>13. Listed'
  BY <1>6, <1>12 DEF Listed
<1>14. WasFired'
  BY <1>1, <1>6, <1>9, <1>10 DEF WasFired
<1>15. \A p \in DOMAIN warned : FirstOf(FiredIn(fired', warned'[p].message)) =
                                FirstOf(FiredIn(fired, warned[p].message))
  BY <1>6, <1>9, <1>10
<1>16. InOrder'
  BY <1>1, <1>6, <1>15 DEF InOrder
<1>17. Counts'
  <2> SUFFICES ASSUME NEW p \in DOMAIN warned
               PROVE  warned'[p].count = 1 + Cardinality(Repeated(fired', warned'[p].message))
    BY <1>6 DEF Counts
  <2>1. warned[p].count = 1 + Cardinality(Repeated(fired, warned[p].message))
    BY <1>1 DEF Counts
  <2>2. CASE warned[p].message = m
    BY <1>6, <1>7, <1>9, <1>11, <2>1, <2>2
  <2>3. CASE warned[p].message # m
    BY <1>6, <1>7, <1>10, <2>1, <2>3
  <2> QED
    BY <2>2, <2>3
<1>18. fired' \in Seq(Diagnostic)
  BY <1>1
<1> QED
  BY <1>1, <1>6, <1>13, <1>14, <1>16, <1>17, <1>18 DEF DrainInv

\* An error or a diagnostic of a group is in no entry of the list.
LEMMA OtherKeeps ==
  ASSUME DrainInv, NEW d \in Diagnostic, DocumentError(d) \/ GroupTag(d)
  PROVE  DrainInv'
<1>1. /\ fired \in Seq(Diagnostic) /\ ~IsWarning(d) /\ fired' = Append(fired, d)
      /\ UNCHANGED <<warned, warnings, drained>>
  BY DEF DrainInv, DocumentError, GroupTag, Consume, IsWarning
<1>2. \A x : /\ FiredIn(fired', x) = FiredIn(fired, x)
             /\ Repeated(fired', x) = Repeated(fired, x)
  BY <1>1, FiredSame
<1>3. \A i \in DOMAIN fired' : IsWarning(fired'[i]) => i \in DOMAIN fired /\ fired'[i] = fired[i]
  BY <1>1, StreamGrows
<1>4. Listed'
  BY <1>1, <1>3 DEF DrainInv, Listed
<1>5. WasFired' /\ InOrder' /\ Counts'
  BY <1>1, <1>2 DEF DrainInv, WasFired, InOrder, Counts
<1> QED
  BY <1>1, <1>4, <1>5 DEF DrainInv

LEMMA DrainInductive == Spec => []DrainInv
<1>1. Init => DrainInv
  <2> SUFFICES ASSUME Init PROVE DrainInv
    OBVIOUS
  <2>1. fired = <<>> /\ warned = <<>> /\ warnings = <<>> /\ drained = FALSE
    BY DEF Init
  <2>2. DOMAIN fired = {} /\ DOMAIN warned = {}
    BY <2>1
  <2>3. fired \in Seq(Diagnostic) /\ warned \in Seq(Entry)
    BY <2>1
  <2>4. Listed /\ WasFired /\ InOrder /\ Counts
    BY <2>2 DEF Listed, WasFired, InOrder, Counts
  <2> QED
    BY <2>1, <2>3, <2>4 DEF DrainInv
<1>2. DrainInv /\ [Next]_vars => DrainInv'
  <2> SUFFICES ASSUME DrainInv, [Next]_vars PROVE DrainInv'
    OBVIOUS
  <2>1. CASE \E d \in Diagnostic :
               FirstWarning(d) \/ RepeatedWarning(d) \/ DocumentError(d) \/ GroupTag(d)
    BY <2>1, FirstWarningKeeps, RepeatedWarningKeeps, OtherKeeps
  <2>2. CASE Drain
    <3>1. /\ drained' = TRUE /\ warnings' = warned /\ UNCHANGED <<fired, warned>>
      BY <2>2 DEF Drain, Written, DrainInv
    <3> QED
      BY <3>1 DEF DrainInv, Listed, WasFired, InOrder, Counts
  <2>3. CASE UNCHANGED vars
    BY <2>3 DEF vars, DrainInv, Listed, WasFired, InOrder, Counts
  <2> QED
    BY <2>1, <2>2, <2>3 DEF Next
<1> QED
  BY <1>1, <1>2, PTL DEF Spec

-----------------------------------------------------------------------------

LEMMA FiredIsFiredIn == \A m : Fired(m) = FiredIn(fired, m)
BY DEF Fired, FiredIn, IsWarning

LEMMA InvOrder == DrainInv => WarningsInOrder
<1> SUFFICES ASSUME DrainInv, drained
             PROVE  /\ \A i \in DOMAIN fired :
                         fired[i].group = Document /\ fired[i].severity = "Warning" =>
                           \E p \in DOMAIN warnings : warnings[p].message = Message(fired[i])
                    /\ \A p, q \in DOMAIN warnings :
                         p < q => FirstOf(Fired(warnings[p].message)) < FirstOf(Fired(warnings[q].message))
  BY DEF WarningsInOrder
<1>1. warnings = warned /\ Listed /\ InOrder
  BY DEF DrainInv
<1> QED
  BY <1>1, FiredIsFiredIn DEF Listed, InOrder, IsWarning

LEMMA InvCounts == DrainInv => CountsExact
<1> SUFFICES ASSUME DrainInv, NEW p \in DOMAIN warnings
             PROVE  warnings[p].count =
                      1 + Cardinality({i \in Fired(warnings[p].message)
                                             \ {FirstOf(Fired(warnings[p].message))} :
                                         ~fired[i].no_count})
  BY DEF CountsExact
<1>1. warnings = warned /\ Counts
  BY DEF DrainInv
<1> QED
  BY <1>1, FiredIsFiredIn DEF Counts, Repeated

\* The sink gets the distinct warnings of the stream in the order they first came,
\* whatever else fires between them (run_diagnostics_with_options).
THEOREM OrderKept == Spec => []WarningsInOrder
BY DrainInductive, InvOrder, PTL

\* Each warning has the count of its repetitions that may be counted.
THEOREM CountsKept == Spec => []CountsExact
BY DrainInductive, InvCounts, PTL
=============================================================================
