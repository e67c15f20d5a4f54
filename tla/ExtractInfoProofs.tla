------------------------- MODULE ExtractInfoProofs -------------------------
(***************************************************************************)
(* Whoever claims a file is the first candidate that would claim it alone, *)
(* for every table, name, content and parser.  A rejection puts fresh      *)
(* flags back, so every call is made with fresh ones; its answer then is   *)
(* the one it would give alone, and answers are never taken back.          *)
(***************************************************************************)
EXTENDS ExtractInfo, WellFoundedInduction, TLAPS

FreshCall(d, i) == [Call(d, Given(d)[i]) EXCEPT !.flags = "fresh"]

Answered(call, answer) == call \in DOMAIN verdicts /\ verdicts[call] = answer

LoopOK ==
  /\ cursor \in [Drivers -> Nat]
  /\ flags = [d \in Drivers |-> "fresh"]
  /\ result \in [Drivers -> {"running", "accepted", "unsupported", "none"}]

\* A candidate behind the cursor has no parser or was rejected alone.
PassedOver(d, i) ==
  \/ Dispatched(Given(d)[i]) \notin Parsed
  \/ Answered(FreshCall(d, i), FALSE)

PassedRejected == \A d \in Drivers : \A i \in 1..cursor[d] : PassedOver(d, i)

ClaimAnswered ==
  \A d \in Drivers :
    result[d] = "accepted" =>
      /\ Dispatched(Given(d)[cursor[d] + 1]) \in Parsed
      /\ Answered(FreshCall(d, cursor[d] + 1), TRUE)

ClaimInv == LoopOK /\ PassedRejected /\ ClaimAnswered

LEMMA InitClaim == Init => ClaimInv
<1> SUFFICES ASSUME Init PROVE ClaimInv
  OBVIOUS
<1>1. LoopOK
  BY DEF Init, LoopOK
<1>2. PassedRejected
  BY SMT DEF Init, PassedRejected
<1>3. ClaimAnswered
  BY DEF Init, ClaimAnswered
<1> QED
  BY <1>1, <1>2, <1>3 DEF ClaimInv

\* With fresh flags a call is the call alone.
LEMMA CallIsFresh ==
  ASSUME LoopOK, NEW d \in Drivers, NEW i
  PROVE  Call(d, Given(d)[i]) = FreshCall(d, i)
BY DEF LoopOK, Call, FreshCall

\* What the parsers are given does not change.
LEMMA GivenStays ==
  ASSUME UNCHANGED <<name, file>>, NEW d, NEW i
  PROVE  /\ Given(d)' = Given(d)
         /\ Dispatched(Given(d)[i])' = Dispatched(Given(d)[i])
BY DEF Given, NameOf, Dispatched

LEMMA FreshCallStays ==
  ASSUME UNCHANGED <<name, file>>, NEW d, NEW i
  PROVE  FreshCall(d, i)' = FreshCall(d, i)
BY GivenStays DEF FreshCall, Call, Given, NameOf, Dispatched

Kept == \A k \in DOMAIN verdicts : k \in DOMAIN verdicts' /\ verdicts'[k] = verdicts[k]

LEMMA AnsweredStays ==
  ASSUME Kept, NEW call, NEW answer, Answered(call, answer)
  PROVE  call \in DOMAIN verdicts' /\ verdicts'[call] = answer
BY DEF Kept, Answered

LEMMA PassedOverStays ==
  ASSUME UNCHANGED <<name, file>>, Kept, NEW d, NEW i, PassedOver(d, i)
  PROVE  PassedOver(d, i)'
<1>1. CASE Dispatched(Given(d)[i]) \notin Parsed
  BY <1>1, GivenStays DEF PassedOver
<1>2. CASE Answered(FreshCall(d, i), FALSE)
  <2>1. /\ FreshCall(d, i) \in DOMAIN verdicts'
        /\ verdicts'[FreshCall(d, i)] = FALSE
    BY <1>2, AnsweredStays
  <2> QED
    BY <2>1, FreshCallStays DEF PassedOver, Answered
<1> QED
  BY <1>1, <1>2 DEF PassedOver

\* An answer that is given is the one remembered, and none is forgotten.
LEMMA ConsultAnswers ==
  ASSUME LoopOK, NEW d \in Drivers, NEW answer, Consult(d, answer)
  PROVE  /\ Kept
         /\ FreshCall(d, cursor[d] + 1) \in DOMAIN verdicts'
         /\ verdicts'[FreshCall(d, cursor[d] + 1)] = answer
<1> DEFINE call == FreshCall(d, cursor[d] + 1)
<1>1. Call(d, Cand(d)) = call
  BY CallIsFresh DEF Cand
<1>2. /\ call \in DOMAIN verdicts => verdicts[call] = answer
      /\ verdicts' = [k \in DOMAIN verdicts \cup {call} |->
                        IF k \in DOMAIN verdicts THEN verdicts[k] ELSE answer]
  BY <1>1 DEF Consult, Answers
<1> HIDE DEF call
<1>3. Kept
  BY <1>2 DEF Kept
<1>4. call \in DOMAIN verdicts' /\ verdicts'[call] = answer
  BY <1>2
<1> QED
  BY <1>3, <1>4 DEF call

\* The cursor moves past a candidate that is passed over.
LEMMA AdvancePasses ==
  ASSUME ClaimInv, UNCHANGED <<name, file, result>>, Kept, LoopOK',
         NEW d \in Drivers, Running(d), Advance(d),
         NEW n, n = cursor[d] + 1, PassedOver(d, n)'
  PROVE  PassedRejected' /\ ClaimAnswered'
<1>1. ASSUME NEW e \in Drivers, NEW i \in 1..cursor'[e] PROVE PassedOver(e, i)'
  <2>1. CASE i \in 1..cursor[e]
    BY <2>1, PassedOverStays DEF ClaimInv, PassedRejected
  <2>2. CASE i \notin 1..cursor[e]
    <3>1. e = d /\ i = n
      BY <2>2 DEF ClaimInv, LoopOK, Advance
    <3> QED
      BY <3>1
  <2> QED
    BY <2>1, <2>2
<1>2. ASSUME NEW e \in Drivers, result'[e] = "accepted"
      PROVE  /\ Dispatched(Given(e)[cursor[e] + 1])' \in Parsed
             /\ Answered(FreshCall(e, cursor[e] + 1), TRUE)'
  <2>1. result[e] = "accepted" /\ e # d
    BY <1>2 DEF Running
  <2>2. cursor'[e] = cursor[e]
    BY <2>1 DEF ClaimInv, LoopOK, Advance
  <2> QED
    BY <2>1, <2>2, AnsweredStays, GivenStays, FreshCallStays
    DEF ClaimInv, ClaimAnswered, Answered
<1> QED
  BY <1>1, <1>2 DEF PassedRejected, ClaimAnswered

\* A claim ends the loop of its driver, with the answer it got.
LEMMA AcceptClaims ==
  ASSUME ClaimInv, UNCHANGED <<name, file, cursor, flags>>,
         NEW d \in Drivers, Running(d), Consult(d, TRUE), EndsAs(d, "accepted"),
         Dispatched(Cand(d)) \in Parsed
  PROVE  ClaimInv'
<1>1. /\ Kept
      /\ FreshCall(d, cursor[d] + 1) \in DOMAIN verdicts'
      /\ verdicts'[FreshCall(d, cursor[d] + 1)] = TRUE
  BY ConsultAnswers DEF ClaimInv
<1>2. LoopOK'
  BY DEF ClaimInv, LoopOK, EndsAs
<1>3. PassedRejected'
  BY <1>1, PassedOverStays DEF ClaimInv, PassedRejected
<1>4. ASSUME NEW e \in Drivers, result'[e] = "accepted"
      PROVE  /\ Dispatched(Given(e)[cursor[e] + 1])' \in Parsed
             /\ Answered(FreshCall(e, cursor[e] + 1), TRUE)'
  <2>1. CASE e = d
    BY <2>1, <1>1, GivenStays, FreshCallStays DEF Answered, Cand
  <2>2. CASE e # d
    <3>1. result[e] = "accepted"
      BY <2>2, <1>4 DEF ClaimInv, LoopOK, EndsAs
    <3> QED
      BY <3>1, <1>1, AnsweredStays, GivenStays, FreshCallStays
      DEF ClaimInv, ClaimAnswered, Answered
  <2> QED
    BY <2>1, <2>2
<1> QED
  BY <1>2, <1>3, <1>4 DEF ClaimInv, ClaimAnswered

\* An end without a claim.
LEMMA EndKeeps ==
  ASSUME ClaimInv, UNCHANGED <<name, file, cursor, flags, verdicts>>,
         NEW d \in Drivers, NEW how \in {"unsupported", "none"}, EndsAs(d, how)
  PROVE  ClaimInv'
<1>1. Kept
  BY DEF Kept
<1>2. LoopOK'
  BY DEF ClaimInv, LoopOK, EndsAs
<1>3. PassedRejected'
  BY <1>1, PassedOverStays DEF ClaimInv, PassedRejected
<1>4. ASSUME NEW e \in Drivers, result'[e] = "accepted"
      PROVE  /\ Dispatched(Given(e)[cursor[e] + 1])' \in Parsed
             /\ Answered(FreshCall(e, cursor[e] + 1), TRUE)'
  <2>1. result[e] = "accepted"
    BY <1>4 DEF ClaimInv, LoopOK, EndsAs
  <2> QED
    BY <2>1, <1>1, AnsweredStays, GivenStays, FreshCallStays
    DEF ClaimInv, ClaimAnswered, Answered
<1> QED
  BY <1>2, <1>3, <1>4 DEF ClaimInv, ClaimAnswered

LEMMA ClaimInductive == ClaimInv /\ [Next]_vars => ClaimInv'
<1> SUFFICES ASSUME ClaimInv, [Next]_vars PROVE ClaimInv'
  OBVIOUS
<1>1. ASSUME NEW d \in Drivers, NoParser(d) PROVE ClaimInv'
  <2>1. LoopOK'
    BY <1>1 DEF NoParser, Advance, ClaimInv, LoopOK
  <2>2. PassedOver(d, cursor[d] + 1)
    BY <1>1 DEF NoParser, PassedOver, Cand
  <2>3. Kept
    BY <1>1 DEF NoParser, Kept
  <2>4. PICK n : n = cursor[d] + 1
    OBVIOUS
  <2>5. UNCHANGED <<name, file, result>> /\ Running(d) /\ Advance(d)
    BY <1>1 DEF NoParser
  <2>6. PassedOver(d, n)'
    BY <2>2, <2>3, <2>4, <2>5, PassedOverStays
  <2> QED
    BY <2>1, <2>3, <2>4, <2>5, <2>6, AdvancePasses DEF ClaimInv
<1>2. ASSUME NEW d \in Drivers, Reject(d) PROVE ClaimInv'
  <2>1. LoopOK'
    BY <1>2 DEF Reject, Advance, AfterReject, ClaimInv, LoopOK
  <2>2. /\ Kept
        /\ FreshCall(d, cursor[d] + 1) \in DOMAIN verdicts'
        /\ verdicts'[FreshCall(d, cursor[d] + 1)] = FALSE
    BY <1>2, ConsultAnswers DEF ClaimInv, Reject
  <2>3. PICK n : n = cursor[d] + 1
    OBVIOUS
  <2>4. UNCHANGED <<name, file, result>> /\ Running(d) /\ Advance(d)
    BY <1>2 DEF Reject
  <2>5. PassedOver(d, n)'
    BY <2>2, <2>3, <2>4, FreshCallStays DEF PassedOver, Answered
  <2> QED
    BY <2>1, <2>2, <2>3, <2>4, <2>5, AdvancePasses DEF ClaimInv
<1>3. CASE JsonUnsupported \/ JsonUnclaimed
  BY <1>3, EndKeeps DEF JsonUnsupported, JsonUnclaimed, Drivers
<1>4. CASE TypedUnclaimed
  BY <1>4, EndKeeps DEF TypedUnclaimed, Drivers
<1>5. CASE JsonAccept
  BY <1>5, AcceptClaims DEF JsonAccept, Drivers
<1>6. CASE TypedAccept
  BY <1>6, AcceptClaims DEF TypedAccept, Drivers
<1>7. CASE UNCHANGED vars
  <2>1. Kept
    BY <1>7 DEF vars, Kept
  <2> QED
    BY <1>7, <2>1, PassedOverStays, AnsweredStays, GivenStays, FreshCallStays
    DEF vars, ClaimInv, LoopOK, PassedRejected, ClaimAnswered, Answered
<1> QED
  BY <1>1, <1>2, <1>3, <1>4, <1>5, <1>6, <1>7 DEF Next

\* Whoever claims a file, in either driver, is the first candidate whose parser
\* claims it with fresh flags: nothing a rejected parser wrote decides.
THEOREM ClaimedAlwaysByFirst == Spec => []ClaimedByFirst
<1>1. ClaimInv => ClaimedByFirst
  <2> SUFFICES ASSUME ClaimInv, NEW d \in Drivers, result[d] = "accepted"
               PROVE  /\ Alone(d, cursor[d] + 1)
                      /\ \A i \in 1..cursor[d] : ~Alone(d, i)
    BY DEF ClaimedByFirst
  <2>1. Alone(d, cursor[d] + 1)
    BY DEF ClaimInv, ClaimAnswered, Alone, Answered, FreshCall
  <2>2. ASSUME NEW i \in 1..cursor[d], Alone(d, i) PROVE FALSE
    <3>1. PassedOver(d, i)
      BY DEF ClaimInv, PassedRejected
    <3> QED
      BY <2>2, <3>1 DEF PassedOver, Alone, Answered, FreshCall
  <2> QED
    BY <2>1, <2>2
<1> QED
  BY <1>1, InitClaim, ClaimInductive, PTL DEF Spec

-----------------------------------------------------------------------------
(* The list of candidates.                                                  *)

LEMMA LeastNumber ==
  ASSUME NEW S \in SUBSET Nat, S # {}
  PROVE  \E n \in S : \A m \in S : n <= m
<1> DEFINE Less == OpToRel(<, Nat)
<1>1. IsWellFoundedOn(Less, Nat)
  BY NatLessThanWellFounded
<1>2. \A n, m \in Nat : <<m, n>> \in Less <=> m < n
  BY DEF OpToRel
<1> HIDE DEF Less
<1>3. PICK n \in S : \A m \in S : ~ (<<m, n>> \in Less)
  BY <1>1, WFMin
<1>4. \A m \in S : n <= m
  <2> TAKE m \in S
  <2>1. m \in Nat /\ n \in Nat /\ ~(m < n)
    BY <1>2, <1>3
  <2> QED
    BY <2>1
<1> QED
  BY <1>4

LEMMA Induction ==
  ASSUME NEW S, 0 \in S, \A n \in Nat : n \in S => n + 1 \in S
  PROVE  Nat \subseteq S
<1> SUFFICES ASSUME Nat \ S # {} PROVE FALSE
  OBVIOUS
<1>1. PICK n \in Nat \ S : \A m \in Nat \ S : n <= m
  BY LeastNumber
<1>2. n - 1 \in Nat
  BY <1>1
<1>3. n - 1 \notin Nat \ S
  BY <1>1, <1>2
<1> QED
  BY <1>1, <1>2, <1>3

\* Offered looks at one type of the list after the other.
LEMMA OfferedIs ==
  ASSUME NEW n, NEW f, Len(Scanned(n)) \in Nat
  PROVE  \E after : /\ after[0] = <<>>
                    /\ \A i \in 1..Len(Scanned(n)) : after[i] = Offers(n, f, after[i - 1], i)
                    /\ Offered(n, f) = after[Len(Scanned(n))]
<1> DEFINE Step(before, i) == Offers(n, f, before, i)
           Is(g, k) == g = [i \in 0..k |-> IF i = 0 THEN <<>> ELSE Step(g[i - 1], i)]
           Reached == {k \in Nat : \E g : Is(g, k)}
<1>0. PICK N : N = Len(Scanned(n)) /\ N \in Nat
  OBVIOUS
<1>a. Offered(n, f) = (CHOOSE g : Is(g, N))[N]
  BY <1>0 DEF Offered
<1> HIDE DEF Step
<1>1. 0 \in Reached
  <2> DEFINE g == [i \in 0..0 |-> <<>>]
  <2>1. Is(g, 0)
    OBVIOUS
  <2> QED
    BY <2>1
<1>2. \A k \in Nat : k \in Reached => k + 1 \in Reached
  <2> SUFFICES ASSUME NEW k \in Nat, k \in Reached PROVE \E g : Is(g, k + 1)
    BY SMTT(30)
  <2>1. PICK g : Is(g, k)
    OBVIOUS
  <2> DEFINE h == [i \in 0..(k + 1) |-> IF i = k + 1 THEN Step(g[k], k + 1) ELSE g[i]]
  <2>2. \A i \in 0..(k + 1) : i = k + 1 \/ i \in 0..k
    OBVIOUS
  <2>3. \A i \in 0..k : g[i] = IF i = 0 THEN <<>> ELSE Step(g[i - 1], i)
    BY <2>1
  <2>4. \A i \in 0..(k + 1) : h[i] = IF i = 0 THEN <<>> ELSE Step(h[i - 1], i)
    <3> TAKE i \in 0..(k + 1)
    <3>1. CASE i = k + 1
      <4>1. k \in 0..(k + 1) /\ k # k + 1 /\ k + 1 # 0 /\ (k + 1) - 1 = k
        OBVIOUS
      <4> QED
        BY <3>1, <4>1
    <3>2. CASE i \in 0..k /\ i = 0
      BY <2>3, <3>2
    <3>3. CASE i \in 0..k /\ i # 0
      <4>1. i - 1 \in 0..(k + 1) /\ i - 1 # k + 1 /\ i # k + 1
        BY <3>3
      <4> QED
        BY <2>3, <3>3, <4>1
    <3> QED
      BY <2>2, <3>1, <3>2, <3>3
  <2>5. Is(h, k + 1)
    BY <2>4
  <2> QED
    BY <2>5
<1>3. N \in Reached
  BY <1>0, <1>1, <1>2, Induction
<1>4. PICK after : after = CHOOSE g : Is(g, N)
  OBVIOUS
<1>5. Is(after, N)
  BY <1>3, <1>4
<1>6. \A i \in 0..N : after[i] = IF i = 0 THEN <<>> ELSE Step(after[i - 1], i)
  BY <1>5
<1>7. 0 \in 0..N /\ \A i \in 1..N : i \in 0..N /\ i # 0
  BY <1>0
<1>8. after[0] = <<>> /\ \A i \in 1..N : after[i] = Step(after[i - 1], i)
  BY <1>6, <1>7
<1> QED
  BY <1>0, <1>4, <1>8, <1>a DEF Step

\* The candidates before the end of the list, for a name.
Plain(n) == {Candidate(n, t, 0, FALSE) : t \in STRING}

\* Among the first i types of the list, none that passes was left out, unless the
\* list had ended; and it ends with the first type that is not parsed.
Sound(n, f, offered, i) ==
  /\ offered \in Seq(Plain(n))
  /\ \A k \in 1..(Len(offered) - 1) : offered[k].type \notin Unsupported
  /\ ~Ends(offered) =>
       /\ \A k \in 1..Len(offered) : offered[k].type \notin Unsupported
       /\ \A j \in 1..i :
            Listed(n, j) /\ Passes(n, f, Scanned(n)[j]) =>
              \E k \in 1..Len(offered) : offered[k] = Candidate(n, Scanned(n)[j], 0, FALSE)

LEMMA ScannedTyped ==
  ASSUME NEW n, n.types \in Seq(STRING)
  PROVE  /\ Scanned(n) \in Seq(STRING) /\ Len(Scanned(n)) \in Nat
         /\ Len(Scanned(n)) = Len(n.types) + Len(FILE_TYPES)
         /\ DOMAIN n.types = 1..Len(n.types) /\ Len(n.types) \in Nat
         /\ DOMAIN FILE_TYPES = 1..Len(FILE_TYPES) /\ Len(FILE_TYPES) \in Nat
         /\ \A i \in 1..Len(n.types) : Scanned(n)[i] = n.types[i]
         /\ \A i \in 1..Len(FILE_TYPES) : Scanned(n)[Len(n.types) + i] = FILE_TYPES[i]
BY ScanAssumption DEF Scanned

LEMMA OffersSound ==
  ASSUME NEW n, n.types \in Seq(STRING), NEW f, NEW before, NEW i \in 1..Len(Scanned(n)),
         Sound(n, f, before, i - 1)
  PROVE  Sound(n, f, Offers(n, f, before, i), i)
<1> DEFINE type == Scanned(n)[i]
           new == Candidate(n, type, 0, FALSE)
<1>1. /\ before \in Seq(Plain(n)) /\ Len(before) \in Nat
      /\ \A k \in 1..(Len(before) - 1) : before[k].type \notin Unsupported
  BY DEF Sound
<1>2. /\ i \in Nat /\ type \in STRING
      /\ \A j \in 1..i : j \in 1..(i - 1) \/ j = i
  BY ScannedTyped
<1>3. new \in Plain(n) /\ new.type = type
  BY <1>2 DEF Plain, Candidate
<1>4. CASE Ends(before)
  BY <1>1, <1>4 DEF Sound, Offers
<1>5. CASE ~Ends(before) /\ ~(Listed(n, i) /\ Passes(n, f, type))
  <2>1. Offers(n, f, before, i) = before
    BY <1>5 DEF Offers
  <2> QED
    BY <1>1, <1>2, <1>5, <2>1 DEF Sound
<1>6. CASE ~Ends(before) /\ Listed(n, i) /\ Passes(n, f, type)
  <2> DEFINE after == Append(before, new)
  <2>1. Offers(n, f, before, i) = after
    BY <1>6 DEF Offers
  <2> HIDE DEF new
  <2>2. /\ after \in Seq(Plain(n)) /\ Len(after) = Len(before) + 1
        /\ \A k \in 1..Len(before) : after[k] = before[k]
        /\ after[Len(before) + 1] = new
        /\ \A k \in 1..Len(after) : k \in 1..Len(before) \/ k = Len(after)
        /\ \A k \in 1..Len(before) : k \in 1..Len(after)
        /\ Len(after) \in 1..Len(after) /\ after # <<>>
    BY <1>1, <1>3
  <2> HIDE DEF after
  <2>3. /\ \A k \in 1..Len(before) : before[k].type \notin Unsupported
        /\ \A j \in 1..(i - 1) :
             Listed(n, j) /\ Passes(n, f, Scanned(n)[j]) =>
               \E k \in 1..Len(before) : before[k] = Candidate(n, Scanned(n)[j], 0, FALSE)
    BY <1>6 DEF Sound
  <2>4. \A k \in 1..(Len(after) - 1) : after[k].type \notin Unsupported
    BY <1>1, <2>2, <2>3
  <2>5. ~Ends(after) => new.type \notin Unsupported
    BY <1>1, <2>2 DEF Ends, Last
  <2>6. ~Ends(after) => \A k \in 1..Len(after) : after[k].type \notin Unsupported
    BY <1>1, <2>2, <2>3, <2>5
  <2>7. \A j \in 1..i :
          Listed(n, j) /\ Passes(n, f, Scanned(n)[j]) =>
            \E k \in 1..Len(after) : after[k] = Candidate(n, Scanned(n)[j], 0, FALSE)
    <3> TAKE j \in 1..i
    <3> HAVE Listed(n, j) /\ Passes(n, f, Scanned(n)[j])
    <3>1. CASE j = i
      BY <1>1, <2>2, <3>1 DEF new
    <3>2. CASE j \in 1..(i - 1)
      BY <2>2, <2>3, <3>2
    <3> QED
      BY <1>2, <3>1, <3>2
  <2> QED
    BY <2>1, <2>2, <2>4, <2>6, <2>7 DEF Sound
<1> QED
  BY <1>4, <1>5, <1>6

LEMMA OfferedSound ==
  ASSUME NEW n, n.types \in Seq(STRING), NEW f
  PROVE  Sound(n, f, Offered(n, f), Len(Scanned(n)))
<1>0. PICK N \in Nat : N = Len(Scanned(n))
  BY ScannedTyped
<1>1. PICK after : /\ after[0] = <<>>
                   /\ \A i \in 1..N : after[i] = Offers(n, f, after[i - 1], i)
                   /\ Offered(n, f) = after[N]
  BY <1>0, OfferedIs
<1> DEFINE Right == {k \in Nat : k <= N => Sound(n, f, after[k], k)}
<1>2. 0 \in Right
  <2>1. <<>> \in Seq(Plain(n)) /\ Len(<<>>) = 0
    OBVIOUS
  <2>2. (\A k \in 1..0 : FALSE) /\ (\A k \in 1..(0 - 1) : FALSE)
    OBVIOUS
  <2>3. Sound(n, f, <<>>, 0)
    BY <2>1, <2>2 DEF Sound
  <2> QED
    BY <1>1, <2>3
<1>3. \A k \in Nat : k \in Right => k + 1 \in Right
  <2> SUFFICES ASSUME NEW k \in Nat, k \in Right, k + 1 <= N
               PROVE  Sound(n, f, after[k + 1], k + 1)
    OBVIOUS
  <2>1. Sound(n, f, after[k], k)
    OBVIOUS
  <2>2. PICK i \in 1..Len(Scanned(n)) : i = k + 1 /\ i - 1 = k
    BY <1>0
  <2>3. after[i] = Offers(n, f, after[k], i)
    BY <1>0, <1>1, <2>2
  <2> QED
    BY <2>1, <2>2, <2>3, OffersSound
<1>4. N \in Right
  BY <1>2, <1>3, Induction
<1>5. Sound(n, f, after[N], N)
  BY <1>4
<1> QED
  BY <1>0, <1>1, <1>5

\* What the drivers need to know of the list.
LEMMA CandidatesAre ==
  ASSUME NEW n, n.types \in Seq(STRING), NEW f
  PROVE  LET given == DetectionCandidates(n, f)
             offered == Offered(n, f)
         IN  /\ Len(given) \in Nat
             /\ Len(offered) \in Nat /\ DOMAIN offered = 1..Len(offered)
             /\ \A k \in 1..Len(offered) : given[k] = offered[k] /\ k \in 1..Len(given)
             /\ \A k \in 1..Len(given) : given[k].type \in Unsupported => k = Len(given)
             /\ \A k \in 1..Len(given) :
                  given[k].after_unknown_header =>
                    /\ k > Len(offered) /\ ~Ends(offered)
                    /\ ~Recognized(n) /\ f.marker # NoMarker
                    /\ given[k] = Candidate(n, f.marker.type, f.marker.skip, TRUE)
<1> DEFINE offered == Offered(n, f)
           given == DetectionCandidates(n, f)
<1>0. Sound(n, f, offered, Len(Scanned(n)))
  BY OfferedSound
<1>2. \A c \in Plain(n) : c.after_unknown_header = FALSE
  BY DEF Plain, Candidate
<1>3. given = IF Ends(offered) THEN offered ELSE offered \o Terminal(n, f)
  BY DEF DetectionCandidates
<1> HIDE DEF offered, given
<1>1. offered \in Seq(Plain(n))
  BY <1>0 DEF Sound
<1>4. PICK N \in Nat : N = Len(offered)
  BY <1>1
<1>5. /\ DOMAIN offered = 1..N
      /\ \A k \in 1..N : offered[k] \in Plain(n) /\ ~offered[k].after_unknown_header
      /\ \A k \in 1..(N - 1) : offered[k].type \notin Unsupported
      /\ ~Ends(offered) => \A k \in 1..N : offered[k].type \notin Unsupported
  <2>1. DOMAIN offered = 1..N /\ \A k \in 1..N : offered[k] \in Plain(n)
    BY <1>1, <1>4
  <2>2. /\ \A k \in 1..(N - 1) : offered[k].type \notin Unsupported
        /\ ~Ends(offered) => \A k \in 1..N : offered[k].type \notin Unsupported
    BY <1>0, <1>4 DEF Sound
  <2> QED
    BY <1>2, <2>1, <2>2
<1>6. CASE Ends(offered)
  <2>1. \A k \in 1..N : k \in 1..(N - 1) \/ k = N
    OBVIOUS
  <2> QED
    BY <1>3, <1>4, <1>5, <1>6, <2>1 DEF offered, given
<1>7. CASE ~Ends(offered)
  <2> DEFINE last == Terminal(n, f)
  <2>1. PICK c : last = <<>> \/ last = <<c>>
    BY DEF Terminal
  <2>2. last # <<>> /\ last[1].after_unknown_header =>
          /\ ~Recognized(n) /\ f.marker # NoMarker
          /\ last[1] = Candidate(n, f.marker.type, f.marker.skip, TRUE)
    BY DEF Terminal, Candidate
  <2>3. given = offered \o last
    BY <1>3, <1>7
  <2> HIDE DEF last
  <2>4. CASE last = <<>>
    <3>1. given = offered
      BY <1>1, <2>3, <2>4
    <3> QED
      BY <1>4, <1>5, <1>7, <3>1 DEF offered, given
  <2>5. CASE last = <<c>>
    <3>1. /\ Len(given) = N + 1 /\ given[N + 1] = c
          /\ \A k \in 1..N : given[k] = offered[k]
      BY <1>1, <1>4, <2>3, <2>5
    <3>2. /\ \A k \in 1..(N + 1) : k \in 1..N \/ k = N + 1
          /\ \A k \in 1..N : k \in 1..(N + 1)
      OBVIOUS
    <3>3. c.after_unknown_header =>
            /\ ~Recognized(n) /\ f.marker # NoMarker
            /\ c = Candidate(n, f.marker.type, f.marker.skip, TRUE)
      BY <2>2, <2>5
    <3>4. /\ \A k \in 1..(N + 1) : given[k].type \in Unsupported => k = N + 1
          /\ \A k \in 1..(N + 1) : given[k].after_unknown_header => k = N + 1
      BY <1>5, <1>7, <3>1, <3>2
    <3>5. \A k \in 1..(N + 1) :
            given[k].after_unknown_header =>
              /\ k > N /\ ~Recognized(n) /\ f.marker # NoMarker
              /\ given[k] = Candidate(n, f.marker.type, f.marker.skip, TRUE)
      <4>1. N + 1 > N
        OBVIOUS
      <4> QED
        BY <3>1, <3>3, <3>4, <4>1
    <3>6. Len(given) \in Nat /\ Len(offered) \in Nat
      BY <1>4, <3>1
    <3> QED
      BY <1>4, <1>5, <1>7, <3>1, <3>2, <3>4, <3>5, <3>6 DEF offered, given
  <2> QED
    BY <2>1, <2>4, <2>5
<1> QED
  BY <1>6, <1>7

-----------------------------------------------------------------------------
(* Where the drivers end, and what the document says of it.                 *)

Past == result["json"] = "accepted" /\ Given("json")[cursor["json"] + 1].after_unknown_header

EndsRight ==
  /\ name \in Names /\ file \in Files
  /\ \A d \in Drivers :
       /\ cursor[d] <= Len(Given(d))
       /\ result[d] = "none" => cursor[d] = Len(Given(d))
       /\ result[d] \in {"accepted", "unsupported"} => cursor[d] < Len(Given(d))
  /\ result["typed"] # "unsupported"
  /\ result["json"] = "unsupported" =>
       Dispatched(Given("json")[cursor["json"] + 1]) \in Unsupported

\* Before it ends the driver says nothing; then it says how it ended.
Told ==
  /\ result["json"] = "running" => error = NoOne /\ warning = NoOne /\ triplet = <<>>
  /\ result["json"] # "running" =>
       /\ error = "unclaimed" <=> result["json"] = "none"
       /\ warning = "unsupported" <=> result["json"] = "unsupported"
       /\ warning = "detection" <=> Past
       /\ Past \/ result["json"] = "none" => triplet = <<>>
       /\ result["json"] = "unsupported" => DOMAIN triplet = Keys

DriverInv == ClaimInv /\ EndsRight /\ Told

LEMMA GivenAre ==
  ASSUME EndsRight, NEW d \in Drivers
  PROVE  /\ NameOf(d).types \in Seq(STRING) /\ Len(Given(d)) \in Nat
         /\ \A k \in 1..Len(Given(d)) : Given(d)[k].type \in Unsupported => k = Len(Given(d))
         /\ \A k \in 1..Len(Given(d)) :
              Given(d)[k].after_unknown_header =>
                /\ k > Len(Offered(NameOf(d), file)) /\ ~Ends(Offered(NameOf(d), file))
                /\ ~Recognized(NameOf(d)) /\ file.marker # NoMarker
                /\ Given(d)[k] = Candidate(NameOf(d), file.marker.type, file.marker.skip, TRUE)
         /\ Len(Offered(NameOf(d), file)) \in Nat
         /\ \A k \in 1..Len(Offered(NameOf(d), file)) :
              Given(d)[k] = Offered(NameOf(d), file)[k] /\ k \in 1..Len(Given(d))
<1>1. NameOf(d).types \in Seq(STRING)
  <2>1. name.types \in Seq(STRING)
    BY NamesAssumption DEF EndsRight
  <2>2. Nameless.types = <<>> /\ <<>> \in Seq(STRING)
    BY DEF Nameless
  <2> QED
    BY <2>1, <2>2 DEF NameOf
<1> QED
  BY <1>1, CandidatesAre DEF Given

\* A marker at the start of the file is that of a type that was offered before.
LEMMA MarkerOffered ==
  ASSUME NEW n, n.types \in Seq(STRING), NEW f \in Files,
         f.marker # NoMarker, f.marker.skip = 0, ~Recognized(n), ~Ends(Offered(n, f))
  PROVE  \E k \in 1..Len(Offered(n, f)) : Offered(n, f)[k] = Candidate(n, f.marker.type, 0, FALSE)
<1> DEFINE type == f.marker.type
<1>1. Passes(n, f, type)
  BY FilesAssumption DEF Passes
<1>2. \E j \in 1..Len(Scanned(n)) : Listed(n, j) /\ Scanned(n)[j] = type
  <2>1. PICK m \in 1..Len(FILE_TYPES) : FILE_TYPES[m] = type
    BY FilesAssumption, ScanAssumption DEF ToSet
  <2>2. CASE type \in ToSet(n.types)
    <3>1. PICK j \in 1..Len(n.types) : n.types[j] = type
      BY <2>2, ScannedTyped DEF ToSet
    <3>2. j \in 1..Len(Scanned(n)) /\ ~(j > Len(n.types)) /\ Scanned(n)[j] = type
      BY <3>1, ScannedTyped
    <3> QED
      BY <3>2 DEF Listed
  <2>3. CASE type \notin ToSet(n.types)
    <3>1. PICK j : j = Len(n.types) + m
      OBVIOUS
    <3>2. j \in 1..Len(Scanned(n)) /\ Scanned(n)[j] = type
      BY <2>1, <3>1, ScannedTyped
    <3> QED
      BY <2>3, <3>2 DEF Listed
  <2> QED
    BY <2>2, <2>3
<1>3. Sound(n, f, Offered(n, f), Len(Scanned(n)))
  BY OfferedSound
<1> QED
  BY <1>1, <1>2, <1>3 DEF Sound

\* A claim past an unknown header is past at least one byte.
LEMMA PastSkips ==
  ASSUME DriverInv, Past
  PROVE  Given("json")[cursor["json"] + 1].skip > 0
<1> DEFINE n == NameOf("json")
           here == cursor["json"] + 1
<1>1. /\ EndsRight /\ "json" \in Drivers /\ here \in 1..Len(Given("json"))
      /\ cursor["json"] \in Nat /\ file \in Files
  <2>1. /\ EndsRight /\ "json" \in Drivers /\ cursor["json"] \in Nat /\ file \in Files
        /\ cursor["json"] < Len(Given("json"))
    BY DEF DriverInv, ClaimInv, LoopOK, EndsRight, Past, Drivers
  <2> QED
    BY <2>1, GivenAre
<1>2. /\ n.types \in Seq(STRING) /\ Len(Offered(n, file)) \in Nat
      /\ here > Len(Offered(n, file)) /\ ~Ends(Offered(n, file))
      /\ ~Recognized(n) /\ file.marker # NoMarker
      /\ Given("json")[here] = Candidate(n, file.marker.type, file.marker.skip, TRUE)
      /\ \A k \in 1..Len(Offered(n, file)) : Given("json")[k] = Offered(n, file)[k]
  BY <1>1, GivenAre DEF Past
<1>3. file.marker.skip \in Nat /\ Given("json")[here].skip = file.marker.skip
  BY <1>1, <1>2, FilesAssumption DEF Candidate
<1>4. ASSUME file.marker.skip = 0 PROVE FALSE
  <2>1. PICK k \in 1..Len(Offered(n, file)) :
          Offered(n, file)[k] = Candidate(n, file.marker.type, 0, FALSE)
    BY <1>1, <1>2, <1>4, MarkerOffered
  <2>2. k \in 1..cursor["json"] /\ Given("json")[k] = Candidate(n, file.marker.type, 0, FALSE)
    <3>1. PICK M \in Nat : M = Len(Offered(n, file))
      BY <1>2
    <3>2. k \in 1..M /\ cursor["json"] + 1 > M /\ cursor["json"] \in Nat
      BY <1>1, <1>2, <3>1
    <3>3. k \in 1..cursor["json"]
      BY <3>2
    <3> QED
      BY <1>2, <2>1, <3>3
  <2>3. PassedOver("json", k)
    BY <1>1, <2>2 DEF DriverInv, ClaimInv, PassedRejected
  <2>4. /\ Dispatched(Given("json")[here]) \in Parsed
        /\ Answered(FreshCall("json", here), TRUE)
    BY <1>1 DEF DriverInv, ClaimInv, ClaimAnswered, Past
  <2>5. /\ Given("json")[k].type = Given("json")[here].type
        /\ Given("json")[k].skip = Given("json")[here].skip
        /\ Given("json")[k].parent = Given("json")[here].parent
    BY <1>2, <1>4, <2>2 DEF Candidate
  <2>6. Dispatched(Given("json")[k]) = Dispatched(Given("json")[here])
    BY <2>5 DEF Dispatched
  <2>7. FreshCall("json", k) = FreshCall("json", here)
    BY <2>5, <2>6 DEF FreshCall, Call
  <2> QED
    BY <2>3, <2>4, <2>6, <2>7 DEF PassedOver, Answered
<1> QED
  BY <1>3, <1>4

\* Two drivers that are given the same candidates claim the same one.
LEMMA SameClaim ==
  ASSUME DriverInv, name = Nameless, NEW d \in Drivers, NEW e \in Drivers,
         result[d] = "accepted", result[e] \in {"accepted", "none"}
  PROVE  result[e] = "accepted" /\ cursor[e] <= cursor[d]
<1>1. \A i : FreshCall(d, i) = FreshCall(e, i)
  BY DEF FreshCall, Call, Given, NameOf
<1>2. Given(d) = Given(e)
  BY DEF Given, NameOf
<1>3. /\ cursor[d] \in Nat /\ cursor[e] \in Nat /\ Len(Given(d)) \in Nat
      /\ cursor[d] < Len(Given(d)) /\ (result[e] = "none" => cursor[e] = Len(Given(e)))
  BY GivenAre DEF DriverInv, ClaimInv, LoopOK, EndsRight
<1>4. ~PassedOver(e, cursor[d] + 1)
  <2>1. /\ Dispatched(Given(d)[cursor[d] + 1]) \in Parsed
        /\ Answered(FreshCall(d, cursor[d] + 1), TRUE)
    BY DEF DriverInv, ClaimInv, ClaimAnswered
  <2> QED
    BY <1>1, <1>2, <2>1 DEF PassedOver, Answered
<1>5. ~(cursor[d] + 1 \in 1..cursor[e])
  BY <1>4 DEF DriverInv, ClaimInv, PassedRejected
<1>6. cursor[e] <= cursor[d]
  BY <1>3, <1>5
<1> QED
  BY <1>2, <1>3, <1>6

\* Nothing is claimed where the list ended at a type that is not parsed.
LEMMA NoClaimUnsupported ==
  ASSUME DriverInv, name = Nameless, result["json"] = "unsupported"
  PROVE  result["typed"] # "accepted"
<1> SUFFICES ASSUME result["typed"] = "accepted" PROVE FALSE
  OBVIOUS
<1> DEFINE given == Given("json")
           j == cursor["json"] + 1
           t == cursor["typed"] + 1
<1>1. /\ Given("typed") = given /\ \A i : FreshCall("typed", i) = FreshCall("json", i)
  BY DEF Given, NameOf, FreshCall, Call
<1>2. "json" \in Drivers /\ "typed" \in Drivers
  BY DEF Drivers
<1>3. /\ Dispatched(given[j]) \in Unsupported
      /\ cursor["json"] < Len(given) /\ cursor["typed"] < Len(given)
      /\ cursor["json"] \in Nat /\ cursor["typed"] \in Nat /\ Len(given) \in Nat
  BY <1>1, <1>2, GivenAre DEF DriverInv, ClaimInv, LoopOK, EndsRight
<1>4. given[j].type \in Unsupported
  BY <1>3, ParsedAssumption DEF Dispatched
<1>5. j = Len(given)
  <2>1. j \in 1..Len(given)
    BY <1>3
  <2>2. \A k \in 1..Len(given) : given[k].type \in Unsupported => k = Len(given)
    BY <1>2, GivenAre DEF DriverInv
  <2> HIDE DEF j, given
  <2> QED
    BY <1>4, <2>1, <2>2
<1>6. Dispatched(given[t]) \in Parsed /\ Answered(FreshCall("json", t), TRUE)
  BY <1>1, <1>2 DEF DriverInv, ClaimInv, ClaimAnswered
<1>7. t # j
  BY <1>3, <1>6, ParsedAssumption
<1>8. t \in 1..cursor["json"]
  BY <1>3, <1>5, <1>7
<1>9. PassedOver("json", t)
  BY <1>2, <1>8 DEF DriverInv, ClaimInv, PassedRejected
<1> QED
  BY <1>6, <1>9 DEF PassedOver, Answered

-----------------------------------------------------------------------------
(* The steps.                                                               *)

LEMMA InitDrivers == Init => EndsRight /\ Told
<1> SUFFICES ASSUME Init PROVE EndsRight /\ Told
  OBVIOUS
<1>1. /\ name \in Names /\ file \in Files
      /\ \A d \in Drivers : cursor[d] = 0 /\ result[d] = "running"
      /\ triplet = <<>> /\ warning = NoOne /\ error = NoOne
      /\ "json" \in Drivers /\ "typed" \in Drivers
  BY DEF Init, Drivers
<1>2. \A d \in Drivers : Len(Given(d)) \in Nat
  <2> TAKE d \in Drivers
  <2>1. NameOf(d).types \in Seq(STRING)
    <3>1. name.types \in Seq(STRING)
      BY <1>1, NamesAssumption
    <3>2. Nameless.types = <<>> /\ <<>> \in Seq(STRING)
      BY DEF Nameless
    <3> QED
      BY <3>1, <3>2 DEF NameOf
  <2> QED
    BY <2>1, CandidatesAre DEF Given
<1>3. EndsRight
  BY <1>1, <1>2 DEF EndsRight
<1> QED
  BY <1>1, <1>3 DEF Told

\* The loop goes on.
LEMMA AdvanceDrivers ==
  ASSUME DriverInv, NEW d \in Drivers, Running(d), HasNext(d), Advance(d),
         UNCHANGED <<name, file, result, triplet, warning, error>>
  PROVE  EndsRight' /\ Told'
<1>1. /\ EndsRight /\ Told /\ cursor \in [Drivers -> Nat]
      /\ cursor' = [cursor EXCEPT ![d] = @ + 1] /\ result[d] = "running"
      /\ cursor[d] < Len(Given(d))
      /\ "json" \in Drivers
  BY DEF DriverInv, ClaimInv, LoopOK, Advance, Running, HasNext, Drivers
<1>2. \A e \in Drivers : Given(e)' = Given(e)
  BY GivenStays
<1>3. \A e \in Drivers : Len(Given(e)) \in Nat
  BY <1>1, GivenAre
<1>4. /\ \A e \in Drivers : e # d => cursor'[e] = cursor[e]
      /\ cursor'[d] = cursor[d] + 1 /\ cursor[d] + 1 <= Len(Given(d))
  BY <1>1, <1>3
<1>5. result["json"] # "running" => cursor'["json"] = cursor["json"]
  BY <1>1, <1>4
<1>6. Given("json")' = Given("json") /\ file' = file /\ result' = result
  BY <1>1, <1>2
<1>7. Past' <=> Past
  BY <1>5, <1>6 DEF Past
<1>8. EndsRight'
  <2>1. \A e \in Drivers :
          /\ cursor'[e] <= Len(Given(e))
          /\ result[e] = "none" => cursor'[e] = Len(Given(e))
          /\ result[e] \in {"accepted", "unsupported"} => cursor'[e] < Len(Given(e))
    <3> TAKE e \in Drivers
    <3>1. CASE e = d
      BY <1>1, <1>4, <3>1
    <3>2. CASE e # d
      BY <1>1, <1>4, <3>2 DEF EndsRight
    <3> QED
      BY <3>1, <3>2
  <2>2. result["json"] = "unsupported" =>
          Dispatched(Given("json")[cursor["json"] + 1])' \in Unsupported
    BY <1>1, <1>5, <1>6 DEF EndsRight, Dispatched
  <2> QED
    BY <1>1, <1>2, <2>1, <2>2 DEF EndsRight
<1> QED
  BY <1>1, <1>7, <1>8 DEF Told

\* A driver ends.
LEMMA EndDrivers ==
  ASSUME DriverInv, NEW d \in Drivers, NEW how \in {"accepted", "unsupported", "none"},
         Running(d), EndsAs(d, how), UNCHANGED <<name, file, cursor>>,
         IF how = "none" THEN ~HasNext(d) ELSE HasNext(d),
         how = "unsupported" => d = "json" /\ Dispatched(Cand("json")) \in Unsupported
  PROVE  /\ EndsRight'
         /\ d = "typed" /\ UNCHANGED <<triplet, warning, error>> => Told'
         /\ d = "json" => result'["json"] = how /\ error = NoOne /\ warning = NoOne /\ triplet = <<>>
         /\ d = "json" => (Past' <=> how = "accepted" /\ Cand("json").after_unknown_header)
<1>1. /\ EndsRight /\ Told /\ cursor \in [Drivers -> Nat]
      /\ result \in [Drivers -> {"running", "accepted", "unsupported", "none"}]
      /\ result' = [result EXCEPT ![d] = how] /\ result[d] = "running"
      /\ "json" \in Drivers /\ "typed" \in Drivers
  BY DEF DriverInv, ClaimInv, LoopOK, EndsAs, Running, Drivers
<1>2. \A e \in Drivers : Given(e)' = Given(e) /\ Len(Given(e)) \in Nat
  BY <1>1, GivenStays, GivenAre
<1>3. /\ \A e \in Drivers : e # d => result'[e] = result[e]
      /\ result'[d] = how
  BY <1>1
<1>4. /\ how = "none" => cursor[d] = Len(Given(d))
      /\ how # "none" => cursor[d] < Len(Given(d))
  <2>1. cursor[d] <= Len(Given(d)) /\ cursor[d] \in Nat /\ Len(Given(d)) \in Nat
    BY <1>1, <1>2 DEF EndsRight
  <2> QED
    BY <2>1 DEF HasNext
<1>5. EndsRight'
  <2>1. \A e \in Drivers :
          /\ cursor[e] <= Len(Given(e))
          /\ result'[e] = "none" => cursor[e] = Len(Given(e))
          /\ result'[e] \in {"accepted", "unsupported"} => cursor[e] < Len(Given(e))
    <3> TAKE e \in Drivers
    <3>1. cursor[e] <= Len(Given(e))
      BY <1>1 DEF EndsRight
    <3>2. CASE e = d
      BY <1>3, <1>4, <3>1, <3>2
    <3>3. CASE e # d
      BY <1>1, <1>3, <3>3 DEF EndsRight
    <3> QED
      BY <3>2, <3>3
  <2>2. result'["json"] = "unsupported" => Dispatched(Given("json")[cursor["json"] + 1]) \in Unsupported
    <3>1. CASE d = "json"
      BY <1>3, <3>1 DEF Cand
    <3>2. CASE d # "json"
      BY <1>1, <1>3, <3>2 DEF EndsRight
    <3> QED
      BY <3>1, <3>2
  <2>3. result'["typed"] # "unsupported"
    <3>1. CASE d = "typed"
      BY <1>3, <3>1
    <3>2. CASE d # "typed"
      BY <1>1, <1>3, <3>2 DEF EndsRight
    <3> QED
      BY <3>1, <3>2
  <2> QED
    BY <1>1, <1>2, <2>1, <2>2, <2>3 DEF EndsRight, Dispatched
<1>6. d = "typed" /\ UNCHANGED <<triplet, warning, error>> => Told'
  <2> SUFFICES ASSUME d = "typed", UNCHANGED <<triplet, warning, error>> PROVE Told'
    OBVIOUS
  <2>1. result'["json"] = result["json"] /\ Given("json")' = Given("json")
    BY <1>1, <1>2, <1>3
  <2>2. Past' <=> Past
    BY <2>1 DEF Past
  <2> QED
    BY <1>1, <2>1, <2>2 DEF Told
<1>7. d = "json" => result'["json"] = how /\ error = NoOne /\ warning = NoOne /\ triplet = <<>>
  BY <1>1, <1>3 DEF Told
<1>8. d = "json" => (Past' <=> how = "accepted" /\ Cand("json").after_unknown_header)
  BY <1>1, <1>2, <1>3 DEF Past, Cand
<1> QED
  BY <1>5, <1>6, <1>7, <1>8

LEMMA KeepsDrivers ==
  ASSUME DriverInv, UNCHANGED vars
  PROVE  EndsRight' /\ Told'
<1>1. /\ EndsRight /\ Told /\ UNCHANGED <<name, file, cursor, result, triplet, warning, error>>
  BY DEF DriverInv, vars
<1>2. \A d : Given(d)' = Given(d)
  BY <1>1, GivenStays
<1>3. Past' <=> Past
  BY <1>1, <1>2 DEF Past
<1> QED
  BY <1>1, <1>2, <1>3 DEF EndsRight, Told, Dispatched

\* What the document says when its driver ends.
LEMMA AcceptTells ==
  ASSUME DriverInv, JsonAccept
  PROVE  EndsRight' /\ Told'
<1> DEFINE c == Cand("json")
           past == c.after_unknown_header
<1>1. /\ EndsRight' /\ result'["json"] = "accepted"
      /\ error = NoOne /\ warning = NoOne /\ triplet = <<>> /\ (Past' <=> past)
  <2>1. "json" \in Drivers
    BY DEF Drivers
  <2>2. /\ Running("json") /\ HasNext("json") /\ EndsAs("json", "accepted")
        /\ UNCHANGED <<name, file, cursor>>
    BY DEF JsonAccept
  <2> QED
    BY <2>1, <2>2, EndDrivers
<1>2. PICK silent \in {FALSE} \cup {Dispatched(c) \in Silent} :
        \E keys \in Finalized(c, silent) : triplet' \in Overridden(keys, c)
  BY DEF JsonAccept
<1>3. PICK w \in {NoOne, "meta"} :
        warning' = First(IF past THEN First(warning, "detection") ELSE warning, w)
  BY DEF JsonAccept
<1>4. PICK e \in {NoOne, "meta"} : error' = First(error, e)
  BY DEF JsonAccept
<1> HIDE DEF c
<1>5. past => triplet' = <<>>
  BY <1>2 DEF Finalized, Overridden
<1>6. warning' = IF past THEN "detection" ELSE w
  BY <1>1, <1>3 DEF First, NoOne
<1>7. error' \in {NoOne, "meta"}
  BY <1>1, <1>4 DEF First
<1>8. Told'
  BY <1>1, <1>5, <1>6, <1>7 DEF Told, NoOne
<1> QED
  BY <1>1, <1>8

LEMMA UnsupportedTells ==
  ASSUME DriverInv, JsonUnsupported
  PROVE  EndsRight' /\ Told'
<1>1. /\ EndsRight' /\ result'["json"] = "unsupported"
      /\ error = NoOne /\ warning = NoOne /\ triplet = <<>> /\ ~Past'
  <2>1. "json" \in Drivers
    BY DEF Drivers
  <2>2. /\ Running("json") /\ HasNext("json") /\ EndsAs("json", "unsupported")
        /\ UNCHANGED <<name, file, cursor>> /\ Dispatched(Cand("json")) \in Unsupported
    BY DEF JsonUnsupported
  <2> QED
    BY <2>1, <2>2, EndDrivers
<1>2. DOMAIN triplet' = Keys /\ warning' = "unsupported" /\ error' = NoOne
  BY <1>1 DEF JsonUnsupported, First
<1>3. Told'
  BY <1>1, <1>2 DEF Told, NoOne
<1> QED
  BY <1>1, <1>3

LEMMA UnclaimedTells ==
  ASSUME DriverInv, JsonUnclaimed
  PROVE  EndsRight' /\ Told'
<1>1. /\ EndsRight' /\ result'["json"] = "none"
      /\ error = NoOne /\ warning = NoOne /\ triplet = <<>> /\ ~Past'
  <2>1. "json" \in Drivers
    BY DEF Drivers
  <2>2. /\ Running("json") /\ ~HasNext("json") /\ EndsAs("json", "none")
        /\ UNCHANGED <<name, file, cursor>>
    BY DEF JsonUnclaimed
  <2> QED
    BY <2>1, <2>2, EndDrivers
<1>2. triplet' = <<>> /\ warning' = NoOne /\ error' = "unclaimed"
  BY <1>1 DEF JsonUnclaimed, First
<1>3. Told'
  BY <1>1, <1>2 DEF Told, NoOne
<1> QED
  BY <1>1, <1>3

LEMMA TypedEnds ==
  ASSUME DriverInv, TypedAccept \/ TypedUnclaimed
  PROVE  EndsRight' /\ Told'
<1>1. "typed" \in Drivers
  BY DEF Drivers
<1>2. CASE TypedAccept
  <2>1. /\ Running("typed") /\ HasNext("typed") /\ EndsAs("typed", "accepted")
        /\ UNCHANGED <<name, file, cursor, triplet, warning, error>>
    BY <1>2 DEF TypedAccept
  <2> QED
    BY <1>1, <2>1, EndDrivers
<1>3. CASE TypedUnclaimed
  <2>1. /\ Running("typed") /\ ~HasNext("typed") /\ EndsAs("typed", "none")
        /\ UNCHANGED <<name, file, cursor, triplet, warning, error>>
    BY <1>3 DEF TypedUnclaimed
  <2> QED
    BY <1>1, <2>1, EndDrivers
<1> QED
  BY <1>2, <1>3

LEMMA DriversInductive == Spec => []DriverInv
<1>1. Init => DriverInv
  BY InitClaim, InitDrivers DEF DriverInv
<1>2. DriverInv /\ [Next]_vars => DriverInv'
  <2> SUFFICES ASSUME DriverInv, [Next]_vars PROVE DriverInv'
    OBVIOUS
  <2>1. ClaimInv'
    BY ClaimInductive DEF DriverInv
  <2>2. ASSUME NEW d \in Drivers, NoParser(d) \/ Reject(d) PROVE EndsRight' /\ Told'
    <3>1. /\ Running(d) /\ HasNext(d) /\ Advance(d)
          /\ UNCHANGED <<name, file, result, triplet, warning, error>>
      BY <2>2 DEF NoParser, Reject
    <3> QED
      BY <3>1, AdvanceDrivers
  <2>3. EndsRight' /\ Told'
    BY <2>2, AcceptTells, UnsupportedTells, UnclaimedTells, TypedEnds, KeepsDrivers DEF Next
  <2> QED
    BY <2>1, <2>3 DEF DriverInv
<1> QED
  BY <1>1, <1>2, PTL DEF Spec

\* For every table and content, the two drivers claim a file without a name by
\* the same candidate, or not at all (parse_bytes_inner, extract_info_typed).
THEOREM DriversAlwaysAgree == Spec => []DriversAgree
<1>1. DriverInv => DriversAgree
  <2> SUFFICES ASSUME DriverInv, name = Nameless, \A d \in Drivers : result[d] # "running"
               PROVE  /\ result["json"] = "accepted" <=> result["typed"] = "accepted"
                      /\ result["json"] = "accepted" => cursor["json"] = cursor["typed"]
    BY DEF DriversAgree
  <2>1. /\ "json" \in Drivers /\ "typed" \in Drivers
        /\ result["json"] \in {"accepted", "unsupported", "none"}
        /\ result["typed"] \in {"accepted", "none"}
        /\ cursor["json"] \in Nat /\ cursor["typed"] \in Nat
    BY DEF DriverInv, ClaimInv, LoopOK, EndsRight, Drivers
  <2>2. result["json"] = "accepted" =>
          result["typed"] = "accepted" /\ cursor["typed"] <= cursor["json"]
    BY <2>1, SameClaim
  <2>3. result["typed"] = "accepted" =>
          result["json"] = "accepted" /\ cursor["json"] <= cursor["typed"]
    BY <2>1, SameClaim, NoClaimUnsupported
  <2> QED
    BY <2>1, <2>2, <2>3
<1> QED
  BY <1>1, DriversInductive, PTL

\* What the document says of itself is what happened to the file, for every file:
\* its error, its warning and its triplet, and the skip of a claim past an
\* unknown header (extract_info_typed, finalization_error).
THEOREM DocumentAlwaysTells == Spec => []DocumentTellsOutcome
<1>1. DriverInv => DocumentTellsOutcome
  <2> SUFFICES ASSUME DriverInv PROVE DocumentTellsOutcome
    OBVIOUS
  <2>1. Past <=> result["json"] = "accepted" /\ Cand("json").after_unknown_header
    BY DEF Past, Cand
  <2>2. Past => Cand("json").skip > 0
    BY PastSkips DEF Cand
  <2> QED
    BY <2>1, <2>2 DEF DocumentTellsOutcome, DriverInv, Told
<1> QED
  BY <1>1, DriversInductive, PTL
=============================================================================
