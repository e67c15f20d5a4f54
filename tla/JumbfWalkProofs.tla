-------------------------- MODULE JumbfWalkProofs --------------------------
(***************************************************************************)
(* The box walker for every stream, every depth and every set of labels.   *)
(* The superboxes around the innermost walk fix the length of the level    *)
(* stack and its first level, which is the number of the document; a tag   *)
(* keeps both, and neither counter ever goes back.                         *)
(***************************************************************************)
EXTENDS JumbfWalk, SequenceTheorems, TLAPS

WalkRecord == [via : {"stream", "jumb", "asoc", "jumd"}, open : Seq(Nat)]

\* Walk n of ws beside the one it is in.
WalkOK(ws, n) ==
  /\ Len(ws[n].open) >= 1
  /\ n = 1 => ws[n].via = "stream" /\ ws[n].open = <<0>>
  /\ n > 1 => ws[n].via # "stream"
  /\ n > 1 /\ ws[n].via = "jumb" =>
       /\ Len(ws[n].open) = Len(ws[n - 1].open) + 1
       /\ \A m \in 1..Len(ws[n - 1].open) : ws[n].open[m] = ws[n - 1].open[m]
  /\ n > 1 /\ ws[n].via # "jumb" => ws[n].open = ws[n - 1].open

StackInv ==
  /\ walks \in Seq(WalkRecord)
  /\ Len(walks) <= MaxBoxDepth + 1
  /\ \A n \in 1..Len(walks) : WalkOK(walks, n)

LevelInv ==
  /\ jumd_level \in Seq(Nat)
  /\ Len(jumd_level) = IF Len(Open) = 1 THEN 0 ELSE Len(Open)
  /\ doc_count \in Nat /\ opened \in Nat /\ doc_count <= opened
  /\ jumd_level # <<>> => jumd_level[1] = doc_count /\ doc_count > 0 /\ Open[2] \in 1..opened

LabelInv ==
  /\ cur_label.label \in Labels \cup {NoLabel}
  /\ cur_label # Unlabelled => cur_label.owner \in ToSet(Open)

\* A tag of the open document is of the open top-level superbox, and of no other.
TagFits(t) ==
  /\ t.path = <<>> <=> t.top = 0
  /\ t.path # <<>> =>
       /\ t.path[1] \in 1..doc_count /\ t.top \in 1..opened
       /\ jumd_level # <<>> => (t.path[1] = doc_count <=> t.top = Open[2])

TagInv == \A t \in tags : TagFits(t)

JumbfInv ==
  StackInv /\ LevelInv /\ LabelInv /\ TagInv /\ DocumentIsTopLevelBox /\ LabelStaysInside

LEMMA InitJumbf == Init => JumbfInv
<1> SUFFICES ASSUME Init PROVE JumbfInv
  OBVIOUS
<1>1. walks = <<[via |-> "stream", open |-> <<0>>]>> /\ Len(walks) = 1 /\ Open = <<0>>
  BY DEF Init, Open, Last
<1>2. StackInv
  <2>1. <<0>> \in Seq(Nat) /\ Len(<<0>>) = 1
    OBVIOUS
  <2>2. [via |-> "stream", open |-> <<0>>] \in WalkRecord
    BY <2>1 DEF WalkRecord
  <2>3. walks \in Seq(WalkRecord) /\ walks[1] = [via |-> "stream", open |-> <<0>>]
    BY <1>1, <2>2
  <2>4. WalkOK(walks, 1)
    BY <2>1, <2>3 DEF WalkOK
  <2> QED
    BY <1>1, <2>3, <2>4, DepthAssumption DEF StackInv
<1>3. LevelInv /\ LabelInv
  BY <1>1 DEF Init, LevelInv, LabelInv, Unlabelled
<1>4. TagInv /\ DocumentIsTopLevelBox /\ LabelStaysInside
  BY DEF Init, TagInv, DocumentIsTopLevelBox, LabelStaysInside
<1> QED
  BY <1>2, <1>3, <1>4 DEF JumbfInv

-----------------------------------------------------------------------------
(* The operators on levels.                                                 *)

LEMMA SomeLevels ==
  ASSUME NEW S, NEW seq \in Seq(S), seq # <<>>
  PROVE  Len(seq) \in Nat \ {0}
BY EmptySeq, Zenon

LEMMA FrontOfSome ==
  ASSUME NEW S, NEW seq \in Seq(S), seq # <<>>
  PROVE  /\ Front(seq) \in Seq(S)
         /\ Len(Front(seq)) = Len(seq) - 1
         /\ \A n \in 1..Len(seq) - 1 : Front(seq)[n] = seq[n]
<1>1. Len(seq) \in Nat \ {0}
  BY SomeLevels
<1>2. \A n \in 1..Len(seq) - 1 : seq[n] \in S
  BY <1>1
<1>3. /\ SubSeq(seq, 1, Len(seq) - 1) \in Seq(S)
      /\ Len(SubSeq(seq, 1, Len(seq) - 1)) = Len(seq) - 1
      /\ \A n \in 1..Len(seq) - 1 : SubSeq(seq, 1, Len(seq) - 1)[n] = seq[n]
  BY <1>1
<1> QED
  BY <1>3 DEF Front

LEMMA FrontOfLevels ==
  ASSUME NEW levels \in Seq(Nat), Len(levels) >= 2
  PROVE  /\ Front(levels) \in Seq(Nat)
         /\ Len(Front(levels)) = Len(levels) - 1
         /\ Front(levels)[1] = levels[1]
BY DEF Front

\* A path names the document its levels belong to; only no level has no path.
LEMMA DocpathKeepsDocument ==
  ASSUME NEW levels \in Seq(Nat), Len(levels) # 1
  PROVE  /\ Docpath(levels) = <<>> <=> levels = <<>>
         /\ levels # <<>> => Docpath(levels)[1] = levels[1]
<1>1. CASE levels = <<>>
  BY <1>1 DEF Docpath
<1>2. CASE levels # <<>>
  <2>1. Len(levels) >= 2
    <3>1. Len(levels) \in Nat \ {0}
      BY <1>2, SomeLevels
    <3>2. \A n \in Nat \ {0} : n # 1 => n >= 2
      OBVIOUS
    <3> QED
      BY <3>1, <3>2
  <2>2. /\ Front(levels) \in Seq(Nat)
        /\ Len(Front(levels)) = Len(levels) - 1
        /\ Front(levels)[1] = levels[1]
    BY <2>1, FrontOfLevels
  <2>3. Front(levels) # <<>>
    BY <2>1, <2>2
  <2> QED
    BY <1>2, <2>2, <2>3 DEF Docpath
<1> QED
  BY <1>1, <1>2

LEMMA LeftKeepsDocument ==
  ASSUME NEW levels \in Seq(Nat), Len(levels) >= 2
  PROVE  /\ Left(levels) \in Seq(Nat)
         /\ Len(Left(levels)) = IF Len(levels) = 2 THEN 0 ELSE Len(levels) - 1
         /\ Left(levels) # <<>> => Left(levels)[1] = levels[1]
<1>1. /\ Front(levels) \in Seq(Nat)
      /\ Len(Front(levels)) = Len(levels) - 1
      /\ Front(levels)[1] = levels[1]
  BY FrontOfLevels
<1>2. Left(levels) = IF Len(levels) = 2 THEN <<>> ELSE Front(levels)
  <2>1. Len(levels) \in Nat
    OBVIOUS
  <2>2. \A n \in Nat : n >= 2 => (n - 1 < 2 <=> n = 2)
    OBVIOUS
  <2>3. Len(levels) - 1 < 2 <=> Len(levels) = 2
    BY <2>1, <2>2
  <2> QED
    BY <2>3 DEF Left
<1> QED
  BY <1>1, <1>2

-----------------------------------------------------------------------------
(* The stack of walks.                                                      *)

LEMMA StackTop ==
  ASSUME StackInv, walks # <<>>
  PROVE  /\ Len(walks) \in Nat \ {0}
         /\ walks[Len(walks)] \in WalkRecord /\ WalkOK(walks, Len(walks))
         /\ Open = walks[Len(walks)].open /\ Last(walks) = walks[Len(walks)]
<1>1. walks \in Seq(WalkRecord)
  BY DEF StackInv
<1>2. Len(walks) \in Nat \ {0}
  BY <1>1, SomeLevels
<1>3. walks[Len(walks)] \in WalkRecord
  BY <1>1, <1>2
<1> QED
  BY <1>2, <1>3 DEF StackInv, Open, Last

LEMMA OpenFacts ==
  ASSUME StackInv
  PROVE  /\ Open \in Seq(Nat) /\ Len(Open) \in Nat /\ Len(Open) >= 1
         /\ Here \in ToSet(Open)
<1>1. Open \in Seq(Nat) /\ Len(Open) \in Nat /\ Len(Open) >= 1
  <2>1. CASE walks = <<>>
    BY <2>1 DEF Open
  <2>2. CASE walks # <<>>
    BY <2>2, StackTop DEF WalkRecord, WalkOK
  <2> QED
    BY <2>1, <2>2
<1> QED
  BY <1>1 DEF Here, Last, ToSet

LEMMA EnteredKeepsDocument ==
  ASSUME LevelInv, StackInv
  PROVE  LET next == Append(Entered, 0) IN
         /\ next \in Seq(Nat)
         /\ jumd_level # <<>> =>
              Len(next) = Len(jumd_level) + 1 /\ next[1] = doc_count
         /\ jumd_level = <<>> => Len(next) = 2 /\ next[1] = doc_count + 1
<1>1. CASE jumd_level = <<>>
  BY <1>1 DEF LevelInv, Entered
<1>2. CASE jumd_level # <<>>
  <2>1. Len(jumd_level) >= 2
    <3>1. Len(jumd_level) \in Nat \ {0}
      BY <1>2, SomeLevels DEF LevelInv
    <3>2. \A n \in Nat \ {0} : n # 1 => n >= 2
      OBVIOUS
    <3>3. Len(jumd_level) # 1
      BY <3>1, OpenFacts DEF LevelInv
    <3> QED
      BY <3>1, <3>2, <3>3
  <2>2. /\ Entered \in Seq(Nat) /\ Len(Entered) = Len(jumd_level)
        /\ Entered[1] = jumd_level[1]
    BY <1>2, <2>1 DEF LevelInv, Entered
  <2> QED
    BY <1>2, <2>1, <2>2 DEF LevelInv
<1> QED
  BY <1>1, <1>2

\* A walk that is opened knows the superboxes of the one it is in.
LEMMA Pushed ==
  ASSUME StackInv, Walking, DepthLeft, NEW w \in WalkRecord, walks' = Append(walks, w),
         w.via # "stream", Len(w.open) >= 1,
         w.via = "jumb" => /\ Len(w.open) = Len(Open) + 1
                           /\ \A m \in 1..Len(Open) : w.open[m] = Open[m],
         w.via # "jumb" => w.open = Open
  PROVE  StackInv' /\ Open' = w.open
<1> DEFINE depth == Len(walks)
<1>1. walks \in Seq(WalkRecord) /\ depth \in Nat \ {0} /\ Open = walks[depth].open
  BY StackTop DEF StackInv, Walking
<1>2. /\ walks' \in Seq(WalkRecord) /\ Len(walks') = depth + 1
      /\ \A n \in 1..depth : walks'[n] = walks[n]
      /\ walks'[depth + 1] = w
  BY <1>1
<1>3. Len(walks') <= MaxBoxDepth + 1
  BY <1>1, <1>2, DepthAssumption DEF DepthLeft
<1> HIDE DEF depth
<1>4. ASSUME NEW n \in 1..depth + 1 PROVE WalkOK(walks', n)
  <2>1. CASE n = depth + 1
    <3>1. walks'[n] = w /\ n > 1 /\ n # 1 /\ walks'[n - 1] = walks[depth]
      BY <2>1, <1>1, <1>2
    <3> QED
      BY <3>1, <1>1 DEF WalkOK
  <2>2. CASE n \in 1..depth
    <3>1. walks'[n] = walks[n] /\ (n > 1 => walks'[n - 1] = walks[n - 1])
      BY <2>2, <1>1, <1>2
    <3>2. WalkOK(walks, n)
      BY <2>2 DEF StackInv, depth
    <3> QED
      BY <3>1, <3>2 DEF WalkOK
  <2> QED
    BY <2>1, <2>2, <1>1
<1>5. StackInv'
  BY <1>2, <1>3, <1>4 DEF StackInv
<1>6. walks' # <<>> /\ Last(walks)' = w
  BY <1>1, <1>2 DEF Last
<1> QED
  BY <1>5, <1>6 DEF Open

\* A walk that ends gives back the superboxes it found.
LEMMA Popped ==
  ASSUME StackInv, Walking, walks' = Front(walks)
  PROVE  /\ StackInv' /\ Len(Open') \in Nat /\ Len(Open') >= 1
         /\ Last(walks).via = "jumb" =>
              /\ Len(Open') = Len(Open) - 1
              /\ \A m \in 1..Len(Open') : Open'[m] = Open[m]
              /\ Len(Open') > 1 => Open'[2] = Open[2]
         /\ Last(walks).via # "jumb" => Open' = Open
<1> DEFINE depth == Len(walks)
<1>1. /\ walks \in Seq(WalkRecord) /\ depth \in Nat \ {0} /\ WalkOK(walks, depth)
      /\ Open = walks[depth].open /\ Last(walks) = walks[depth]
  BY StackTop DEF StackInv, Walking
<1>2. /\ walks' \in Seq(WalkRecord) /\ Len(walks') = depth - 1
      /\ \A n \in 1..depth - 1 : walks'[n] = walks[n]
  BY <1>1, FrontOfSome DEF Walking
<1>3. Len(walks') <= MaxBoxDepth + 1
  BY <1>1, <1>2, DepthAssumption DEF StackInv
<1> HIDE DEF depth
<1>4. ASSUME NEW n \in 1..depth - 1 PROVE WalkOK(walks', n)
  <2>1. /\ walks'[n] = walks[n] /\ (n > 1 => walks'[n - 1] = walks[n - 1])
        /\ n \in 1..depth
    BY <1>1, <1>2
  <2>2. WalkOK(walks, n)
    BY <2>1 DEF StackInv, depth
  <2> QED
    BY <2>1, <2>2 DEF WalkOK
<1>5. StackInv'
  BY <1>2, <1>3, <1>4 DEF StackInv
<1>6. CASE depth = 1
  <2>1. walks' = <<>>
    BY <1>2, <1>6, SomeLevels
  <2>2. Last(walks).via = "stream" /\ Open = <<0>>
    BY <1>1, <1>6 DEF WalkOK
  <2>3. Open' = <<0>>
    BY <2>1 DEF Open
  <2> QED
    BY <1>5, <2>2, <2>3
<1>7. CASE depth # 1
  <2>1. depth > 1 /\ depth - 1 \in 1..depth - 1 /\ depth - 1 \in 1..depth
    BY <1>1, <1>7
  <2>2. walks' # <<>> /\ Open' = walks[depth - 1].open
    BY <1>2, <2>1 DEF Open, Last
  <2>3. Len(walks[depth - 1].open) \in Nat /\ Len(walks[depth - 1].open) >= 1
    <3>1. Len(walks[depth - 1].open) \in Nat
      BY <1>1, <2>1 DEF depth, WalkRecord
    <3>2. WalkOK(walks, depth - 1)
      BY <2>1 DEF depth, StackInv
    <3> QED
      BY <3>1, <3>2 DEF WalkOK
  <2> QED
    BY <1>1, <1>5, <2>1, <2>2, <2>3 DEF WalkOK
<1> QED
  BY <1>6, <1>7

-----------------------------------------------------------------------------
(* Levels and tags under a step.                                            *)

\* A new tag is of the open document and inside the superbox of its label.
LEMMA NewTagFits ==
  ASSUME JumbfInv, NEW name, NEW label \in {Unlabelled, cur_label}
  PROVE  /\ TagFits(Tag(name, label))
         /\ Tag(name, label).label # Unlabelled =>
              Tag(name, label).label.owner \in Tag(name, label).within
         /\ Tag(name, label).path # <<>> =>
              jumd_level # <<>> /\ Tag(name, label).path[1] = doc_count
<1> DEFINE t == Tag(name, label)
<1>1. Len(Open) \in Nat /\ Len(Open) >= 1
  BY OpenFacts DEF JumbfInv
<1>2. /\ jumd_level \in Seq(Nat) /\ Len(jumd_level) # 1
      /\ jumd_level = <<>> <=> Len(Open) = 1
  <2>1. jumd_level # <<>> => Len(jumd_level) # 0
    BY SomeLevels DEF JumbfInv, LevelInv
  <2> QED
    BY <1>1, <2>1 DEF JumbfInv, LevelInv
<1>3. /\ Docpath(jumd_level) = <<>> <=> jumd_level = <<>>
      /\ jumd_level # <<>> => Docpath(jumd_level)[1] = doc_count
  BY <1>2, DocpathKeepsDocument DEF JumbfInv, LevelInv
<1>4. /\ t.path = Docpath(jumd_level) /\ t.label = label /\ t.within = ToSet(Open)
      /\ t.top = IF Len(Open) > 1 THEN Open[2] ELSE 0
  BY DEF Tag
<1> HIDE DEF t
<1>5. jumd_level # <<>> => Open[2] \in 1..opened /\ doc_count \in 1..doc_count
  BY DEF JumbfInv, LevelInv
<1>6. t.top = IF jumd_level = <<>> THEN 0 ELSE Open[2]
  <2>1. \A n \in Nat : n >= 1 => (n > 1 <=> n # 1)
    OBVIOUS
  <2>2. Len(Open) > 1 <=> jumd_level # <<>>
    BY <1>1, <1>2, <2>1
  <2> QED
    BY <1>4, <2>2
<1>7. TagFits(t)
  BY <1>3, <1>4, <1>5, <1>6 DEF TagFits, JumbfInv, LevelInv
<1> QED
  BY <1>3, <1>4, <1>7 DEF t, JumbfInv, LabelInv

LEMMA EmitKeeps ==
  ASSUME JumbfInv, UNCHANGED <<jumd_level, doc_count, opened>>, Open' = Open,
         NEW names, NEW label \in {Unlabelled, cur_label}, Emit(names, label)
  PROVE  TagInv' /\ DocumentIsTopLevelBox' /\ LabelStaysInside'
<1>1. ASSUME NEW t \in tags'
      PROVE  /\ TagFits(t)
             /\ t.label # Unlabelled => t.label.owner \in t.within
             /\ t \in tags \/ (t.path # <<>> => jumd_level # <<>> /\ t.path[1] = doc_count)
  <2>1. CASE t \in tags
    BY <2>1 DEF JumbfInv, TagInv, LabelStaysInside
  <2>2. CASE t \notin tags
    <3>1. PICK name \in names : t = Tag(name, label)
      BY <2>2 DEF Emit
    <3> QED
      BY <3>1, NewTagFits
  <2> QED
    BY <2>1, <2>2
<1>2. TagInv'
  BY <1>1 DEF TagInv, TagFits
<1>3. ASSUME NEW s \in tags', NEW t \in tags', s.path # <<>>, t.path # <<>>
      PROVE  s.path[1] = t.path[1] <=> s.top = t.top
  <2>1. CASE s \in tags /\ t \in tags
    BY <2>1, <1>3 DEF JumbfInv, DocumentIsTopLevelBox
  <2>2. CASE s \notin tags
    BY <2>2, <1>1, <1>3 DEF TagFits
  <2>3. CASE t \notin tags
    BY <2>3, <1>1, <1>3 DEF TagFits
  <2> QED
    BY <2>1, <2>2, <2>3
<1> QED
  BY <1>1, <1>2, <1>3 DEF DocumentIsTopLevelBox, LabelStaysInside, TagFits

LEMMA QuietTags ==
  ASSUME JumbfInv, UNCHANGED <<jumd_level, doc_count, opened, tags>>, Open' = Open
  PROVE  TagInv' /\ DocumentIsTopLevelBox' /\ LabelStaysInside'
BY DEF JumbfInv, TagInv, TagFits, DocumentIsTopLevelBox, LabelStaysInside

LEMMA QuietLevels ==
  ASSUME JumbfInv, UNCHANGED <<jumd_level, doc_count, opened>>, Open' = Open
  PROVE  LevelInv'
BY DEF JumbfInv, LevelInv

LEMMA QuietStack ==
  ASSUME JumbfInv, UNCHANGED walks
  PROVE  StackInv' /\ Open' = Open
BY DEF JumbfInv, StackInv, Open

LEMMA LabelKept ==
  ASSUME JumbfInv, Open' = Open,
         cur_label' \in {cur_label, Unlabelled}
                       \cup [label : Labels, owner : {Here}]
  PROVE  LabelInv'
BY OpenFacts DEF JumbfInv, LabelInv, Unlabelled

\* A walk opened by asoc or jumd is in the same superboxes.
LEMMA AsideOpened ==
  ASSUME JumbfInv, Walking, DepthLeft, NEW v \in {"asoc", "jumd"},
         walks' = Append(walks, [via |-> v, open |-> Open])
  PROVE  StackInv' /\ Open' = Open
<1>1. [via |-> v, open |-> Open] \in WalkRecord
  BY OpenFacts DEF JumbfInv, WalkRecord
<1> QED
  BY <1>1, OpenFacts, Pushed DEF JumbfInv

LEMMA SuperboxOpened ==
  ASSUME JumbfInv, Walking, DepthLeft,
         walks' = Append(walks, [via |-> "jumb", open |-> Append(Open, opened + 1)])
  PROVE  StackInv' /\ Open' = Append(Open, opened + 1)
<1>1. /\ Open \in Seq(Nat) /\ Len(Open) \in Nat /\ Len(Open) >= 1 /\ opened + 1 \in Nat
  BY OpenFacts DEF JumbfInv, LevelInv
<1>2. /\ Append(Open, opened + 1) \in Seq(Nat)
      /\ Len(Append(Open, opened + 1)) = Len(Open) + 1
      /\ \A m \in 1..Len(Open) : Append(Open, opened + 1)[m] = Open[m]
  BY <1>1
<1> DEFINE w == [via |-> "jumb", open |-> Append(Open, opened + 1)]
<1>3. /\ w \in WalkRecord /\ w.via = "jumb" /\ w.open = Append(Open, opened + 1)
      /\ Len(w.open) = Len(Open) + 1 /\ \A m \in 1..Len(Open) : w.open[m] = Open[m]
  BY <1>2 DEF WalkRecord
<1>4. walks' = Append(walks, w)
  OBVIOUS
<1> HIDE DEF w
<1>5. Len(w.open) >= 1
  BY <1>1, <1>3
<1> QED
  BY <1>3, <1>4, <1>5, Pushed DEF JumbfInv

\* The tags of the past stay apart from the open document, whether it stays
\* the same, is left, or is a new one.
LEMMA TagsKept ==
  ASSUME JumbfInv, UNCHANGED tags, doc_count' \in Nat, opened' \in Nat,
         doc_count' >= doc_count, opened' >= opened,
         jumd_level' # <<>> =>
           \/ /\ jumd_level # <<>> /\ doc_count' = doc_count /\ Open'[2] = Open[2]
           \/ doc_count' = doc_count + 1 /\ Open'[2] = opened + 1
  PROVE  TagInv' /\ DocumentIsTopLevelBox' /\ LabelStaysInside'
<1>1. doc_count \in Nat /\ opened \in Nat
  BY DEF JumbfInv, LevelInv
<1>2. ASSUME NEW t \in tags PROVE TagFits(t)'
  <2>1. TagFits(t)
    BY DEF JumbfInv, TagInv
  <2>2. CASE t.path = <<>>
    BY <2>1, <2>2 DEF TagFits
  <2>3. CASE t.path # <<>>
    <3>1. t.path[1] \in 1..doc_count' /\ t.top \in 1..opened'
      BY <1>1, <2>1, <2>3 DEF TagFits
    <3>2. ASSUME jumd_level' # <<>> PROVE t.path[1] = doc_count' <=> t.top = Open'[2]
      <4>1. CASE jumd_level # <<>> /\ doc_count' = doc_count /\ Open'[2] = Open[2]
        BY <4>1, <2>1, <2>3 DEF TagFits
      <4>2. CASE doc_count' = doc_count + 1 /\ Open'[2] = opened + 1
        <5>1. t.path[1] # doc_count + 1 /\ t.top # opened + 1
          BY <1>1, <2>1, <2>3 DEF TagFits
        <5> QED
          BY <4>2, <5>1
      <4> QED
        BY <3>2, <4>1, <4>2
    <3> QED
      BY <2>1, <2>3, <3>1, <3>2 DEF TagFits
  <2> QED
    BY <2>2, <2>3
<1> QED
  BY <1>2 DEF JumbfInv, TagInv, DocumentIsTopLevelBox, LabelStaysInside

\* A superbox is numbered on entry, and the number stays while it is open.
LEMMA EnteredLevels ==
  ASSUME JumbfInv, doc_count' = IF jumd_level = <<>> THEN doc_count + 1 ELSE doc_count,
         opened' = opened + 1
  PROVE  /\ doc_count' \in Nat /\ opened' \in Nat /\ doc_count' <= opened'
         /\ doc_count' >= doc_count /\ opened' >= opened /\ doc_count' > 0
BY DEF JumbfInv, LevelInv

LEMMA OpenJumbKeeps ==
  ASSUME JumbfInv, OpenJumb
  PROVE  JumbfInv'
<1>1. /\ doc_count' = IF jumd_level = <<>> THEN doc_count + 1 ELSE doc_count
      /\ opened' = opened + 1 /\ jumd_level' = Append(Entered, 0)
      /\ UNCHANGED <<cur_label, tags>> /\ Walking /\ DepthLeft
      /\ walks' = Append(walks, [via |-> "jumb", open |-> Append(Open, opened + 1)])
  BY DEF OpenJumb, ReadHeader
<1>2. StackInv' /\ Open' = Append(Open, opened + 1)
  BY <1>1, SuperboxOpened
<1>3. /\ jumd_level' \in Seq(Nat) /\ jumd_level' # <<>>
      /\ jumd_level # <<>> => Len(jumd_level') = Len(jumd_level) + 1 /\ jumd_level'[1] = doc_count
      /\ jumd_level = <<>> => Len(jumd_level') = 2 /\ jumd_level'[1] = doc_count + 1
  <2>1. Append(Entered, 0) # <<>>
    BY EnteredKeepsDocument, SomeLevels DEF JumbfInv
  <2> QED
    BY <1>1, <2>1, EnteredKeepsDocument DEF JumbfInv
<1>4. /\ Len(Open) \in Nat /\ Len(Open) >= 1 /\ Len(Open') = Len(Open) + 1
      /\ Len(Open) > 1 => Open'[2] = Open[2]
      /\ Len(Open) = 1 => Open'[2] = opened + 1
      /\ \A x \in ToSet(Open) : x \in ToSet(Open')
  <2>1. Open \in Seq(Nat) /\ Len(Open) \in Nat /\ Len(Open) >= 1 /\ opened + 1 \in Nat
    BY OpenFacts DEF JumbfInv, LevelInv
  <2> QED
    BY <1>2, <2>1 DEF ToSet
<1>5. jumd_level = <<>> <=> Len(Open) = 1
  <2>1. jumd_level # <<>> => Len(jumd_level) # 0
    BY SomeLevels DEF JumbfInv, LevelInv
  <2> QED
    BY <1>4, <2>1 DEF JumbfInv, LevelInv
<1>6. /\ jumd_level # <<>> => Open'[2] = Open[2] /\ Open[2] \in 1..opened
      /\ jumd_level = <<>> => Open'[2] = opened + 1
  <2>1. \A n \in Nat : n >= 1 => (n > 1 <=> n # 1)
    OBVIOUS
  <2>2. Len(Open) > 1 <=> jumd_level # <<>>
    BY <1>4, <1>5, <2>1
  <2> QED
    BY <1>4, <1>5, <2>2 DEF JumbfInv, LevelInv
<1>7. LevelInv'
  <2>1. /\ doc_count' \in Nat /\ opened' \in Nat /\ doc_count' <= opened' /\ doc_count' > 0
    BY <1>1, EnteredLevels
  <2>2. jumd_level'[1] = doc_count'
    BY <1>1, <1>3
  <2>3. Open'[2] \in 1..opened'
    BY <1>1, <1>6, <2>1 DEF JumbfInv, LevelInv
  <2>4. Len(jumd_level') = Len(Open')
    <3>1. jumd_level # <<>> => Len(jumd_level) = Len(Open)
      BY <1>5 DEF JumbfInv, LevelInv
    <3>2. CASE jumd_level = <<>>
      <4>1. \A n \in Nat : n = 1 => n + 1 = 2
        OBVIOUS
      <4> QED
        BY <1>3, <1>4, <1>5, <3>2, <4>1
    <3>3. CASE jumd_level # <<>>
      BY <1>3, <1>4, <3>1, <3>3
    <3> QED
      BY <3>2, <3>3
  <2>5. Len(Open') # 1
    <3>1. \A n \in Nat : n >= 1 => n + 1 # 1
      OBVIOUS
    <3> QED
      BY <1>4, <3>1
  <2> QED
    BY <1>3, <2>1, <2>2, <2>3, <2>4, <2>5 DEF LevelInv
<1>8. LabelInv'
  BY <1>1, <1>4 DEF JumbfInv, LabelInv, Unlabelled
<1>9. TagInv' /\ DocumentIsTopLevelBox' /\ LabelStaysInside'
  BY <1>1, <1>6, EnteredLevels, TagsKept
<1> QED
  BY <1>2, <1>7, <1>8, <1>9 DEF JumbfInv

\* Past the budget a superbox is numbered and left at once.
LEMMA JumbTooDeepKeeps ==
  ASSUME JumbfInv, JumbTooDeep
  PROVE  JumbfInv'
<1>1. /\ doc_count' = IF jumd_level = <<>> THEN doc_count + 1 ELSE doc_count
      /\ opened' = opened + 1 /\ jumd_level' = Left(Append(Entered, 0))
      /\ cur_label' = Unlabelled /\ UNCHANGED <<walks, tags>>
  BY DEF JumbTooDeep
<1>2. StackInv' /\ Open' = Open
  BY <1>1, QuietStack
<1> DEFINE next == Append(Entered, 0)
<1>3. /\ next \in Seq(Nat)
      /\ jumd_level # <<>> => Len(next) = Len(jumd_level) + 1 /\ next[1] = doc_count
      /\ jumd_level = <<>> => Len(next) = 2
  BY EnteredKeepsDocument DEF JumbfInv
<1>4. jumd_level # <<>> => Len(jumd_level) \in Nat \ {0} /\ Len(jumd_level) = Len(Open)
                          /\ Len(jumd_level) # 1
  BY SomeLevels, OpenFacts DEF JumbfInv, LevelInv
<1>5. Len(next) \in Nat /\ Len(next) >= 2
  BY <1>3, <1>4
<1> HIDE DEF next
<1>6. /\ jumd_level' \in Seq(Nat)
      /\ Len(jumd_level') = IF Len(next) = 2 THEN 0 ELSE Len(next) - 1
      /\ jumd_level' # <<>> => jumd_level'[1] = next[1]
  BY <1>1, <1>3, <1>5, LeftKeepsDocument DEF next
<1>7. /\ Len(jumd_level') = Len(jumd_level)
      /\ jumd_level' # <<>> => jumd_level # <<>> /\ jumd_level'[1] = doc_count
  <2>1. CASE jumd_level = <<>>
    <3>1. Len(jumd_level') = 0 /\ Len(jumd_level) = 0
      BY <1>3, <1>6, <2>1
    <3>2. jumd_level' = <<>>
      BY <1>6, <3>1, SomeLevels
    <3> QED
      BY <3>1, <3>2
  <2>2. CASE jumd_level # <<>>
    <3>1. \A n \in Nat \ {0} : n # 1 => n + 1 # 2 /\ n + 1 - 1 = n
      OBVIOUS
    <3>2. PICK n \in Nat \ {0} : n = Len(jumd_level) /\ n # 1
      BY <1>4, <2>2
    <3>3. Len(next) # 2 /\ Len(next) - 1 = n
      BY <1>3, <2>2, <3>1, <3>2
    <3> QED
      BY <1>3, <1>6, <2>2, <3>2, <3>3
  <2> QED
    BY <2>1, <2>2
<1>8. /\ doc_count' \in Nat /\ opened' \in Nat /\ doc_count' <= opened'
      /\ doc_count' >= doc_count /\ opened' >= opened /\ doc_count' > 0
  BY <1>1, EnteredLevels
<1>9. jumd_level' # <<>> => doc_count' = doc_count /\ Open'[2] = Open[2] /\ Open[2] \in 1..opened'
  BY <1>1, <1>2, <1>7, <1>8 DEF JumbfInv, LevelInv
<1>10. LevelInv'
  BY <1>2, <1>6, <1>7, <1>8, <1>9 DEF JumbfInv, LevelInv
<1>11. LabelInv'
  BY <1>1, <1>2, LabelKept
<1>12. TagInv' /\ DocumentIsTopLevelBox' /\ LabelStaysInside'
  BY <1>1, <1>7, <1>8, <1>9, TagsKept
<1> QED
  BY <1>2, <1>10, <1>11, <1>12 DEF JumbfInv

\* The end of a walk takes back the level of the superbox it ends.
LEMMA ReturnKeeps ==
  ASSUME JumbfInv, Return
  PROVE  JumbfInv'
<1>1. Walking /\ walks' = Front(walks) /\ UNCHANGED <<doc_count, tags, opened>>
  BY DEF Return
<1>2. StackInv'
  BY <1>1, Popped DEF JumbfInv
<1>3. CASE Last(walks).via # "jumb"
  <2>1. UNCHANGED <<cur_label, jumd_level>>
    BY <1>3 DEF Return
  <2>2. Open' = Open
    BY <1>1, <1>3, Popped DEF JumbfInv
  <2> QED
    BY <1>1, <1>2, <2>1, <2>2, LabelKept, QuietLevels, QuietTags DEF JumbfInv
<1>4. CASE Last(walks).via = "jumb"
  <2>1. cur_label' = Unlabelled /\ jumd_level' = Left(jumd_level)
    BY <1>4 DEF Return
  <2>2. Len(Open') = Len(Open) - 1 /\ (Len(Open') > 1 => Open'[2] = Open[2])
    BY <1>1, <1>4, Popped DEF JumbfInv
  <2>3. Len(Open) \in Nat /\ Len(Open') \in Nat /\ Len(Open') >= 1
    BY <1>1, Popped, OpenFacts DEF JumbfInv
  <2>4. Len(Open) >= 2 /\ Len(Open) # 1
    <3>1. \A n \in Nat : n - 1 >= 1 => n >= 2 /\ n # 1
      OBVIOUS
    <3> QED
      BY <2>2, <2>3, <3>1
  <2>5. jumd_level \in Seq(Nat) /\ Len(jumd_level) = Len(Open) /\ jumd_level # <<>>
    BY <2>4 DEF JumbfInv, LevelInv
  <2>6. /\ jumd_level' \in Seq(Nat)
        /\ Len(jumd_level') = IF Len(jumd_level) = 2 THEN 0 ELSE Len(jumd_level) - 1
        /\ jumd_level' # <<>> => jumd_level'[1] = jumd_level[1]
    BY <2>1, <2>4, <2>5, LeftKeepsDocument
  <2>7. Len(jumd_level') = IF Len(Open') = 1 THEN 0 ELSE Len(Open')
    <3>1. \A n \in Nat : n - 1 = 1 <=> n = 2
      OBVIOUS
    <3> QED
      BY <2>2, <2>3, <2>5, <2>6, <3>1
  <2>8. jumd_level' # <<>> => Open'[2] = Open[2]
    <3>1. ASSUME jumd_level' # <<>> PROVE Len(Open') > 1
      <4>1. Len(jumd_level') \in Nat \ {0}
        BY <2>6, <3>1, SomeLevels
      <4>2. Len(Open') # 1
        BY <2>7, <4>1
      <4>3. \A n \in Nat : n >= 1 /\ n # 1 => n > 1
        OBVIOUS
      <4> QED
        BY <2>3, <4>2, <4>3
    <3> QED
      BY <2>2, <3>1
  <2>9. LevelInv'
    BY <1>1, <2>5, <2>6, <2>7, <2>8 DEF JumbfInv, LevelInv
  <2>10. LabelInv'
    BY <2>1 DEF LabelInv, Unlabelled
  <2>11. TagInv' /\ DocumentIsTopLevelBox' /\ LabelStaysInside'
    <3>1. doc_count \in Nat /\ opened \in Nat
      BY DEF JumbfInv, LevelInv
    <3>2. /\ doc_count' \in Nat /\ opened' \in Nat
          /\ doc_count' >= doc_count /\ opened' >= opened
      BY <1>1, <3>1
    <3> QED
      BY <1>1, <2>5, <2>8, <3>2, TagsKept
  <2> QED
    BY <1>2, <2>9, <2>10, <2>11 DEF JumbfInv
<1> QED
  BY <1>3, <1>4

-----------------------------------------------------------------------------
(* Every step.                                                              *)

\* A box that opens no superbox: a label of this superbox, tags of it, and a
\* walk aside or none.
LEMMA FlatBox ==
  ASSUME JumbfInv, UNCHANGED <<jumd_level, doc_count, opened>>,
         cur_label' \in {cur_label, Unlabelled} \cup [label : Labels, owner : {Here}],
         \/ UNCHANGED walks
         \/ /\ Walking /\ DepthLeft
            /\ \E v \in {"asoc", "jumd"} :
                 walks' = Append(walks, [via |-> v, open |-> Open]),
         \/ UNCHANGED tags
         \/ \E names : \E label \in {Unlabelled, cur_label} : Emit(names, label)
  PROVE  JumbfInv'
<1>1. StackInv' /\ Open' = Open
  BY QuietStack, AsideOpened
<1>2. LevelInv' /\ LabelInv'
  BY <1>1, QuietLevels, LabelKept
<1>3. TagInv' /\ DocumentIsTopLevelBox' /\ LabelStaysInside'
  BY <1>1, QuietTags, EmitKeeps
<1> QED
  BY <1>1, <1>2, <1>3 DEF JumbfInv

LEMMA FieldsNameOrClear ==
  ASSUME NEW label \in Labels \cup {NoLabel}, NEW fields, JumdFields(label, fields)
  PROVE  /\ cur_label' \in {cur_label, Unlabelled} \cup [label : Labels, owner : {Here}]
         /\ \E names : Emit(names, Unlabelled)
BY DEF JumdFields

LEMMA JumdKeeps ==
  ASSUME JumbfInv, JumdTruncated \/ JumdUnterminated \/ JumdMissingId \/ JumdMissingSignature
                   \/ Jumd
  PROVE  JumbfInv'
<1>1. CASE JumdTruncated
  BY <1>1, FlatBox DEF JumdTruncated
<1>2. CASE JumdUnterminated
  BY <1>2, FlatBox DEF JumdUnterminated
<1>3. ASSUME NEW fields, NEW missing, JumdCut(fields, missing) PROVE JumbfInv'
  <2>1. PICK label \in Labels \cup {NoLabel} : JumdFields(label, fields)
    BY <1>3 DEF JumdCut, JumdLabelled
  <2> QED
    BY <1>3, <2>1, FieldsNameOrClear, FlatBox DEF JumdCut
<1>4. CASE JumdMissingId \/ JumdMissingSignature
  BY <1>3, <1>4 DEF JumdMissingId, JumdMissingSignature
<1>5. CASE Jumd
  <2>1. PICK fields \in SUBSET Fields : \E label \in Labels \cup {NoLabel} :
          JumdFields(label, fields)
    BY <1>5 DEF Jumd, JumdLabelled
  <2>2. /\ UNCHANGED <<jumd_level, doc_count, opened>> /\ Walking
        /\ \/ UNCHANGED walks
           \/ DepthLeft /\ walks' = Append(walks, [via |-> "jumd", open |-> Open])
    BY <1>5 DEF Jumd, ReadHeader
  <2> QED
    BY <2>1, <2>2, FieldsNameOrClear, FlatBox
<1> QED
  BY <1>1, <1>2, <1>4, <1>5

LEMMA JumbfInductive == JumbfInv /\ [Next]_vars => JumbfInv'
<1> SUFFICES ASSUME JumbfInv, [Next]_vars PROVE JumbfInv'
  OBVIOUS
<1>1. CASE OpenJumb \/ JumbTooDeep
  BY <1>1, OpenJumbKeeps, JumbTooDeepKeeps
<1>2. CASE OpenAsoc \/ AsocTooDeep \/ UnknownBox
  BY <1>2, FlatBox DEF OpenAsoc, AsocTooDeep, UnknownBox, ReadHeader
<1>3. CASE JumdTruncated \/ JumdUnterminated \/ JumdMissingId \/ JumdMissingSignature \/ Jumd
  BY <1>3, JumdKeeps
<1>4. CASE Content \/ Document
  BY <1>4, FlatBox DEF Content, Document
<1>5. CASE EndOfData \/ BrokenBox
  BY <1>5, ReturnKeeps DEF EndOfData, BrokenBox
<1>6. CASE UNCHANGED vars
  BY <1>6, FlatBox DEF vars
<1> QED
  BY <1>1, <1>2, <1>3, <1>4, <1>5, <1>6 DEF Next

LEMMA JumbfInvariant == Spec => []JumbfInv
BY InitJumbf, JumbfInductive, PTL DEF Spec

\* The descent stays within the budget, whichever of the three kinds of boxes
\* nest, and the level stack is as deep as the superboxes.
THEOREM DepthAlwaysBounded == Spec => []TypeOK
<1>1. JumbfInv => TypeOK
  BY DEF JumbfInv, StackInv, LevelInv, LabelInv, TypeOK
<1> QED
  BY <1>1, JumbfInvariant, PTL

\* Two tags have one document ordinal exactly when they are inside the same
\* top-level superbox, at any depth.
THEOREM DocumentAlwaysTopLevelBox == Spec => []DocumentIsTopLevelBox
<1>1. JumbfInv => DocumentIsTopLevelBox
  BY DEF JumbfInv
<1> QED
  BY <1>1, JumbfInvariant, PTL

\* A label renames content only inside the superbox it was set in.
THEOREM LabelAlwaysInside == Spec => []LabelStaysInside
<1>1. JumbfInv => LabelStaysInside
  BY DEF JumbfInv
<1> QED
  BY <1>1, JumbfInvariant, PTL
-----------------------------------------------------------------------------
(* Whose a path is.                                                         *)

\* A path is the first i levels.
Leads(levels, path, i) == Len(path) = i /\ \A m \in 1..i : path[m] = levels[m]

\* Where a path follows the levels it is behind or at the number that is next.
Behind(path) ==
  \A i \in 1..Len(jumd_level) :
    i <= Len(path) /\ (\A m \in 1..i - 1 : path[m] = jumd_level[m]) => path[i] <= jumd_level[i]

\* The path of a tag is that of an open superbox exactly if the tag is its.
OfItsBox(t) ==
  /\ t.path = <<>> <=> t.box = 0
  /\ \A i \in 1..Len(jumd_level) - 1 : Leads(jumd_level, t.path, i) <=> t.box = Open[i + 1]

\* The open superboxes are different, met, and all but the last parents.
OpenOnce ==
  /\ Open[1] = 0
  /\ \A m \in 1..Len(Open) : Open[m] \in 0..opened
  /\ \A m, n \in 1..Len(Open) : Open[m] = Open[n] => m = n
  /\ \A m \in 1..Len(Open) - 1 : Open[m] \in parents

\* Before the first superbox inside, the last level is the placeholder.
Placeholder == jumd_level # <<>> => jumd_level[Len(jumd_level)] = 0 \/ Here \in parents

PathsFit ==
  \A t \in tags :
    /\ t.path \in Seq(Nat) /\ t.box \in 0..opened
    /\ ~t.late => Behind(t.path) /\ OfItsBox(t)

PathInv == JumbfInv /\ OpenOnce /\ Placeholder /\ PathsFit /\ OwnPathsDistinct

\* The level stack beside the open superboxes.
LEMMA LevelShape ==
  ASSUME JumbfInv
  PROVE  /\ Open \in Seq(Nat) /\ Len(Open) \in Nat /\ Len(Open) >= 1 /\ Here = Open[Len(Open)]
         /\ jumd_level \in Seq(Nat) /\ Len(jumd_level) \in Nat /\ opened \in Nat
         /\ jumd_level = <<>> => Len(Open) = 1
         /\ jumd_level # <<>> => Len(jumd_level) = Len(Open) /\ Len(jumd_level) >= 2
<1>1. /\ Open \in Seq(Nat) /\ Len(Open) \in Nat /\ Len(Open) >= 1 /\ Here = Open[Len(Open)]
      /\ jumd_level \in Seq(Nat) /\ Len(jumd_level) \in Nat /\ opened \in Nat
  BY OpenFacts DEF JumbfInv, LevelInv, Here, Last
<1>2. CASE jumd_level = <<>>
  <2>1. Len(jumd_level) = 0
    BY <1>2
  <2>2. Len(Open) = 1
    BY <1>1, <2>1 DEF JumbfInv, LevelInv
  <2> QED
    BY <1>1, <1>2, <2>2
<1>3. CASE jumd_level # <<>>
  <2>1. Len(jumd_level) \in Nat \ {0}
    BY <1>1, <1>3, SomeLevels
  <2>2. Len(Open) # 1 /\ Len(jumd_level) = Len(Open)
    BY <2>1 DEF JumbfInv, LevelInv
  <2>3. Len(jumd_level) >= 2
    BY <1>1, <2>2
  <2> QED
    BY <1>1, <1>3, <2>2, <2>3
<1> QED
  BY <1>2, <1>3

\* The levels of a superbox that is entered.
LEMMA EnteredIs ==
  ASSUME JumbfInv
  PROVE  LET next == Append(Entered, 0)
             n == Len(jumd_level)
         IN  /\ next \in Seq(Nat)
             /\ jumd_level # <<>> =>
                  /\ Len(next) = n + 1 /\ next[n + 1] = 0 /\ next[n] = jumd_level[n] + 1
                  /\ \A m \in 1..n - 1 : next[m] = jumd_level[m]
             /\ jumd_level = <<>> => Len(next) = 2 /\ next[1] = doc_count + 1 /\ next[2] = 0
<1>1. CASE jumd_level = <<>>
  BY <1>1 DEF JumbfInv, LevelInv, Entered
<1>2. CASE jumd_level # <<>>
  <2> DEFINE n == Len(jumd_level)
  <2>1. jumd_level \in Seq(Nat) /\ n \in Nat /\ n >= 2
    BY <1>2, LevelShape
  <2>2. Entered = [jumd_level EXCEPT ![n] = @ + 1]
    BY <1>2 DEF Entered
  <2>3. /\ Entered \in Seq(Nat) /\ Len(Entered) = n /\ Entered[n] = jumd_level[n] + 1
        /\ \A m \in 1..n - 1 : Entered[m] = jumd_level[m]
    BY <2>1, <2>2
  <2>4. /\ Append(Entered, 0) \in Seq(Nat) /\ Len(Append(Entered, 0)) = n + 1
        /\ Append(Entered, 0)[n + 1] = 0
        /\ \A m \in 1..n : Append(Entered, 0)[m] = Entered[m]
    BY <2>1, <2>3
  <2> HIDE DEF n
  <2>5. n \in 1..n /\ \A m \in 1..n - 1 : m \in 1..n
    BY <2>1
  <2>6. /\ Append(Entered, 0)[n] = jumd_level[n] + 1
        /\ \A m \in 1..n - 1 : Append(Entered, 0)[m] = jumd_level[m]
    BY <2>3, <2>4, <2>5
  <2> QED
    BY <1>2, <2>4, <2>6 DEF n
<1> QED
  BY <1>1, <1>2

\* The path of a tag that comes before the first superbox inside.
LEMMA OwnPath ==
  ASSUME PathInv, Here \notin parents
  PROVE  /\ Docpath(jumd_level) \in Seq(Nat)
         /\ jumd_level = <<>> => Docpath(jumd_level) = <<>>
         /\ jumd_level # <<>> => Leads(jumd_level, Docpath(jumd_level), Len(jumd_level) - 1)
<1>1. CASE jumd_level = <<>>
  BY <1>1 DEF Docpath
<1>2. CASE jumd_level # <<>>
  <2>1. jumd_level \in Seq(Nat) /\ Last(jumd_level) = 0
    BY <1>2, LevelShape DEF PathInv, Placeholder, Last
  <2>2. Docpath(jumd_level) = Front(jumd_level)
    BY <1>2, <2>1 DEF Docpath
  <2> QED
    BY <1>2, <2>1, <2>2, FrontOfSome DEF Leads
<1> QED
  BY <1>1, <1>2

\* Paths that lead over the same levels are the same.
LEMMA LeadsOnce ==
  ASSUME NEW p \in Seq(Nat), NEW q \in Seq(Nat), NEW i \in Nat, Leads(jumd_level, q, i)
  PROVE  p = q <=> Leads(jumd_level, p, i)
<1>1. ASSUME Leads(jumd_level, p, i) PROVE p = q
  <2>1. Len(p) = Len(q) /\ \A m \in 1..Len(p) : p[m] = q[m]
    BY <1>1 DEF Leads
  <2> QED
    BY <2>1
<1> QED
  BY <1>1

\* A new tag beside the open superboxes and the tags before it.
LEMMA NewTagOwn ==
  ASSUME PathInv, NEW name, NEW label
  PROVE  LET t == Tag(name, label) IN
         /\ t.path \in Seq(Nat) /\ t.box \in 0..opened
         /\ ~t.late => Behind(t.path) /\ OfItsBox(t)
         /\ ~t.late => \A s \in tags : ~s.late => (s.path = t.path <=> s.box = t.box)
<1> DEFINE t == Tag(name, label)
           n == Len(jumd_level)
<1>1. t.path = Docpath(jumd_level) /\ t.box = Here /\ (t.late <=> Here \in parents)
  BY DEF Tag
<1> HIDE DEF t
<1>2. /\ Open \in Seq(Nat) /\ Len(Open) \in Nat /\ Len(Open) >= 1 /\ Here = Open[Len(Open)]
      /\ jumd_level \in Seq(Nat) /\ n \in Nat /\ opened \in Nat
      /\ jumd_level = <<>> => Len(Open) = 1
      /\ jumd_level # <<>> => n = Len(Open) /\ n >= 2
  BY LevelShape DEF PathInv
<1>3. t.path \in Seq(Nat)
  <2>1. jumd_level # <<>> => Front(jumd_level) \in Seq(Nat)
    BY <1>2, FrontOfSome
  <2> QED
    BY <1>1, <1>2, <2>1 DEF Docpath
<1>4. t.box \in 0..opened
  BY <1>1, <1>2 DEF PathInv, OpenOnce
<1>5. ASSUME ~t.late
      PROVE  /\ Behind(t.path) /\ OfItsBox(t)
             /\ \A s \in tags : ~s.late => (s.path = t.path <=> s.box = t.box)
  <2>1. CASE jumd_level = <<>>
    <3>1. t.path = <<>> /\ t.box = 0
      BY <1>1, <1>2, <1>5, <2>1, OwnPath DEF PathInv, OpenOnce
    <3>2. n = 0
      BY <2>1
    <3>3. Behind(t.path) /\ OfItsBox(t)
      BY <3>1, <3>2 DEF Behind, OfItsBox
    <3> QED
      BY <3>1, <3>3 DEF PathInv, PathsFit, OfItsBox
  <2>2. CASE jumd_level # <<>>
    <3>1. Leads(jumd_level, t.path, n - 1)
      BY <1>1, <1>5, <2>2, OwnPath
    <3>2. /\ Len(t.path) = n - 1 /\ \A m \in 1..n - 1 : t.path[m] = jumd_level[m]
          /\ n >= 2 /\ n = Len(Open) /\ t.box = Open[n]
      BY <1>1, <1>2, <2>2, <3>1 DEF Leads
    <3> HIDE DEF n
    <3>3. Behind(t.path)
      BY <1>2, <3>2 DEF Behind, n
    <3>4. t.path # <<>> /\ t.box # 0
      <4>1. t.path # <<>>
        BY <1>2, <3>2
      <4>2. Open[1] = 0 /\ 1 \in 1..n /\ n \in 1..n /\ n # 1
        BY <1>2, <3>2 DEF PathInv, OpenOnce
      <4>3. Open[n] # Open[1]
        BY <3>2, <4>2 DEF PathInv, OpenOnce
      <4> QED
        BY <3>2, <4>1, <4>2, <4>3
    <3>5. \A i \in 1..n - 1 : Leads(jumd_level, t.path, i) <=> t.box = Open[i + 1]
      <4> TAKE i \in 1..n - 1
      <4>1. Leads(jumd_level, t.path, i) <=> i = n - 1
        BY <1>2, <3>1, <3>2 DEF Leads
      <4>2. i + 1 \in 1..Len(Open) /\ n \in 1..Len(Open) /\ (i = n - 1 <=> i + 1 = n)
        BY <1>2, <3>2
      <4>3. Open[i + 1] = Open[n] <=> i + 1 = n
        BY <4>2 DEF PathInv, OpenOnce
      <4> QED
        BY <3>2, <4>1, <4>2, <4>3
    <3>6. OfItsBox(t)
      BY <3>4, <3>5 DEF OfItsBox, n
    <3>7. ASSUME NEW s \in tags, ~s.late PROVE s.path = t.path <=> s.box = t.box
      <4>1. s.path \in Seq(Nat) /\ n - 1 \in Nat /\ n - 1 \in 1..n - 1 /\ n - 1 + 1 = n
        BY <1>2, <3>2 DEF PathInv, PathsFit
      <4>2. Leads(jumd_level, s.path, n - 1) <=> s.box = Open[n]
        BY <3>7, <4>1 DEF PathInv, PathsFit, OfItsBox, n
      <4>3. s.path = t.path <=> Leads(jumd_level, s.path, n - 1)
        BY <1>3, <3>1, <4>1, LeadsOnce
      <4> QED
        BY <3>2, <4>2, <4>3
    <3> QED
      BY <3>3, <3>6, <3>7
  <2> QED
    BY <2>1, <2>2
<1> QED
  BY <1>3, <1>4, <1>5 DEF t
\* A box that opens no superbox.
LEMMA FlatPaths ==
  ASSUME PathInv, UNCHANGED <<jumd_level, opened, parents>>, Open' = Open,
         \/ UNCHANGED tags
         \/ \E names : \E label : Emit(names, label)
  PROVE  OpenOnce' /\ Placeholder' /\ PathsFit' /\ OwnPathsDistinct'
<1>1. OpenOnce' /\ Placeholder'
  BY DEF PathInv, OpenOnce, Placeholder, Here
<1>2. \A t : (Behind(t.path)' <=> Behind(t.path)) /\ (OfItsBox(t)' <=> OfItsBox(t))
  BY DEF Behind, OfItsBox, Leads
<1>3. CASE UNCHANGED tags
  BY <1>1, <1>2, <1>3 DEF PathInv, PathsFit, OwnPathsDistinct
<1>4. ASSUME NEW names, NEW label, Emit(names, label)
      PROVE  PathsFit' /\ OwnPathsDistinct'
  <2>1. \A t \in tags' : t \in tags \/ \E name \in names : t = Tag(name, label)
    BY <1>4 DEF Emit
  <2>2. ASSUME NEW t \in tags'
        PROVE  /\ t.path \in Seq(Nat) /\ t.box \in 0..opened
               /\ ~t.late => Behind(t.path) /\ OfItsBox(t)
               /\ t \notin tags /\ ~t.late =>
                    \A s \in tags : ~s.late => (s.path = t.path <=> s.box = t.box)
    BY <2>1, NewTagOwn DEF PathInv, PathsFit
  <2>3. ASSUME NEW s \in tags', NEW t \in tags', s \notin tags, t \notin tags
        PROVE  s.path = t.path /\ s.box = t.box
    BY <2>1, <2>3 DEF Tag
  <2>4. PathsFit'
    BY <1>2, <2>2 DEF PathsFit
  <2>5. OwnPathsDistinct'
    <3>1. ASSUME NEW s \in tags', NEW t \in tags', ~s.late, ~t.late
          PROVE  s.path = t.path <=> s.box = t.box
      <4>1. CASE s \in tags /\ t \in tags
        BY <3>1, <4>1 DEF PathInv, OwnPathsDistinct
      <4>2. CASE s \in tags /\ t \notin tags
        BY <2>2, <3>1, <4>2
      <4>3. CASE s \notin tags /\ t \in tags
        BY <2>2, <3>1, <4>3
      <4>4. CASE s \notin tags /\ t \notin tags
        BY <2>3, <3>1, <4>4
      <4> QED
        BY <4>1, <4>2, <4>3, <4>4
    <3> QED
      BY <3>1 DEF OwnPathsDistinct
  <2> QED
    BY <2>4, <2>5
<1> QED
  BY <1>1, <1>3, <1>4

\* The innermost number goes up: no path of a tag is new.
LEMMA NumberTaken ==
  ASSUME JumbfInv, OwnPathsDistinct, PathsFit, jumd_level # <<>>,
         NEW t \in tags, ~t.late, NEW levels \in Seq(Nat), NEW n \in Nat,
         n = Len(jumd_level), Len(levels) >= n, levels[n] = jumd_level[n] + 1,
         \A m \in 1..n - 1 : levels[m] = jumd_level[m]
  PROVE  /\ \A i \in 1..n : i <= Len(t.path) /\ (\A m \in 1..i - 1 : t.path[m] = levels[m])
                              => t.path[i] <= levels[i]
         /\ ~(n <= Len(t.path) /\ \A m \in 1..n : t.path[m] = levels[m])
<1>1. /\ jumd_level \in Seq(Nat) /\ n >= 2 /\ t.path \in Seq(Nat) /\ Len(t.path) \in Nat
      /\ \A i \in 1..n : jumd_level[i] \in Nat
      /\ \A i \in 1..Len(t.path) : t.path[i] \in Nat
  <2>1. t.path \in Seq(Nat)
    BY DEF PathsFit
  <2>2. jumd_level \in Seq(Nat) /\ n >= 2
    BY LevelShape
  <2>3. Len(t.path) \in Nat /\ \A i \in 1..Len(t.path) : t.path[i] \in Nat
    BY <2>1
  <2>4. \A i \in 1..n : jumd_level[i] \in Nat
    BY <2>2
  <2> QED
    BY <2>1, <2>2, <2>3, <2>4
<1>2. Behind(t.path)
  BY DEF PathsFit
<1>3. ASSUME NEW i \in 1..n, i <= Len(t.path), \A m \in 1..i - 1 : t.path[m] = levels[m]
      PROVE  t.path[i] <= jumd_level[i]
  <2>1. \A m \in 1..i - 1 : m \in 1..n - 1
    OBVIOUS
  <2>2. \A m \in 1..i - 1 : t.path[m] = jumd_level[m]
    BY <1>3, <2>1
  <2> QED
    BY <1>2, <1>3, <2>2 DEF Behind
<1>4. \A i \in 1..n : jumd_level[i] <= levels[i]
  <2> TAKE i \in 1..n
  <2>1. CASE i = n
    BY <1>1, <2>1
  <2>2. CASE i # n
    <3>1. i \in 1..n - 1
      BY <2>2
    <3> QED
      BY <1>1, <3>1
  <2> QED
    BY <2>1, <2>2
<1>5. ASSUME NEW i \in 1..n, i <= Len(t.path), \A m \in 1..i - 1 : t.path[m] = levels[m]
      PROVE  t.path[i] <= levels[i]
  <2>1. t.path[i] <= jumd_level[i] /\ jumd_level[i] <= levels[i]
    BY <1>3, <1>4, <1>5
  <2>2. t.path[i] \in Nat /\ jumd_level[i] \in Nat /\ levels[i] \in Nat
    <3>1. i \in 1..Len(levels) /\ i \in 1..Len(t.path)
      BY <1>1, <1>5
    <3>2. levels[i] \in Nat
      BY <3>1
    <3> QED
      BY <1>1, <3>1, <3>2
  <2> QED
    BY <2>1, <2>2
<1>6. ASSUME n <= Len(t.path), \A m \in 1..n : t.path[m] = levels[m] PROVE FALSE
  <2>1. n \in 1..n /\ \A m \in 1..n - 1 : m \in 1..n
    BY <1>1
  <2>2. t.path[n] <= jumd_level[n] /\ t.path[n] = jumd_level[n] + 1 /\ jumd_level[n] \in Nat
    BY <1>1, <1>3, <1>6, <2>1
  <2> QED
    BY <2>2
<1> QED
  BY <1>5, <1>6

\* A superbox is entered under a path that no tag has.
LEMMA OpenJumbPaths ==
  ASSUME PathInv, OpenJumb
  PROVE  OpenOnce' /\ Placeholder' /\ PathsFit' /\ OwnPathsDistinct'
<1>0. PICK n \in Nat, d \in Nat : n = Len(jumd_level) /\ d = Len(Open)
  BY LevelShape DEF PathInv
<1>1. /\ opened' = opened + 1 /\ jumd_level' = Append(Entered, 0)
      /\ parents' = parents \cup {Here} /\ UNCHANGED tags
  BY DEF OpenJumb
<1>2. Open' = Append(Open, opened + 1)
  BY SuperboxOpened DEF OpenJumb, ReadHeader, PathInv
<1>3. /\ Open \in Seq(Nat) /\ d \in Nat /\ d >= 1 /\ Here = Open[d] /\ opened \in Nat
      /\ jumd_level = <<>> => d = 1
      /\ jumd_level # <<>> => n = d /\ n >= 2
      /\ n \in Nat
  BY <1>0, LevelShape DEF PathInv
<1>4. /\ Len(Open') = d + 1 /\ Open'[d + 1] = opened + 1
      /\ \A m \in 1..d : Open'[m] = Open[m]
  BY <1>0, <1>2, <1>3
<1>5. /\ jumd_level' \in Seq(Nat) /\ Len(jumd_level') = d + 1 /\ jumd_level'[d + 1] = 0
      /\ jumd_level # <<>> => /\ jumd_level'[d] = jumd_level[d] + 1
                              /\ \A m \in 1..d - 1 : jumd_level'[m] = jumd_level[m]
      /\ jumd_level = <<>> => jumd_level'[1] = doc_count + 1
  <2>1. CASE jumd_level = <<>>
    BY <1>0, <1>1, <1>3, <2>1, EnteredIs DEF PathInv
  <2>2. CASE jumd_level # <<>>
    BY <1>0, <1>1, <1>3, <2>2, EnteredIs DEF PathInv
  <2> QED
    BY <2>1, <2>2
<1>6. OpenOnce'
  <2>1. Open'[1] = 0
    BY <1>3, <1>4 DEF PathInv, OpenOnce
  <2>2. \A m \in 1..d : Open[m] \in 0..opened
    BY <1>0 DEF PathInv, OpenOnce
  <2>3. \A m \in 1..d + 1 : Open'[m] \in 0..opened'
    BY <1>1, <1>3, <1>4, <2>2, SMTT(30)
  <2>4. \A m, k \in 1..d + 1 : Open'[m] = Open'[k] => m = k
    <3> SUFFICES ASSUME NEW m \in 1..d + 1, NEW k \in 1..d + 1, Open'[m] = Open'[k]
                 PROVE  m = k
      OBVIOUS
    <3>1. CASE m \in 1..d /\ k \in 1..d
      BY <1>0, <1>4, <3>1 DEF PathInv, OpenOnce
    <3>2. CASE m = d + 1 /\ k \in 1..d
      BY <1>3, <1>4, <2>2, <3>2, SMTT(30)
    <3>3. CASE k = d + 1 /\ m \in 1..d
      BY <1>3, <1>4, <2>2, <3>3
    <3>4. CASE m = d + 1 /\ k = d + 1
      BY <3>4
    <3> QED
      BY <1>3, <3>1, <3>2, <3>3, <3>4
  <2>5. \A m \in 1..d : Open'[m] \in parents'
    <3> TAKE m \in 1..d
    <3>1. CASE m = d
      BY <1>1, <1>3, <1>4, <3>1
    <3>2. CASE m # d
      <4>1. m \in 1..d - 1
        BY <1>3, <3>2
      <4>2. Open[m] \in parents
        BY <1>0, <4>1 DEF PathInv, OpenOnce
      <4> QED
        BY <1>1, <1>4, <4>2
    <3> QED
      BY <3>1, <3>2
  <2>6. d + 1 - 1 = d
    BY <1>3
  <2> QED
    BY <1>4, <2>1, <2>3, <2>4, <2>5, <2>6 DEF OpenOnce
<1>7. Placeholder'
  BY <1>5 DEF Placeholder
<1>8. ASSUME NEW t \in tags, ~t.late PROVE Behind(t.path)' /\ OfItsBox(t)'
  <2>1. t.path \in Seq(Nat) /\ Len(t.path) \in Nat /\ t.box \in 0..opened /\ OfItsBox(t)
    BY <1>8 DEF PathInv, PathsFit
  <2>2. /\ \A i \in 1..d : i <= Len(t.path) /\ (\A m \in 1..i - 1 : t.path[m] = jumd_level'[m])
                             => t.path[i] <= jumd_level'[i]
        /\ ~(d <= Len(t.path) /\ \A m \in 1..d : t.path[m] = jumd_level'[m])
    <3>1. CASE jumd_level = <<>>
      <4>1. d = 1 /\ jumd_level'[1] = doc_count + 1 /\ doc_count \in Nat
        BY <1>3, <1>5, <3>1 DEF PathInv, JumbfInv, LevelInv
      <4>2. 1 <= Len(t.path) => t.path[1] \in 1..doc_count
        <5>1. 1 <= Len(t.path) => t.path # <<>>
          OBVIOUS
        <5> QED
          BY <5>1 DEF PathInv, JumbfInv, TagInv, TagFits
      <4> QED
        BY <4>1, <4>2
    <3>2. CASE jumd_level # <<>>
      <4>1. /\ d = Len(jumd_level) /\ Len(jumd_level') >= d /\ d \in Nat
            /\ jumd_level'[d] = jumd_level[d] + 1
            /\ \A m \in 1..d - 1 : jumd_level'[m] = jumd_level[m]
        BY <1>0, <1>3, <1>5, <3>2
      <4>2. JumbfInv /\ OwnPathsDistinct /\ PathsFit
        BY DEF PathInv
      <4>3. PICK levels \in Seq(Nat) : levels = jumd_level'
        BY <1>5
      <4> QED
        BY <1>8, <3>2, <4>1, <4>2, <4>3, NumberTaken
    <3> QED
      BY <3>1, <3>2
  <2>3. Behind(t.path)'
    <3>1. ASSUME NEW i \in 1..d + 1, i <= Len(t.path), \A m \in 1..i - 1 : t.path[m] = jumd_level'[m]
          PROVE  t.path[i] <= jumd_level'[i]
      <4>1. CASE i \in 1..d
        BY <2>2, <3>1, <4>1
      <4>2. CASE i = d + 1
        <5>1. d <= Len(t.path) /\ i - 1 = d
          BY <1>3, <2>1, <3>1, <4>2
        <5> QED
          BY <2>2, <3>1, <5>1
      <4> QED
        BY <1>3, <4>1, <4>2
    <3> QED
      BY <1>5, <3>1 DEF Behind
  <2>4. \A i \in 1..d : Leads(jumd_level', t.path, i) <=> t.box = Open'[i + 1]
    <3> TAKE i \in 1..d
    <3>1. CASE i = d
      <4>1. ~ Leads(jumd_level', t.path, i)
        <5>1. Leads(jumd_level', t.path, d) => d <= Len(t.path) /\ \A m \in 1..d : t.path[m] = jumd_level'[m]
          BY <1>3 DEF Leads
        <5> QED
          BY <2>2, <3>1, <5>1
      <4>2. t.box # Open'[i + 1]
        BY <1>3, <1>4, <2>1, <3>1
      <4> QED
        BY <4>1, <4>2
    <3>2. CASE i # d
      <4>1. i \in 1..d - 1 /\ i + 1 \in 1..d /\ jumd_level # <<>>
        BY <1>3, <3>2
      <4>2. \A m \in 1..i : m \in 1..d - 1
        BY <1>3, <4>1
      <4>3. Leads(jumd_level', t.path, i) <=> Leads(jumd_level, t.path, i)
        BY <1>5, <4>1, <4>2 DEF Leads
      <4>4. Leads(jumd_level, t.path, i) <=> t.box = Open[i + 1]
        BY <1>0, <1>3, <2>1, <4>1 DEF OfItsBox
      <4> QED
        BY <1>4, <4>1, <4>3, <4>4
    <3> QED
      BY <3>1, <3>2
  <2>5. OfItsBox(t)'
    <3>1. d + 1 - 1 = d
      BY <1>3
    <3> QED
      BY <1>5, <2>1, <2>4, <3>1 DEF OfItsBox
  <2> QED
    BY <2>3, <2>5
<1>9. PathsFit'
  <2>1. \A t \in tags : t.path \in Seq(Nat) /\ t.box \in 0..opened'
    BY <1>1, <1>3 DEF PathInv, PathsFit
  <2> QED
    BY <1>1, <1>8, <2>1 DEF PathsFit
<1>10. OwnPathsDistinct'
  BY <1>1 DEF PathInv, OwnPathsDistinct
<1> QED
  BY <1>6, <1>7, <1>9, <1>10

\* Past the budget the number goes up and the levels stay.
LEMMA JumbTooDeepPaths ==
  ASSUME PathInv, JumbTooDeep
  PROVE  OpenOnce' /\ Placeholder' /\ PathsFit' /\ OwnPathsDistinct'
<1>0. PICK n \in Nat : n = Len(jumd_level)
  BY LevelShape DEF PathInv
<1>1. /\ opened' = opened + 1 /\ jumd_level' = Left(Append(Entered, 0))
      /\ parents' = parents \cup {Here} /\ UNCHANGED <<walks, tags>>
  BY DEF JumbTooDeep
<1>2. Open' = Open /\ Here' = Here
  BY <1>1 DEF Open, Here
<1>3. /\ opened \in Nat /\ n \in Nat /\ (jumd_level # <<>> => n >= 2)
  BY <1>0, LevelShape DEF PathInv
<1>4. /\ jumd_level' \in Seq(Nat)
      /\ jumd_level = <<>> => jumd_level' = <<>>
      /\ jumd_level # <<>> => /\ Len(jumd_level') = n /\ jumd_level'[n] = jumd_level[n] + 1
                              /\ \A m \in 1..n - 1 : jumd_level'[m] = jumd_level[m]
  <2> DEFINE next == Append(Entered, 0)
  <2>1. /\ next \in Seq(Nat)
        /\ jumd_level # <<>> =>
             /\ Len(next) = n + 1 /\ next[n] = jumd_level[n] + 1
             /\ \A m \in 1..n - 1 : next[m] = jumd_level[m]
        /\ jumd_level = <<>> => Len(next) = 2
    BY <1>0, EnteredIs DEF PathInv
  <2> HIDE DEF next
  <2>2. jumd_level' = Left(next)
    BY <1>1 DEF next
  <2>3. CASE jumd_level = <<>>
    <3>1. Len(next) - 1 < 2 /\ <<>> \in Seq(Nat)
      <4>1. Len(next) = 2
        BY <2>1, <2>3
      <4>2. Len(next) - 1 < 2
        BY <4>1
      <4>3. <<>> \in Seq(Nat)
        OBVIOUS
      <4> QED
        BY <4>2, <4>3
    <3>2. jumd_level' = <<>>
      BY <2>2, <3>1 DEF Left
    <3> QED
      BY <2>3, <3>1, <3>2
  <2>4. CASE jumd_level # <<>>
    <3>1. Len(next) \in Nat /\ ~(Len(next) - 1 < 2) /\ next # <<>>
      BY <1>3, <2>1, <2>4
    <3>2. jumd_level' = Front(next)
      BY <2>2, <3>1 DEF Left
    <3>3. /\ Front(next) \in Seq(Nat) /\ Len(Front(next)) = n
          /\ \A m \in 1..n : Front(next)[m] = next[m]
      <4>1. Len(next) - 1 = n
        BY <1>3, <2>1, <2>4
      <4> QED
        BY <2>1, <3>1, <4>1, FrontOfSome
    <3>4. n \in 1..n /\ \A m \in 1..n - 1 : m \in 1..n
      BY <1>3, <2>4
    <3> QED
      BY <2>1, <2>4, <3>2, <3>3, <3>4
  <2> QED
    BY <2>3, <2>4
<1>5. OpenOnce'
  <2>1. \A m \in 0..opened : m \in 0..opened'
    BY <1>1, <1>3
  <2> QED
    BY <1>1, <1>2, <2>1 DEF PathInv, OpenOnce
<1>6. Placeholder'
  BY <1>1, <1>2 DEF Placeholder
<1>7. ASSUME NEW t \in tags, ~t.late PROVE Behind(t.path)' /\ OfItsBox(t)'
  <2>1. OfItsBox(t)
    BY <1>7 DEF PathInv, PathsFit
  <2>2. CASE jumd_level = <<>>
    <3>1. UNCHANGED <<jumd_level, Open>>
      BY <1>2, <1>4, <2>2
    <3>2. Behind(t.path)
      BY <1>7 DEF PathInv, PathsFit
    <3> QED
      BY <2>1, <3>1, <3>2 DEF Behind, OfItsBox, Leads
  <2>3. CASE jumd_level # <<>>
    <3>1. /\ n = Len(jumd_level) /\ n \in Nat /\ JumbfInv /\ OwnPathsDistinct /\ PathsFit
      BY <1>0, <1>3 DEF PathInv
    <3>2. PICK levels \in Seq(Nat) : levels = jumd_level'
      BY <1>4
    <3>3. /\ Len(levels) >= n /\ levels[n] = jumd_level[n] + 1
          /\ \A m \in 1..n - 1 : levels[m] = jumd_level[m]
      BY <1>3, <1>4, <2>3, <3>2
    <3>4. \A i \in 1..n : i <= Len(t.path) /\ (\A m \in 1..i - 1 : t.path[m] = levels[m])
                             => t.path[i] <= levels[i]
      BY <1>7, <2>3, <3>1, <3>3, NumberTaken
    <3>5. Behind(t.path)'
      BY <1>4, <2>3, <3>2, <3>4 DEF Behind
    <3>6. \A i \in 1..n - 1 : Leads(jumd_level', t.path, i) <=> Leads(jumd_level, t.path, i)
      <4> TAKE i \in 1..n - 1
      <4>1. \A m \in 1..i : m \in 1..n - 1
        BY <1>3
      <4> QED
        BY <1>4, <2>3, <4>1 DEF Leads
    <3>7. OfItsBox(t)'
      BY <1>2, <1>4, <2>1, <2>3, <3>1, <3>6 DEF OfItsBox
    <3> QED
      BY <3>5, <3>7
  <2> QED
    BY <2>2, <2>3
<1>8. PathsFit'
  <2>1. \A t \in tags : t.path \in Seq(Nat) /\ t.box \in 0..opened'
    BY <1>1, <1>3 DEF PathInv, PathsFit
  <2> QED
    BY <1>1, <1>7, <2>1 DEF PathsFit
<1>9. OwnPathsDistinct'
  BY <1>1 DEF PathInv, OwnPathsDistinct
<1> QED
  BY <1>5, <1>6, <1>8, <1>9
\* What is left of a superbox that ends is what it was entered with.
LEMMA ReturnPaths ==
  ASSUME PathInv, Return
  PROVE  OpenOnce' /\ Placeholder' /\ PathsFit' /\ OwnPathsDistinct'
<1>1. Walking /\ walks' = Front(walks) /\ UNCHANGED <<tags, opened, parents>>
  BY DEF Return
<1>2. CASE Last(walks).via # "jumb"
  <2>1. UNCHANGED jumd_level
    BY <1>2 DEF Return
  <2>2. Open' = Open
    BY <1>1, <1>2, Popped DEF PathInv, JumbfInv
  <2> QED
    BY <1>1, <2>1, <2>2, FlatPaths
<1>3. CASE Last(walks).via = "jumb"
  <2>1. PICK n \in Nat, k \in Nat : n = Len(Open) /\ k = Len(Open')
    BY <1>1, Popped, OpenFacts DEF PathInv, JumbfInv
  <2>2. k = n - 1 /\ k >= 1 /\ \A m \in 1..k : Open'[m] = Open[m]
    BY <1>1, <1>3, <2>1, Popped DEF PathInv, JumbfInv
  <2>3. jumd_level' = Left(jumd_level)
    BY <1>3 DEF Return
  <2>4. n >= 2 /\ n # 1
    BY <2>2
  <2>5. jumd_level \in Seq(Nat) /\ jumd_level # <<>> /\ Len(jumd_level) = n
    BY <2>1, <2>4, LevelShape DEF PathInv
  <2>6. /\ k = 1 => jumd_level' = <<>>
        /\ k # 1 => /\ jumd_level' \in Seq(Nat) /\ Len(jumd_level') = k
                    /\ \A m \in 1..k : jumd_level'[m] = jumd_level[m]
    <3>1. k = 1 => n - 1 < 2
      BY <2>2
    <3>2. k # 1 => ~(n - 1 < 2)
      BY <2>2
    <3>3. /\ Front(jumd_level) \in Seq(Nat) /\ Len(Front(jumd_level)) = k
          /\ \A m \in 1..k : Front(jumd_level)[m] = jumd_level[m]
      BY <2>2, <2>5, FrontOfSome
    <3> QED
      BY <2>3, <2>5, <3>1, <3>2, <3>3 DEF Left
  <2>7. Here' = Open[k]
    BY <2>1, <2>2 DEF Here, Last
  <2>8. OpenOnce'
    <3>1. Open'[1] = 0
      BY <2>2 DEF PathInv, OpenOnce
    <3>2. \A m \in 1..k : Open'[m] \in 0..opened'
      BY <1>1, <2>1, <2>2 DEF PathInv, OpenOnce
    <3>3. \A m, i \in 1..k : Open'[m] = Open'[i] => m = i
      BY <2>1, <2>2 DEF PathInv, OpenOnce
    <3>4. \A m \in 1..k - 1 : Open'[m] \in parents'
      BY <1>1, <2>1, <2>2 DEF PathInv, OpenOnce
    <3> QED
      BY <2>1, <3>1, <3>2, <3>3, <3>4 DEF OpenOnce
  <2>9. Placeholder'
    <3>1. k \in 1..n - 1
      BY <2>2
    <3>2. Open[k] \in parents
      BY <2>1, <3>1 DEF PathInv, OpenOnce
    <3> QED
      BY <1>1, <2>7, <3>2 DEF Placeholder
  <2>10. ASSUME NEW t \in tags, ~t.late PROVE Behind(t.path)' /\ OfItsBox(t)'
    <3>1. Behind(t.path) /\ OfItsBox(t)
      BY <2>10 DEF PathInv, PathsFit
    <3>2. CASE k = 1
      <4>1. Len(jumd_level') = 0
        BY <2>6, <3>2
      <4> QED
        BY <3>1, <4>1 DEF Behind, OfItsBox
    <3>3. CASE k # 1
      <4>1. Behind(t.path)'
        <5>1. ASSUME NEW i \in 1..k, i <= Len(t.path),
                     \A m \in 1..i - 1 : t.path[m] = jumd_level'[m]
              PROVE  t.path[i] <= jumd_level'[i]
          <6>1. i \in 1..n /\ \A m \in 1..i - 1 : m \in 1..k
            BY <2>2
          <6>2. \A m \in 1..i - 1 : t.path[m] = jumd_level[m]
            BY <2>6, <3>3, <5>1, <6>1
          <6>3. t.path[i] <= jumd_level[i]
            BY <2>5, <3>1, <5>1, <6>1, <6>2 DEF Behind
          <6> QED
            BY <2>6, <3>3, <6>3
        <5> QED
          BY <2>6, <3>3, <5>1 DEF Behind
      <4>2. \A i \in 1..k - 1 : Leads(jumd_level', t.path, i) <=> t.box = Open'[i + 1]
        <5> TAKE i \in 1..k - 1
        <5>1. i \in 1..n - 1 /\ i + 1 \in 1..k /\ \A m \in 1..i : m \in 1..k
          BY <2>2
        <5>2. Leads(jumd_level', t.path, i) <=> Leads(jumd_level, t.path, i)
          BY <2>6, <3>3, <5>1 DEF Leads
        <5>3. Leads(jumd_level, t.path, i) <=> t.box = Open[i + 1]
          BY <2>5, <3>1, <5>1 DEF OfItsBox
        <5> QED
          BY <2>2, <5>1, <5>2, <5>3
      <4>3. OfItsBox(t)'
        BY <2>6, <3>1, <3>3, <4>2 DEF OfItsBox
      <4> QED
        BY <4>1, <4>3
    <3> QED
      BY <3>2, <3>3
  <2>11. PathsFit' /\ OwnPathsDistinct'
    BY <1>1, <2>10 DEF PathInv, PathsFit, OwnPathsDistinct
  <2> QED
    BY <2>8, <2>9, <2>11
<1> QED
  BY <1>2, <1>3

\* What every other step leaves alone.
LEMMA FlatSteps ==
  ASSUME JumbfInv,
         \/ OpenAsoc \/ AsocTooDeep \/ UnknownBox \/ Content \/ Document
         \/ JumdTruncated \/ JumdUnterminated \/ JumdMissingId \/ JumdMissingSignature \/ Jumd
         \/ UNCHANGED vars
  PROVE  /\ UNCHANGED <<jumd_level, opened, parents>>
         /\ Open' = Open
         /\ UNCHANGED tags \/ \E names : \E label : Emit(names, label)
<1>1. /\ UNCHANGED <<jumd_level, opened, parents>>
      /\ \/ UNCHANGED walks
         \/ /\ Walking /\ DepthLeft
            /\ \E v \in {"asoc", "jumd"} : walks' = Append(walks, [via |-> v, open |-> Open])
  BY DEF OpenAsoc, AsocTooDeep, UnknownBox, Content, Document, JumdTruncated, JumdUnterminated,
         JumdMissingId, JumdMissingSignature, JumdCut, Jumd, ReadHeader, vars
<1>2. UNCHANGED tags \/ \E names : \E label : Emit(names, label)
  BY DEF OpenAsoc, AsocTooDeep, UnknownBox, Content, Document, JumdTruncated, JumdUnterminated,
         JumdMissingId, JumdMissingSignature, JumdCut, Jumd, JumdFields, vars
<1>3. Open' = Open
  BY <1>1, QuietStack, AsideOpened
<1> QED
  BY <1>1, <1>2, <1>3

LEMMA PathsInductive == Spec => []PathInv
<1>1. Init => PathInv
  <2> SUFFICES ASSUME Init PROVE PathInv
    OBVIOUS
  <2>1. Open = <<0>> /\ jumd_level = <<>> /\ tags = {} /\ opened = 0
    BY DEF Init, Open, Last
  <2> QED
    BY <2>1, InitJumbf DEF PathInv, OpenOnce, Placeholder, PathsFit, OwnPathsDistinct
<1>2. PathInv /\ [Next]_vars => PathInv'
  <2> SUFFICES ASSUME PathInv, [Next]_vars PROVE PathInv'
    OBVIOUS
  <2>1. JumbfInv'
    BY JumbfInductive DEF PathInv
  <2>2. CASE OpenJumb \/ JumbTooDeep
    BY <2>1, <2>2, OpenJumbPaths, JumbTooDeepPaths DEF PathInv
  <2>3. CASE EndOfData \/ BrokenBox
    BY <2>1, <2>3, ReturnPaths DEF EndOfData, BrokenBox, PathInv
  <2>4. CASE \/ OpenAsoc \/ AsocTooDeep \/ UnknownBox \/ Content \/ Document
             \/ JumdTruncated \/ JumdUnterminated \/ JumdMissingId \/ JumdMissingSignature \/ Jumd
             \/ UNCHANGED vars
    BY <2>1, <2>4, FlatSteps, FlatPaths DEF PathInv
  <2> QED
    BY <2>2, <2>3, <2>4 DEF Next
<1> QED
  BY <1>1, <1>2, PTL DEF Spec

\* Two superboxes never share a document path, as far as each has met no superbox
\* inside it, at any depth and for every stream (current_docpath).
THEOREM OwnPathsAlwaysDistinct == Spec => []OwnPathsDistinct
<1>1. PathInv => OwnPathsDistinct
  BY DEF PathInv
<1> QED
  BY <1>1, PathsInductive, PTL
=============================================================================
