----------------------------- MODULE ScopeProofs -----------------------------
(***************************************************************************)
(* Theorems about Scope, for any scopes and references: the indices of the *)
(* search and of the matcher stay in bounds, match_one advances in every   *)
(* iteration towards a bound that depends on the lengths alone, and every  *)
(* decision is the documented one.                                         *)
(*                                                                         *)
(* TypeOK is not inductive.  That star + 1 is an index of the pattern and  *)
(* that backtrack + 1 is one of the segment, when the matcher goes back,   *)
(* follows from where the last star lies: before pi, and what it swallowed *)
(* before si.  Both are part of Pointing.                                  *)
(*                                                                         *)
(* The decision needs to know at every step what the search has already    *)
(* ruled out.  What a pattern means is a way of laying all of it over the  *)
(* text, and Rest is the same of what is left of both.  Search then says   *)
(* of the matcher, of the stack of `**` and of the patterns tried that a   *)
(* match exists just when there is one from where they stand or from where *)
(* they may still go back to.                                              *)
(***************************************************************************)
EXTENDS Scope, NaturalLemmas, TLAPS

VerdictRecord ==
       [is : {"Ok", "UnknownBackend", "NotAllowed"}]
  \cup [is : {"DeniedByRule"}, pattern : Nat]

Typed ==
  /\ scope \in Seq(Rule) /\ refs \in Seq(Reference)
  /\ verdicts \in Seq(VerdictRecord) /\ Len(verdicts) <= Len(refs)
  /\ pc \in {"decide", "try", "segments", "one", "fail"}
  /\ side \in {"deny", "allow"} /\ nth \in Nat \ {0}

(* While a reference is being decided there are rules for its backend.     *)
Deciding == pc # "decide" => Len(verdicts) < Len(refs) /\ Entry # {}

(* Where the search over `**` stands, and the split points it may go back  *)
(* to.                                                                     *)
Positions == (1..Len(Pattern) + 1) \X (1..Len(Ref.path) + 1)

Placed ==
  pc \in {"segments", "one", "fail"} =>
    /\ nth <= Len(Rules[side])
    /\ at \in Positions
    /\ choices \in Seq(Positions)
    /\ \A c \in DOMAIN choices : /\ choices[c][1] <= Len(Pattern)
                                 /\ Pattern[choices[c][1]] = DoubleStar

(* Where match_one stands, and the star it may go back to.                 *)
Pointing ==
  IF pc = "one"
  THEN /\ at[1] <= Len(Pattern) /\ at[2] <= Len(Ref.path)
       /\ pi \in 0..Len(p) /\ si \in 0..Len(s) /\ backtrack \in 0..si
       /\ \/ star = USIZE_MAX /\ backtrack = 0
          \/ star \in 0..(pi - 1)
  ELSE pi = 0 /\ si = 0 /\ star = USIZE_MAX /\ backtrack = 0

IInv == Typed /\ Deciding /\ Placed /\ Pointing

-----------------------------------------------------------------------------
(* What the search looks at does not change while it runs.                 *)
LEMMA SameRef ==
  ASSUME UNCHANGED <<refs, verdicts>> PROVE Ref' = Ref
  BY DEF Ref

LEMMA SameEntry ==
  ASSUME UNCHANGED <<scope, refs, verdicts>> PROVE Entry' = Entry
  BY SameRef DEF Entry

LEMMA SameRules ==
  ASSUME UNCHANGED <<scope, refs, verdicts>> PROVE Rules' = Rules
  BY SameEntry DEF Rules

LEMMA SamePattern ==
  ASSUME UNCHANGED <<scope, refs, verdicts, side, nth>> PROVE Pattern' = Pattern
  BY SameRules DEF Pattern

LEMMA SameSegments ==
  ASSUME UNCHANGED <<scope, refs, verdicts, side, nth, at>>
  PROVE  p' = p /\ s' = s
  BY SamePattern, SameRef DEF p, s

(* The types of what it looks at.                                          *)
LEMMA RefType ==
  ASSUME Typed, Len(verdicts) < Len(refs) PROVE Ref \in Reference
  BY DEF Typed, Ref

LEMMA RulesType ==
  ASSUME Typed, Entry # {} PROVE Rules \in Rule
<1>1. \E e \in Entry : TRUE
  OBVIOUS
<1>2. (CHOOSE e \in Entry : TRUE) \in Entry
  BY <1>1
<1>3. Entry \subseteq DOMAIN scope
  BY DEF Entry
<1> QED
  BY <1>2, <1>3 DEF Rules, Typed

LEMMA PatternType ==
  ASSUME Typed, Entry # {}, nth <= Len(Rules[side]) PROVE Pattern \in Seq(Segment)
<1>1. Rules[side] \in Seq(Seq(Segment))
  BY RulesType DEF Rule, Typed
<1> QED
  BY <1>1 DEF Pattern, Typed

LEMMA SegmentTypes ==
  ASSUME IInv, pc = "one" PROVE p \in Segment /\ s \in Segment
<1>1. Pattern \in Seq(Segment) /\ Ref \in Reference
  BY PatternType, RefType DEF IInv, Deciding, Placed
<1>2. at[1] \in 1..Len(Pattern) /\ at[2] \in 1..Len(Ref.path)
  BY <1>1 DEF IInv, Placed, Pointing, Positions, Reference
<1> QED
  BY <1>1, <1>2 DEF p, s, Reference
-----------------------------------------------------------------------------
(* The search begins in bounds.                                            *)
LEMMA InitInv == Init => IInv
<1> SUFFICES ASSUME Init PROVE IInv
  OBVIOUS
<1>1. PICK q \in Requests : scope = q.scope /\ refs = q.refs
  BY DEF Init
<1>2. scope \in Seq(Rule) /\ refs \in Seq(Reference)
  BY <1>1, ScopeAssumption
<1>3. Typed
  BY <1>2 DEF Init, Typed
<1> QED
  BY <1>3 DEF Init, IInv, Deciding, Placed, Pointing

(* A verdict ends the decision on one reference.                           *)
LEMMA VerdictInv ==
  ASSUME IInv, Len(verdicts) < Len(refs), UNCHANGED input,
         NEW v \in VerdictRecord, Verdict(v)
  PROVE  IInv'
<1>1. /\ pc' = "decide" /\ side' = "deny" /\ nth' = 1
      /\ NoPointer /\ verdicts' = Append(verdicts, v)
      /\ scope' = scope /\ refs' = refs
  BY DEF Verdict, input
<1>2. Typed'
  BY <1>1 DEF IInv, Typed
<1> QED
  BY <1>1, <1>2 DEF IInv, Deciding, Placed, Pointing, NoPointer

(* Finding the rules and going through their patterns.                     *)
LEMMA RulesInv ==
  ASSUME IInv,
         \/ UnknownBackend \/ FindRules \/ TryPattern \/ TryAllow
         \/ NotAllowed \/ NextPattern
  PROVE  IInv'
<1>1. CASE UnknownBackend
  BY <1>1, VerdictInv DEF UnknownBackend, VerdictRecord
<1>2. CASE NotAllowed
  BY <1>2, VerdictInv DEF NotAllowed, VerdictRecord, IInv, Deciding
<1>3. CASE FindRules
  <2>1. Entry' = Entry
    BY <1>3, SameEntry DEF FindRules, input
  <2> QED
    BY <1>3, <2>1 DEF FindRules, input, pointer, IInv, Typed, Deciding, Placed, Pointing
<1>4. CASE TryPattern
  <2>1. Entry' = Entry /\ Rules' = Rules /\ Pattern' = Pattern /\ Ref' = Ref
    BY <1>4, SameEntry, SameRules, SamePattern, SameRef DEF TryPattern, input
  <2>2. Pattern \in Seq(Segment) /\ Ref \in Reference
    BY <1>4, PatternType, RefType DEF TryPattern, IInv, Deciding
  <2>3. <<1, 1>> \in Positions
    BY <2>2 DEF Positions, Reference
  <2>4. Positions' = Positions
    BY <2>1 DEF Positions
  <2>5. Placed'
    BY <1>4, <2>1, <2>3, <2>4 DEF TryPattern, Placed
  <2> QED
    BY <1>4, <2>1, <2>5 DEF TryPattern, input, pointer, IInv, Typed, Deciding, Pointing
<1>5. CASE TryAllow
  <2>1. Entry' = Entry
    BY <1>5, SameEntry DEF TryAllow, input
  <2> QED
    BY <1>5, <2>1 DEF TryAllow, input, pointer, IInv, Typed, Deciding, Placed, Pointing
<1>6. CASE NextPattern
  <2>1. Entry' = Entry
    BY <1>6, SameEntry DEF NextPattern, input
  <2> QED
    BY <1>6, <2>1 DEF NextPattern, input, pointer, IInv, Typed, Deciding, Placed, Pointing
<1> QED
  BY <1>1, <1>2, <1>3, <1>4, <1>5, <1>6

(* The search over the split points of `**`.                               *)
LEMMA SearchInv ==
  ASSUME IInv,
         \/ PathMatched \/ EnterDoubleStar \/ EnterSegment \/ DeadEnd
         \/ SkipOneMore \/ GiveUpSplit
  PROVE  IInv'
<1>1. CASE PathMatched
  <2>1. Len(verdicts) < Len(refs)
    BY <1>1 DEF PathMatched, IInv, Deciding
  <2>2. /\ [is |-> "DeniedByRule", pattern |-> nth] \in VerdictRecord
        /\ [is |-> "Ok"] \in VerdictRecord
    BY DEF VerdictRecord, IInv, Typed
  <2> QED
    BY <1>1, <2>1, <2>2, VerdictInv DEF PathMatched
<1>2. CASE ~ PathMatched
  <2>1. /\ pc \in {"segments", "fail"} /\ pc' \in {"segments", "one", "fail"}
        /\ UNCHANGED <<input, verdicts, side, nth, pointer>>
    BY <1>2 DEF EnterDoubleStar, EnterSegment, DeadEnd, SkipOneMore, GiveUpSplit
  <2>2. Entry' = Entry /\ Rules' = Rules /\ Pattern' = Pattern /\ Ref' = Ref
    BY <2>1, SameEntry, SameRules, SamePattern, SameRef DEF input
  <2>3. Positions' = Positions
    BY <2>2 DEF Positions
  <2>4. Typed' /\ Deciding' /\ nth' <= Len(Rules'[side'])
    BY <2>1, <2>2 DEF input, IInv, Typed, Deciding, Placed
  <2>5. Pattern \in Seq(Segment) /\ Ref.path \in Seq(Segment)
    BY <2>1, PatternType, RefType DEF IInv, Deciding, Placed, Reference
  <2>6. /\ at \in Positions /\ choices \in Seq(Positions)
        /\ \A c \in DOMAIN choices : /\ choices[c][1] <= Len(Pattern)
                                     /\ Pattern[choices[c][1]] = DoubleStar
    BY <2>1 DEF IInv, Placed
  <2>7. CASE EnterDoubleStar
    <3>1. at[1] \in 1..Len(Pattern) /\ Pattern[at[1]] = DoubleStar
      BY <2>5, <2>6, <2>7 DEF EnterDoubleStar, PatternExhausted, p, Positions
    <3>2. at' \in Positions
      BY <2>5, <2>6, <2>7, <3>1 DEF EnterDoubleStar, Positions
    <3>3. choices' \in Seq(Positions)
      BY <2>6, <2>7 DEF EnterDoubleStar
    <3>4. \A c \in DOMAIN choices' : /\ choices'[c][1] <= Len(Pattern)
                                    /\ Pattern[choices'[c][1]] = DoubleStar
      BY <2>5, <2>6, <2>7, <3>1 DEF EnterDoubleStar
    <3> QED
      BY <2>1, <2>2, <2>3, <2>4, <2>7, <3>2, <3>3, <3>4
        DEF EnterDoubleStar, IInv, Placed, Pointing, pointer
  <2>8. CASE EnterSegment
    <3>1. at[1] <= Len(Pattern) /\ at[2] <= Len(Ref.path)
      BY <2>5, <2>6, <2>8
        DEF EnterSegment, PatternExhausted, PathExhausted, Positions
    <3>2. p' = p /\ s' = s
      BY <2>1, <2>8, SameSegments DEF EnterSegment, input
    <3>3. p \in Segment /\ s \in Segment
      BY <2>5, <2>6, <3>1 DEF p, s, Positions
    <3>4. Placed'
      BY <2>2, <2>3, <2>4, <2>6, <2>8 DEF EnterSegment, Placed
    <3>5. Pointing'
      BY <2>1, <2>2, <2>8, <3>1, <3>2, <3>3
        DEF EnterSegment, IInv, Pointing, pointer, Segment
    <3> QED
      BY <2>4, <3>4, <3>5 DEF IInv
  <2>9. CASE DeadEnd
    BY <2>1, <2>2, <2>3, <2>4, <2>6, <2>9
      DEF DeadEnd, IInv, Placed, Pointing, pointer
  <2>10. CASE SkipOneMore
    <3> DEFINE n == Len(choices)
               split == <<Last[1], Last[2] + 1>>
    <3>1. n \in DOMAIN choices /\ Last \in Positions
      BY <2>6, <2>10 DEF SkipOneMore, Last
    <3>2. Last[1] <= Len(Pattern) /\ Pattern[Last[1]] = DoubleStar
      BY <2>6, <3>1 DEF Last
    <3>3. split \in Positions /\ at' \in Positions
      BY <2>5, <2>10, <3>1, <3>2 DEF SkipOneMore, Positions
    <3>4. choices' = [choices EXCEPT ![n] = split]
      BY <2>10 DEF SkipOneMore
    <3>5. choices' \in Seq(Positions) /\ DOMAIN choices' = DOMAIN choices
      BY <2>6, <3>1, <3>3, <3>4
    <3>6. \A c \in DOMAIN choices' : /\ choices'[c][1] <= Len(Pattern)
                                    /\ Pattern[choices'[c][1]] = DoubleStar
      BY <2>6, <3>2, <3>4, <3>5
    <3> HIDE DEF n, split
    <3> QED
      BY <2>1, <2>2, <2>3, <2>4, <2>10, <3>3, <3>5, <3>6
        DEF SkipOneMore, IInv, Placed, Pointing, pointer
  <2>11. CASE GiveUpSplit
    <3>1. choices' = SubSeq(choices, 1, Len(choices) - 1) /\ choices # <<>>
      BY <2>11 DEF GiveUpSplit
    <3>2. choices' \in Seq(Positions)
      BY <2>6, <3>1
    <3>3. \A c \in DOMAIN choices' : c \in DOMAIN choices /\ choices'[c] = choices[c]
      BY <2>6, <3>1
    <3> QED
      BY <2>1, <2>2, <2>3, <2>4, <2>6, <2>11, <3>2, <3>3
        DEF GiveUpSplit, IInv, Placed, Pointing, pointer
  <2> QED
    BY <1>2, <2>7, <2>8, <2>9, <2>10, <2>11
<1> QED
  BY <1>1, <1>2
(* match_one, one iteration or the end of it.                              *)
LEMMA MatchInv ==
  ASSUME IInv,
         \/ SeeStar \/ EatByte \/ Backtrack
         \/ TrailingStar \/ SegmentMatched \/ SegmentFailed
  PROVE  IInv'
<1>1. /\ pc = "one" /\ pc' \in {"segments", "one", "fail"}
      /\ UNCHANGED <<input, verdicts, side, nth, choices>>
  BY DEF SeeStar, EatByte, Backtrack, TrailingStar, SegmentMatched,
         SegmentFailed, InSegment, PastIt, Looping
<1>2. Entry' = Entry /\ Rules' = Rules /\ Pattern' = Pattern /\ Ref' = Ref
  BY <1>1, SameEntry, SameRules, SamePattern, SameRef DEF input
<1>3. Positions' = Positions
  BY <1>2 DEF Positions
<1>4. Typed' /\ Deciding' /\ nth' <= Len(Rules'[side'])
  BY <1>1, <1>2 DEF input, IInv, Typed, Deciding, Placed
<1>5. /\ at \in Positions /\ choices \in Seq(Positions)
      /\ \A c \in DOMAIN choices : /\ choices[c][1] <= Len(Pattern)
                                   /\ Pattern[choices[c][1]] = DoubleStar
      /\ at[1] <= Len(Pattern) /\ at[2] <= Len(Ref.path)
  BY <1>1 DEF IInv, Placed, Pointing
<1>6. CASE SegmentMatched
  <2>1. Pattern \in Seq(Segment) /\ Ref.path \in Seq(Segment)
    BY <1>1, PatternType, RefType DEF IInv, Deciding, Placed, Reference
  <2>2. at' \in Positions
    BY <1>5, <1>6, <2>1 DEF SegmentMatched, Positions
  <2>3. Placed'
    BY <1>1, <1>2, <1>3, <1>4, <1>5, <2>2 DEF Placed
  <2> QED
    BY <1>4, <1>6, <2>3 DEF SegmentMatched, IInv, Pointing, NoPointer
<1>7. CASE ~ SegmentMatched
  <2>1. at' = at
    BY <1>7 DEF SeeStar, EatByte, Backtrack, TrailingStar, SegmentFailed, Looping
  <2>2. Placed'
    BY <1>1, <1>2, <1>3, <1>4, <1>5, <2>1 DEF Placed
  <2>3. CASE SegmentFailed
    BY <1>4, <2>2, <2>3 DEF SegmentFailed, IInv, Pointing, NoPointer
  <2>4. CASE ~ SegmentFailed
    <3>1. pc' = "one" /\ p' = p /\ s' = s
      BY <1>1, <1>7, <2>1, <2>4, SameSegments
        DEF SeeStar, EatByte, Backtrack, TrailingStar, Looping, input
    <3>2. p \in Segment /\ s \in Segment
      BY <1>1, SegmentTypes
    <3>3. Pointing
      BY DEF IInv
    <3>4. /\ Len(p) \in Nat /\ Len(s) \in Nat
          /\ Len(p) <= USIZE_MAX /\ USIZE_MAX \in Nat
      BY <3>2, ScopeAssumption DEF Segment
    <3>5. /\ at'[1] <= Len(Pattern') /\ at'[2] <= Len(Ref'.path)
      BY <1>2, <1>5, <2>1
    <3>6. /\ pi' \in 0..Len(p) /\ si' \in 0..Len(s) /\ backtrack' \in 0..si'
          /\ \/ star' = USIZE_MAX /\ backtrack' = 0
             \/ star' \in 0..(pi' - 1)
      <4>1. CASE SeeStar
        BY <1>1, <3>3, <3>4, <4>1, SMTT(30) DEF SeeStar, OnStar, Pointing
      <4>2. CASE EatByte
        BY <1>1, <3>3, <3>4, <4>2, SMTT(30) DEF EatByte, InSegment, OnByte, Pointing
      <4>3. CASE Backtrack
        BY <1>1, <3>3, <3>4, <4>3, SMTT(30) DEF Backtrack, InSegment, Pointing
      <4>4. CASE TrailingStar
        BY <1>1, <3>3, <3>4, <4>4, SMTT(30) DEF TrailingStar, OnStar, Pointing
      <4> QED
        BY <1>7, <2>4, <4>1, <4>2, <4>3, <4>4
    <3>7. Pointing'
      BY <3>1, <3>5, <3>6 DEF Pointing
    <3> QED
      BY <1>4, <2>2, <3>7 DEF IInv
  <2> QED
    BY <2>3, <2>4
<1> QED
  BY <1>6, <1>7

(* No step leaves the bounds.                                              *)
LEMMA StepInv == IInv /\ [Decide]_vars => IInv'
<1> SUFFICES ASSUME IInv, [Decide]_vars PROVE IInv'
  OBVIOUS
<1>1. CASE Decide
  BY <1>1, RulesInv, SearchInv, MatchInv DEF Decide
<1>2. CASE UNCHANGED vars
  <2>1. UNCHANGED <<scope, refs, verdicts, side, nth, at, pc, choices, pointer>>
    BY <1>2 DEF vars, pointer
  <2>2. /\ Entry' = Entry /\ Rules' = Rules /\ Pattern' = Pattern
        /\ Ref' = Ref /\ p' = p /\ s' = s
    BY <2>1, SameEntry, SameRules, SamePattern, SameRef, SameSegments
  <2>3. Positions' = Positions
    BY <2>2 DEF Positions
  <2> QED
    BY <2>1, <2>2, <2>3 DEF IInv, Typed, Deciding, Placed, Pointing, pointer
<1> QED
  BY <1>1, <1>2

(* The bounds hold always.                                                 *)
LEMMA Invariant == Spec => []IInv
  BY InitInv, StepInv, PTL DEF Spec

-----------------------------------------------------------------------------
(* glob_match: whatever the rules and the path, the search stands on a     *)
(* segment of both or one past it, goes back only to a `**`, and no index  *)
(* of match_one leaves its segment.                                        *)
THEOREM IndicesInBounds == Spec => []TypeOK
<1>1. IInv => TypeOK
  <2> SUFFICES ASSUME IInv PROVE TypeOK
    OBVIOUS
  <2>1. \A n \in DOMAIN verdicts :
          verdicts[n].is \in {"Ok", "UnknownBackend", "DeniedByRule", "NotAllowed"}
    BY DEF IInv, Typed, VerdictRecord
  <2>2. pc \in {"segments", "one", "fail"} =>
          /\ at[1] \in 1..Len(Pattern) + 1 /\ at[2] \in 1..Len(Ref.path) + 1
          /\ \A c \in DOMAIN choices : /\ Pattern[choices[c][1]] = DoubleStar
                                       /\ choices[c][2] \in 1..Len(Ref.path) + 1
    BY SMTT(30) DEF IInv, Placed, Positions
  <2>3. pc = "one" => /\ pi \in 0..Len(p) /\ si \in 0..Len(s)
                      /\ star \in 0..Len(p) \cup {USIZE_MAX}
                      /\ backtrack \in 0..Len(s)
    <3> SUFFICES ASSUME pc = "one"
                 PROVE /\ pi \in 0..Len(p) /\ si \in 0..Len(s)
                       /\ star \in 0..Len(p) \cup {USIZE_MAX}
                       /\ backtrack \in 0..Len(s)
      OBVIOUS
    <3>1. p \in Segment /\ s \in Segment
      BY SegmentTypes
    <3> QED
      BY <3>1 DEF IInv, Pointing, Segment
  <2> QED
    BY <2>1, <2>2, <2>3 DEF IInv, Typed, TypeOK
<1> QED
  BY Invariant, <1>1, PTL

-----------------------------------------------------------------------------
(* Multiplication is monotone.                                             *)
LEMMA Product ==
  ASSUME NEW a \in Nat, NEW b \in Nat, NEW m \in Nat, a <= b
  PROVE  a * m <= b * m /\ a * m \in Nat /\ b * m \in Nat
<1>1. PICK d \in Nat : b = a + d
  <2>1. b - a \in Nat /\ b = a + (b - a)
    OBVIOUS
  <2> QED
    BY <2>1
<1>2. b * m = a * m + d * m
  BY <1>1
<1>3. d * m \in Nat /\ a * m \in Nat
  OBVIOUS
<1> QED
  BY <1>2, <1>3

(* One step of a lexicographic order, as a step of one number.             *)
LEMMA Lexicographic ==
  ASSUME NEW a \in Nat, NEW b \in Nat, NEW i \in Nat, NEW j \in Nat,
         NEW l \in Nat, i <= l,
         b = a + 1 \/ (a <= b /\ j = i + 1)
  PROVE  b * (l + 1) + j > a * (l + 1) + i
<1>1. CASE b = a + 1
  <2>1. b * (l + 1) = a * (l + 1) + (l + 1)
    BY <1>1
  <2>2. a * (l + 1) \in Nat
    OBVIOUS
  <2> QED
    BY <2>1, <2>2
<1>2. CASE a <= b /\ j = i + 1
  <2>1. l + 1 \in Nat
    OBVIOUS
  <2>2. /\ a * (l + 1) <= b * (l + 1)
        /\ a * (l + 1) \in Nat /\ b * (l + 1) \in Nat
    BY <1>2, <2>1, Product
  <2> QED
    BY <1>2, <2>2
<1> QED
  BY <1>1, <1>2

(* A lexicographic order has a bound, as a number.                         *)
LEMMA LexicographicBound ==
  ASSUME NEW b \in Nat, NEW n \in Nat, NEW j \in Nat, NEW l \in Nat,
         b <= n, j <= l
  PROVE  b * (l + 1) + j <= (n + 1) * (l + 1)
<1>1. l + 1 \in Nat
  OBVIOUS
<1>2. /\ b * (l + 1) <= n * (l + 1)
      /\ b * (l + 1) \in Nat /\ n * (l + 1) \in Nat
  BY <1>1, Product
<1>3. (n + 1) * (l + 1) = n * (l + 1) + (l + 1)
  OBVIOUS
<1> QED
  BY <1>2, <1>3

(* What the last star has swallowed and where it lies.                     *)
Reach == backtrack + (IF star = USIZE_MAX THEN 0 ELSE star + 1)

(* An iteration of match_one goes one further in that order.               *)
LEMMA IterationAdvances ==
  ASSUME IInv, SeeStar \/ EatByte \/ Backtrack \/ TrailingStar
  PROVE  Rank' > Rank /\ Rank' <= (Len(s) + Len(p) + 1) * (Len(p) + 1)
<1>1. pc = "one" /\ Looping
  BY DEF SeeStar, EatByte, Backtrack, TrailingStar, InSegment, PastIt
<1>2. p' = p /\ s' = s
  BY <1>1, SameSegments DEF Looping, input
<1>3. p \in Segment /\ s \in Segment
  BY <1>1, SegmentTypes
<1> DEFINE L == Len(p)
           S == Len(s)
<1>4. L \in Nat /\ S \in Nat /\ L <= USIZE_MAX /\ USIZE_MAX \in Nat
  BY <1>3, ScopeAssumption DEF Segment
<1>5. /\ pi \in 0..L /\ si \in 0..S /\ backtrack \in 0..si
      /\ \/ star = USIZE_MAX /\ backtrack = 0
         \/ star \in 0..(pi - 1)
  BY <1>1 DEF IInv, Pointing
<1> HIDE DEF L, S
<1>6. Reach \in Nat
  BY <1>4, <1>5 DEF Reach
<1>7. \/ Reach' = Reach + 1 /\ pi' \in 0..L
      \/ Reach' \in Nat /\ Reach' >= Reach /\ pi' = pi + 1 /\ pi' \in 0..L
  <2>1. CASE SeeStar
    BY <2>1, <1>4, <1>5 DEF SeeStar, OnStar, Reach, L
  <2>2. CASE EatByte
    BY <2>2, <1>4, <1>5 DEF EatByte, OnByte, Reach, L
  <2>3. CASE Backtrack
    BY <2>3, <1>4, <1>5 DEF Backtrack, Reach, L
  <2>4. CASE TrailingStar
    BY <2>4, <1>4, <1>5 DEF TrailingStar, OnStar, Reach, L
  <2> QED
    BY <2>1, <2>2, <2>3, <2>4
<1>8. Reach' <= S + L
  <2>1. CASE SeeStar
    BY <2>1, <1>4, <1>5 DEF SeeStar, OnStar, Reach, L
  <2>2. CASE EatByte
    BY <2>2, <1>4, <1>5 DEF EatByte, Reach
  <2>3. CASE Backtrack
    BY <2>3, <1>4, <1>5 DEF Backtrack, InSegment, Reach, S
  <2>4. CASE TrailingStar
    BY <2>4, <1>4, <1>5 DEF TrailingStar, Reach
  <2> QED
    BY <2>1, <2>2, <2>3, <2>4
<1>9. Rank = Reach * (L + 1) + pi /\ Rank' = Reach' * (L + 1) + pi'
  BY <1>2 DEF Rank, Reach, L
<1>10. Rank' > Rank
  <2>1. Reach' \in Nat /\ pi \in Nat /\ pi' \in Nat /\ pi <= L
    BY <1>4, <1>5, <1>6, <1>7
  <2>2. Reach' = Reach + 1 \/ (Reach <= Reach' /\ pi' = pi + 1)
    BY <1>6, <1>7
  <2> QED
    BY <1>4, <1>6, <1>9, <2>1, <2>2, Lexicographic
<1>11. Rank' <= (S + L + 1) * (L + 1)
  <2>1. Reach' \in Nat /\ pi' \in Nat /\ pi' <= L /\ S + L \in Nat
    BY <1>4, <1>6, <1>7
  <2> QED
    BY <1>4, <1>8, <1>9, <2>1, LexicographicBound
<1> QED
  BY <1>10, <1>11 DEF L, S

(* match_one, "immune to the exponential blowup": for every pattern and    *)
(* segment each iteration raises Rank, which the product of their lengths  *)
(* bounds; the loop takes at most that many.                               *)
THEOREM MatcherBounded == Spec => MatcherAdvances
<1>1. ASSUME IInv, [Decide]_vars, pc = "one", pc' = "one",
             ~ (UNCHANGED vars)
      PROVE  Rank' > Rank /\ Rank' <= (Len(s) + Len(p) + 1) * (Len(p) + 1)
  <2>1. SeeStar \/ EatByte \/ Backtrack \/ TrailingStar
    BY <1>1 DEF Decide, UnknownBackend, FindRules, TryPattern, TryAllow,
                NotAllowed, NextPattern, PathMatched, EnterDoubleStar,
                EnterSegment, DeadEnd, SkipOneMore, GiveUpSplit,
                SegmentMatched, SegmentFailed
  <2> QED
    BY <1>1, <2>1, IterationAdvances
<1>2. IInv /\ [Decide]_vars =>
        [ pc = "one" /\ pc' = "one" =>
            /\ Rank' > Rank
            /\ Rank' <= (Len(s) + Len(p) + 1) * (Len(p) + 1) ]_vars
  BY <1>1
<1> QED
  BY Invariant, <1>2, PTL DEF Spec, MatcherAdvances

-----------------------------------------------------------------------------
(***************************************************************************)
(* What it is for a pattern to match, one item after another.              *)
(***************************************************************************)
(* The items of a pattern from the i-th on can be laid over the l items of *)
(* a text from the j-th on: those of Skip on any number of them, another   *)
(* one on the one item it is paired with in Hit.                           *)
Lays(f, n, l, Skip, Hit, i, j) ==
  /\ f \in [i..n -> 0..l]
  /\ f[i] = j /\ f[n] = l
  /\ \A m \in (i + 1)..n :
       IF m \in Skip THEN f[m - 1] <= f[m]
       ELSE f[m] = f[m - 1] + 1 /\ <<m, f[m]>> \in Hit

Rest(n, l, Skip, Hit, i, j) == \E f : Lays(f, n, l, Skip, Hit, i, j)

(* The next item is laid on what comes first, and the rest after it.       *)
Onward(n, l, Skip, Hit, i, j) ==
  \E k \in 0..l : /\ Rest(n, l, Skip, Hit, i + 1, k)
                  /\ IF i + 1 \in Skip THEN j <= k
                     ELSE k = j + 1 /\ <<i + 1, k>> \in Hit

(* Nothing of the pattern is left: nothing of the text may be.             *)
LEMMA RestEnd ==
  ASSUME NEW n \in Nat, NEW l \in Nat, NEW Skip, NEW Hit, NEW j \in 0..l
  PROVE  Rest(n, l, Skip, Hit, n, j) <=> j = l
<1>1. ASSUME Rest(n, l, Skip, Hit, n, j) PROVE j = l
  BY <1>1 DEF Rest, Lays
<1>2. ASSUME j = l PROVE Rest(n, l, Skip, Hit, n, j)
  <2>1. Lays([m \in n..n |-> l], n, l, Skip, Hit, n, j)
    BY <1>2 DEF Lays
  <2>2. QED
    BY <2>1 DEF Rest
<1>3. QED
  BY <1>1, <1>2

(* What a layout does with its first item, and how one is put in front.    *)
LEMMA RestStep ==
  ASSUME NEW n \in Nat, NEW l \in Nat, NEW Skip, NEW Hit,
         NEW i \in 0..(n - 1), NEW j \in 0..l
  PROVE  Rest(n, l, Skip, Hit, i, j) <=> Onward(n, l, Skip, Hit, i, j)
<1>0. /\ i \in i..n /\ i + 1 \in i..n /\ n \in i..n /\ n \in (i + 1)..n
      /\ i + 1 \in (i + 1)..n /\ i + 1 - 1 = i
  OBVIOUS
<1>1. ASSUME NEW f, Lays(f, n, l, Skip, Hit, i, j)
      PROVE  \E k \in 0..l : /\ Rest(n, l, Skip, Hit, i + 1, k)
                             /\ IF i + 1 \in Skip THEN j <= k
                                ELSE k = j + 1 /\ <<i + 1, k>> \in Hit
  <2> DEFINE g == [m \in (i + 1)..n |-> f[m]]
             k == f[i + 1]
  <2>1. k \in 0..l
    BY <1>0, <1>1 DEF Lays
  <2>2. IF i + 1 \in Skip THEN j <= k ELSE k = j + 1 /\ <<i + 1, k>> \in Hit
    <3>1. \A m \in (i + 1)..n :
            IF m \in Skip THEN f[m - 1] <= f[m]
            ELSE f[m] = f[m - 1] + 1 /\ <<m, f[m]>> \in Hit
      BY <1>1 DEF Lays
    <3>2. f[i] = j
      BY <1>1 DEF Lays
    <3>3. QED
      BY <3>1, <3>2, <1>0
  <2>3. \A m \in (i + 1 + 1)..n : m \in (i + 1)..n /\ m - 1 \in (i + 1)..n
    OBVIOUS
  <2>4. Lays(g, n, l, Skip, Hit, i + 1, k)
    <3>1. g \in [(i + 1)..n -> 0..l]
      BY <1>1 DEF Lays
    <3>2. g[i + 1] = k /\ g[n] = l
      BY <1>0, <1>1 DEF Lays
    <3>3. ASSUME NEW m \in (i + 1 + 1)..n
          PROVE  IF m \in Skip THEN g[m - 1] <= g[m]
                 ELSE g[m] = g[m - 1] + 1 /\ <<m, g[m]>> \in Hit
      <4>1. g[m] = f[m] /\ g[m - 1] = f[m - 1] /\ m \in (i + 1)..n
        BY <2>3
      <4>2. QED
        BY <1>1, <4>1 DEF Lays
    <3>4. QED
      BY <3>1, <3>2, <3>3 DEF Lays
  <2>5. QED
    BY <2>1, <2>2, <2>4 DEF Rest
<1>2. ASSUME NEW k \in 0..l, NEW g, Lays(g, n, l, Skip, Hit, i + 1, k),
             IF i + 1 \in Skip THEN j <= k ELSE k = j + 1 /\ <<i + 1, k>> \in Hit
      PROVE  Rest(n, l, Skip, Hit, i, j)
  <2> DEFINE f == [m \in i..n |-> IF m = i THEN j ELSE g[m]]
  <2>1. \A m \in (i + 1)..n : m # i /\ m \in i..n /\ m - 1 \in i..n
    OBVIOUS
  <2>2. \A m \in (i + 1)..n : f[m] = g[m]
    BY <2>1
  <2>3. f \in [i..n -> 0..l]
    <3>1. \A m \in i..n : m # i => m \in (i + 1)..n
      OBVIOUS
    <3>2. QED
      BY <3>1, <1>2 DEF Lays
  <2>4. f[i] = j /\ f[n] = l
    BY <1>0, <1>2, <2>2 DEF Lays
  <2>5. ASSUME NEW m \in (i + 1)..n
        PROVE  IF m \in Skip THEN f[m - 1] <= f[m]
               ELSE f[m] = f[m - 1] + 1 /\ <<m, f[m]>> \in Hit
    <3>1. CASE m = i + 1
      <4>1. f[m] = k /\ f[m - 1] = j
        BY <1>0, <1>2, <2>2, <2>4, <3>1 DEF Lays
      <4>2. QED
        BY <1>2, <3>1, <4>1
    <3>2. CASE m # i + 1
      <4>1. m \in (i + 1 + 1)..n /\ m - 1 \in (i + 1)..n
        BY <3>2
      <4>2. f[m] = g[m] /\ f[m - 1] = g[m - 1]
        BY <2>2, <4>1
      <4>3. QED
        BY <1>2, <4>1, <4>2 DEF Lays
    <3>3. QED
      BY <3>1, <3>2
  <2> HIDE DEF f
  <2>6. Lays(f, n, l, Skip, Hit, i, j)
    BY <2>3, <2>4, <2>5 DEF Lays
  <2>7. QED
    BY <2>6 DEF Rest
<1>3. QED
  BY <1>1, <1>2 DEF Rest, Onward

(* What becomes of the rest, at its end, at a star and at another item.    *)
LEMMA RestCases ==
  ASSUME NEW n \in Nat, NEW l \in Nat, NEW Skip, NEW Hit, NEW i \in 0..n, NEW j \in 0..l
  PROVE  /\ i = n => (Rest(n, l, Skip, Hit, i, j) <=> j = l)
         /\ i < n /\ i + 1 \in Skip =>
              (Rest(n, l, Skip, Hit, i, j) <=>
                 \E k \in j..l : Rest(n, l, Skip, Hit, i + 1, k))
         /\ i < n /\ i + 1 \notin Skip =>
              (Rest(n, l, Skip, Hit, i, j) <=>
                 /\ j < l /\ <<i + 1, j + 1>> \in Hit
                 /\ Rest(n, l, Skip, Hit, i + 1, j + 1))
<1>1. i = n => (Rest(n, l, Skip, Hit, i, j) <=> j = l)
  BY RestEnd
<1>2. ASSUME i < n
      PROVE  Rest(n, l, Skip, Hit, i, j) <=> Onward(n, l, Skip, Hit, i, j)
  <2>1. i \in 0..(n - 1)
    BY <1>2
  <2>2. QED
    BY <2>1, RestStep, Zenon
<1>3. ASSUME i < n, i + 1 \in Skip
      PROVE  Rest(n, l, Skip, Hit, i, j) <=>
               \E k \in j..l : Rest(n, l, Skip, Hit, i + 1, k)
  <2>1. \A k : k \in j..l <=> k \in 0..l /\ j <= k
    OBVIOUS
  <2>2. QED
    BY <1>2, <1>3, <2>1 DEF Onward
<1>4. ASSUME i < n, i + 1 \notin Skip
      PROVE  Rest(n, l, Skip, Hit, i, j) <=>
               /\ j < l /\ <<i + 1, j + 1>> \in Hit
               /\ Rest(n, l, Skip, Hit, i + 1, j + 1)
  <2>1. j + 1 \in 0..l <=> j < l
    OBVIOUS
  <2>2. QED
    BY <1>2, <1>4, <2>1 DEF Onward
<1>5. QED
  BY <1>1, <1>3, <1>4

(* A segment pattern from its i-th byte on, over a segment from its j-th.  *)
SegmentRest(pat, text, i, j) ==
  Rest(Len(pat), Len(text), {m \in 1..Len(pat) : pat[m] = Wild},
       {q \in (1..Len(pat)) \X (1..Len(text)) : pat[q[1]] = text[q[2]]}, i, j)

(* A pattern from its i-th segment on, over a path from its j-th.          *)
PathRest(pat, path, i, j) ==
  Rest(Len(pat), Len(path), {m \in 1..Len(pat) : pat[m] = DoubleStar},
       {q \in (1..Len(pat)) \X (1..Len(path)) :
          SegmentMatches(pat[q[1]], path[q[2]])}, i, j)

(* A pattern matches when all of it can be laid over all of the text.      *)
LEMMA SegmentRestIs ==
  ASSUME NEW pat, NEW text, Len(pat) \in Nat, Len(text) \in Nat
  PROVE  SegmentMatches(pat, text) <=> SegmentRest(pat, text, 0, 0)
<1> DEFINE n == Len(pat)
           l == Len(text)
           Skip == {m \in 1..n : pat[m] = Wild}
           Hit == {q \in (1..n) \X (1..l) : pat[q[1]] = text[q[2]]}
<1>1. ASSUME NEW f \in [0..n -> 0..l], NEW i \in 1..n
      PROVE  (IF i \in Skip THEN f[i - 1] <= f[i]
              ELSE f[i] = f[i - 1] + 1 /\ <<i, f[i]>> \in Hit)
               <=> (IF pat[i] = Wild THEN f[i - 1] <= f[i]
                    ELSE f[i] = f[i - 1] + 1 /\ pat[i] = text[f[i]])
  <2>1. f[i - 1] \in 0..l /\ f[i] \in 0..l
    OBVIOUS
  <2>2. f[i] = f[i - 1] + 1 => f[i] \in 1..l
    BY <2>1
  <2>3. f[i] \in 1..l => (<<i, f[i]>> \in Hit <=> pat[i] = text[f[i]])
    OBVIOUS
  <2>4. i \in Skip <=> pat[i] = Wild
    OBVIOUS
  <2> HIDE DEF Skip, Hit
  <2>5. QED
    BY <2>2, <2>3, <2>4
<1> HIDE DEF Skip, Hit
<1>2. 0 + 1 = 1
  OBVIOUS
<1>3. ASSUME NEW f
      PROVE  Lays(f, n, l, Skip, Hit, 0, 0) <=>
               /\ f \in [0..n -> 0..l]
               /\ f[0] = 0 /\ f[n] = l
               /\ \A i \in 1..n :
                    IF pat[i] = Wild THEN f[i - 1] <= f[i]
                    ELSE f[i] = f[i - 1] + 1 /\ pat[i] = text[f[i]]
  BY <1>1, <1>2 DEF Lays
<1>4. SegmentRest(pat, text, 0, 0) <=> \E f : Lays(f, n, l, Skip, Hit, 0, 0)
  BY DEF SegmentRest, Rest, Skip, Hit
<1>5. QED
  BY <1>3, <1>4 DEF SegmentMatches

(* The same of a pattern over a path.                                      *)
LEMMA PathRestIs ==
  ASSUME NEW pat, NEW path, Len(pat) \in Nat, Len(path) \in Nat
  PROVE  PathMatches(pat, path) <=> PathRest(pat, path, 0, 0)
<1> DEFINE n == Len(pat)
           l == Len(path)
           Skip == {m \in 1..n : pat[m] = DoubleStar}
           Hit == {q \in (1..n) \X (1..l) : SegmentMatches(pat[q[1]], path[q[2]])}
<1>1. ASSUME NEW f \in [0..n -> 0..l], NEW i \in 1..n
      PROVE  (IF i \in Skip THEN f[i - 1] <= f[i]
              ELSE f[i] = f[i - 1] + 1 /\ <<i, f[i]>> \in Hit)
               <=> (IF pat[i] = DoubleStar THEN f[i - 1] <= f[i]
                    ELSE f[i] = f[i - 1] + 1 /\ SegmentMatches(pat[i], path[f[i]]))
  <2>1. f[i - 1] \in 0..l /\ f[i] \in 0..l
    OBVIOUS
  <2>2. f[i] = f[i - 1] + 1 => f[i] \in 1..l
    BY <2>1
  <2>3. f[i] \in 1..l => (<<i, f[i]>> \in Hit <=> SegmentMatches(pat[i], path[f[i]]))
    OBVIOUS
  <2>4. i \in Skip <=> pat[i] = DoubleStar
    OBVIOUS
  <2> HIDE DEF Skip, Hit
  <2>5. QED
    BY <2>2, <2>3, <2>4
<1> HIDE DEF Skip, Hit
<1>2. 0 + 1 = 1
  OBVIOUS
<1>3. ASSUME NEW f
      PROVE  Lays(f, n, l, Skip, Hit, 0, 0) <=>
               /\ f \in [0..n -> 0..l]
               /\ f[0] = 0 /\ f[n] = l
               /\ \A i \in 1..n :
                    IF pat[i] = DoubleStar THEN f[i - 1] <= f[i]
                    ELSE f[i] = f[i - 1] + 1 /\ SegmentMatches(pat[i], path[f[i]])
  BY <1>1, <1>2 DEF Lays
<1>4. PathRest(pat, path, 0, 0) <=> \E f : Lays(f, n, l, Skip, Hit, 0, 0)
  BY DEF PathRest, Rest, Skip, Hit
<1>5. QED
  BY <1>3, <1>4 DEF PathMatches

(* What becomes of the rest of a segment pattern, at its end, at a star    *)
(* and at a byte.                                                          *)
LEMMA SegmentRestCases ==
  ASSUME NEW pat, NEW text, Len(pat) \in Nat, Len(text) \in Nat,
         NEW i \in 0..Len(pat), NEW j \in 0..Len(text)
  PROVE  /\ i = Len(pat) => (SegmentRest(pat, text, i, j) <=> j = Len(text))
         /\ i < Len(pat) /\ pat[i + 1] = Wild =>
              (SegmentRest(pat, text, i, j) <=>
                 \E k \in j..Len(text) : SegmentRest(pat, text, i + 1, k))
         /\ i < Len(pat) /\ pat[i + 1] # Wild =>
              (SegmentRest(pat, text, i, j) <=>
                 /\ j < Len(text) /\ pat[i + 1] = text[j + 1]
                 /\ SegmentRest(pat, text, i + 1, j + 1))
<1> DEFINE n == Len(pat)
           l == Len(text)
           Skip == {m \in 1..n : pat[m] = Wild}
           Hit == {q \in (1..n) \X (1..l) : pat[q[1]] = text[q[2]]}
<1>1. \A a, b : SegmentRest(pat, text, a, b) <=> Rest(n, l, Skip, Hit, a, b)
  BY DEF SegmentRest
<1>2. /\ \A m \in 1..n : m \in Skip <=> pat[m] = Wild
      /\ \A m \in 1..n, k \in 1..l : <<m, k>> \in Hit <=> pat[m] = text[k]
  OBVIOUS
<1> HIDE DEF n, l, Skip, Hit
<1>3. n \in Nat /\ l \in Nat /\ i \in 0..n /\ j \in 0..l
  BY DEF n, l
<1>4. /\ i = n => (Rest(n, l, Skip, Hit, i, j) <=> j = l)
      /\ i < n /\ i + 1 \in Skip =>
           (Rest(n, l, Skip, Hit, i, j) <=>
              \E k \in j..l : Rest(n, l, Skip, Hit, i + 1, k))
      /\ i < n /\ i + 1 \notin Skip =>
           (Rest(n, l, Skip, Hit, i, j) <=>
              /\ j < l /\ <<i + 1, j + 1>> \in Hit
              /\ Rest(n, l, Skip, Hit, i + 1, j + 1))
  BY <1>3, RestCases, Zenon
<1>5. i < n => i + 1 \in 1..n /\ (i + 1 \in Skip <=> pat[i + 1] = Wild)
  BY <1>2, <1>3
<1>6. j < l => j + 1 \in 1..l
  BY <1>3
<1>7. i < n /\ j < l => (<<i + 1, j + 1>> \in Hit <=> pat[i + 1] = text[j + 1])
  BY <1>2, <1>5, <1>6
<1>8. QED
  BY <1>1, <1>4, <1>5, <1>7 DEF n, l

(* The same of the rest of a pattern over a path.                          *)
LEMMA PathRestCases ==
  ASSUME NEW pat, NEW path, Len(pat) \in Nat, Len(path) \in Nat,
         NEW i \in 0..Len(pat), NEW j \in 0..Len(path)
  PROVE  /\ i = Len(pat) => (PathRest(pat, path, i, j) <=> j = Len(path))
         /\ i < Len(pat) /\ pat[i + 1] = DoubleStar =>
              (PathRest(pat, path, i, j) <=>
                 \E k \in j..Len(path) : PathRest(pat, path, i + 1, k))
         /\ i < Len(pat) /\ pat[i + 1] # DoubleStar =>
              (PathRest(pat, path, i, j) <=>
                 /\ j < Len(path) /\ SegmentMatches(pat[i + 1], path[j + 1])
                 /\ PathRest(pat, path, i + 1, j + 1))
<1> DEFINE n == Len(pat)
           l == Len(path)
           Skip == {m \in 1..n : pat[m] = DoubleStar}
           Hit == {q \in (1..n) \X (1..l) : SegmentMatches(pat[q[1]], path[q[2]])}
<1>1. \A a, b : PathRest(pat, path, a, b) <=> Rest(n, l, Skip, Hit, a, b)
  BY DEF PathRest
<1>2. /\ \A m \in 1..n : m \in Skip <=> pat[m] = DoubleStar
      /\ \A m \in 1..n, k \in 1..l :
           <<m, k>> \in Hit <=> SegmentMatches(pat[m], path[k])
  OBVIOUS
<1> HIDE DEF n, l, Skip, Hit
<1>3. n \in Nat /\ l \in Nat /\ i \in 0..n /\ j \in 0..l
  BY DEF n, l
<1>4. /\ i = n => (Rest(n, l, Skip, Hit, i, j) <=> j = l)
      /\ i < n /\ i + 1 \in Skip =>
           (Rest(n, l, Skip, Hit, i, j) <=>
              \E k \in j..l : Rest(n, l, Skip, Hit, i + 1, k))
      /\ i < n /\ i + 1 \notin Skip =>
           (Rest(n, l, Skip, Hit, i, j) <=>
              /\ j < l /\ <<i + 1, j + 1>> \in Hit
              /\ Rest(n, l, Skip, Hit, i + 1, j + 1))
  BY <1>3, RestCases, Zenon
<1>5. i < n => i + 1 \in 1..n /\ (i + 1 \in Skip <=> pat[i + 1] = DoubleStar)
  BY <1>2, <1>3
<1>6. j < l => j + 1 \in 1..l
  BY <1>3
<1>7. i < n /\ j < l => (<<i + 1, j + 1>> \in Hit <=> SegmentMatches(pat[i + 1], path[j + 1]))
  BY <1>2, <1>5, <1>6
<1>8. QED
  BY <1>1, <1>4, <1>5, <1>7 DEF n, l

-----------------------------------------------------------------------------
(***************************************************************************)
(* What the search has established.                                        *)
(***************************************************************************)
(* match_one: the segment matches if the rest of it does from where the    *)
(* matcher stands, or if the last star can swallow more; the stars before  *)
(* it need not be tried again, for what lies between the last star and     *)
(* here is laid byte on byte: were it moved, the rest would move with it.  *)
Undecided(pat, text, i, j, last, b) ==
  /\ SegmentMatches(pat, text) <=>
       \/ SegmentRest(pat, text, i, j)
       \/ /\ last # USIZE_MAX
          /\ \E k \in (b + 1)..Len(text) : SegmentRest(pat, text, last + 1, k)
  /\ last # USIZE_MAX =>
       \A k \in b..Len(text) :
         SegmentRest(pat, text, last + 1, k) =>
           /\ j + (k - b) <= Len(text)
           /\ SegmentRest(pat, text, i, j + (k - b))

SegmentSearch == pc = "one" => Undecided(p, s, pi, si, star, backtrack)

(* A `**` gone through may still swallow more.                             *)
Later(c) == \E k \in c[2]..Len(Ref.path) : PathRest(Pattern, Ref.path, c[1], k)

(* match_segments: the path matches if the rest of it does from where the  *)
(* search stands, or if one of the `**` on the stack can swallow more.     *)
PathSearch ==
  /\ pc \in {"segments", "one", "fail"} =>
       (PathMatches(Pattern, Ref.path) <=>
          \/ pc # "fail" /\ PathRest(Pattern, Ref.path, at[1] - 1, at[2] - 1)
          \/ \E c \in DOMAIN choices : Later(choices[c]))
  /\ pc = "one" => p # DoubleStar

(* decide: no pattern tried so far matches.                                *)
RulesTried ==
  IF pc = "decide" THEN side = "deny" /\ nth = 1
  ELSE /\ \A n \in 1..(nth - 1) : ~ PathMatches(Rules[side][n], Ref.path)
       /\ side = "allow" =>
            \A n \in DOMAIN Rules.deny : ~ PathMatches(Rules.deny[n], Ref.path)

Search == SegmentSearch /\ PathSearch /\ RulesTried

-----------------------------------------------------------------------------
(***************************************************************************)
(* match_one.                                                              *)
(***************************************************************************)

(* Where match_one stands, as Pointing has it.                             *)
Stands(pat, text, i, j, last, b) ==
  /\ Len(pat) \in Nat /\ Len(text) \in Nat /\ Len(pat) <= USIZE_MAX
  /\ i \in 0..Len(pat) /\ j \in 0..Len(text) /\ b \in 0..j
  /\ (last = USIZE_MAX /\ b = 0) \/ last \in 0..(i - 1)

(* At the first byte nothing is decided.                                   *)
LEMMA BeginsUndecided ==
  ASSUME NEW pat, NEW text, Len(pat) \in Nat, Len(text) \in Nat
  PROVE  Undecided(pat, text, 0, 0, USIZE_MAX, 0)
BY SegmentRestIs DEF Undecided

(* A star takes over from the star before.                                 *)
LEMMA StarTakesOver ==
  ASSUME NEW pat, NEW text, NEW i, NEW j, NEW last, NEW b,
         Stands(pat, text, i, j, last, b), Undecided(pat, text, i, j, last, b),
         i < Len(pat), pat[i + 1] = Wild
  PROVE  Undecided(pat, text, i + 1, j, i, j)
<1> DEFINE l == Len(text)
           R(a, c) == SegmentRest(pat, text, a, c)
<1>1. l \in Nat /\ i \in Nat /\ j \in 0..l /\ i # USIZE_MAX
  BY ScopeAssumption DEF Stands
<1>2. \A c \in 0..l : R(i, c) <=> \E k \in c..l : R(i + 1, k)
  BY SegmentRestCases DEF Stands
<1>3. ASSUME last # USIZE_MAX, NEW k \in (b + 1)..l, R(last + 1, k)
      PROVE  \E m \in j..l : R(i + 1, m)
  <2>1. b \in Nat /\ k \in Nat /\ k > b /\ k \in b..l
    BY <1>1, <1>3 DEF Stands
  <2>2. j + (k - b) <= l /\ R(i, j + (k - b))
    BY <1>3, <2>1 DEF Undecided
  <2>3. j + (k - b) \in 0..l /\ j <= j + (k - b)
    BY <1>1, <2>1, <2>2
  <2>4. PICK m \in (j + (k - b))..l : R(i + 1, m)
    BY <1>2, <2>2, <2>3
  <2>5. m \in j..l
    BY <1>1, <2>3
  <2>6. QED
    BY <2>4, <2>5
<1>4. SegmentMatches(pat, text) <=> \E m \in j..l : R(i + 1, m)
  BY <1>1, <1>2, <1>3 DEF Undecided
<1>5. (\E m \in j..l : R(i + 1, m)) <=>
        R(i + 1, j) \/ \E m \in (j + 1)..l : R(i + 1, m)
  BY <1>1
<1>6. \A k \in j..l : j + (k - j) = k /\ k <= l
  BY <1>1
<1>7. QED
  BY <1>1, <1>4, <1>5, <1>6 DEF Undecided

(* A byte that is equal is one byte of both.                               *)
LEMMA ByteIsLaid ==
  ASSUME NEW pat, NEW text, NEW i, NEW j, NEW last, NEW b,
         Stands(pat, text, i, j, last, b), Undecided(pat, text, i, j, last, b),
         i < Len(pat), j < Len(text), pat[i + 1] # Wild, pat[i + 1] = text[j + 1]
  PROVE  Undecided(pat, text, i + 1, j + 1, last, b)
<1> DEFINE l == Len(text)
           R(a, c) == SegmentRest(pat, text, a, c)
<1>1. l \in Nat /\ i \in Nat /\ j \in 0..l /\ b \in Nat
  BY DEF Stands
<1>2. \A c \in 0..l : R(i, c) <=>
        c < l /\ pat[i + 1] = text[c + 1] /\ R(i + 1, c + 1)
  BY SegmentRestCases DEF Stands
<1>3. R(i, j) <=> R(i + 1, j + 1)
  BY <1>1, <1>2
<1>4. ASSUME last # USIZE_MAX, NEW k \in b..l, R(last + 1, k)
      PROVE  j + 1 + (k - b) <= l /\ R(i + 1, j + 1 + (k - b))
  <2>1. j + (k - b) <= l /\ R(i, j + (k - b))
    BY <1>4 DEF Undecided
  <2>2. j + (k - b) \in 0..l
    BY <1>1, <2>1
  <2>3. j + (k - b) < l /\ R(i + 1, j + (k - b) + 1)
    BY <1>2, <2>1, <2>2
  <2>4. j + (k - b) + 1 = j + 1 + (k - b)
    BY <1>1
  <2>5. QED
    BY <1>1, <2>2, <2>3, <2>4
<1>5. QED
  BY <1>3, <1>4 DEF Undecided

(* Where neither fits, the last star swallows one more, or nothing does.   *)
LEMMA StarSwallows ==
  ASSUME NEW pat, NEW text, NEW i, NEW j, NEW last, NEW b,
         Stands(pat, text, i, j, last, b), Undecided(pat, text, i, j, last, b),
         j < Len(text),
         i = Len(pat) \/ (i < Len(pat) /\ pat[i + 1] # Wild /\ pat[i + 1] # text[j + 1])
  PROVE  /\ last # USIZE_MAX => Undecided(pat, text, last + 1, b + 1, last, b + 1)
         /\ last = USIZE_MAX => ~ SegmentMatches(pat, text)
<1> DEFINE l == Len(text)
           R(a, c) == SegmentRest(pat, text, a, c)
<1>1. l \in Nat /\ i \in Nat /\ j \in 0..l /\ b \in Nat /\ b + 1 \in 0..l
  BY DEF Stands
<1>2. ~ R(i, j)
  <2>1. CASE i = Len(pat)
    BY <1>1, <2>1, SegmentRestCases DEF Stands
  <2>2. CASE i < Len(pat) /\ pat[i + 1] # Wild /\ pat[i + 1] # text[j + 1]
    BY <1>1, <2>2, SegmentRestCases DEF Stands
  <2>3. QED
    BY <2>1, <2>2
<1>3. (\E k \in (b + 1)..l : R(last + 1, k)) <=>
        R(last + 1, b + 1) \/ \E k \in (b + 1 + 1)..l : R(last + 1, k)
  BY <1>1
<1>4. \A k \in (b + 1)..l : b + 1 + (k - (b + 1)) = k /\ k <= l
  BY <1>1
<1>5. QED
  BY <1>2, <1>3, <1>4 DEF Undecided

(* At the end of the segment no star can swallow more.                     *)
LEMMA NothingLeft ==
  ASSUME NEW pat, NEW text, NEW i, NEW last, NEW b,
         Stands(pat, text, i, Len(text), last, b),
         Undecided(pat, text, i, Len(text), last, b)
  PROVE  /\ SegmentMatches(pat, text) <=> SegmentRest(pat, text, i, Len(text))
         /\ last # USIZE_MAX => \A k \in (b + 1)..Len(text) :
                                  ~ SegmentRest(pat, text, last + 1, k)
<1> DEFINE l == Len(text)
<1>1. l \in Nat /\ b \in Nat
  BY DEF Stands
<1>2. ASSUME last # USIZE_MAX, NEW k \in (b + 1)..l,
             SegmentRest(pat, text, last + 1, k)
      PROVE  FALSE
  <2>1. k \in b..l /\ l + (k - b) > l
    BY <1>1
  <2>2. l + (k - b) <= l
    BY <1>2, <2>1 DEF Undecided
  <2>3. QED
    BY <1>1, <2>1, <2>2
<1>3. QED
  BY <1>2 DEF Undecided

(* A star at the end of the segment swallows nothing.                      *)
LEMMA StarSwallowsNothing ==
  ASSUME NEW pat, NEW text, NEW i, NEW last, NEW b,
         Stands(pat, text, i, Len(text), last, b),
         Undecided(pat, text, i, Len(text), last, b),
         i < Len(pat), pat[i + 1] = Wild
  PROVE  Undecided(pat, text, i + 1, Len(text), last, b)
<1> DEFINE l == Len(text)
           R(a, c) == SegmentRest(pat, text, a, c)
<1>1. l \in Nat /\ b \in 0..l
  BY DEF Stands
<1>2. R(i, l) <=> \E k \in l..l : R(i + 1, k)
  BY <1>1, SegmentRestCases DEF Stands
<1>3. R(i, l) <=> R(i + 1, l)
  BY <1>1, <1>2
<1>4. ASSUME last # USIZE_MAX, NEW k \in b..l, R(last + 1, k)
      PROVE  l + (k - b) <= l /\ R(i + 1, l + (k - b))
  <2>1. l + (k - b) <= l /\ R(i, l + (k - b))
    BY <1>4 DEF Undecided
  <2>2. k = b /\ l + (k - b) = l
    BY <1>1, <2>1
  <2>3. QED
    BY <1>3, <2>1, <2>2
<1>5. QED
  BY <1>3, <1>4 DEF Undecided

(* The end of the segment decides.                                         *)
LEMMA EndDecides ==
  ASSUME NEW pat, NEW text, NEW i, NEW last, NEW b,
         Stands(pat, text, i, Len(text), last, b),
         Undecided(pat, text, i, Len(text), last, b),
         i < Len(pat) => pat[i + 1] # Wild
  PROVE  SegmentMatches(pat, text) <=> i = Len(pat)
<1>1. Len(text) \in 0..Len(text) /\ i \in 0..Len(pat) /\ Len(text) \in Nat
  BY DEF Stands
<1>2. SegmentMatches(pat, text) <=> SegmentRest(pat, text, i, Len(text))
  BY NothingLeft
<1>3. i = Len(pat) => SegmentRest(pat, text, i, Len(text))
  BY <1>1, SegmentRestCases DEF Stands
<1>4. i < Len(pat) => ~ SegmentRest(pat, text, i, Len(text))
  BY <1>1, SegmentRestCases DEF Stands
<1>5. i = Len(pat) \/ i < Len(pat)
  BY <1>1 DEF Stands
<1>6. QED
  BY <1>2, <1>3, <1>4, <1>5

(* What the matcher stands on is a pattern and a segment of the path.      *)
LEMMA MatcherStands ==
  ASSUME IInv, pc = "one"
  PROVE  /\ Stands(p, s, pi, si, star, backtrack)
         /\ Pattern \in Seq(Segment) /\ Ref.path \in Seq(Segment)
         /\ at \in Positions /\ at[1] \in 1..Len(Pattern) /\ at[2] \in 1..Len(Ref.path)
<1>1. p \in Segment /\ s \in Segment
  BY SegmentTypes
<1>2. Stands(p, s, pi, si, star, backtrack)
  BY <1>1 DEF Stands, IInv, Pointing, Segment
<1>3. Pattern \in Seq(Segment) /\ Ref.path \in Seq(Segment)
  BY PatternType, RefType DEF IInv, Deciding, Placed, Reference
<1>4. at \in Positions /\ at[1] <= Len(Pattern) /\ at[2] <= Len(Ref.path)
  BY DEF IInv, Placed, Pointing
<1>5. at[1] \in 1..Len(Pattern) /\ at[2] \in 1..Len(Ref.path)
  BY <1>3, <1>4 DEF Positions
<1>6. QED
  BY <1>2, <1>3, <1>4, <1>5

(* Every iteration of match_one keeps what it has established.             *)
LEMMA IterationSearch ==
  ASSUME IInv, Search, SeeStar \/ EatByte \/ Backtrack \/ TrailingStar
  PROVE  Search'
<1>1. pc = "one" /\ Looping
  BY DEF SeeStar, EatByte, Backtrack, TrailingStar, InSegment, PastIt
<1>2. /\ p' = p /\ s' = s /\ Pattern' = Pattern /\ Ref' = Ref /\ Rules' = Rules
      /\ pc' = pc /\ at' = at /\ choices' = choices /\ side' = side /\ nth' = nth
  BY <1>1, SameSegments, SamePattern, SameRef, SameRules DEF Looping, input
<1>3. /\ Stands(p, s, pi, si, star, backtrack)
      /\ Undecided(p, s, pi, si, star, backtrack)
  BY <1>1, MatcherStands DEF Search, SegmentSearch
<1>4. /\ Len(p) \in Nat /\ Len(s) \in Nat /\ pi \in 0..Len(p) /\ si \in 0..Len(s)
  BY <1>3 DEF Stands
<1>5. Undecided(p, s, pi', si', star', backtrack')
  <2>1. CASE SeeStar
    BY <2>1, <1>3, StarTakesOver DEF SeeStar, OnStar
  <2>2. CASE EatByte
    BY <2>2, <1>3, ByteIsLaid DEF EatByte, InSegment, OnStar, OnByte
  <2>3. CASE Backtrack
    <3>1. pi = Len(p) \/ (pi < Len(p) /\ p[pi + 1] # Wild /\ p[pi + 1] # s[si + 1])
      BY <2>3, <1>4 DEF Backtrack, OnStar, OnByte
    <3>2. si < Len(s) /\ star # USIZE_MAX
      BY <2>3 DEF Backtrack, InSegment
    <3>3. Undecided(p, s, star + 1, backtrack + 1, star, backtrack + 1)
      BY <1>3, <3>1, <3>2, StarSwallows
    <3>4. QED
      BY <2>3, <3>3 DEF Backtrack
  <2>4. CASE TrailingStar
    <3>1. si = Len(s)
      BY <2>4, <1>4 DEF TrailingStar, PastIt
    <3>2. Undecided(p, s, pi + 1, Len(s), star, backtrack)
      BY <1>3, <2>4, <3>1, StarSwallowsNothing DEF TrailingStar, OnStar
    <3>3. QED
      BY <2>4, <3>1, <3>2 DEF TrailingStar
  <2>5. QED
    BY <2>1, <2>2, <2>3, <2>4
<1>6. SegmentSearch'
  BY <1>2, <1>5 DEF SegmentSearch
<1>7. PathSearch'
  <2>1. PathMatches(Pattern, Ref.path) <=>
          \/ PathRest(Pattern, Ref.path, at[1] - 1, at[2] - 1)
          \/ \E c \in DOMAIN choices : Later(choices[c])
    BY <1>1 DEF Search, PathSearch
  <2>2. p # DoubleStar
    BY <1>1 DEF Search, PathSearch
  <2>3. QED
    BY <1>1, <1>2, <2>1, <2>2 DEF PathSearch, Later
<1>8. RulesTried'
  BY <1>1, <1>2 DEF Search, RulesTried
<1>9. QED
  BY <1>6, <1>7, <1>8 DEF Search

-----------------------------------------------------------------------------
(***************************************************************************)
(* match_segments.                                                         *)
(***************************************************************************)
(* What has to be shown of a step of the search to know that it keeps what *)
(* has been established.                                                   *)
LEMMA SearchMoves ==
  ASSUME UNCHANGED <<input, verdicts, side, nth>>, RulesTried, pc # "decide",
         pc' \in {"segments", "one", "fail"},
         PathMatches(Pattern, Ref.path) <=>
           \/ pc' # "fail" /\ PathRest(Pattern, Ref.path, at'[1] - 1, at'[2] - 1)
           \/ \E c \in DOMAIN choices' : Later(choices'[c]),
         pc' = "one" => p' # DoubleStar /\ Undecided(p', s', pi', si', star', backtrack')
  PROVE  Search'
<1>1. Pattern' = Pattern /\ Ref' = Ref /\ Rules' = Rules
  BY SamePattern, SameRef, SameRules DEF input
<1>2. SegmentSearch'
  BY DEF SegmentSearch
<1>3. PathSearch'
  BY <1>1 DEF PathSearch, Later
<1>4. RulesTried'
  BY <1>1 DEF RulesTried
<1>5. QED
  BY <1>2, <1>3, <1>4 DEF Search

(* What the search stands on, in numbers.                                  *)
LEMMA SearchStands ==
  ASSUME IInv, pc \in {"segments", "one", "fail"}
  PROVE  /\ Len(Pattern) \in Nat /\ Len(Ref.path) \in Nat
         /\ at[1] \in 1..Len(Pattern) + 1 /\ at[2] \in 1..Len(Ref.path) + 1
         /\ at = <<at[1], at[2]>>
         /\ choices \in Seq(Positions)
         /\ \A c \in DOMAIN choices : /\ choices[c][1] \in 1..Len(Pattern)
                                      /\ choices[c][2] \in 1..Len(Ref.path) + 1
<1>1. Pattern \in Seq(Segment) /\ Ref.path \in Seq(Segment)
  BY PatternType, RefType DEF IInv, Deciding, Placed, Reference
<1>2. /\ at \in Positions /\ choices \in Seq(Positions)
      /\ \A c \in DOMAIN choices : choices[c][1] <= Len(Pattern)
  BY DEF IInv, Placed
<1>3. \A c \in DOMAIN choices : choices[c] \in Positions
  BY <1>2
<1>4. QED
  BY <1>1, <1>2, <1>3, SMTT(30) DEF Positions

(* The last of the `**` gone through, and those before it.                 *)
LEMMA LaterOrLast ==
  ASSUME IInv, pc = "fail", choices # <<>>
  PROVE  /\ Len(choices) \in DOMAIN choices
         /\ Last[1] \in 1..Len(Pattern) /\ Last[2] \in 1..Len(Ref.path) + 1
         /\ (\E c \in DOMAIN choices : Later(choices[c])) <=>
              \/ \E c \in 1..(Len(choices) - 1) : Later(choices[c])
              \/ Later(Last)
<1>1. choices \in Seq(Positions)
  BY SearchStands
<1>2. Len(choices) \in DOMAIN choices /\ DOMAIN choices = 1..Len(choices)
      /\ Len(choices) \in Nat
  BY <1>1
<1>3. \A c : c \in DOMAIN choices <=> c \in 1..(Len(choices) - 1) \/ c = Len(choices)
  BY <1>2
<1>4. QED
  BY <1>2, <1>3, SearchStands DEF Last

(* A `**` matches nothing, or has more to swallow.                         *)
LEMMA EnterDoubleStarSearch ==
  ASSUME IInv, Search, EnterDoubleStar PROVE Search'
<1> DEFINE P == Pattern
           T == Ref.path
           R(a, b) == PathRest(P, T, a, b)
           l == Len(T)
<1>1. /\ Len(P) \in Nat /\ l \in Nat
      /\ at[1] \in 1..Len(P) + 1 /\ at[2] \in 1..l + 1 /\ choices \in Seq(Positions)
      /\ at \in Positions
  BY SearchStands DEF EnterDoubleStar, IInv, Placed
<1>2. at[1] \in 1..Len(P) /\ P[at[1]] = DoubleStar /\ at[1] - 1 + 1 = at[1]
  BY <1>1 DEF EnterDoubleStar, PatternExhausted, p
<1>3. at[1] - 1 \in 0..Len(P) /\ at[1] - 1 < Len(P) /\ at[2] - 1 \in 0..l
  BY <1>1, <1>2, SMTT(30)
<1>4. R(at[1] - 1, at[2] - 1) <=> \E k \in (at[2] - 1)..l : R(at[1], k)
  <2> DEFINE i == at[1] - 1
             j == at[2] - 1
  <2>1. i \in 0..Len(P) /\ j \in 0..l /\ i < Len(P) /\ i + 1 = at[1]
    BY <1>2, <1>3
  <2> HIDE DEF i, j
  <2>2. P[i + 1] = DoubleStar
    BY <1>2, <2>1
  <2>3. R(i, j) <=> \E k \in j..l : R(i + 1, k)
    BY <1>1, <2>1, <2>2, PathRestCases
  <2>4. R(i, j) <=> \E k \in j..l : R(at[1], k)
    BY <2>1, <2>3
  <2>5. QED
    BY <2>4 DEF i, j
<1>5. (\E k \in (at[2] - 1)..l : R(at[1], k)) <=>
        R(at[1], at[2] - 1) \/ \E k \in at[2]..l : R(at[1], k)
  BY <1>1
<1>6. Later(at) <=> \E k \in at[2]..l : R(at[1], k)
  BY DEF Later
<1>7. choices' = Append(choices, at) /\ at' = <<at[1] + 1, at[2]>> /\ pc' = "segments"
      /\ UNCHANGED <<input, verdicts, side, nth>> /\ pc = "segments"
  BY DEF EnterDoubleStar
<1>8. (\E c \in DOMAIN choices' : Later(choices'[c])) <=>
        (\E c \in DOMAIN choices : Later(choices[c])) \/ Later(at)
  <2>1. DOMAIN choices' = DOMAIN choices \cup {Len(choices) + 1}
    BY <1>1, <1>7
  <2>2. \A c \in DOMAIN choices : choices'[c] = choices[c]
    BY <1>1, <1>7
  <2>3. choices'[Len(choices) + 1] = at
    BY <1>1, <1>7
  <2>4. QED
    BY <2>1, <2>2, <2>3
<1>9. PathMatches(P, T) <=>
        R(at[1] - 1, at[2] - 1) \/ \E c \in DOMAIN choices : Later(choices[c])
  BY <1>7 DEF Search, PathSearch
<1>10. at'[1] - 1 = at[1] /\ at'[2] - 1 = at[2] - 1
  BY <1>1, <1>7
<1>11. PathMatches(P, T) <=>
         \/ pc' # "fail" /\ R(at'[1] - 1, at'[2] - 1)
         \/ \E c \in DOMAIN choices' : Later(choices'[c])
  <2>1. R(at'[1] - 1, at'[2] - 1) <=> R(at[1], at[2] - 1)
    BY <1>10
  <2>2. QED
    BY <1>4, <1>5, <1>6, <1>7, <1>8, <1>9, <2>1
<1>12. QED
  BY <1>7, <1>11, SearchMoves DEF Search

(* match_one begins on two segments that are not decided.                  *)
LEMMA EnterSegmentSearch ==
  ASSUME IInv, Search, EnterSegment PROVE Search'
<1>1. /\ pc = "segments" /\ pc' = "one" /\ p # DoubleStar
      /\ UNCHANGED <<input, verdicts, side, nth, at, choices, pointer>>
  BY DEF EnterSegment
<1>2. p' = p /\ s' = s
  BY <1>1, SameSegments DEF input
<1>3. IInv'
  BY SearchInv
<1>4. p' \in Segment /\ s' \in Segment
  <2>1. (IInv /\ pc = "one" => p \in Segment /\ s \in Segment)'
    BY SegmentTypes, PTL
  <2>2. QED
    BY <1>1, <1>3, <2>1
<1>5. pi' = 0 /\ si' = 0 /\ star' = USIZE_MAX /\ backtrack' = 0
  BY <1>1 DEF IInv, Pointing, pointer
<1>6. Undecided(p', s', pi', si', star', backtrack')
  <2>1. Len(p) \in Nat /\ Len(s) \in Nat
    BY <1>2, <1>4 DEF Segment
  <2>2. QED
    BY <1>2, <1>5, <2>1, BeginsUndecided
<1>7. PathMatches(Pattern, Ref.path) <=>
        \/ pc' # "fail" /\ PathRest(Pattern, Ref.path, at'[1] - 1, at'[2] - 1)
        \/ \E c \in DOMAIN choices' : Later(choices'[c])
  BY <1>1 DEF Search, PathSearch
<1>8. QED
  BY <1>1, <1>2, <1>6, <1>7, SearchMoves DEF Search

(* With only one of both exhausted nothing matches from here.              *)
LEMMA DeadEndSearch ==
  ASSUME IInv, Search, DeadEnd PROVE Search'
<1> DEFINE P == Pattern
           T == Ref.path
<1>1. /\ Len(P) \in Nat /\ Len(T) \in Nat
      /\ at[1] \in 1..Len(P) + 1 /\ at[2] \in 1..Len(T) + 1
  BY SearchStands DEF DeadEnd
<1>2. /\ pc = "segments" /\ pc' = "fail"
      /\ UNCHANGED <<input, verdicts, side, nth, at, choices>>
  BY DEF DeadEnd
<1>3. at[1] - 1 \in 0..Len(P) /\ at[2] - 1 \in 0..Len(T)
  BY <1>1
<1>4. ~ PathRest(P, T, at[1] - 1, at[2] - 1)
  <2>1. CASE PatternExhausted
    <3>1. at[1] - 1 = Len(P) /\ at[2] - 1 # Len(T)
      BY <1>1, <2>1 DEF DeadEnd, PatternExhausted, PathExhausted
    <3>2. QED
      BY <1>1, <1>3, <3>1, PathRestCases
  <2>2. CASE ~ PatternExhausted
    <3>1. /\ at[1] - 1 < Len(P) /\ at[1] - 1 + 1 = at[1] /\ P[at[1]] # DoubleStar
          /\ ~ (at[2] - 1 < Len(T))
      BY <1>1, <2>2 DEF DeadEnd, PatternExhausted, PathExhausted, p
    <3>2. QED
      BY <1>1, <1>3, <3>1, PathRestCases, SMTT(30)
  <2>3. QED
    BY <2>1, <2>2
<1>5. PathMatches(P, T) <=>
        \/ pc' # "fail" /\ PathRest(P, T, at'[1] - 1, at'[2] - 1)
        \/ \E c \in DOMAIN choices' : Later(choices'[c])
  BY <1>2, <1>4 DEF Search, PathSearch
<1>6. QED
  BY <1>2, <1>5, SearchMoves DEF Search

(* What the last `**` can swallow, it swallows now or later.               *)
LEMMA SkipOneMoreSearch ==
  ASSUME IInv, Search, SkipOneMore PROVE Search'
<1> DEFINE P == Pattern
           T == Ref.path
           R(a, b) == PathRest(P, T, a, b)
           l == Len(T)
           n == Len(choices)
           split == <<Last[1], Last[2] + 1>>
           Before == \E c \in 1..(n - 1) : Later(choices[c])
<1>1. /\ pc = "fail" /\ choices # <<>> /\ Last[2] <= l /\ pc' = "segments"
      /\ choices' = [choices EXCEPT ![n] = split] /\ at' = <<Last[1] + 1, Last[2] + 1>>
      /\ UNCHANGED <<input, verdicts, side, nth>>
  BY DEF SkipOneMore
<1>2. /\ n \in DOMAIN choices
      /\ Last[1] \in 1..Len(P) /\ Last[2] \in 1..l + 1
      /\ (\E c \in DOMAIN choices : Later(choices[c])) <=> Before \/ Later(Last)
  BY <1>1, LaterOrLast
<1>3. Len(P) \in Nat /\ l \in Nat /\ choices \in Seq(Positions)
  BY <1>1, SearchStands
<1>4. Later(Last) <=> R(Last[1], Last[2]) \/ Later(split)
  <2>1. Later(Last) <=> \E k \in Last[2]..l : R(Last[1], k)
    BY DEF Later
  <2>2. Later(split) <=> \E k \in (Last[2] + 1)..l : R(Last[1], k)
    BY DEF Later
  <2>3. \A k : k \in Last[2]..l <=> k = Last[2] \/ k \in (Last[2] + 1)..l
    BY <1>1, <1>2, <1>3
  <2>4. QED
    BY <2>1, <2>2, <2>3
<1>5. (\E c \in DOMAIN choices' : Later(choices'[c])) <=> Before \/ Later(split)
  <2>1. /\ DOMAIN choices' = DOMAIN choices /\ choices'[n] = split
        /\ \A c \in DOMAIN choices : c # n => choices'[c] = choices[c]
    BY <1>1, <1>2
  <2>2. /\ \A c : c \in DOMAIN choices <=> c \in 1..(n - 1) \/ c = n
        /\ \A c \in 1..(n - 1) : c # n
    BY <1>2, <1>3
  <2> HIDE DEF split, n
  <2>3. QED
    BY <2>1, <2>2 DEF Before
<1>6. PathMatches(P, T) <=> \E c \in DOMAIN choices : Later(choices[c])
  BY <1>1 DEF Search, PathSearch
<1>7. R(at'[1] - 1, at'[2] - 1) <=> R(Last[1], Last[2])
  <2>1. at'[1] - 1 = Last[1] /\ at'[2] - 1 = Last[2]
    BY <1>1, <1>2, <1>3
  <2>2. QED
    BY <2>1
<1>8. PathMatches(P, T) <=>
         \/ pc' # "fail" /\ R(at'[1] - 1, at'[2] - 1)
         \/ \E c \in DOMAIN choices' : Later(choices'[c])
  <2> HIDE DEF split, n, Before
  <2>1. QED
    BY <1>1, <1>2, <1>4, <1>5, <1>6, <1>7
<1>9. QED
  BY <1>1, <1>8, SearchMoves DEF Search

(* A `**` at the end of the path has nothing more to swallow.              *)
LEMMA GiveUpSplitSearch ==
  ASSUME IInv, Search, GiveUpSplit PROVE Search'
<1> DEFINE P == Pattern
           T == Ref.path
           l == Len(T)
           n == Len(choices)
           Before == \E c \in 1..(n - 1) : Later(choices[c])
<1>1. /\ pc = "fail" /\ choices # <<>> /\ Last[2] > l /\ pc' = "fail"
      /\ choices' = SubSeq(choices, 1, n - 1)
      /\ UNCHANGED <<input, verdicts, side, nth>>
  BY DEF GiveUpSplit
<1>2. /\ n \in DOMAIN choices /\ Last[2] \in 1..l + 1
      /\ (\E c \in DOMAIN choices : Later(choices[c])) <=> Before \/ Later(Last)
  BY <1>1, LaterOrLast
<1>3. l \in Nat /\ choices \in Seq(Positions)
  BY <1>1, SearchStands
<1>4. ~ Later(Last)
  <2>1. ~ \E k \in Last[2]..l : TRUE
    BY <1>1, <1>2, <1>3
  <2>2. QED
    BY <2>1 DEF Later
<1>5. (\E c \in DOMAIN choices' : Later(choices'[c])) <=> Before
  <2>1. DOMAIN choices' = 1..(n - 1) /\ \A c \in 1..(n - 1) : choices'[c] = choices[c]
    BY <1>1, <1>2, <1>3
  <2>2. QED
    BY <2>1
<1>6. PathMatches(P, T) <=> \E c \in DOMAIN choices : Later(choices[c])
  BY <1>1 DEF Search, PathSearch
<1>7. PathMatches(P, T) <=> \E c \in DOMAIN choices' : Later(choices'[c])
  BY <1>2, <1>4, <1>5, <1>6
<1>8. QED
  BY <1>1, <1>7, SearchMoves DEF Search


(* The end of match_one on the segment the pattern's next one is laid on.  *)
LEMMA SegmentDecided ==
  ASSUME IInv, Search, pc = "one"
  PROVE  /\ SegmentMatched => SegmentMatches(p, s)
         /\ SegmentFailed => ~ SegmentMatches(p, s)
<1>1. /\ Stands(p, s, pi, si, star, backtrack)
      /\ Undecided(p, s, pi, si, star, backtrack)
  BY MatcherStands DEF Search, SegmentSearch
<1>2. /\ Len(p) \in Nat /\ Len(s) \in Nat /\ pi \in 0..Len(p) /\ si \in 0..Len(s)
  BY <1>1 DEF Stands
<1>3. ASSUME PastIt, ~ OnStar PROVE SegmentMatches(p, s) <=> pi = Len(p)
  <2>1. si = Len(s)
    BY <1>2, <1>3 DEF PastIt
  <2>2. Stands(p, s, pi, Len(s), star, backtrack)
    BY <1>1, <2>1
  <2>3. Undecided(p, s, pi, Len(s), star, backtrack)
    BY <1>1, <2>1
  <2>4. pi < Len(p) => p[pi + 1] # Wild
    BY <1>3 DEF OnStar
  <2>5. QED
    BY <2>2, <2>3, <2>4, EndDecides
<1>4. ASSUME InSegment, ~ OnStar, ~ OnByte, star = USIZE_MAX
      PROVE  ~ SegmentMatches(p, s)
  <2>1. pi = Len(p) \/ (pi < Len(p) /\ p[pi + 1] # Wild /\ p[pi + 1] # s[si + 1])
    BY <1>2, <1>4 DEF OnStar, OnByte
  <2>2. si < Len(s)
    BY <1>4 DEF InSegment
  <2>3. QED
    BY <1>1, <1>4, <2>1, <2>2, StarSwallows
<1>5. QED
  BY <1>3, <1>4 DEF SegmentMatched, SegmentFailed

(* What match_one found decides this segment and no other.                 *)
LEMMA SegmentSearched ==
  ASSUME IInv, Search, SegmentMatched \/ SegmentFailed PROVE Search'
<1> DEFINE P == Pattern
           T == Ref.path
<1>1. /\ pc = "one"
      /\ UNCHANGED <<input, verdicts, side, nth, choices>>
  BY DEF SegmentMatched, SegmentFailed, InSegment, PastIt
<1>2. /\ Len(P) \in Nat /\ Len(T) \in Nat
      /\ at[1] \in 1..Len(P) /\ at[2] \in 1..Len(T)
  BY <1>1, MatcherStands, SearchStands
<1>3. /\ at[1] - 1 \in 0..Len(P) /\ at[2] - 1 \in 0..Len(T)
      /\ at[1] - 1 < Len(P) /\ at[2] - 1 < Len(T)
      /\ at[1] - 1 + 1 = at[1] /\ at[2] - 1 + 1 = at[2]
  BY <1>2
<1>4. P[at[1]] = p /\ T[at[2]] = s /\ p # DoubleStar
  BY <1>1 DEF p, s, Search, PathSearch
<1>5. PathRest(P, T, at[1] - 1, at[2] - 1) <=>
        SegmentMatches(p, s) /\ PathRest(P, T, at[1], at[2])
  <2> DEFINE i == at[1] - 1
             j == at[2] - 1
  <2>1. /\ i \in 0..Len(P) /\ j \in 0..Len(T) /\ i < Len(P) /\ j < Len(T)
        /\ i + 1 = at[1] /\ j + 1 = at[2]
    BY <1>3
  <2> HIDE DEF i, j
  <2>2. P[i + 1] = p /\ T[j + 1] = s
    BY <1>4, <2>1
  <2>3. PathRest(P, T, i, j) <=>
          SegmentMatches(P[i + 1], T[j + 1]) /\ PathRest(P, T, i + 1, j + 1)
    BY <1>2, <1>4, <2>1, <2>2, PathRestCases
  <2>4. PathRest(P, T, i, j) <=>
          SegmentMatches(p, s) /\ PathRest(P, T, at[1], at[2])
    BY <2>1, <2>2, <2>3
  <2>5. QED
    BY <2>4 DEF i, j
<1>6. PathMatches(P, T) <=>
        \/ PathRest(P, T, at[1] - 1, at[2] - 1)
        \/ \E c \in DOMAIN choices : Later(choices[c])
  BY <1>1 DEF Search, PathSearch
<1>7. (\E c \in DOMAIN choices' : Later(choices'[c]))
        <=> (\E c \in DOMAIN choices : Later(choices[c]))
  BY <1>1
<1>8. CASE SegmentMatched
  <2>1. pc' = "segments" /\ at' = <<at[1] + 1, at[2] + 1>>
    BY <1>8 DEF SegmentMatched
  <2>2. at'[1] - 1 = at[1] /\ at'[2] - 1 = at[2]
    BY <1>2, <2>1
  <2>3. PathMatches(P, T) <=>
          \/ pc' # "fail" /\ PathRest(P, T, at'[1] - 1, at'[2] - 1)
          \/ \E c \in DOMAIN choices' : Later(choices'[c])
    <3>1. SegmentMatches(p, s)
      BY <1>1, <1>8, SegmentDecided
    <3>2. QED
      BY <1>1, <1>5, <1>6, <2>1, <2>2, <3>1
  <2>4. QED
    BY <1>1, <2>1, <2>3, SearchMoves DEF Search
<1>9. CASE SegmentFailed
  <2>1. pc' = "fail"
    BY <1>9 DEF SegmentFailed
  <2>2. PathMatches(P, T) <=>
          \/ pc' # "fail" /\ PathRest(P, T, at'[1] - 1, at'[2] - 1)
          \/ \E c \in DOMAIN choices' : Later(choices'[c])
    <3>1. ~ SegmentMatches(p, s)
      BY <1>1, <1>9, SegmentDecided
    <3>2. QED
      BY <1>1, <1>5, <1>6, <2>1, <3>1
  <2>3. QED
    BY <1>1, <2>1, <2>2, SearchMoves DEF Search
<1>10. QED
  BY <1>8, <1>9

-----------------------------------------------------------------------------
(***************************************************************************)
(* decide.                                                                 *)
(***************************************************************************)
(* A pattern is passed over only when it does not match.                   *)
LEMMA RulesSearch ==
  ASSUME IInv, Search, FindRules \/ TryPattern \/ TryAllow \/ NextPattern
  PROVE  Search'
<1>1. UNCHANGED <<scope, refs, verdicts>>
  BY DEF FindRules, TryPattern, TryAllow, NextPattern, input
<1>2. Rules' = Rules /\ Ref' = Ref
  BY <1>1, SameRules, SameRef
<1>3. CASE FindRules
  <2>1. pc' = "try" /\ side' = "deny" /\ nth' = 1
    BY <1>3 DEF FindRules, Search, RulesTried
  <2>2. QED
    BY <2>1 DEF Search, SegmentSearch, PathSearch, RulesTried
<1>4. CASE TryPattern
  <2>1. /\ pc = "try" /\ pc' = "segments" /\ at' = <<1, 1>> /\ choices' = <<>>
        /\ UNCHANGED <<input, verdicts, side, nth>>
        /\ nth <= Len(Rules[side])
    BY <1>4 DEF TryPattern
  <2>2. Pattern \in Seq(Segment) /\ Ref \in Reference
    BY <2>1, PatternType, RefType DEF IInv, Deciding
  <2>3. Len(Pattern) \in Nat /\ Len(Ref.path) \in Nat
    BY <2>2 DEF Reference
  <2>4. PathMatches(Pattern, Ref.path) <=> PathRest(Pattern, Ref.path, 0, 0)
    BY <2>3, PathRestIs
  <2>5. at'[1] - 1 = 0 /\ at'[2] - 1 = 0 /\ DOMAIN choices' = {}
    BY <2>1
  <2>6. PathMatches(Pattern, Ref.path) <=>
          \/ pc' # "fail" /\ PathRest(Pattern, Ref.path, at'[1] - 1, at'[2] - 1)
          \/ \E c \in DOMAIN choices' : Later(choices'[c])
    BY <2>1, <2>4, <2>5
  <2>7. QED
    BY <2>1, <2>6, SearchMoves DEF Search
<1>5. CASE TryAllow
  <2>1. /\ pc = "try" /\ side = "deny" /\ nth > Len(Rules.deny)
        /\ pc' = "try" /\ side' = "allow" /\ nth' = 1
    BY <1>5 DEF TryAllow
  <2>2. Rules \in Rule /\ nth \in Nat
    BY <2>1, RulesType DEF IInv, Deciding, Typed
  <2>3. \A n \in DOMAIN Rules.deny : n \in 1..(nth - 1)
    BY <2>1, <2>2 DEF Rule
  <2>4. \A n \in DOMAIN Rules.deny : ~ PathMatches(Rules.deny[n], Ref.path)
    BY <2>1, <2>3 DEF Search, RulesTried
  <2>5. RulesTried'
    BY <1>2, <2>1, <2>4 DEF RulesTried
  <2>6. QED
    BY <2>1, <2>5 DEF Search, SegmentSearch, PathSearch
<1>6. CASE NextPattern
  <2>1. /\ pc = "fail" /\ choices = <<>>
        /\ pc' = "try" /\ nth' = nth + 1 /\ side' = side
    BY <1>6 DEF NextPattern
  <2>2. ~ PathMatches(Rules[side][nth], Ref.path)
    BY <2>1 DEF Search, PathSearch, Pattern
  <2>3. \A n \in 1..nth : n \in 1..(nth - 1) \/ n = nth
    BY DEF IInv, Typed
  <2>4. \A n \in 1..nth : ~ PathMatches(Rules[side][n], Ref.path)
    BY <2>1, <2>2, <2>3 DEF Search, RulesTried
  <2>5. RulesTried'
    <3>1. \A n \in 1..(nth' - 1) : ~ PathMatches(Rules'[side'][n], Ref'.path)
      <4>1. nth' - 1 = nth
        BY <2>1 DEF IInv, Typed
      <4>2. QED
        BY <1>2, <2>1, <2>4, <4>1, Zenon
    <3>2. side' = "allow" =>
            \A n \in DOMAIN Rules'.deny : ~ PathMatches(Rules'.deny[n], Ref'.path)
      BY <1>2, <2>1 DEF Search, RulesTried
    <3>3. QED
      BY <2>1, <3>1, <3>2 DEF RulesTried
  <2>6. QED
    BY <2>1, <2>5 DEF Search, SegmentSearch, PathSearch
<1>7. QED
  BY <1>3, <1>4, <1>5, <1>6

(* At the beginning nothing is ruled out.                                  *)
LEMMA InitSearch == Init => Search
  BY DEF Init, Search, SegmentSearch, PathSearch, RulesTried

(* Every step keeps what has been established.                             *)
LEMMA StepSearch == IInv /\ Search /\ [Decide]_vars => Search'
<1> SUFFICES ASSUME IInv, Search, [Decide]_vars PROVE Search'
  OBVIOUS
<1>1. CASE FindRules \/ TryPattern \/ TryAllow \/ NextPattern
  BY <1>1, RulesSearch
<1>2. CASE UnknownBackend \/ NotAllowed \/ PathMatched
  BY <1>2 DEF UnknownBackend, NotAllowed, PathMatched, Verdict,
              Search, SegmentSearch, PathSearch, RulesTried
<1>3. CASE EnterDoubleStar \/ EnterSegment \/ DeadEnd \/ SkipOneMore \/ GiveUpSplit
  BY <1>3, EnterDoubleStarSearch, EnterSegmentSearch, DeadEndSearch,
     SkipOneMoreSearch, GiveUpSplitSearch
<1>4. CASE SeeStar \/ EatByte \/ Backtrack \/ TrailingStar
  BY <1>4, IterationSearch
<1>5. CASE SegmentMatched \/ SegmentFailed
  BY <1>5, SegmentSearched
<1>6. CASE UNCHANGED vars
  <2>1. /\ UNCHANGED <<scope, refs, verdicts, side, nth, at, pc, choices>>
        /\ UNCHANGED <<pi, si, star, backtrack>>
    BY <1>6 DEF vars
  <2>2. /\ Rules' = Rules /\ Pattern' = Pattern /\ Ref' = Ref /\ p' = p /\ s' = s
    BY <2>1, SameRules, SamePattern, SameRef, SameSegments
  <2>3. QED
    BY <2>1, <2>2 DEF Search, SegmentSearch, PathSearch, RulesTried, Later
<1>7. QED
  BY <1>1, <1>2, <1>3, <1>4, <1>5, <1>6 DEF Decide

-----------------------------------------------------------------------------
(* The first entry of the reference's backend, if it has one.              *)
LEMMA FirstEntry ==
  ASSUME IInv, Len(verdicts) < Len(refs)
  PROVE  LET mine == {e \in DOMAIN scope : scope[e].backend = Ref.backend}
         IN  /\ Entry = {} <=> mine = {}
             /\ Entry # {} => Rules = scope[CHOOSE e \in mine : \A f \in mine : e <= f]
<1> DEFINE mine == {e \in DOMAIN scope : scope[e].backend = Ref.backend}
           First(e) == e \in mine /\ \A f \in mine : e <= f
<1>1. scope \in Seq(Rule) /\ DOMAIN scope = 1..Len(scope) /\ Len(scope) \in Nat
  BY DEF IInv, Typed
<1>2. \A e : e \in Entry <=> First(e)
  <2>1. ASSUME NEW e \in Entry PROVE First(e)
    <3>1. e \in 1..Len(scope) /\ e \in mine
      BY <1>1, <2>1 DEF Entry
    <3>2. ASSUME NEW f \in mine PROVE e <= f
      <4>1. f \in 1..Len(scope) /\ scope[f].backend = Ref.backend
        BY <1>1, <3>2
      <4>2. f \notin 1..(e - 1)
        BY <2>1, <4>1 DEF Entry
      <4>3. QED
        BY <1>1, <3>1, <4>1, <4>2
    <3>3. QED
      BY <3>1, <3>2
  <2>2. ASSUME NEW e, First(e) PROVE e \in Entry
    <3>1. e \in 1..Len(scope) /\ scope[e].backend = Ref.backend
      BY <1>1, <2>2
    <3>2. ASSUME NEW f \in 1..(e - 1) PROVE scope[f].backend # Ref.backend
      <4>1. f \in DOMAIN scope /\ ~ (e <= f)
        BY <1>1, <3>1
      <4>2. QED
        BY <2>2, <4>1
    <3>3. QED
      BY <1>1, <3>1, <3>2 DEF Entry
  <2>3. QED
    BY <2>1, <2>2
<1>3. mine # {} => \E e : First(e)
  <2>1. mine \subseteq Nat
    BY <1>1
  <2>2. QED
    BY <2>1, LeastNatural
<1>4. \A e, f : First(e) /\ First(f) => e = f
  <2>1. mine \subseteq Nat
    BY <1>1
  <2> HIDE DEF mine
  <2>2. QED
    BY <2>1
<1> DEFINE a == CHOOSE e \in Entry : TRUE
           b == CHOOSE e \in mine : \A f \in mine : e <= f
<1>5. Entry = {} <=> mine = {}
  BY <1>2, <1>3
<1>6. ASSUME Entry # {} PROVE a = b
  <2>1. a \in Entry
    BY <1>6
  <2>2. First(a)
    BY <1>2, <2>1
  <2>3. First(b)
    <3> HIDE DEF a, mine
    <3>1. \E e \in mine : \A f \in mine : e <= f
      BY <2>2
    <3>2. QED
      BY <3>1
  <2> HIDE DEF First, a, b
  <2>4. QED
    BY <1>4, <2>2, <2>3
<1>7. Entry # {} => Rules = scope[b]
  <2>1. Rules = scope[a]
    BY DEF Rules
  <2> HIDE DEF a, b
  <2>2. QED
    BY <1>6, <2>1
<1>8. QED
  BY <1>5, <1>7

(* What `decide` is to answer, by the rules of the reference's backend.    *)
LEMMA DecisionIs ==
  ASSUME IInv, Len(verdicts) < Len(refs)
  PROVE  Decision(Ref) =
           IF Entry = {} THEN "UnknownBackend"
           ELSE IF Matching(Rules.deny, Ref.path) # {} THEN "DeniedByRule"
           ELSE IF Matching(Rules.allow, Ref.path) # {} THEN "Ok" ELSE "NotAllowed"
<1> DEFINE mine == {e \in DOMAIN scope : scope[e].backend = Ref.backend}
           rules == scope[CHOOSE e \in mine : \A f \in mine : e <= f]
<1>1. (Entry = {} <=> mine = {}) /\ (Entry # {} => Rules = rules)
  BY FirstEntry
<1>2. Decision(Ref) =
        IF mine = {} THEN "UnknownBackend"
        ELSE IF Matching(rules.deny, Ref.path) # {} THEN "DeniedByRule"
        ELSE IF Matching(rules.allow, Ref.path) # {} THEN "Ok" ELSE "NotAllowed"
  BY DEF Decision
<1> HIDE DEF mine, rules
<1>3. QED
  BY <1>1, <1>2

(* Every verdict is the documented one.                                    *)
LEMMA VerdictIsDecision ==
  ASSUME IInv, Search, UnknownBackend \/ NotAllowed \/ PathMatched
  PROVE  \E v : /\ verdicts' = Append(verdicts, v) /\ v.is = Decision(Ref)
                /\ Len(verdicts) < Len(refs) /\ scope' = scope /\ refs' = refs
<1>1. CASE UnknownBackend
  <2>1. Decision(Ref) = "UnknownBackend"
    BY <1>1, DecisionIs DEF UnknownBackend
  <2>2. [is |-> "UnknownBackend"].is = Decision(Ref)
    BY <2>1
  <2>3. QED
    BY <1>1, <2>2 DEF UnknownBackend, Verdict, input
<1>2. CASE NotAllowed
  <2>1. /\ pc = "try" /\ side = "allow" /\ nth > Len(Rules.allow)
        /\ Len(verdicts) < Len(refs) /\ Entry # {}
    BY <1>2 DEF NotAllowed, IInv, Deciding
  <2>2. Rules \in Rule /\ nth \in Nat
    BY <2>1, RulesType DEF IInv, Typed
  <2>3. \A n \in DOMAIN Rules.allow : n \in 1..(nth - 1)
    BY <2>1, <2>2 DEF Rule
  <2>4. \A n \in DOMAIN Rules.allow : ~ PathMatches(Rules.allow[n], Ref.path)
    BY <2>1, <2>3 DEF Search, RulesTried
  <2>5. \A n \in DOMAIN Rules.deny : ~ PathMatches(Rules.deny[n], Ref.path)
    BY <2>1 DEF Search, RulesTried
  <2>6. Matching(Rules.deny, Ref.path) = {} /\ Matching(Rules.allow, Ref.path) = {}
    BY <2>4, <2>5 DEF Matching
  <2>7. [is |-> "NotAllowed"].is = Decision(Ref)
    BY <2>1, <2>6, DecisionIs
  <2>8. QED
    BY <1>2, <2>1, <2>7 DEF NotAllowed, Verdict, input
<1>3. CASE PathMatched
  <2>1. /\ pc = "segments" /\ PatternExhausted /\ PathExhausted
        /\ Len(verdicts) < Len(refs) /\ Entry # {} /\ nth <= Len(Rules[side])
    BY <1>3 DEF PathMatched, IInv, Deciding, Placed
  <2>2. /\ Len(Pattern) \in Nat /\ Len(Ref.path) \in Nat
        /\ at[1] \in 1..Len(Pattern) + 1 /\ at[2] \in 1..Len(Ref.path) + 1
    BY <2>1, SearchStands
  <2>3. at[1] - 1 = Len(Pattern) /\ at[2] - 1 = Len(Ref.path)
    BY <2>1, <2>2, SMTT(30) DEF PatternExhausted, PathExhausted
  <2>4. PathRest(Pattern, Ref.path, at[1] - 1, at[2] - 1)
    BY <2>2, <2>3, PathRestCases
  <2>5. PathMatches(Rules[side][nth], Ref.path)
    BY <2>1, <2>4 DEF Search, PathSearch, Pattern
  <2>6. Rules \in Rule /\ nth \in Nat \ {0} /\ side \in {"deny", "allow"}
    BY <2>1, RulesType DEF IInv, Typed
  <2>7. nth \in DOMAIN Rules[side]
    BY <2>1, <2>6 DEF Rule
  <2>8. nth \in Matching(Rules[side], Ref.path)
    BY <2>5, <2>7 DEF Matching
  <2>9. CASE side = "deny"
    <3>1. Decision(Ref) = "DeniedByRule"
      BY <2>1, <2>8, <2>9, DecisionIs
    <3>2. [is |-> "DeniedByRule", pattern |-> nth].is = Decision(Ref)
      BY <3>1
    <3>3. verdicts' = Append(verdicts, [is |-> "DeniedByRule", pattern |-> nth])
      BY <1>3, <2>9 DEF PathMatched, Verdict
    <3>4. QED
      BY <1>3, <2>1, <3>2, <3>3 DEF PathMatched, input
  <2>10. CASE side = "allow"
    <3>1. \A n \in DOMAIN Rules.deny : ~ PathMatches(Rules.deny[n], Ref.path)
      BY <2>1, <2>10 DEF Search, RulesTried
    <3>2. Matching(Rules.deny, Ref.path) = {}
      BY <3>1 DEF Matching
    <3>3. Decision(Ref) = "Ok"
      BY <2>1, <2>8, <2>10, <3>2, DecisionIs
    <3>4. [is |-> "Ok"].is = Decision(Ref)
      BY <3>3
    <3>5. verdicts' = Append(verdicts, [is |-> "Ok"])
      BY <1>3, <2>10 DEF PathMatched, Verdict
    <3>6. QED
      BY <1>3, <2>1, <3>4, <3>5 DEF PathMatched, input
  <2>11. QED
    BY <2>6, <2>9, <2>10
<1>4. QED
  BY <1>1, <1>2, <1>3

(* scope.rs, decide and glob_match: whatever the scope and the references, *)
(* every one is decided as the rules say.  No backtracking in a segment    *)
(* and no split of the path at a `**` loses a match or invents one.        *)
THEOREM DecisionsAreDocumented == Spec => []DecidesAsDocumented
<1>1. Init => DecidesAsDocumented
  BY DEF Init, DecidesAsDocumented
<1>2. ASSUME IInv, Search, DecidesAsDocumented, [Decide]_vars
      PROVE  DecidesAsDocumented'
  <2>1. CASE UnknownBackend \/ NotAllowed \/ PathMatched
    <3>1. PICK v : /\ verdicts' = Append(verdicts, v) /\ v.is = Decision(Ref)
                   /\ Len(verdicts) < Len(refs) /\ scope' = scope /\ refs' = refs
      BY <1>2, <2>1, VerdictIsDecision
    <3>2. \A n : Decision(refs[n])' = Decision(refs[n])
      BY <3>1 DEF Decision
    <3>3. verdicts \in Seq(VerdictRecord)
      BY <1>2 DEF IInv, Typed
    <3>4. /\ DOMAIN verdicts' = DOMAIN verdicts \cup {Len(verdicts) + 1}
          /\ \A n \in DOMAIN verdicts : verdicts'[n] = verdicts[n]
          /\ verdicts'[Len(verdicts) + 1] = v
      BY <3>1, <3>3
    <3>5. verdicts'[Len(verdicts) + 1].is = Decision(refs[Len(verdicts) + 1])
      BY <3>1, <3>4 DEF Ref
    <3>6. QED
      BY <1>2, <3>2, <3>4, <3>5 DEF DecidesAsDocumented
  <2>2. CASE ~ (UnknownBackend \/ NotAllowed \/ PathMatched)
    <3>1. UNCHANGED <<scope, refs, verdicts>>
      BY <1>2, <2>2
        DEF Decide, FindRules, TryPattern, TryAllow, NextPattern, EnterDoubleStar,
            EnterSegment, DeadEnd, SkipOneMore, GiveUpSplit, SeeStar, EatByte,
            Backtrack, TrailingStar, SegmentMatched, SegmentFailed, Looping,
            input, vars
    <3>2. \A n : Decision(refs[n])' = Decision(refs[n])
      BY <3>1 DEF Decision
    <3>3. QED
      BY <1>2, <3>1, <3>2 DEF DecidesAsDocumented
  <2>3. QED
    BY <2>1, <2>2
<1>3. IInv /\ Search /\ DecidesAsDocumented /\ [Decide]_vars => DecidesAsDocumented'
  BY <1>2
<1>4. QED
  BY Invariant, InitSearch, StepSearch, <1>1, <1>3, PTL DEF Spec
=============================================================================
