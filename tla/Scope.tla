-------------------------------- MODULE Scope --------------------------------
(***************************************************************************)
(* The allowlist of kawach-core (scope.rs), as authorize_all and the list  *)
(* of a backend run it: for each reference find the rules of its backend,  *)
(* try the deny patterns and then the allow patterns, match a pattern      *)
(* against the path segment by segment, and a segment byte by byte.        *)
(*                                                                         *)
(* `any` in match_segments is a search that comes back to its last `**`;   *)
(* the call stack is the sequence of the `**` it has gone through.  The    *)
(* local variables of match_one are variables here, with its indices from  *)
(* 0: pattern[pi] of the code is p[pi + 1].                                *)
(***************************************************************************)
EXTENDS Naturals, Sequences

CONSTANTS
  Byte,       \* what a segment is made of
  Wild,       \* the byte `*`
  Backend,    \* BackendId
  USIZE_MAX,  \* usize::MAX
  Requests    \* the scopes and the references to authorize under them

(* No segment is longer than usize::MAX, the `none` of match_one's star.   *)
Segment   == {t \in Seq(Byte) : Len(t) <= USIZE_MAX}
Rule      == [backend : Backend, allow : Seq(Seq(Segment)), deny : Seq(Seq(Segment))]
Reference == [backend : Backend, path : Seq(Segment)]

ASSUME ScopeAssumption ==
  /\ USIZE_MAX \in Nat
  /\ Requests \subseteq [scope : Seq(Rule), refs : Seq(Reference)]

VARIABLES
  scope,      \* Scope::backends: a sequence of [backend, allow, deny]
  refs,       \* the references to decide on: [backend, path]
  verdicts,   \* what `decide` returned for the first of them
  pc,         \* where the decision on the next one is
  side,       \* which patterns of the rules are being tried
  nth,        \* the pattern being tried
  at,         \* match_segments: the pattern's and the path's next segment
  choices,    \* match_segments: each `**` gone through, with its split point
  pi, si, star, backtrack  \* match_one

input   == <<scope, refs>>
pointer == <<pi, si, star, backtrack>>
vars    == <<scope, refs, verdicts, pc, side, nth, at, choices,
             pi, si, star, backtrack>>

DoubleStar == <<Wild, Wild>>

Ref     == refs[Len(verdicts) + 1]
(* The first entry for the backend, if there is one: `find`.               *)
Entry   == {e \in DOMAIN scope : /\ scope[e].backend = Ref.backend
                                 /\ \A f \in 1..(e - 1) : scope[f].backend # Ref.backend}
Rules   == scope[CHOOSE e \in Entry : TRUE]
Pattern == Rules[side][nth]
p       == Pattern[at[1]]
s       == Ref.path[at[2]]

Init ==
  /\ \E q \in Requests : scope = q.scope /\ refs = q.refs
  /\ verdicts = <<>>
  /\ pc = "decide" /\ side = "deny" /\ nth = 1
  /\ at = <<1, 1>> /\ choices = <<>>
  /\ pi = 0 /\ si = 0 /\ star = USIZE_MAX /\ backtrack = 0

(* Local variables begin at the same values in every call.                 *)
NoPointer == pi' = 0 /\ si' = 0 /\ star' = USIZE_MAX /\ backtrack' = 0

-----------------------------------------------------------------------------
(***************************************************************************)
(* decide.                                                                 *)
(***************************************************************************)
Verdict(v) ==
  /\ verdicts' = Append(verdicts, v)
  /\ pc' = "decide" /\ side' = "deny" /\ nth' = 1
  /\ at' = <<1, 1>> /\ choices' = <<>> /\ NoPointer

UnknownBackend ==
  /\ pc = "decide" /\ Len(verdicts) < Len(refs) /\ Entry = {}
  /\ Verdict([is |-> "UnknownBackend"])
  /\ UNCHANGED input

FindRules ==
  /\ pc = "decide" /\ Len(verdicts) < Len(refs) /\ Entry # {}
  /\ pc' = "try"
  /\ UNCHANGED <<input, verdicts, side, nth, at, choices, pointer>>

TryPattern ==
  /\ pc = "try" /\ nth <= Len(Rules[side])
  /\ pc' = "segments" /\ at' = <<1, 1>> /\ choices' = <<>>
  /\ UNCHANGED <<input, verdicts, side, nth, pointer>>

TryAllow ==
  /\ pc = "try" /\ nth > Len(Rules[side]) /\ side = "deny"
  /\ side' = "allow" /\ nth' = 1
  /\ UNCHANGED <<input, verdicts, pc, at, choices, pointer>>

NotAllowed ==
  /\ pc = "try" /\ nth > Len(Rules[side]) /\ side = "allow"
  /\ Verdict([is |-> "NotAllowed"])
  /\ UNCHANGED input

-----------------------------------------------------------------------------
(***************************************************************************)
(* match_segments.                                                         *)
(***************************************************************************)
PatternExhausted == at[1] > Len(Pattern)
PathExhausted    == at[2] > Len(Ref.path)

(* Both exhausted: the pattern matches, and the search for one ends.       *)
PathMatched ==
  /\ pc = "segments" /\ PatternExhausted /\ PathExhausted
  /\ Verdict(IF side = "deny" THEN [is |-> "DeniedByRule", pattern |-> nth]
             ELSE [is |-> "Ok"])
  /\ UNCHANGED input

(* `**` is first tried with no segment of the path.                        *)
EnterDoubleStar ==
  /\ pc = "segments" /\ ~ PatternExhausted /\ p = DoubleStar
  /\ choices' = Append(choices, at)
  /\ at' = <<at[1] + 1, at[2]>>
  /\ UNCHANGED <<input, verdicts, pc, side, nth, pointer>>

EnterSegment ==
  /\ pc = "segments" /\ ~ PatternExhausted /\ p # DoubleStar
  /\ ~ PathExhausted
  /\ pc' = "one"
  /\ UNCHANGED <<input, verdicts, side, nth, at, choices, pointer>>

DeadEnd ==
  /\ pc = "segments"
  /\ IF PatternExhausted THEN ~ PathExhausted
     ELSE p # DoubleStar /\ PathExhausted
  /\ pc' = "fail"
  /\ UNCHANGED <<input, verdicts, side, nth, at, choices, pointer>>

Last == choices[Len(choices)]

(* Bug: one split point too many.                                          *)
Mut_SkipOneMore ==
  /\ pc = "fail" /\ choices # <<>> /\ Last[2] <= Len(Ref.path) + 1
  /\ choices' = [choices EXCEPT ![Len(choices)] = <<Last[1], Last[2] + 1>>]
  /\ at' = <<Last[1] + 1, Last[2] + 1>>
  /\ pc' = "segments"
  /\ UNCHANGED <<input, verdicts, side, nth, pointer>>

(* The last `**` swallows one more segment of the path.                    *)
SkipOneMore ==
  /\ pc = "fail" /\ choices # <<>> /\ Last[2] <= Len(Ref.path)
  /\ choices' = [choices EXCEPT ![Len(choices)] = <<Last[1], Last[2] + 1>>]
  /\ at' = <<Last[1] + 1, Last[2] + 1>>
  /\ pc' = "segments"
  /\ UNCHANGED <<input, verdicts, side, nth, pointer>>

(* No split point of it matches: back to the `**` before.                  *)
GiveUpSplit ==
  /\ pc = "fail" /\ choices # <<>> /\ Last[2] > Len(Ref.path)
  /\ choices' = SubSeq(choices, 1, Len(choices) - 1)
  /\ UNCHANGED <<input, verdicts, pc, side, nth, at, pointer>>

NextPattern ==
  /\ pc = "fail" /\ choices = <<>>
  /\ pc' = "try" /\ nth' = nth + 1 /\ at' = <<1, 1>>
  /\ UNCHANGED <<input, verdicts, side, choices, pointer>>

-----------------------------------------------------------------------------
(***************************************************************************)
(* match_one.                                                              *)
(***************************************************************************)
InSegment == pc = "one" /\ si < Len(s)
PastIt    == pc = "one" /\ si >= Len(s)
OnStar    == pi < Len(p) /\ p[pi + 1] = Wild
OnByte    == pi < Len(p) /\ p[pi + 1] = s[si + 1]

Looping == UNCHANGED <<input, verdicts, pc, side, nth, at, choices>>

SeeStar ==
  /\ InSegment /\ OnStar
  /\ star' = pi /\ backtrack' = si /\ pi' = pi + 1
  /\ UNCHANGED si /\ Looping

EatByte ==
  /\ InSegment /\ ~ OnStar /\ OnByte
  /\ pi' = pi + 1 /\ si' = si + 1
  /\ UNCHANGED <<star, backtrack>> /\ Looping

(* Bug: the segment is not rewound to where the star would end.            *)
Mut_NoRewind ==
  /\ InSegment /\ ~ OnStar /\ ~ OnByte /\ star # USIZE_MAX
  /\ pi' = star + 1 /\ backtrack' = backtrack + 1 /\ si' = si + 1
  /\ UNCHANGED star /\ Looping

(* Bug: the star does not grow.                                            *)
Mut_NoGrowth ==
  /\ InSegment /\ ~ OnStar /\ ~ OnByte /\ star # USIZE_MAX
  /\ pi' = star + 1 /\ si' = backtrack
  /\ UNCHANGED <<star, backtrack>> /\ Looping

(* The last star swallows one more byte.                                   *)
Backtrack ==
  /\ InSegment /\ ~ OnStar /\ ~ OnByte /\ star # USIZE_MAX
  /\ pi' = star + 1 /\ backtrack' = backtrack + 1 /\ si' = backtrack'
  /\ UNCHANGED star /\ Looping

TrailingStar ==
  /\ PastIt /\ OnStar
  /\ pi' = pi + 1
  /\ UNCHANGED <<si, star, backtrack>> /\ Looping

SegmentMatched ==
  /\ PastIt /\ ~ OnStar /\ pi = Len(p)
  /\ at' = <<at[1] + 1, at[2] + 1>> /\ pc' = "segments" /\ NoPointer
  /\ UNCHANGED <<input, verdicts, side, nth, choices>>

SegmentFailed ==
  /\ \/ InSegment /\ ~ OnStar /\ ~ OnByte /\ star = USIZE_MAX
     \/ PastIt /\ ~ OnStar /\ pi # Len(p)
  /\ pc' = "fail" /\ NoPointer
  /\ UNCHANGED <<input, verdicts, side, nth, at, choices>>

-----------------------------------------------------------------------------
Decide ==
  \/ UnknownBackend \/ FindRules \/ TryPattern \/ TryAllow \/ NotAllowed
  \/ PathMatched \/ EnterDoubleStar \/ EnterSegment \/ DeadEnd
  \/ SkipOneMore \/ GiveUpSplit \/ NextPattern
  \/ SeeStar \/ EatByte \/ Backtrack
  \/ TrailingStar \/ SegmentMatched \/ SegmentFailed

Spec == Init /\ [][Decide]_vars

(* The code is one thread that runs to the end.                            *)
FairSpec == Spec /\ WF_vars(Decide)

-----------------------------------------------------------------------------
(***************************************************************************)
(* What a pattern means: a way of laying it over the text, each item on    *)
(* one item of the text and each star on any number of them.               *)
(***************************************************************************)
SegmentMatches(pat, text) ==
  \E f \in [0..Len(pat) -> 0..Len(text)] :
    /\ f[0] = 0 /\ f[Len(pat)] = Len(text)
    /\ \A i \in 1..Len(pat) :
         IF pat[i] = Wild THEN f[i - 1] <= f[i]
         ELSE f[i] = f[i - 1] + 1 /\ pat[i] = text[f[i]]

PathMatches(pat, path) ==
  \E f \in [0..Len(pat) -> 0..Len(path)] :
    /\ f[0] = 0 /\ f[Len(pat)] = Len(path)
    /\ \A i \in 1..Len(pat) :
         IF pat[i] = DoubleStar THEN f[i - 1] <= f[i]
         ELSE f[i] = f[i - 1] + 1 /\ SegmentMatches(pat[i], path[f[i]])

Matching(patterns, path) == {n \in DOMAIN patterns : PathMatches(patterns[n], path)}

(* The documented decision: no rules, no access; deny wins; allow grants.  *)
Decision(ref) ==
  LET mine  == {e \in DOMAIN scope : scope[e].backend = ref.backend}
      rules == scope[CHOOSE e \in mine : \A f \in mine : e <= f]
  IN IF mine = {} THEN "UnknownBackend"
     ELSE IF Matching(rules.deny, ref.path) # {} THEN "DeniedByRule"
     ELSE IF Matching(rules.allow, ref.path) # {} THEN "Ok" ELSE "NotAllowed"

-----------------------------------------------------------------------------
(* Types: the segments the search stands on are those of the pattern and   *)
(* the path or one past them, and the indices of match_one are in bounds.  *)
TypeOK ==
  /\ Len(verdicts) <= Len(refs)
  /\ \A n \in DOMAIN verdicts :
       verdicts[n].is \in {"Ok", "UnknownBackend", "DeniedByRule", "NotAllowed"}
  /\ pc \in {"decide", "try", "segments", "one", "fail"}
  /\ side \in {"deny", "allow"} /\ nth \in Nat \ {0}
  /\ pc \in {"segments", "one", "fail"} =>
       /\ at[1] \in 1..Len(Pattern) + 1 /\ at[2] \in 1..Len(Ref.path) + 1
       /\ \A c \in DOMAIN choices : /\ Pattern[choices[c][1]] = DoubleStar
                                    /\ choices[c][2] \in 1..Len(Ref.path) + 1
  /\ pc = "one" => /\ pi \in 0..Len(p) /\ si \in 0..Len(s)
                   /\ star \in 0..Len(p) \cup {USIZE_MAX}
                   /\ backtrack \in 0..Len(s)

(* scope.rs: each reference is decided as the rules say, a deny that       *)
(* matches before any allow, `*` within a segment and `**` over zero or    *)
(* more: neither the backtracking in a segment nor the search over split   *)
(* points loses a match or invents one.                                    *)
DecidesAsDocumented ==
  \A n \in DOMAIN verdicts : verdicts[n].is = Decision(refs[n])

(* How far match_one has come: the last star and the bytes it swallowed    *)
(* never go back, and while they stand still the pattern's index grows.    *)
Rank == (backtrack + (IF star = USIZE_MAX THEN 0 ELSE star + 1)) * (Len(p) + 1)
          + pi

(* scope.rs, match_one, "immune to the exponential blowup": every          *)
(* iteration raises a number that is bounded by the product of the         *)
(* lengths.                                                                *)
MatcherAdvances ==
  [][ pc = "one" /\ pc' = "one" =>
        /\ Rank' > Rank
        /\ Rank' <= (Len(s) + Len(p) + 1) * (Len(p) + 1) ]_vars

(* Every request is decided: the search through the split points ends.     *)
Ends == <>(Len(verdicts) = Len(refs))
=============================================================================
