---------------------------- MODULE CandidateTree ----------------------------
(***************************************************************************)
(* The control of pcd::CandidateState (src/src/engine/scorer.cpp): which   *)
(* candidates of one field are live, which path of tokens they share, and  *)
(* who wins.  A state is a record, so that the engine can hold one state   *)
(* per field; the probabilities are in module CandidateState.              *)
(*                                                                         *)
(*   candidates  the token sequences of the choices, 1-based               *)
(*   live        the indices still in the race                             *)
(*   consumed    the tokens of the winning path (consumed_)                *)
(*   levels      advances that consumed a token (levels_)                  *)
(*   winner      the winning index, 0 while unresolved (winner_)           *)
(*                                                                         *)
(* Operators named X_Y are mistaken variants of X that only show that some *)
(* property tells X from X_Y.                                              *)
(***************************************************************************)
EXTENDS Integers, Sequences, FiniteSets, FiniteSetsExt

Resolved(s) == s.winner # 0

Finish(s, i) == [s EXCEPT !.live = {}, !.winner = i]

\* A single candidate wins before anything is scored.
Start(candidates) ==
  LET s == [candidates |-> candidates, live |-> DOMAIN candidates,
            consumed |-> <<>>, levels |-> 0, winner |-> 0]
  IN  IF Len(candidates) = 1 THEN Finish(s, 1) ELSE s

Exhausted(s) == {i \in s.live : s.levels >= Len(s.candidates[i])}

NextToken(s, i) == s.candidates[i][s.levels + 1]
Tokens(s) == {NextToken(s, i) : i \in s.live}
Group(s, t) == {i \in s.live : NextToken(s, i) = t}

Won(s) == IF Cardinality(s.live) = 1 THEN Finish(s, CHOOSE i \in s.live : TRUE) ELSE s

Descend_NotDeeper(s, t) == Won([s EXCEPT !.live = Group(s, t)])
Descend_LosersKept(s, t) ==
  Won([s EXCEPT !.consumed = Append(@, t), !.levels = @ + 1,
                !.live = {i \in @ : s.levels + 1 < Len(s.candidates[i])} \cup Group(s, t)])

\* advance, when token t scores best: its group stays live, one level deeper,
\* and wins at once if it is one candidate.
Descend(s, t) ==
  Won([s EXCEPT !.live = Group(s, t), !.consumed = Append(@, t), !.levels = @ + 1])

\* advance, when a live candidate has no token left: the first such wins.
TakeExhausted(s) == Finish(s, Min(Exhausted(s)))

\* What advance may do, over all the logits it may be given.
Advanced(s) ==
  IF Exhausted(s) # {} THEN {TakeExhausted(s)}
  ELSE {Descend(s, t) : t \in Tokens(s)}

ForceResolve_FirstChoice(s) == IF Resolved(s) THEN s ELSE Finish(s, 1)

\* force_resolve: the first live candidate wins.
ForceResolve(s) == IF Resolved(s) THEN s ELSE Finish(s, Min(s.live))
=============================================================================
