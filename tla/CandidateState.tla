---------------------------- MODULE CandidateState ----------------------------
(***************************************************************************)
(* pcd::CandidateState (src/src/engine/scorer.cpp) with its probabilities: *)
(* advance called with arbitrary logits, and force_resolve at any time.    *)
(*                                                                         *)
(* Softmax weights are integers of Weights.  Probabilities are rationals   *)
(* with one denominator: p is p/unit, and a level that divides multiplies  *)
(* the denominator by what it divides by, so that nothing is rounded.  A   *)
(* weight is zero where exp underflows.  A logit that is NaN or +infinity, *)
(* or logits that are all -infinity, make every weight NaN:                *)
(* AdvanceUndefined.  The rounding of doubles is outside the model.        *)
(***************************************************************************)
EXTENDS CandidateTree, Functions

CONSTANTS
  CandidateLists,  \* the token lists a field may have
  Weights,         \* the values exp(logit - max) may take, scaled to integers
  Split,           \* a common multiple of the sizes that groups may have
  NaN              \* a probability that is not a number

\* Tokens are ids of the vocabulary; validation lets no field be without choices.
ASSUME StateAssumption ==
  /\ \A c \in CandidateLists : c \in Seq(Seq(Nat)) /\ c # <<>>
  /\ Weights \subseteq Nat
  /\ Split \in Nat \ {0}
  /\ \A c \in CandidateLists : \A n \in 1 .. Len(c) : Split % n = 0
  /\ NaN \notin Int

VARIABLES
  tree,           \* the control state, see CandidateTree
  unit,           \* the integer that stands for probability 1
  probabilities,  \* probabilities_, in 1/unit
  liveMass,       \* live_mass_, in 1/unit
  finite          \* history: the weights of every level were numbers

stateVars == <<tree, unit, probabilities, liveMass, finite>>

Indices == DOMAIN tree.candidates

\* The constructor; finish(0) of a single candidate hands it all the mass.
Init ==
  \E c \in CandidateLists :
    /\ tree = Start(c)
    /\ unit = 1
    /\ probabilities = [i \in DOMAIN c |-> IF Len(c) = 1 THEN 1 ELSE 0]
    /\ liveMass = IF Len(c) = 1 THEN 0 ELSE 1
    /\ finite = TRUE

\* finish: the winner takes the mass that is still live.
FinishMass(winner, mass, shares) ==
  /\ probabilities' = [shares EXCEPT ![winner] = mass]
  /\ liveMass' = 0

AdvanceExhausted ==
  /\ ~Resolved(tree)
  /\ Exhausted(tree) # {}
  /\ tree' = TakeExhausted(tree)
  /\ FinishMass(tree'.winner, liveMass, probabilities)
  /\ UNCHANGED <<unit, finite>>

\* The first token in token order whose weight no other exceeds.
Best(w) == Min({t \in DOMAIN w : \A u \in DOMAIN w : w[u] <= w[t]})

\* A probability when the denominator becomes k times as large.
Scaled(p, k) == IF p = NaN THEN NaN ELSE p * k

\* A losing group's mass, split evenly over its members.
Shares_NotSplit(w, k) ==
  [i \in Indices |->
     IF i \in tree.live /\ NextToken(tree, i) # Best(w)
     THEN liveMass * w[NextToken(tree, i)] * Split
     ELSE Scaled(probabilities[i], k)]

Shares(w, k) ==
  [i \in Indices |->
     IF i \in tree.live /\ NextToken(tree, i) # Best(w)
     THEN liveMass * w[NextToken(tree, i)]
            * (Split \div Cardinality(Group(tree, NextToken(tree, i))))
     ELSE Scaled(probabilities[i], k)]

KeptMass(w) == liveMass * w[Best(w)] * Split

\* What both outcomes of a level do: go down to token, and finish if that
\* leaves one candidate.
Settle(token, kept, shares) ==
  /\ tree' = Descend(tree, token)
  /\ IF Resolved(tree')
     THEN FinishMass(tree'.winner, kept, shares)
     ELSE probabilities' = shares /\ liveMass' = kept

AdvanceScored ==
  /\ ~Resolved(tree)
  /\ Exhausted(tree) = {}
  /\ \E w \in [Tokens(tree) -> Weights] :
       /\ \E t \in DOMAIN w : w[t] > 0
       /\ LET k == SumFunction(w) * Split
          IN  unit' = unit * k /\ Settle(Best(w), KeptMass(w), Shares(w, k))
  /\ UNCHANGED finite

\* No NaN is greater than the -1.0 the search for the best starts from: the
\* first token stays the best, its probability stays -1.0.
AdvanceUndefined ==
  /\ ~Resolved(tree)
  /\ Exhausted(tree) = {}
  /\ LET first == Min(Tokens(tree))
     IN  Settle(first, -liveMass,
                [i \in Indices |->
                   IF i \in tree.live \ Group(tree, first)
                   THEN NaN ELSE probabilities[i]])
  /\ finite' = FALSE
  /\ UNCHANGED unit

Advance == AdvanceExhausted \/ AdvanceScored \/ AdvanceUndefined

ForcedShares_ToAll(share) == [i \in Indices |-> share]

\* force_resolve splits the live mass evenly over the live candidates.
ForcedShares(share) ==
  [i \in Indices |-> IF i \in tree.live THEN share ELSE Scaled(probabilities[i], Split)]

Forced ==
  /\ ~Resolved(tree)
  /\ tree' = ForceResolve(tree)
  /\ unit' = unit * Split
  /\ LET share == liveMass * (Split \div Cardinality(tree.live))
     IN  FinishMass(tree'.winner, share, ForcedShares(share))
  /\ UNCHANGED finite

Next == Advance \/ Forced

Spec == Init /\ [][Next]_stateVars
FairSpec == Spec /\ WF_stateVars(Advance)

-----------------------------------------------------------------------------
IsPath(c) == Len(c) >= tree.levels /\ SubSeq(c, 1, tree.levels) = tree.consumed

\* While a field is open, the live candidates are exactly those whose tokens
\* begin with the path decoded so far, and at least two are left: what makes
\* it right to score all of them from the logits of one sequence.  A resolved
\* field's winner lies on that path, and nothing is live any more.  Both hold
\* for logits that are no numbers, too.
CandidatesFollowPath ==
  IF Resolved(tree)
  THEN tree.live = {} /\ IsPath(tree.candidates[tree.winner])
  ELSE /\ tree.live = {i \in Indices : IsPath(tree.candidates[i])}
       /\ Cardinality(tree.live) >= 2

\* As long as the logits are numbers, probabilities are never negative, and what
\* the losers got and what is still live is all of the mass, at every moment
\* (README.md:210, "sums to 1").
MassConserved ==
  finite =>
    /\ liveMass >= 0 /\ \A i \in Indices : probabilities[i] >= 0
    /\ SumFunction(probabilities) + liveMass = unit

Same(p, u, q, v) == IF p = NaN THEN q = NaN ELSE q # NaN /\ p * v = q * u

\* Once a candidate is out, its probability is final: neither a later level
\* nor finish nor force_resolve touches it.
EliminatedIsFinal ==
  [][\A i \in Indices : ~Resolved(tree) /\ i \notin tree.live
        => Same(probabilities[i], unit, probabilities'[i], unit')]_stateVars

\* Advancing alone resolves every field: each call wins, or goes one level
\* deeper into candidates that end.
EventuallyResolved == <>Resolved(tree)
=============================================================================
