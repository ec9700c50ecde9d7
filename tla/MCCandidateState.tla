-------------------------- MODULE MCCandidateState --------------------------
(***************************************************************************)
(* CandidateState on every list of one to three distinct candidates taken  *)
(* from a tree of strings three tokens deep, prefixes of one another       *)
(* included.                                                               *)
(***************************************************************************)
EXTENDS CandidateState

Strings ==
  {<<1>>, <<3>>, <<1, 1>>, <<1, 2>>, <<2, 1>>, <<1, 1, 1>>, <<1, 1, 2>>}

MCCandidateLists ==
  UNION {{c \in [1 .. n -> Strings] : \A i, j \in 1 .. n : i # j => c[i] # c[j]}
           : n \in 1 .. 3}

MCWeights == {0, 1, 2}

\* Groups of one, two and three.
MCSplit == 6
=============================================================================
