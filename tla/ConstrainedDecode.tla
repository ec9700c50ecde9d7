-------------------------- MODULE ConstrainedDecode --------------------------
(***************************************************************************)
(* What a decode promises, without caches, memory, batches or passes:      *)
(* every field of the request starts with all of its choices and moves on  *)
(* its own, one legal advance at a time, until one choice is left; only a  *)
(* field that is still open after Limit advances is settled by force; and  *)
(* a request is answered for all of its fields or for none.                *)
(***************************************************************************)
EXTENDS CandidateTree

CONSTANTS
  Request,
  NoRequest,
  ChoicesOf,    \* request -> sequence of the fields' candidate lists
  Limit        \* advances after which an open field is settled

VARIABLES
  request,   \* the request being served, or NoRequest
  trees,     \* its fields' states, <<>> before they are scored
  answered   \* the answer is complete

decodeVars == <<request, trees, answered>>

Init == request = NoRequest /\ trees = <<>> /\ answered = FALSE

Accept ==
  /\ request = NoRequest
  /\ request' \in Request
  /\ UNCHANGED <<trees, answered>>

Open ==
  /\ request # NoRequest /\ trees = <<>>
  /\ trees' = [f \in DOMAIN ChoicesOf[request] |-> Start(ChoicesOf[request][f])]
  /\ UNCHANGED <<request, answered>>

Score ==
  /\ trees # <<>>
  /\ ~answered
  /\ DOMAIN trees' = DOMAIN trees
  /\ \A f \in DOMAIN trees :
       \/ trees'[f] = trees[f]
       \/ ~Resolved(trees[f]) /\ trees'[f] \in Advanced(trees[f])
  /\ UNCHANGED <<request, answered>>

Settle ==
  /\ trees # <<>>
  /\ ~answered
  /\ \A f \in DOMAIN trees : Resolved(trees[f]) \/ trees[f].levels = Limit
  /\ trees' = [f \in DOMAIN trees |-> ForceResolve(trees[f])]
  /\ answered' = TRUE
  /\ UNCHANGED request

\* The answer is returned, or the request fails at any point before.
End ==
  /\ request # NoRequest
  /\ request' = NoRequest /\ trees' = <<>> /\ answered' = FALSE

Next == Accept \/ Open \/ Score \/ Settle \/ End
Spec == Init /\ [][Next]_decodeVars
=============================================================================
