----------------------------- MODULE ActiveModel -----------------------------
(***************************************************************************)
(* What ModelManager promises the requests that use it, without locks,     *)
(* owners or loading: one register, the active engine, which only loads    *)
(* that come later replace, and which every request reads as it is.        *)
(*                                                                         *)
(* Engines are numbered by the order in which their construction ended.    *)
(***************************************************************************)
EXTENDS Integers

CONSTANTS
  Thread,  \* requests at a time
  Engine   \* positive numbers

VARIABLES
  active,  \* the active engine, 0 if none
  told     \* thread -> the engine its request was last told is active, 0 if none

registerVars == <<active, told>>

Init == active \in Engine \cup {0} /\ told = [t \in Thread |-> 0]

Install ==
  /\ active' \in Engine
  /\ active' > active
  /\ UNCHANGED told

Tell(t) ==
  /\ told' = [told EXCEPT ![t] = active]
  /\ UNCHANGED active

\* The request of t is over.
Forget(t) ==
  /\ told' = [told EXCEPT ![t] = 0]
  /\ UNCHANGED active

Next == Install \/ \E t \in Thread : Tell(t) \/ Forget(t)
Spec == Init /\ [][Next]_registerVars
=============================================================================
