------------------------------ MODULE LossyMap ------------------------------
(***************************************************************************)
(* What a decode may assume of the schema cache, whatever its bounds and   *)
(* eviction order are: a map that may forget at any write, and that never  *)
(* answers with anything but the last entry it accepted for that very key. *)
(***************************************************************************)
CONSTANTS Key, Entry, NoEntry

VARIABLES
  latest,    \* key -> the last entry accepted for it
  present,   \* the keys not forgotten
  returned   \* the answer of the last lookup

mapVars == <<latest, present, returned>>

Init ==
  /\ latest = [k \in Key |-> NoEntry]
  /\ present = {}
  /\ returned = NoEntry

Lookup(k) ==
  /\ returned' = IF k \in present THEN latest[k] ELSE NoEntry
  /\ UNCHANGED <<latest, present>>

\* Other keys may be forgotten to make place for the new entry.
Accept(k, e) ==
  /\ latest' = [latest EXCEPT ![k] = e]
  /\ k \in present'
  /\ present' \subseteq present \cup {k}
  /\ UNCHANGED returned

Forget ==
  /\ present' \subseteq present
  /\ UNCHANGED <<latest, returned>>

Next ==
  \/ \E k \in Key : Lookup(k)
  \/ \E k \in Key, e \in Entry : Accept(k, e)
  \/ Forget

Spec == Init /\ [][Next]_mapVars
=============================================================================
