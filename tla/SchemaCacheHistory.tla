-------------------------- MODULE SchemaCacheHistory --------------------------
(***************************************************************************)
(* SchemaCache with two history variables, kept from the calls alone and   *)
(* never from the cache's own list: the order in which the cached keys     *)
(* were last used, and the entry last accepted for every key.              *)
(***************************************************************************)
EXTENDS SchemaCache

VARIABLES
  older,   \* <<a, b>> \in older: both cached, a was last used before b
  latest   \* key -> the entry of the last put that was not refused

vars == <<cacheVars, older, latest>>

StillCached == {p \in older : p[1] \in Cached' /\ p[2] \in Cached'}

Used(k) ==
  {p \in StillCached : p[1] # k /\ p[2] # k} \cup ((Cached' \ {k}) \X {k})

HInit == Init /\ older = {} /\ latest = [k \in Key |-> NoEntry]

HGet(k) ==
  /\ Get(k)
  /\ older' = IF k \in Cached THEN Used(k) ELSE older
  /\ UNCHANGED latest

HPut(k, e) ==
  /\ Put(k, e)
  /\ older' = IF Refused(k, e) THEN older ELSE Used(k)
  /\ latest' = IF Refused(k, e) THEN latest ELSE [latest EXCEPT ![k] = e]

HForget ==
  /\ \/ \E k \in Key : Erase(k) \/ RecordRestoreFailure(k)
     \/ Clear
  /\ older' = StillCached
  /\ UNCHANGED latest

HNext ==
  \/ \E k \in Key : HGet(k)
  \/ \E k \in Key, e \in Entry : HPut(k, e)
  \/ HForget

HSpec == HInit /\ [][HNext]_vars

\* A put evicts the least recently used entries, where a use is a get that
\* found the entry or a put that stored it (schema_cache.cpp get, put), and
\* evict_to_fit takes no more of them than the two limits require.
PutEvictsOldestOnlyToFit ==
  [][\A k \in Key, e \in Entry : HPut(k, e) =>
       LET evicted == (Cached \ Cached') \ {k}
           kept    == (Cached \cap Cached') \ {k}
       IN  /\ evicted \X kept \subseteq older
           /\ evicted # {} => \E v \in evicted :
                /\ (evicted \ {v}) \X {v} \subseteq older
                /\ \/ Cardinality(kept \cup {k, v}) > MaxEntries
                   \/ BytesOf(index, kept \cup {v}) + CheckpointBytes[e] > MaxBytes
    ]_vars

\* The cache implements the lossy map: get answers with the entry last stored
\* for that key, or with null, never with an older or another key's entry.
Map == INSTANCE LossyMap WITH present <- Cached
ImplementsLossyMap == Map!Spec
=============================================================================
