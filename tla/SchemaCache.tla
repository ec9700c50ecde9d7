----------------------------- MODULE SchemaCache -----------------------------
(***************************************************************************)
(* The entry- and byte-bounded LRU cache of compiled schemas and their     *)
(* prefix checkpoints (src/src/engine/schema_cache.cpp).  The class is not *)
(* thread-safe: the engine calls it with its inference mutex held, so each *)
(* member function is one action.                                          *)
(*                                                                         *)
(* An entry is immutable and shared (shared_ptr<const ...>), so it is a    *)
(* value here, and the byte count a node stores beside it is               *)
(* CheckpointBytes of the entry.                                           *)
(*                                                                         *)
(* Operators named X_Y are mistaken variants of X; no specification uses   *)
(* them: each shows that some property tells X from X_Y.                   *)
(***************************************************************************)
EXTENDS Integers, FiniteSets, Sequences, SequencesExt

CONSTANTS
  Key,              \* schema keys: model|template|canonical schema
  Entry,            \* what can be put: a compiled schema with its checkpoint
  NoEntry,          \* the null pointer get returns on a miss
  CheckpointBytes,  \* [Entry -> Nat], checkpoint_bytes of the source
  MaxEntries,       \* options.max_entries
  MaxBytes,         \* options.max_bytes
  FailureBound      \* bound on the failures counted for one key

FailuresBeforeDisable == 2

ASSUME CacheAssumption ==
  /\ IsFiniteSet(Key)
  /\ NoEntry \notin Entry
  /\ CheckpointBytes \in [Entry -> Nat]
  /\ MaxEntries \in Nat
  /\ MaxBytes \in Nat
  /\ FailureBound \in Nat

VARIABLES
  recency,          \* keys, front = most recently used
  index,            \* key -> entry
  restoreFailures,  \* key -> restore failures counted (0 when absent)
  totalBytes,
  returned          \* what the last get handed to its caller

cacheVars == <<recency, index, restoreFailures, totalBytes, returned>>

-----------------------------------------------------------------------------
\* The bytes of the keys S of index idx: a sum, written as the size of a
\* disjoint union so that no recursion is needed.
Units(idx, S) == UNION {{k} \X (1 .. CheckpointBytes[idx[k]]) : k \in S}
BytesOf(idx, S) == Cardinality(Units(idx, S))

Cached == DOMAIN index
Disabled_OffByOne(k) == restoreFailures[k] > FailuresBeforeDisable
Disabled(k) == restoreFailures[k] >= FailuresBeforeDisable

\* The list without k's node (the node holds its own list iterator).
WithoutKey(r, k) ==
  IF k \in ToSet(r) THEN RemoveAt(r, CHOOSE i \in DOMAIN r : r[i] = k) ELSE r

Init ==
  /\ recency = <<>>
  /\ index = [k \in {} |-> NoEntry]
  /\ restoreFailures = [k \in Key |-> 0]
  /\ totalBytes = 0
  /\ returned = NoEntry

Spliced_Duplicating(k) == <<k>> \o recency
Spliced_NotMoving(k) == recency

\* splice: the node itself moves to the front.
Spliced(k) == <<k>> \o WithoutKey(recency, k)

Get(k) ==
  /\ returned' = IF k \in Cached THEN index[k] ELSE NoEntry
  /\ recency' = IF k \in Cached THEN Spliced(k) ELSE recency
  /\ UNCHANGED <<index, restoreFailures, totalBytes>>

Refused_DisabledIgnored(k, e) == CheckpointBytes[e] > MaxBytes \/ MaxEntries = 0

Refused(k, e) ==
  Disabled(k) \/ CheckpointBytes[e] > MaxBytes \/ MaxEntries = 0

Room_OffByOne(n, kept, incoming) == n <= MaxEntries /\ kept + incoming <= MaxBytes

\* The loop condition of evict_to_fit, negated: n kept entries and `kept`
\* bytes leave room for one more entry of `incoming` bytes.
Room(n, kept, incoming) == n + 1 <= MaxEntries /\ kept + incoming <= MaxBytes

\* put without its remove_node: the key is listed again, and emplace leaves
\* the node that is there.
Store_NotReplacing(k, e) ==
  LET kept(n)  == totalBytes - BytesOf(index, ToSet(SubSeq(recency, n + 1, Len(recency))))
      room(n)  == Room(n, kept(n), CheckpointBytes[e])
  IN  \E n \in 0 .. Len(recency) :
        /\ n = 0 \/ room(n)
        /\ \A m \in n + 1 .. Len(recency) : ~room(m)
        /\ recency' = <<k>> \o SubSeq(recency, 1, n)
        /\ index' = [x \in {k} \cup ToSet(SubSeq(recency, 1, n)) |->
                       IF x \in ToSet(SubSeq(recency, 1, n)) THEN index[x] ELSE e]
        /\ totalBytes' = kept(n) + CheckpointBytes[e]
        /\ UNCHANGED <<restoreFailures, returned>>

\* put, accepted: drop the key's own node, evict from the back of the list
\* until there is room or the list is empty, push the key to the front.
Store(k, e) ==
  LET r        == WithoutKey(recency, k)
      before   == totalBytes - BytesOf(index, {k} \cap Cached)
      kept(n)  == before - BytesOf(index, ToSet(SubSeq(r, n + 1, Len(r))))
      room(n)  == Room(n, kept(n), CheckpointBytes[e])
  IN  \E n \in 0 .. Len(r) :
        /\ n = 0 \/ room(n)
        /\ \A m \in n + 1 .. Len(r) : ~room(m)
        /\ recency' = <<k>> \o SubSeq(r, 1, n)
        /\ index' = [x \in {k} \cup ToSet(SubSeq(r, 1, n)) |->
                       IF x = k THEN e ELSE index[x]]
        /\ totalBytes' = kept(n) + CheckpointBytes[e]
        /\ UNCHANGED <<restoreFailures, returned>>

Put(k, e) ==
  IF Refused(k, e) THEN UNCHANGED cacheVars ELSE Store(k, e)

RemoveNode_SubtractingTwice(k) ==
  /\ recency' = WithoutKey(recency, k)
  /\ index' = Restrict(index, Cached \ {k})
  /\ totalBytes' = totalBytes - 2 * BytesOf(index, {k} \cap Cached)

\* remove_node, if the key is there.
RemoveNode(k) ==
  /\ recency' = WithoutKey(recency, k)
  /\ index' = Restrict(index, Cached \ {k})
  /\ totalBytes' = totalBytes - BytesOf(index, {k} \cap Cached)

Erase(k) == RemoveNode(k) /\ UNCHANGED <<restoreFailures, returned>>

RecordRestoreFailure(k) ==
  /\ restoreFailures[k] < FailureBound
  /\ RemoveNode(k)
  /\ restoreFailures' = [restoreFailures EXCEPT ![k] = @ + 1]
  /\ UNCHANGED returned

Clear_KeepingTotal ==
  /\ recency' = <<>>
  /\ index' = [k \in {} |-> NoEntry]
  /\ restoreFailures' = [k \in Key |-> 0]
  /\ UNCHANGED <<totalBytes, returned>>

Clear ==
  /\ recency' = <<>>
  /\ index' = [k \in {} |-> NoEntry]
  /\ restoreFailures' = [k \in Key |-> 0]
  /\ totalBytes' = 0
  /\ UNCHANGED returned

Next ==
  \/ \E k \in Key : Get(k)
  \/ \E k \in Key, e \in Entry : Put(k, e)
  \/ \E k \in Key : Erase(k)
  \/ \E k \in Key : RecordRestoreFailure(k)
  \/ Clear

Spec == Init /\ [][Next]_cacheVars

-----------------------------------------------------------------------------
\* Types of the members; totalBytes is a size_t, so it must never go below 0.
TypeOK ==
  /\ recency \in Seq(Key)
  /\ Cached \subseteq Key
  /\ index \in [Cached -> Entry]
  /\ restoreFailures \in [Key -> 0 .. FailureBound]
  /\ totalBytes \in Nat
  /\ returned \in Entry \cup {NoEntry}

\* The list and the map describe the same keys, each key once: what splice,
\* remove_node and evict_to_fit rely on when they follow an iterator or look
\* the back of the list up in the map.
RecencyListsIndex ==
  /\ ToSet(recency) = Cached
  /\ \A i, j \in DOMAIN recency : recency[i] = recency[j] => i = j

\* total_bytes_ is exactly the bytes of what is cached, through every mix of
\* replacement, eviction, erasure, failure and clear.
BytesAccounted == totalBytes = BytesOf(index, Cached)

\* Neither limit is ever exceeded: what evict_to_fit is for.
WithinLimits == Cardinality(Cached) <= MaxEntries /\ totalBytes <= MaxBytes

\* A key disabled by two restore failures stays out of the cache until clear.
DisabledNotCached == \A k \in Key : Disabled(k) => k \notin Cached
=============================================================================
