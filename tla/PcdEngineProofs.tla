--------------------------- MODULE PcdEngineProofs ---------------------------
(***************************************************************************)
(* For all schemas, contexts, batch sizes, level limits and cache limits.  *)
(* Before it is shared, sequence 0 holds exactly the prefix and the        *)
(* context, whatever the cache and the native calls did, and the metric of *)
(* forward passes counts the calls (EInv).  While the fields are scored,   *)
(* every token follows its sequence's last, no field reads another's       *)
(* logits, the memory never exceeds the context, and the whole decode is   *)
(* one of ConstrainedDecode (SInv).  The decode's own checks never fail,   *)
(* every step of it leaves less to do, and its llama_decode calls are no   *)
(* more than the context has cells.                                        *)
(***************************************************************************)
EXTENDS PcdEngine, TLAPS, SequenceTheorems, FiniteSetTheorems, WellFoundedInduction

\* The theorems about the cache, whose history variables play no part here.
CP == INSTANCE SchemaCacheProofs WITH older <- {}, latest <- <<>>

-----------------------------------------------------------------------------
(* The engine's cache is the cache of those theorems. *)

\* The assumptions on the cache hold for the engine's.
LEMMA CacheAssumed == CP!CacheAssumption
<1>1. CheckpointBytes \in [Entry -> Nat]
  BY TextAssumption DEF CheckpointBytes, Entry
<1> QED  BY <1>1, TextAssumption DEF CP!CacheAssumption, CP!IsFiniteSet, IsFiniteSet, FailureBound

\* Lists of keys are the same on both sides.
LEMMA SameLists ==
  ASSUME NEW r, NEW k
  PROVE  Cache!ToSet(r) = CP!ToSet(r) /\ Cache!WithoutKey(r, k) = CP!WithoutKey(r, k)
<1>1. Cache!ToSet(r) = CP!ToSet(r)
  BY DEF Cache!ToSet, CP!ToSet
<1>2. \A s, i : Cache!RemoveAt(s, i) = CP!RemoveAt(s, i)
  BY DEF Cache!RemoveAt, CP!RemoveAt
<1>3. CASE k \in CP!ToSet(r)
  BY <1>1, <1>2, <1>3 DEF Cache!WithoutKey, CP!WithoutKey
<1>4. CASE k \notin CP!ToSet(r)
  BY <1>1, <1>4 DEF Cache!WithoutKey, CP!WithoutKey
<1> QED  BY <1>1, <1>3, <1>4

\* So are the byte counts and the conditions on them.
LEMMA SameCounts ==
  /\ Cache!Cached = CP!Cached
  /\ \A idx, S : Cache!BytesOf(idx, S) = CP!BytesOf(idx, S)
  /\ \A n, m, b : Cache!Room(n, m, b) <=> CP!Room(n, m, b)
  /\ \A k, e : Cache!Refused(k, e) <=> CP!Refused(k, e)
<1>1. Cache!Cached = CP!Cached
  BY DEF Cache!Cached, CP!Cached
<1>2. ASSUME NEW idx, NEW S PROVE Cache!BytesOf(idx, S) = CP!BytesOf(idx, S)
  <2>1. Cache!Units(idx, S) = CP!Units(idx, S)
    BY DEF Cache!Units, CP!Units
  <2> QED  BY <2>1 DEF Cache!BytesOf, CP!BytesOf, Cache!Cardinality, CP!Cardinality
<1>3. \A n, m, b : Cache!Room(n, m, b) <=> CP!Room(n, m, b)
  BY Zenon DEF Cache!Room, CP!Room
<1>4. \A k, e : Cache!Refused(k, e) <=> CP!Refused(k, e)
  BY Zenon DEF Cache!Refused, CP!Refused, Cache!Disabled, CP!Disabled,
               Cache!FailuresBeforeDisable, CP!FailuresBeforeDisable
<1> QED  BY <1>1, <1>2, <1>3, <1>4

\* The lookup is get.
LEMMA SameGet == ASSUME NEW k, Cache!Get(k) PROVE CP!Get(k)
  BY SameLists, SameCounts, Zenon DEF Cache!Get, CP!Get, Cache!Spliced, CP!Spliced

\* Publishing is put.
LEMMA SameStore == ASSUME NEW k, NEW e, Cache!Store(k, e) PROVE CP!Store(k, e)
<1> DEFINE w == CP!WithoutKey(recency, k)
           before == totalBytes - CP!BytesOf(index, {k} \cap CP!Cached)
           kept(n) == before - CP!BytesOf(index, CP!ToSet(SubSeq(w, n + 1, Len(w))))
<1>1. \A s : Cache!ToSet(s) = CP!ToSet(s)
  BY SameLists
<1>2. Cache!WithoutKey(recency, k) = w
  BY SameLists
<1>3. totalBytes - Cache!BytesOf(index, {k} \cap Cache!Cached) = before
  BY SameCounts
<1>4. \A n : before - Cache!BytesOf(index, Cache!ToSet(SubSeq(w, n + 1, Len(w)))) = kept(n)
  <2>1. \A S : Cache!BytesOf(index, S) = CP!BytesOf(index, S)
    BY SameCounts
  <2> QED  BY <1>1, <2>1, Zenon
<1>5. \A n : Cache!Room(n, kept(n), CheckpointBytes[e]) <=> CP!Room(n, kept(n), CheckpointBytes[e])
  <2> HIDE DEF kept
  <2> QED  BY SameCounts
<1> HIDE DEF w, before
<1> QED  BY <1>1, <1>2, <1>3, <1>4, <1>5, ZenonT(30) DEF Cache!Store, CP!Store, w, before

\* Counting a failure is record_restore_failure.
LEMMA SameFailure ==
  ASSUME NEW k, Cache!RecordRestoreFailure(k)
  PROVE  CP!RecordRestoreFailure(k) /\ CP!RemoveNode(k)
<1>1. CP!RemoveNode(k)
  BY SameLists, SameCounts, Zenon
  DEF Cache!RecordRestoreFailure, Cache!RemoveNode, CP!RemoveNode, Cache!Restrict, CP!Restrict
<1> QED  BY <1>1, Zenon DEF Cache!RecordRestoreFailure, CP!RecordRestoreFailure

-----------------------------------------------------------------------------
(* What is cached: every entry is its own key's prefix. *)

PrefixEntry(k) == [key |-> k, content |-> PrefixTokens(k)]

EntriesArePrefixes == \A k \in DOMAIN index : index[k] = PrefixEntry(k)

CacheSound == CP!IInv /\ EntriesArePrefixes

\* The cache starts empty.
LEMMA CacheStarts == ASSUME Cache!Init PROVE CacheSound
<1>1. CP!Init
  BY DEF Cache!Init, CP!Init
<1>2. DOMAIN index = {}
  BY DEF Cache!Init
<1> QED  BY <1>1, <1>2, CacheAssumed, CP!InitHolds DEF CacheSound, EntriesArePrefixes

\* A lookup finds the prefix of its key, or nothing.
LEMMA GetSound ==
  ASSUME CacheSound, NEW k \in Key, Cache!Get(k)
  PROVE  CacheSound' /\ returned' \in {NoEntry, PrefixEntry(k)}
<1>1. CP!IInv'
  BY SameGet, CacheAssumed, CP!GetKeeps DEF CacheSound
<1>2. index' = index /\ returned' \in {NoEntry, PrefixEntry(k)}
  BY DEF Cache!Get, Cache!Cached, CacheSound, EntriesArePrefixes
<1> QED  BY <1>1, <1>2 DEF CacheSound, EntriesArePrefixes

\* Publishing a prefix keeps the entries prefixes.
LEMMA PutSound ==
  ASSUME CacheSound, NEW k \in Key, Cache!Put(k, PrefixEntry(k))
  PROVE  CacheSound'
<1> DEFINE e == PrefixEntry(k)
<1>1. e \in Entry
  BY DEF Entry, PrefixEntry
<1>2. CASE Cache!Refused(k, e)
  <2>1. UNCHANGED <<recency, index, restoreFailures, totalBytes, returned>>
    BY <1>2 DEF Cache!Put, Cache!cacheVars
  <2>2. CP!IInv'
    <3>1. [CP!Next]_CP!cacheVars
      BY <2>1 DEF CP!cacheVars
    <3> QED  BY <3>1, CacheAssumed, CP!NextKeeps DEF CacheSound
  <2> QED  BY <2>1, <2>2 DEF CacheSound, EntriesArePrefixes
<1>3. CASE ~Cache!Refused(k, e)
  <2>1. CP!Store(k, e) /\ ~CP!Refused(k, e)
    BY <1>3, SameStore, SameCounts DEF Cache!Put
  <2>2. /\ CP!IInv' /\ CP!Cached' \subseteq CP!Cached \cup {k}
        /\ \A x \in CP!Cached' : index'[x] = IF x = k THEN e ELSE index[x]
    <3> HIDE DEF e
    <3> QED  BY <1>1, <2>1, CacheAssumed, CP!StoreKeeps DEF CacheSound
  <2> QED  BY <2>2 DEF CacheSound, EntriesArePrefixes, CP!Cached
<1> QED  BY <1>2, <1>3

\* A failure takes the key's entry out and touches no other.
LEMMA FailureSound ==
  ASSUME CacheSound, NEW k \in Key, Cache!RecordRestoreFailure(k)
  PROVE  CacheSound'
<1>1. CP!RecordRestoreFailure(k) /\ CP!RemoveNode(k)
  BY SameFailure
<1>2. CP!IInv'
  <2>1. CP!Next
    BY <1>1 DEF CP!Next
  <2> QED  BY <2>1, CacheAssumed, CP!NextKeeps DEF CacheSound
<1>3. \A x \in DOMAIN index' : x \in DOMAIN index /\ index'[x] = index[x]
  BY <1>1 DEF CP!RemoveNode, CP!Restrict, CP!Cached
<1> QED  BY <1>2, <1>3 DEF CacheSound, EntriesArePrefixes

-----------------------------------------------------------------------------
(* Chunks: what decode_single_sequence has written so far is the front     *)
(* part of its tokens, and its calls are as many as the formula says.      *)

\* min(chunk, tokens.size() - offset), as an end.
LEMMA MinOfTwo ==
  ASSUME NEW a \in Int, NEW b \in Int
  PROVE  Min({a, b}) = IF a <= b THEN a ELSE b
  BY DEF Min

\* What a chunk adds to the front part that is written.
LEMMA ChunkFacts ==
  ASSUME NEW S, NEW tokens \in Seq(S), offset \in Nat, offset < Len(tokens)
  PROVE  LET n == Len(Chunk(tokens))
         IN  /\ n \in 1 .. BatchSize /\ offset + n <= Len(tokens)
             /\ offset + n = Len(tokens) \/ n = BatchSize
             /\ SubSeq(tokens, 1, offset) \o Chunk(tokens) = SubSeq(tokens, 1, offset + n)
             /\ Chunk(tokens) \in Seq(S)
<1> DEFINE last == Min({offset + BatchSize, Len(tokens)})
<1>1. Len(tokens) \in Nat /\ BatchSize \in Nat \ {0} /\ \A i \in 1 .. Len(tokens) : tokens[i] \in S
  BY EngineAssumption, ElementOfSeq, LenProperties
<1>2. last = IF offset + BatchSize <= Len(tokens) THEN offset + BatchSize ELSE Len(tokens)
  BY <1>1, MinOfTwo
<1>3. last \in Nat /\ offset < last /\ last <= Len(tokens) /\ last <= offset + BatchSize
      /\ (last = Len(tokens) \/ last = offset + BatchSize)
  BY <1>1, <1>2
<1> HIDE DEF last
<1>4. Chunk(tokens) = SubSeq(tokens, offset + 1, last)
  BY DEF Chunk, last
<1>5. Chunk(tokens) \in Seq(S) /\ Len(Chunk(tokens)) = last - offset
  BY <1>1, <1>3, <1>4, SubSeqProperties
<1>6. SubSeq(tokens, 1, offset) \o Chunk(tokens) = SubSeq(tokens, 1, last)
  BY <1>1, <1>3, <1>4, ConcatAdjacentSubSeq
<1> QED  BY <1>1, <1>3, <1>5, <1>6

\* The ceiling the metric computes is the number of chunks.
LEMMA CeilingCounts ==
  ASSUME NEW n \in Nat, NEW m \in Nat, NEW b \in Nat \ {0}, m * b < n, n <= m * b + b
  PROVE  (n + b - 1) \div b = m + 1
  OBVIOUS

-----------------------------------------------------------------------------
(* The inductive invariant: what sequence 0 holds in every phase up to the  *)
(* broadcast, and how many calls have been made and counted.               *)

Token ==
  ({"prefix", "dynamic"} \X (Key \cup Context) \X Nat)
    \cup ({"suffix"} \X Nat \X Nat) \cup ({"candidate"} \X Nat \X {0})

ThePrefix == PrefixTokens(request.key)
TheContext == DynamicTokens(request.context)

Unwritten ==
  phase \in {"idle", "restore", "cold", "save", "broadcast", "score", "answer"} => offset = 0

\* Sequence 0.
Written0 ==
  /\ phase = "restore" => returned \in {NoEntry, PrefixEntry(request.key)}
  /\ phase = "restore" => mem[0] = <<>>
  /\ phase = "prefill" => offset < Len(ThePrefix) /\ mem[0] = SubSeq(ThePrefix, 1, offset)
  /\ phase = "save" => mem[0] = ThePrefix
  /\ phase = "dynamic" =>
       offset < Len(TheContext) /\ mem[0] = ThePrefix \o SubSeq(TheContext, 1, offset)
  /\ phase = "broadcast" => mem[0] = ThePrefix \o TheContext

\* A call for every BatchSize tokens that are not in forward_passes yet.
Counted ==
  /\ phase \in {"idle", "restore", "cold"} => forwardPasses = 0 /\ decodes = 0
  /\ \E m \in Nat : offset = m * BatchSize /\ decodes = forwardPasses + m
  /\ offset = 0 => decodes = forwardPasses

EInv ==
  /\ CacheSound
  /\ phase # "idle" => request \in Request
  /\ mem = [s \in Sequence |-> mem[s]]
  /\ offset \in Nat /\ forwardPasses \in Nat
  /\ Unwritten
  /\ Written0
  /\ Counted

\* Numbered tokens are a sequence.
LEMMA NumberedTokens ==
  ASSUME NEW n \in Nat \ {0}, NEW kind \in {"prefix", "dynamic"}, NEW what \in Key \cup Context
  PROVE  LET t == [i \in 1 .. n |-> <<kind, what, i>>] IN t \in Seq(Token) /\ Len(t) > 0
<1> DEFINE t == [i \in 1 .. n |-> <<kind, what, i>>]
<1>1. \A i \in 1 .. n : <<kind, what, i>> \in Token
  BY DEF Token
<1>2. t \in [1 .. n -> Token]
  BY <1>1
<1> HIDE DEF t
<1>3. t \in Seq(Token) /\ Len(t) = n
  BY <1>2
<1> QED  BY <1>3 DEF t

\* The two texts of a request are not empty.
LEMMA TextFacts ==
  ASSUME request \in Request
  PROVE  /\ request.key \in Key
         /\ ThePrefix \in Seq(Token) /\ Len(ThePrefix) > 0
         /\ TheContext \in Seq(Token) /\ Len(TheContext) > 0
         /\ SubSeq(ThePrefix, 1, 0) = <<>> /\ SubSeq(TheContext, 1, 0) = <<>>
         /\ ThePrefix \o <<>> = ThePrefix
<1>1. request.key \in Key /\ request.context \in Context
  BY DEF Request
<1>2. Schema[request.key].prefix \in Nat \ {0} /\ DynamicLength[request.context] \in Nat \ {0}
  BY <1>1, TextAssumption
<1>3. ThePrefix \in Seq(Token) /\ Len(ThePrefix) > 0
  BY <1>1, <1>2, NumberedTokens DEF ThePrefix, PrefixTokens
<1>4. TheContext \in Seq(Token) /\ Len(TheContext) > 0
  BY <1>1, <1>2, NumberedTokens DEF TheContext, DynamicTokens
<1>5. SubSeq(ThePrefix, 1, 0) = <<>> /\ SubSeq(TheContext, 1, 0) = <<>>
  BY SubSeqEmpty
<1>6. ThePrefix \o <<>> = ThePrefix
  BY <1>3, ConcatEmptySeq
<1> QED  BY <1>1, <1>3, <1>4, <1>5, <1>6

\* Nothing is cached, written or counted at first.
LEMMA EngineStarts == Init => EInv
<1> SUFFICES ASSUME Init PROVE EInv
  OBVIOUS
<1>1. CacheSound
  BY CacheStarts DEF Init
<1>2. \E m \in Nat : 0 = m * BatchSize /\ 0 = 0 + m
  BY EngineAssumption
<1> QED  BY <1>1, <1>2 DEF Init, EInv, Cleared, Unwritten, Written0, Counted

\* One chunk of a text: the memory gains it, and the calls and the metric
\* agree again when it is the last.
LEMMA ChunkStep ==
  ASSUME EInv, NEW tokens \in Seq(Token), offset < Len(tokens), DecodeChunk(tokens)
  PROVE  /\ mem' = [s \in Sequence |-> mem'[s]]
         /\ mem'[0] = mem[0] \o Chunk(tokens)
         /\ offset' \in Nat /\ forwardPasses' \in Nat
         /\ offset' # 0 => /\ offset' < Len(tokens)
                           /\ SubSeq(tokens, 1, offset) \o Chunk(tokens)
                                = SubSeq(tokens, 1, offset')
         /\ offset' = 0 => SubSeq(tokens, 1, offset) \o Chunk(tokens) = tokens
         /\ \E m \in Nat : offset' = m * BatchSize /\ decodes' = forwardPasses' + m
         /\ offset' = 0 => decodes' = forwardPasses'
<1> DEFINE n == Len(Chunk(tokens))
           done == offset + n
<1>1. /\ n \in 1 .. BatchSize /\ done <= Len(tokens)
      /\ done = Len(tokens) \/ n = BatchSize
      /\ SubSeq(tokens, 1, offset) \o Chunk(tokens) = SubSeq(tokens, 1, done)
  BY ChunkFacts DEF EInv
<1>2. /\ offset \in Nat /\ forwardPasses \in Nat /\ Len(tokens) \in Nat
      /\ BatchSize \in Nat \ {0}
  BY EngineAssumption, LenProperties DEF EInv
<1>3. PICK m \in Nat : offset = m * BatchSize /\ decodes = forwardPasses + m
  BY DEF EInv, Counted
<1>4. /\ mem' = [mem EXCEPT ![0] = @ \o Chunk(tokens)]
      /\ decodes' = decodes + 1
      /\ offset' = IF done = Len(tokens) THEN 0 ELSE done
      /\ forwardPasses' = forwardPasses + IF done = Len(tokens) THEN ChunkPasses(tokens) ELSE 0
  BY DEF DecodeChunk
<1> HIDE DEF n
<1>5. mem' = [s \in Sequence |-> mem'[s]] /\ mem'[0] = mem[0] \o Chunk(tokens)
  <2>1. mem = [s \in Sequence |-> mem[s]] /\ 0 \in Sequence
    BY DEF EInv, Sequence
  <2> QED  BY <1>4, <2>1, Zenon
<1>6. CASE done = Len(tokens)
  <2>1. m * BatchSize < Len(tokens) /\ Len(tokens) <= m * BatchSize + BatchSize
    BY <1>1, <1>2, <1>3, <1>6
  <2>2. ChunkPasses(tokens) = m + 1
    BY <1>2, <2>1, CeilingCounts DEF ChunkPasses
  <2>3. decodes' = forwardPasses' /\ forwardPasses' \in Nat
    BY <1>2, <1>3, <1>4, <1>6, <2>2
  <2>4. \E j \in Nat : offset' = j * BatchSize /\ decodes' = forwardPasses' + j
    <3>1. offset' = 0 * BatchSize /\ decodes' = forwardPasses' + 0
      BY <1>2, <1>4, <1>6, <2>3
    <3> QED  BY <3>1
  <2>5. SubSeq(tokens, 1, offset) \o Chunk(tokens) = tokens
    BY <1>1, <1>6, SubSeqFull
  <2> QED  BY <1>4, <1>5, <1>6, <2>3, <2>4, <2>5
<1>7. CASE done # Len(tokens)
  <2>1. offset' = done /\ done \in Nat /\ done # 0 /\ done < Len(tokens) /\ n = BatchSize
    BY <1>1, <1>2, <1>4, <1>7
  <2>2. forwardPasses' = forwardPasses
    BY <1>2, <1>4, <1>7
  <2>3. \E j \in Nat : offset' = j * BatchSize /\ decodes' = forwardPasses' + j
    <3>1. offset' = (m + 1) * BatchSize /\ decodes' = forwardPasses' + (m + 1)
      BY <1>2, <1>3, <1>4, <2>1, <2>2
    <3> QED  BY <3>1
  <2> QED  BY <1>1, <1>2, <1>5, <2>1, <2>2, <2>3
<1> QED  BY <1>6, <1>7

-----------------------------------------------------------------------------
(* Every step keeps the invariant. *)

\* A step that leaves the cache alone keeps it sound.
LEMMA CacheKept == ASSUME CacheSound, UNCHANGED cacheVars PROVE CacheSound'
<1>1. UNCHANGED CP!cacheVars /\ index' = index
  BY DEF cacheVars, CP!cacheVars
<1>2. CP!IInv'
  BY <1>1, CacheAssumed, CP!NextKeeps DEF CacheSound
<1> QED  BY <1>1, <1>2 DEF CacheSound, EntriesArePrefixes

\* Nothing is left to count when nothing has been written.
LEMMA NoneLeft ==
  ASSUME NEW written, NEW calls, NEW passes \in Nat, written = 0, calls = passes
  PROVE  \E m \in Nat : written = m * BatchSize /\ calls = passes + m
<1>1. written = 0 * BatchSize /\ calls = passes + 0
  BY EngineAssumption
<1> QED  BY <1>1

\* The lookup and the first clear_memory.
LEMMA BeginKeeps == ASSUME EInv, NEW r \in Request, Begin(r) PROVE EInv'
<1>1. r.key \in Key /\ phase = "idle" /\ Cache!Get(r.key)
  BY DEF Request, Begin
<1>2. CacheSound' /\ returned' \in {NoEntry, PrefixEntry(r.key)}
  BY <1>1, GetSound DEF EInv
<1>3. request' = r /\ phase' = "restore" /\ mem' = Cleared
      /\ UNCHANGED <<offset, forwardPasses, decodes>>
  BY DEF Begin, countVars
<1>4. mem' = [s \in Sequence |-> mem'[s]] /\ mem'[0] = <<>>
  BY <1>3 DEF Cleared, Sequence
<1> QED  BY <1>1, <1>2, <1>3, <1>4 DEF EInv, Unwritten, Written0, Counted

\* A refused request only touches the cache's order.
LEMMA RejectKeeps == ASSUME EInv, NEW r \in Request, Reject(r) PROVE EInv'
<1>1. r.key \in Key /\ phase = "idle" /\ Cache!Get(r.key)
      /\ UNCHANGED <<mem, phase, request, offset, forwardPasses, decodes>>
  BY DEF Request, Reject, countVars
<1>2. CacheSound'
  BY <1>1, GetSound DEF EInv
<1> QED  BY <1>1, <1>2 DEF EInv, Unwritten, Written0, Counted

\* A hit restores the prefix of the request's own key.
LEMMA RestoreHitKeeps == ASSUME EInv, RestoreHit PROVE EInv'
<1>1. /\ phase = "restore" /\ phase' = "dynamic"
      /\ returned = PrefixEntry(request.key)
      /\ mem' = [mem EXCEPT ![0] = returned.content]
      /\ UNCHANGED <<cacheVars, request, offset, forwardPasses, decodes>>
  BY DEF RestoreHit, EInv, Written0, countVars
<1>2. request \in Request /\ offset = 0 /\ forwardPasses = 0 /\ decodes = 0
  BY <1>1 DEF EInv, Unwritten, Counted
<1>3. mem' = [s \in Sequence |-> mem'[s]] /\ mem'[0] = ThePrefix
  <2>1. mem = [s \in Sequence |-> mem[s]] /\ 0 \in Sequence
    BY DEF EInv, Sequence
  <2>2. returned.content = ThePrefix
    BY <1>1 DEF PrefixEntry, ThePrefix
  <2> QED  BY <1>1, <2>1, <2>2, Zenon
<1>4. mem'[0] = ThePrefix' \o SubSeq(TheContext', 1, 0) /\ offset' < Len(TheContext')
  BY <1>1, <1>2, <1>3, TextFacts DEF ThePrefix, TheContext
<1>5. CacheSound'
  BY <1>1, CacheKept DEF EInv
<1>6. Counted'
  BY <1>1, <1>2, NoneLeft DEF Counted
<1> QED  BY <1>1, <1>2, <1>3, <1>4, <1>5, <1>6 DEF EInv, Unwritten, Written0

\* A failed restore takes the entry out; what it wrote is cleared later.
LEMMA RestoreFallbackKeeps == ASSUME EInv, RestoreFallback PROVE EInv'
<1>1. /\ phase = "restore" /\ phase' = "cold"
      /\ Cache!RecordRestoreFailure(request.key)
      /\ UNCHANGED <<request, offset, forwardPasses, decodes>>
      /\ \E x : mem' = [mem EXCEPT ![0] = x]
  BY DEF RestoreFallback, countVars
<1>2. request \in Request /\ request.key \in Key
  BY <1>1 DEF EInv, Request
<1>3. CacheSound'
  BY <1>1, <1>2, FailureSound DEF EInv
<1>4. mem' = [s \in Sequence |-> mem'[s]]
  <2>1. mem = [s \in Sequence |-> mem[s]]
    BY DEF EInv
  <2> QED  BY <1>1, <2>1, Zenon
<1> QED  BY <1>1, <1>2, <1>3, <1>4 DEF EInv, Unwritten, Written0, Counted

\* Nothing cached, nothing changed.
LEMMA RestoreMissKeeps == ASSUME EInv, RestoreMiss PROVE EInv'
<1>1. /\ phase = "restore" /\ phase' = "cold"
      /\ UNCHANGED <<cacheVars, mem, request, offset, forwardPasses, decodes>>
  BY DEF RestoreMiss, countVars
<1>2. CacheSound'
  BY <1>1, CacheKept DEF EInv
<1> QED  BY <1>1, <1>2 DEF EInv, Unwritten, Written0, Counted

\* The second clear_memory makes room for the cold prefill.
LEMMA ColdStartKeeps == ASSUME EInv, ColdStart PROVE EInv'
<1>1. /\ phase = "cold" /\ phase' = "prefill" /\ mem' = Cleared
      /\ UNCHANGED <<cacheVars, request, offset, forwardPasses, decodes>>
  BY DEF ColdStart, MemoryAfterFallback, countVars
<1>2. request \in Request /\ offset = 0
  BY <1>1 DEF EInv, Unwritten
<1>3. mem' = [s \in Sequence |-> mem'[s]] /\ mem'[0] = <<>>
  BY <1>1 DEF Cleared, Sequence
<1>4. mem'[0] = SubSeq(ThePrefix', 1, 0) /\ offset' < Len(ThePrefix')
  BY <1>1, <1>2, <1>3, TextFacts DEF ThePrefix
<1>5. CacheSound'
  BY <1>1, CacheKept DEF EInv
<1> QED  BY <1>1, <1>2, <1>3, <1>4, <1>5 DEF EInv, Unwritten, Written0, Counted

\* A chunk of the prefix; the last one completes it.
LEMMA PrefillKeeps == ASSUME EInv, Prefill PROVE EInv'
<1>1. /\ phase = "prefill" /\ DecodeChunk(ThePrefix)
      /\ phase' = IF offset' = 0 THEN "save" ELSE phase
      /\ UNCHANGED <<cacheVars, request>>
  BY DEF Prefill, ThePrefix
<1>2. request \in Request /\ ThePrefix \in Seq(Token) /\ offset < Len(ThePrefix)
      /\ mem[0] = SubSeq(ThePrefix, 1, offset)
  BY <1>1, TextFacts DEF EInv, Written0
<1>3. /\ mem' = [s \in Sequence |-> mem'[s]]
      /\ mem'[0] = SubSeq(ThePrefix, 1, offset) \o Chunk(ThePrefix)
      /\ offset' \in Nat /\ forwardPasses' \in Nat
      /\ offset' # 0 => /\ offset' < Len(ThePrefix)
                        /\ SubSeq(ThePrefix, 1, offset) \o Chunk(ThePrefix)
                             = SubSeq(ThePrefix, 1, offset')
      /\ offset' = 0 => SubSeq(ThePrefix, 1, offset) \o Chunk(ThePrefix) = ThePrefix
      /\ \E m \in Nat : offset' = m * BatchSize /\ decodes' = forwardPasses' + m
      /\ offset' = 0 => decodes' = forwardPasses'
  BY <1>1, <1>2, ChunkStep
<1>4. CacheSound'
  BY <1>1, CacheKept DEF EInv
<1>5. ThePrefix' = ThePrefix
  BY <1>1 DEF ThePrefix
<1>6. Written0'
  BY <1>1, <1>3, <1>5 DEF Written0
<1>7. Counted'
  BY <1>1, <1>3 DEF Counted
<1> QED  BY <1>1, <1>2, <1>3, <1>4, <1>6, <1>7 DEF EInv, Unwritten

\* What is published is the prefix, whole.
LEMMA SaveKeeps == ASSUME EInv, Save PROVE EInv'
<1>1. /\ phase = "save" /\ phase' = "dynamic"
      /\ UNCHANGED <<mem, request, offset, forwardPasses, decodes>>
      /\ UNCHANGED cacheVars \/ Cache!Put(request.key, Checkpoint)
  BY DEF Save, countVars
<1>2. /\ request \in Request /\ request.key \in Key /\ mem[0] = ThePrefix
      /\ offset = 0 /\ decodes = forwardPasses
  BY <1>1, TextFacts DEF EInv, Unwritten, Written0, Counted
<1>3. Checkpoint = PrefixEntry(request.key)
  BY <1>2 DEF Checkpoint, PrefixEntry, ThePrefix
<1>4. CacheSound'
  BY <1>1, <1>2, <1>3, CacheKept, PutSound DEF EInv
<1>5. mem'[0] = ThePrefix' \o SubSeq(TheContext', 1, 0) /\ offset' < Len(TheContext')
  BY <1>1, <1>2, TextFacts DEF ThePrefix, TheContext
<1> QED  BY <1>1, <1>2, <1>4, <1>5 DEF EInv, Unwritten, Written0, Counted

\* A chunk of the context, behind the prefix.
LEMMA DynamicKeeps == ASSUME EInv, Dynamic PROVE EInv'
<1>1. /\ phase = "dynamic" /\ DecodeChunk(TheContext)
      /\ phase' = IF offset' = 0 THEN "broadcast" ELSE phase
      /\ UNCHANGED <<cacheVars, request>>
  BY DEF Dynamic, TheContext
<1>2. /\ request \in Request /\ offset \in Nat
      /\ ThePrefix \in Seq(Token) /\ TheContext \in Seq(Token)
      /\ offset < Len(TheContext)
      /\ mem[0] = ThePrefix \o SubSeq(TheContext, 1, offset)
  BY <1>1, TextFacts DEF EInv, Written0
<1>3. /\ mem' = [s \in Sequence |-> mem'[s]]
      /\ mem'[0] = mem[0] \o Chunk(TheContext)
      /\ offset' \in Nat /\ forwardPasses' \in Nat
      /\ offset' # 0 => /\ offset' < Len(TheContext)
                        /\ SubSeq(TheContext, 1, offset) \o Chunk(TheContext)
                             = SubSeq(TheContext, 1, offset')
      /\ offset' = 0 => SubSeq(TheContext, 1, offset) \o Chunk(TheContext) = TheContext
      /\ \E m \in Nat : offset' = m * BatchSize /\ decodes' = forwardPasses' + m
      /\ offset' = 0 => decodes' = forwardPasses'
  BY <1>1, <1>2, ChunkStep
<1>4. mem'[0] = ThePrefix \o (SubSeq(TheContext, 1, offset) \o Chunk(TheContext))
  <2>1. Chunk(TheContext) \in Seq(Token)
    BY <1>2, ChunkFacts
  <2>2. SubSeq(TheContext, 1, offset) \in Seq(Token)
    <3>1. Len(TheContext) \in Nat /\ \A i \in 1 .. offset : TheContext[i] \in Token
      BY <1>2, LenProperties, ElementOfSeq
    <3> QED  BY <1>2, <3>1, SubSeqProperties
  <2>3. (ThePrefix \o SubSeq(TheContext, 1, offset)) \o Chunk(TheContext)
          = ThePrefix \o (SubSeq(TheContext, 1, offset) \o Chunk(TheContext))
    <3> DEFINE p == ThePrefix
               done == SubSeq(TheContext, 1, offset)
               next == Chunk(TheContext)
    <3>1. p \in Seq(Token) /\ done \in Seq(Token) /\ next \in Seq(Token)
      BY <1>2, <2>1, <2>2
    <3> HIDE DEF p, done, next
    <3>2. (p \o done) \o next = p \o (done \o next)
      BY <3>1, ConcatAssociative
    <3> QED  BY <3>2 DEF p, done, next
  <2> QED  BY <1>2, <1>3, <2>3, Zenon
<1>5. CacheSound'
  BY <1>1, CacheKept DEF EInv
<1>6. ThePrefix' = ThePrefix /\ TheContext' = TheContext
  BY <1>1 DEF ThePrefix, TheContext
<1>7. Written0'
  BY <1>1, <1>3, <1>4, <1>6 DEF Written0
<1>8. Counted'
  BY <1>1, <1>3 DEF Counted
<1> QED  BY <1>1, <1>2, <1>3, <1>5, <1>7, <1>8 DEF EInv, Unwritten

\* From the broadcast on, sequence 0 is not looked at, and every batch is one
\* call and one forward pass.
LEMMA ScoringKeeps ==
  ASSUME EInv, Broadcast \/ Flush \/ QueueLevel \/ Assemble
  PROVE  EInv'
<1>1. /\ phase \in {"broadcast", "score"} /\ phase' \in {"score", "answer"}
      /\ UNCHANGED <<cacheVars, request, offset>>
      /\ \/ UNCHANGED <<forwardPasses, decodes>>
         \/ forwardPasses' = forwardPasses + 1 /\ decodes' = decodes + 1
  BY DEF Broadcast, Flush, QueueLevel, Assemble, countVars
<1>2. mem' = [s \in Sequence |-> mem'[s]]
  <2>1. mem = [s \in Sequence |-> mem[s]]
    BY DEF EInv
  <2>2. CASE QueueLevel \/ Assemble
    BY <2>1, <2>2 DEF QueueLevel, Assemble
  <2>3. CASE Broadcast
    BY <2>3 DEF Broadcast
  <2>4. CASE Flush
    <3>1. mem' = [s \in Sequence |-> Extended(s, Batch)]
      BY <2>4 DEF Flush
    <3> QED  BY <3>1, Zenon
  <2> QED  BY <2>2, <2>3, <2>4
<1>3. request \in Request /\ offset = 0 /\ decodes = forwardPasses /\ forwardPasses \in Nat
  BY <1>1 DEF EInv, Unwritten, Counted
<1>4. offset' = 0 /\ decodes' = forwardPasses' /\ forwardPasses' \in Nat
  BY <1>1, <1>3
<1>5. CacheSound'
  BY <1>1, CacheKept DEF EInv
<1>6. Counted'
  <2>1. \E m \in Nat : offset' = m * BatchSize /\ decodes' = forwardPasses' + m
    <3> DEFINE written == offset'
               calls == decodes'
               passes == forwardPasses'
    <3>1. written = 0 /\ calls = passes /\ passes \in Nat
      BY <1>4
    <3> HIDE DEF written, calls, passes
    <3>2. \E m \in Nat : written = m * BatchSize /\ calls = passes + m
      BY <3>1, NoneLeft
    <3> QED  BY <3>2 DEF written, calls, passes
  <2>2. phase' \notin {"idle", "restore", "cold"}
    BY <1>1
  <2> QED  BY <1>4, <2>1, <2>2, Zenon DEF Counted
<1> QED  BY <1>1, <1>2, <1>3, <1>4, <1>5, <1>6 DEF EInv, Unwritten, Written0

\* A request that is answered or fails leaves the cache as it is, and whatever
\* it likes in the memory.
LEMMA EndKeeps == ASSUME EInv, Answer \/ Fail PROVE EInv'
<1>1. phase' = "idle" /\ offset' = 0 /\ forwardPasses' = 0 /\ decodes' = 0 /\ UNCHANGED cacheVars
  BY DEF Answer, Fail, Release
<1>2. mem' = [s \in Sequence |-> mem'[s]]
  <2>1. mem = [s \in Sequence |-> mem[s]]
    BY DEF EInv
  <2>2. \/ mem' = mem
        \/ \E x : mem' = [mem EXCEPT ![0] = x]
        \/ \E n : mem' = [s \in Sequence |-> Extended(s, SubSeq(Batch, 1, n))]
    BY Zenon DEF Answer, Fail
  <2> QED  BY <2>1, <2>2, Zenon
<1>3. CacheSound'
  BY <1>1, CacheKept DEF EInv
<1>4. Counted'
  <2>1. \E m \in Nat : offset' = m * BatchSize /\ decodes' = forwardPasses' + m
    <3>1. forwardPasses' \in Nat /\ decodes' = forwardPasses'
      BY <1>1
    <3> QED  BY <1>1, <3>1, NoneLeft
  <2>2. (phase' \in {"idle", "restore", "cold"} => forwardPasses' = 0 /\ decodes' = 0)
        /\ (offset' = 0 => decodes' = forwardPasses')
    BY <1>1
  <2> QED  BY <2>1, <2>2, Zenon DEF Counted
<1> QED  BY <1>1, <1>2, <1>3, <1>4 DEF EInv, Unwritten, Written0

\* All steps.
LEMMA EngineKeeps == EInv /\ [Next]_vars => EInv'
<1> SUFFICES ASSUME EInv, [Next]_vars PROVE EInv'
  OBVIOUS
<1>1. CASE UNCHANGED vars
  <2>1. CacheSound'
    BY <1>1, CacheKept DEF vars, EInv
  <2> QED  BY <1>1, <2>1 DEF vars, cacheVars, countVars, EInv, Unwritten, Written0, Counted,
                             ThePrefix, TheContext
<1>2. CASE \E r \in Request : Begin(r) \/ Reject(r)
  BY <1>2, BeginKeeps, RejectKeeps
<1>3. CASE Serve
  BY <1>3, RestoreHitKeeps, RestoreFallbackKeeps, RestoreMissKeeps, ColdStartKeeps, PrefillKeeps,
     SaveKeeps, DynamicKeeps, ScoringKeeps, EndKeeps DEF Serve
<1> QED  BY <1>1, <1>2, <1>3 DEF Next

-----------------------------------------------------------------------------
(* The theorems. *)

\* The inductive invariant holds of every behaviour.
THEOREM EngineInvariance == Spec => []EInv
  BY EngineStarts, EngineKeeps, PTL DEF Spec

\* On a hit, after a failed restore and after a decode that threw, sequence 0
\* holds the prefix of this request and then its context: for every schema,
\* context, batch size and cache.
THEOREM PrefixStaysExact == Spec => []PrefixIsExact
<1>1. EInv => PrefixIsExact
  <2> SUFFICES ASSUME EInv PROVE PrefixIsExact
    OBVIOUS
  <2>1. phase # "idle" => ThePrefix \o <<>> = ThePrefix /\ SubSeq(TheContext, 1, 0) = <<>>
    BY TextFacts DEF EInv
  <2> QED  BY <2>1 DEF EInv, Written0, PrefixIsExact, ThePrefix, TheContext
<1> QED  BY <1>1, EngineInvariance, PTL

\* forward_passes is the number of llama_decode calls, for every batch size and
\* every length of prefix and context.
THEOREM PassesAreCounted == Spec => []ForwardPassesExact
<1>1. EInv => ForwardPassesExact
  BY DEF EInv, Unwritten, Counted, ForwardPassesExact
<1> QED  BY <1>1, EngineInvariance, PTL

\* The engine drives its cache into no state in which list, map, byte count and
\* limits disagree: what SchemaCacheProofs shows for any order of calls holds
\* for those of decode.
THEOREM EngineKeepsCache == Spec => []CP!IInv
<1>1. EInv => CP!IInv
  BY DEF EInv, CacheSound
<1> QED  BY <1>1, EngineInvariance, PTL
-----------------------------------------------------------------------------
(* Lists and sums.  FlattenSeq and SumFunction are recursive functions: what *)
(* they compute is shown by the smallest counterexample that there is not.   *)

\* A set of naturals has a smallest element: what the inductions below rest on.
LEMMA Least ==
  ASSUME NEW T, T \subseteq Nat, T # {}
  PROVE  \E m \in T : \A n \in T : m <= n
<1>1. IsWellFoundedOn(OpToRel(<, Nat), Nat)
  BY NatLessThanWellFounded
<1>2. PICK m \in T : \A n \in T : <<n, m>> \notin OpToRel(<, Nat)
  BY <1>1, WFMin
<1>3. \A n \in T : ~(n < m)
  BY <1>2 DEF OpToRel
<1> QED  BY <1>3

\* A set of numbers that goes down to a without a gap is an interval.
LEMMA Interval ==
  ASSUME NEW a \in Int, NEW b \in Int, NEW T, T \subseteq a .. b,
         \A x \in T : a .. x \subseteq T
  PROVE  IsFiniteSet(T) /\ T = a .. a + Cardinality(T) - 1
<1> DEFINE bounds == {n \in Nat : \A x \in T : x < a + n}
<1>1. bounds # {}
  <2>1. CASE a <= b
    <3>1. b - a + 1 \in bounds
      BY <2>1
    <3> QED  BY <3>1
  <2>2. CASE a > b
    <3>1. 0 \in bounds
      BY <2>2
    <3> QED  BY <3>1
  <2> QED  BY <2>1, <2>2
<1>2. PICK n \in bounds : \A m \in bounds : n <= m
  <2> HIDE DEF bounds
  <2>1. bounds \subseteq Nat
    BY DEF bounds
  <2> QED  BY <1>1, <2>1, Least
<1>3. n \in Nat /\ \A x \in T : x < a + n
  BY <1>2
<1>4. T = a .. a + n - 1
  <2>0. \A x \in T : x \in a .. a + n - 1
    <3> TAKE x \in T
    <3>1. x \in a .. b /\ x < a + n
      BY <1>3
    <3> QED  BY <1>3, <3>1
  <2>1. CASE n = 0
    <3>1. a .. a + n - 1 = {}
      BY <2>1
    <3> QED  BY <2>0, <3>1, Zenon
  <2>2. CASE n # 0
    <3>1. n - 1 \notin bounds /\ n - 1 \in Nat
      BY <1>2, <1>3, <2>2
    <3>2. PICK x \in T : ~(x < a + (n - 1))
      BY <3>1
    <3>3. x = a + n - 1
      <4>1. x \in a .. b /\ x < a + n
        BY <1>3
      <4> QED  BY <1>3, <3>2, <4>1
    <3>4. a .. a + n - 1 \subseteq T
      BY <3>2, <3>3
    <3> QED  BY <2>0, <3>4, Zenon
  <2> QED  BY <2>1, <2>2
<1>5. IsFiniteSet(a .. a + n - 1) /\ Cardinality(a .. a + n - 1) = n
  BY <1>3, FS_Interval
<1> QED  BY <1>4, <1>5

\* The recursive function of FlattenSeq exists.
LEMMA FlattenDef ==
  ASSUME NEW blocks, Len(blocks) \in Nat \ {0}
  PROVE  \E g : /\ g = [i \in 1 .. Len(blocks) |->
                          IF i = 1 THEN blocks[i] ELSE g[i - 1] \o blocks[i]]
                /\ FlattenSeq(blocks) = g[Len(blocks)]
<1> DEFINE Solves(g, n) ==
             g = [i \in 1 .. n |-> IF i = 1 THEN blocks[i] ELSE g[i - 1] \o blocks[i]]
           bad == {n \in Nat \ {0} : ~ \E g : Solves(g, n)}
<1>1. bad = {}
  <2> SUFFICES ASSUME bad # {} PROVE FALSE
    OBVIOUS
  <2>1. PICK n \in bad : \A m \in bad : n <= m
    BY Least
  <2>2. CASE n = 1
    <3>1. Solves([i \in 1 .. 1 |-> blocks[i]], 1)
      OBVIOUS
    <3> QED  BY <2>1, <2>2, <3>1
  <2>3. CASE n # 1
    <3>0. n \in Nat \ {0} /\ n - 1 \in Nat \ {0} /\ ~(n <= n - 1)
      BY <2>1, <2>3
    <3>1. n - 1 \in Nat \ {0} /\ n - 1 \notin bad
      BY <2>1, <3>0, Zenon
    <3>2. PICK g : Solves(g, n - 1)
      BY <3>1
    <3> DEFINE h == [i \in 1 .. n |-> IF i = 1 THEN blocks[i] ELSE g[i - 1] \o blocks[i]]
    <3>3. \A i \in 1 .. n - 1 : h[i] = g[i]
      <4> TAKE i \in 1 .. n - 1
      <4>1. g[i] = IF i = 1 THEN blocks[i] ELSE g[i - 1] \o blocks[i]
        BY <3>2
      <4>2. i \in 1 .. n
        BY <3>0
      <4> QED  BY <4>1, <4>2
    <3>4. \A i \in 1 .. n : i # 1 => g[i - 1] = h[i - 1]
      <4> TAKE i \in 1 .. n
      <4>1. i # 1 => i - 1 \in 1 .. n - 1
        BY <3>0
      <4> HIDE DEF h
      <4> QED  BY <3>3, <4>1
    <3>5. Solves(h, n)
      <4>1. \A i \in 1 .. n : (IF i = 1 THEN blocks[i] ELSE g[i - 1] \o blocks[i])
                              = (IF i = 1 THEN blocks[i] ELSE h[i - 1] \o blocks[i])
        <5> HIDE DEF h
        <5> QED  BY <3>4, Zenon
      <4>2. h = [i \in 1 .. n |-> IF i = 1 THEN blocks[i] ELSE h[i - 1] \o blocks[i]]
        <5> DEFINE k == [i \in 1 .. n |-> IF i = 1 THEN blocks[i] ELSE h[i - 1] \o blocks[i]]
        <5>1. \A i \in 1 .. n : h[i] = k[i]
          BY <4>1, Zenon
        <5> QED  BY <5>1, Zenon
      <4> QED  BY <4>2, Zenon
    <3> QED  BY <2>1, <3>5
  <2> QED  BY <2>2, <2>3
<1>2. \E g : Solves(g, Len(blocks))
  BY <1>1
<1>3. FlattenSeq(blocks) = (CHOOSE g : Solves(g, Len(blocks)))[Len(blocks)]
  BY DEF FlattenSeq
<1> QED  BY <1>2, <1>3

\* flat is the first n blocks one after the other: block f begins after start[f].
Laid(flat, blocks, n, start) ==
  /\ start \in [1 .. n -> Nat]
  /\ \A f \in 1 .. n : \A k \in 1 .. Len(blocks[f]) :
       /\ start[f] + k \in 1 .. Len(flat)
       /\ flat[start[f] + k] = blocks[f][k]
  /\ \A i \in 1 .. Len(flat) : \E f \in 1 .. n : \E k \in 1 .. Len(blocks[f]) : i = start[f] + k

\* One more block.
LEMMA LaidFurther ==
  ASSUME NEW S, NEW n \in Nat, NEW blocks, \A f \in 1 .. n + 1 : blocks[f] \in Seq(S),
         NEW flat \in Seq(S), NEW start, Laid(flat, blocks, n, start)
  PROVE  \E longer : Laid(flat \o blocks[n + 1], blocks, n + 1, longer)
<1> DEFINE more == blocks[n + 1]
           all == flat \o more
           longer == [f \in 1 .. n + 1 |-> IF f = n + 1 THEN Len(flat) ELSE start[f]]
<1>1. more \in Seq(S) /\ Len(more) \in Nat /\ Len(flat) \in Nat
  BY LenProperties
<1>2. /\ Len(all) = Len(flat) + Len(more)
      /\ \A i \in 1 .. Len(flat) + Len(more) :
           all[i] = IF i <= Len(flat) THEN flat[i] ELSE more[i - Len(flat)]
  <2> HIDE DEF more
  <2> QED  BY <1>1, ConcatProperties
<1>3. \A f \in 1 .. n : longer[f] = start[f] /\ f # n + 1 /\ f \in 1 .. n + 1
  OBVIOUS
<1>4. longer[n + 1] = Len(flat) /\ n + 1 \in 1 .. n + 1
  OBVIOUS
<1>5. \A f \in 1 .. n + 1 : f = n + 1 \/ f \in 1 .. n
  OBVIOUS
<1>6. longer \in [1 .. n + 1 -> Nat]
  BY <1>1, <1>5 DEF Laid
<1> HIDE DEF all, longer
<1>7. ASSUME NEW f \in 1 .. n + 1, NEW k \in 1 .. Len(blocks[f])
      PROVE  longer[f] + k \in 1 .. Len(all) /\ all[longer[f] + k] = blocks[f][k]
  <2>1. CASE f = n + 1
    <3>1. k \in 1 .. Len(more) /\ longer[f] = Len(flat)
      BY <1>4, <1>7, <2>1
    <3>2. Len(flat) + k \in 1 .. Len(flat) + Len(more) /\ ~(Len(flat) + k <= Len(flat))
          /\ Len(flat) + k - Len(flat) = k
      BY <1>1, <3>1
    <3>3. all[Len(flat) + k] = more[k]
      BY <1>2, <3>2
    <3> QED  BY <1>2, <2>1, <3>1, <3>2, <3>3
  <2>2. CASE f \in 1 .. n
    <3>1. longer[f] = start[f] /\ start[f] + k \in 1 .. Len(flat)
          /\ flat[start[f] + k] = blocks[f][k]
      BY <1>3, <1>7, <2>2 DEF Laid
    <3> QED  BY <1>1, <1>2, <3>1, SMTT(30)
  <2> QED  BY <1>5, <2>1, <2>2
<1>8. ASSUME NEW i \in 1 .. Len(all)
      PROVE  \E f \in 1 .. n + 1 : \E k \in 1 .. Len(blocks[f]) : i = longer[f] + k
  <2>1. CASE i <= Len(flat)
    <3>1. i \in 1 .. Len(flat)
      BY <1>1, <1>2, <2>1
    <3>2. PICK f \in 1 .. n : \E k \in 1 .. Len(blocks[f]) : i = start[f] + k
      BY <3>1 DEF Laid
    <3> QED  BY <1>3, <3>2
  <2>2. CASE ~(i <= Len(flat))
    <3>1. i - Len(flat) \in 1 .. Len(more) /\ i = Len(flat) + (i - Len(flat))
      BY <1>1, <1>2, <2>2
    <3> QED  BY <1>4, <3>1
  <2> QED  BY <2>1, <2>2
<1>9. Laid(all, blocks, n + 1, longer)
  BY <1>6, <1>7, <1>8 DEF Laid
<1> QED  BY <1>9 DEF all

\* What FlattenSeq does: every item of every block is in the result, the items
\* of one block side by side, and nothing else is.
LEMMA FlattenFacts ==
  ASSUME NEW S, NEW blocks, Len(blocks) \in Nat \ {0},
         \A f \in 1 .. Len(blocks) : blocks[f] \in Seq(S)
  PROVE  /\ FlattenSeq(blocks) \in Seq(S)
         /\ \E start : Laid(FlattenSeq(blocks), blocks, Len(blocks), start)
<1>1. PICK g : /\ g = [i \in 1 .. Len(blocks) |->
                         IF i = 1 THEN blocks[i] ELSE g[i - 1] \o blocks[i]]
               /\ FlattenSeq(blocks) = g[Len(blocks)]
  BY FlattenDef
<1> DEFINE Good(n) == g[n] \in Seq(S) /\ \E start : Laid(g[n], blocks, n, start)
           bad == {n \in 1 .. Len(blocks) : ~Good(n)}
<1>2. ASSUME bad # {} PROVE FALSE
  <2>1. bad \subseteq Nat
    OBVIOUS
  <2>2. PICK n \in bad : \A m \in bad : n <= m
    <3> HIDE DEF bad
    <3> QED  BY <1>2, <2>1, Least
  <2>3. n \in 1 .. Len(blocks) /\ ~Good(n) /\ blocks[n] \in Seq(S)
    BY <2>2
  <2>4. g[n] = IF n = 1 THEN blocks[n] ELSE g[n - 1] \o blocks[n]
    BY <1>1, <2>3
  <2>5. CASE n = 1
    <3>1. g[1] = blocks[1] /\ g[1] \in Seq(S) /\ Len(g[1]) \in Nat
      BY <2>3, <2>4, <2>5, LenProperties
    <3> DEFINE start == [f \in 1 .. 1 |-> 0]
    <3>2. start \in [1 .. 1 -> Nat] /\ start[1] = 0 /\ \A f \in 1 .. 1 : f = 1
      OBVIOUS
    <3>3. \A k \in 1 .. Len(g[1]) : 0 + k = k
      OBVIOUS
    <3> HIDE DEF start
    <3>4. Laid(g[1], blocks, 1, start)
      BY <3>1, <3>2, <3>3 DEF Laid
    <3> QED  BY <2>3, <2>5, <3>1, <3>4
  <2>6. CASE n # 1
    <3>1. n - 1 \in 1 .. Len(blocks) /\ n - 1 \in Nat /\ ~(n <= n - 1) /\ (n - 1) + 1 = n
      BY <2>3, <2>6
    <3>2. Good(n - 1)
      <4> HIDE DEF Good
      <4> QED  BY <2>2, <3>1
    <3>3. PICK start : Laid(g[n - 1], blocks, n - 1, start)
      BY <3>2
    <3>4. \A f \in 1 .. n - 1 + 1 : blocks[f] \in Seq(S)
      BY <2>3
    <3>5. \E longer : Laid(g[n - 1] \o blocks[n - 1 + 1], blocks, n - 1 + 1, longer)
      BY <3>1, <3>2, <3>3, <3>4, LaidFurther
    <3>6. g[n] = g[n - 1] \o blocks[n] /\ g[n] \in Seq(S)
      BY <2>3, <2>4, <2>6, <3>2, ConcatProperties
    <3>7. \E longer : Laid(g[n], blocks, n, longer)
      BY <3>1, <3>5, <3>6
    <3> QED  BY <2>3, <3>6, <3>7
  <2> QED  BY <2>5, <2>6
<1>3. Good(Len(blocks))
  <2>1. Len(blocks) \in 1 .. Len(blocks)
    OBVIOUS
  <2> HIDE DEF Good
  <2> QED  BY <1>2, <2>1
<1> QED  BY <1>1, <1>3

\* sum adds up the weights of the subsets of at most n elements.
Member(T) == CHOOSE x \in T : TRUE
Small(S, n) == {T \in SUBSET S : Cardinality(T) <= n}
Sums(sum, w, S, n) ==
  sum = [T \in Small(S, n) |-> IF T = {} THEN 0 ELSE w[Member(T)] + sum[T \ {Member(T)}]]

Adds(sum, w) ==
  sum = [T \in SUBSET DOMAIN w |-> IF T = {} THEN 0 ELSE w[Member(T)] + sum[T \ {Member(T)}]]

\* The recursive function of SumFunction exists.
LEMMA SumDef ==
  ASSUME NEW w, IsFiniteSet(DOMAIN w)
  PROVE  \E sum : Adds(sum, w) /\ SumFunction(w) = sum[DOMAIN w]
<1> DEFINE S == DOMAIN w
           bad == {n \in Nat : ~ \E sum : Sums(sum, w, S, n)}
<1>1. \A T \in SUBSET S : IsFiniteSet(T) /\ Cardinality(T) \in Nat
  BY FS_Subset, FS_CardinalityType
<1>2. ASSUME NEW n \in Nat, NEW T \in Small(S, n), T # {}
      PROVE  n # 0 /\ T \ {Member(T)} \in Small(S, n - 1) /\ T \ {Member(T)} \in Small(S, n)
  <2>1. IsFiniteSet(T) /\ Cardinality(T) \in Nat /\ Cardinality(T) # 0 /\ Cardinality(T) <= n
    BY <1>1, <1>2, FS_EmptySet DEF Small
  <2>2. Member(T) \in T
    BY <1>2 DEF Member
  <2>3. Cardinality(T \ {Member(T)}) = Cardinality(T) - 1
    BY <2>1, <2>2, FS_RemoveElement
  <2>4. T \ {Member(T)} \in SUBSET S
    BY DEF Small
  <2> QED  BY <2>1, <2>3, <2>4 DEF Small
<1>3. bad = {}
  <2> SUFFICES ASSUME bad # {} PROVE FALSE
    OBVIOUS
  <2>1. PICK n \in bad : \A m \in bad : n <= m
    BY Least
  <2>2. n \in Nat /\ ~ \E sum : Sums(sum, w, S, n)
    BY <2>1
  <2>3. PICK shorter : n = 0 \/ Sums(shorter, w, S, n - 1)
    <3>1. CASE n = 0
      BY <3>1
    <3>2. CASE n # 0
      <4>1. n - 1 \in Nat /\ ~(n <= n - 1)
        BY <2>2, <3>2
      <4>2. n - 1 \notin bad
        <5> HIDE DEF bad
        <5> QED  BY <2>1, <4>1
      <4> QED  BY <4>1, <4>2
    <3> QED  BY <3>1, <3>2
  <2> DEFINE value(T) == IF T = {} THEN 0 ELSE w[Member(T)] + shorter[T \ {Member(T)}]
             sum == [T \in Small(S, n) |-> value(T)]
  <2>4. ASSUME NEW T \in Small(S, n), T # {}
        PROVE  sum[T \ {Member(T)}] = shorter[T \ {Member(T)}]
    <3> DEFINE U == T \ {Member(T)}
    <3>1. U \in Small(S, n - 1) /\ U \in Small(S, n) /\ n # 0
      BY <1>2, <2>2, <2>4
    <3>2. shorter[U] = IF U = {} THEN 0 ELSE w[Member(U)] + shorter[U \ {Member(U)}]
      <4> HIDE DEF U
      <4> QED  BY <2>3, <3>1 DEF Sums
    <3>3. sum[U] = value(U)
      <4> HIDE DEF U, value
      <4> QED  BY <3>1
    <3> HIDE DEF U, sum
    <3> QED  BY <3>2, <3>3 DEF U
  <2>5. Sums(sum, w, S, n)
    <3> DEFINE again == [T \in Small(S, n) |-> IF T = {} THEN 0 ELSE w[Member(T)] + sum[T \ {Member(T)}]]
    <3>1. \A T \in Small(S, n) : value(T) = IF T = {} THEN 0 ELSE w[Member(T)] + sum[T \ {Member(T)}]
      <4> HIDE DEF sum
      <4> QED  BY <2>4, Zenon
    <3>2. sum = again
      <4> HIDE DEF value
      <4> QED  BY <3>1, Zenon
    <3> QED  BY <3>2, Zenon DEF Sums
  <2> QED  BY <2>2, <2>5
<1>4. Small(S, Cardinality(S)) = SUBSET S /\ Cardinality(S) \in Nat
  BY FS_Subset, FS_CardinalityType DEF Small
<1>5. PICK some : Sums(some, w, S, Cardinality(S))
  BY <1>3, <1>4
<1> DEFINE Solves(sum) ==
             sum = [T \in SUBSET S |-> IF T = {} THEN 0 ELSE w[Member(T)] + sum[T \ {Member(T)}]]
<1>6. Solves(some)
  BY <1>4, <1>5 DEF Sums
<1>7. SumFunction(w) = (CHOOSE sum : Solves(sum))[S]
  BY Zenon DEF SumFunction, SumFunctionOnSet, FoldFunctionOnSet, MapThenFoldSet, Member
<1>8. Solves(CHOOSE sum : Solves(sum))
  BY <1>6, Zenon
<1> QED  BY <1>7, <1>8, Zenon DEF Adds

\* Whichever element is taken out first, the sum is the same.
LEMMA SumTakesAny ==
  ASSUME NEW S, IsFiniteSet(S), NEW w \in [S -> Int], NEW sum, Adds(sum, w)
  PROVE  \A T \in SUBSET S :
           sum[T] \in Int /\ \A x \in T : sum[T] = w[x] + sum[T \ {x}]
<1> DEFINE Good(T) == sum[T] \in Int /\ \A x \in T : sum[T] = w[x] + sum[T \ {x}]
           bad == {T \in SUBSET S : ~Good(T)}
           sizes == {Cardinality(T) : T \in bad}
<1>1. \A T \in SUBSET S : IsFiniteSet(T) /\ Cardinality(T) \in Nat
  BY FS_Subset, FS_CardinalityType
<1>2. \A T \in SUBSET S : sum[T] = IF T = {} THEN 0 ELSE w[Member(T)] + sum[T \ {Member(T)}]
  BY DEF Adds
<1>3. \A x \in S : w[x] \in Int
  OBVIOUS
<1>4. ASSUME bad # {} PROVE FALSE
  <2>1. sizes # {} /\ sizes \subseteq Nat
    BY <1>1, <1>4
  <2>2. PICK n \in sizes : \A m \in sizes : n <= m
    <3> HIDE DEF sizes
    <3> QED  BY <2>1, Least
  <2>3. PICK T \in bad : n = Cardinality(T)
    BY <2>2
  <2>4. T \in SUBSET S /\ ~Good(T) /\ IsFiniteSet(T) /\ n \in Nat
    BY <1>1, <2>3
  <2>5. ASSUME NEW U \in SUBSET S, Cardinality(U) < n PROVE Good(U)
    <3>1. U \notin bad
      <4> SUFFICES ASSUME U \in bad PROVE FALSE
        OBVIOUS
      <4>1. Cardinality(U) \in sizes
        OBVIOUS
      <4>2. n <= Cardinality(U) /\ Cardinality(U) \in Nat
        BY <1>1, <2>2, <4>1
      <4> QED  BY <2>4, <2>5, <4>2
    <3> HIDE DEF Good
    <3> QED  BY <3>1
  <2> HIDE DEF bad, sizes
  <2>6. CASE T = {}
    BY <1>2, <2>4, <2>6
  <2>7. CASE T # {}
    <3> DEFINE a == Member(T)
               A == T \ {a}
    <3>1. a \in T
      BY <2>7 DEF Member
    <3> HIDE DEF a
    <3>2. sum[T] = w[a] + sum[A]
      BY <1>2, <2>4, <2>7 DEF a
    <3>3. A \in SUBSET S /\ Cardinality(A) < n
      <4>1. Cardinality(A) = n - 1
        BY <2>3, <2>4, <3>1, FS_RemoveElement
      <4> QED  BY <2>4, <4>1
    <3>4. Good(A) /\ w[a] \in Int
      BY <1>3, <2>4, <2>5, <3>1, <3>3
    <3>5. sum[T] \in Int
      BY <3>2, <3>4
    <3>6. ASSUME NEW x \in T PROVE sum[T] = w[x] + sum[T \ {x}]
      <4> DEFINE X == T \ {x}
      <4>1. CASE x = a
        BY <3>2, <4>1
      <4>2. CASE x # a
        <5>1. X \in SUBSET S /\ Cardinality(X) < n
          <6>1. Cardinality(X) = n - 1
            BY <2>3, <2>4, FS_RemoveElement
          <6> QED  BY <2>4, <6>1
        <5>2. Good(X) /\ w[x] \in Int
          BY <1>3, <2>4, <2>5, <5>1
        <5>3. x \in A /\ a \in X /\ A \ {x} = X \ {a}
          BY <3>1, <4>2
        <5>4. A \ {x} \in SUBSET S /\ Cardinality(A \ {x}) < n
          <6>1. IsFiniteSet(A) /\ Cardinality(A) \in Nat
            BY <1>1, <3>3
          <6>2. Cardinality(A \ {x}) = Cardinality(A) - 1
            BY <5>3, <6>1, FS_RemoveElement
          <6> QED  BY <2>4, <3>3, <6>1, <6>2
        <5>5. Good(A \ {x})
          BY <2>5, <5>4
        <5>6. sum[A] = w[x] + sum[A \ {x}] /\ sum[X] = w[a] + sum[A \ {x}] /\ sum[A \ {x}] \in Int
          BY <3>4, <5>2, <5>3, <5>5
        <5> HIDE DEF A, X
        <5>7. sum[T] = w[x] + sum[X]
          BY <3>2, <3>4, <5>2, <5>6
        <5> QED  BY <5>7 DEF X
      <4> QED  BY <4>1, <4>2
    <3> QED  BY <2>4, <3>5, <3>6
  <2> QED  BY <2>6, <2>7
<1> QED  BY <1>4

\* What w gives x, nothing outside its domain.
At(w, x) == IF x \in DOMAIN w THEN w[x] ELSE 0

\* h gives every x at least what g gives it.
Below(g, h, S) == \A x \in S : At(g, x) <= At(h, x)

\* sum gives S and its subsets the sums of what w gives their elements.
Takes(sum, w, S) ==
  /\ sum[{}] = 0
  /\ \A T \in SUBSET S : sum[T] \in Int /\ \A x \in T : sum[T] = At(w, x) + sum[T \ {x}]

\* There is such a sum on any set that holds the domain.
LEMMA SumTakesAnyOf ==
  ASSUME NEW S, IsFiniteSet(S), NEW D \in SUBSET S, NEW w \in [D -> Int]
  PROVE  \E sum : SumFunction(w) = sum[S] /\ Takes(sum, w, S)
<1>1. DOMAIN w = D /\ IsFiniteSet(D)
  BY FS_Subset
<1>2. PICK sum : Adds(sum, w) /\ SumFunction(w) = sum[D]
  BY <1>1, SumDef
<1>3. \A T \in SUBSET D : sum[T] \in Int /\ \A x \in T : sum[T] = w[x] + sum[T \ {x}]
  BY <1>1, <1>2, SumTakesAny
<1>4. sum[{}] = 0
  BY <1>1, <1>2 DEF Adds
<1> DEFINE total == [T \in SUBSET S |-> sum[T \cap D]]
<1>5. total[S] = sum[D] /\ total[{}] = 0
  <2>1. S \cap D = D /\ {} \cap D = {}
    OBVIOUS
  <2> QED  BY <1>4, <2>1
<1>6. ASSUME NEW T \in SUBSET S, NEW x \in T
      PROVE  total[T] = At(w, x) + total[T \ {x}]
  <2>1. total[T] = sum[T \cap D] /\ total[T \ {x}] = sum[(T \ {x}) \cap D]
    BY <1>6
  <2>2. CASE x \in D
    <3>1. T \cap D \in SUBSET D /\ x \in T \cap D /\ (T \cap D) \ {x} = (T \ {x}) \cap D
      BY <2>2
    <3> QED  BY <1>3, <2>1, <2>2, <3>1, <1>1 DEF At
  <2>3. CASE x \notin D
    <3>1. T \cap D \in SUBSET D /\ T \cap D = (T \ {x}) \cap D
      BY <2>3
    <3>2. At(w, x) = 0
      BY <1>1, <2>3 DEF At
    <3>3. total[T] = total[T \ {x}] /\ total[T] \in Int
      <4> HIDE DEF total
      <4> QED  BY <1>3, <2>1, <3>1
    <3> HIDE DEF total
    <3> QED  BY <3>2, <3>3
  <2> QED  BY <2>2, <2>3
<1>7. \A T \in SUBSET S : total[T] \in Int
  <2> TAKE T \in SUBSET S
  <2>1. T \cap D \in SUBSET D
    OBVIOUS
  <2> QED  BY <1>3, <2>1
<1> HIDE DEF total
<1>8. SumFunction(w) = total[S] /\ Takes(total, w, S)
  BY <1>1, <1>2, <1>5, <1>6, <1>7 DEF Takes
<1> QED  BY <1>8, Zenon

\* A sum is at most one whose weights are as large, and less if one is larger.
LEMMA SumsCompare ==
  ASSUME NEW S, IsFiniteSet(S), NEW D \in SUBSET S, NEW F \in SUBSET S,
         NEW g \in [D -> Int], NEW h \in [F -> Int], Below(g, h, S)
  PROVE  /\ SumFunction(g) \in Int /\ SumFunction(h) \in Int
         /\ SumFunction(g) <= SumFunction(h)
         /\ (\E x \in S : At(g, x) < At(h, x)) => SumFunction(g) < SumFunction(h)
<1>1. PICK sg : SumFunction(g) = sg[S] /\ Takes(sg, g, S)
  BY SumTakesAnyOf
<1>2. PICK sh : SumFunction(h) = sh[S] /\ Takes(sh, h, S)
  BY SumTakesAnyOf
<1>3. \A x : At(g, x) \in Int /\ At(h, x) \in Int
  BY DEF At
<1> DEFINE Less(T) == \E x \in T : At(g, x) < At(h, x)
           Good(T) == sg[T] <= sh[T] /\ (Less(T) => sg[T] < sh[T])
           bad == {T \in SUBSET S : ~Good(T)}
           sizes == {Cardinality(T) : T \in bad}
<1>4. \A T \in SUBSET S : IsFiniteSet(T) /\ Cardinality(T) \in Nat
  BY FS_Subset, FS_CardinalityType
<1>5. ASSUME bad # {} PROVE FALSE
  <2>1. sizes # {} /\ sizes \subseteq Nat
    BY <1>4, <1>5
  <2>2. PICK n \in sizes : \A m \in sizes : n <= m
    <3> HIDE DEF sizes
    <3> QED  BY <2>1, Least
  <2>3. PICK T \in bad : n = Cardinality(T)
    BY <2>2
  <2>4. T \in SUBSET S /\ ~Good(T) /\ IsFiniteSet(T) /\ n \in Nat
    BY <1>4, <2>3
  <2>5. T # {}
    <3> SUFFICES ASSUME T = {} PROVE FALSE
      OBVIOUS
    <3>1. sg[T] = 0 /\ sh[T] = 0 /\ ~Less(T)
      BY <1>1, <1>2 DEF Takes
    <3> HIDE DEF Less
    <3> QED  BY <2>4, <3>1
  <2>6. PICK x \in T : TRUE
    BY <2>5
  <2> DEFINE X == T \ {x}
  <2>7. X \in SUBSET S /\ Cardinality(X) \in Nat /\ Cardinality(X) < n
    <3>1. Cardinality(X) = n - 1 /\ X \in SUBSET S
      BY <2>3, <2>4, FS_RemoveElement
    <3> QED  BY <1>4, <2>4, <3>1
  <2>8. Good(X)
    <3> SUFFICES ASSUME ~Good(X) PROVE FALSE
      OBVIOUS
    <3>1. X \in bad
      BY <2>7
    <3>2. Cardinality(X) \in sizes
      BY <3>1
    <3>3. n <= Cardinality(X)
      BY <2>2, <3>2
    <3> QED  BY <2>4, <2>7, <3>3
  <2> DEFINE a == At(g, x)
             b == At(h, x)
  <2>9. /\ sg[T] = a + sg[X] /\ sh[T] = b + sh[X] /\ a <= b
        /\ a \in Int /\ b \in Int /\ sg[X] \in Int /\ sh[X] \in Int
    BY <1>1, <1>2, <1>3, <2>4, <2>7 DEF Below, Takes
  <2>10. Less(T) => a < b \/ Less(X)
    OBVIOUS
  <2>11. sg[X] <= sh[X] /\ (Less(X) => sg[X] < sh[X])
    BY <2>8
  <2> HIDE DEF a, b, X, Less
  <2>12. sg[T] <= sh[T] /\ (Less(T) => sg[T] < sh[T])
    BY <2>9, <2>10, <2>11
  <2> QED  BY <2>4, <2>12
<1>6. Good(S)
  BY <1>5
<1>7. sg[S] \in Int /\ sh[S] \in Int
  BY <1>1, <1>2 DEF Takes
<1> QED  BY <1>1, <1>2, <1>6, <1>7

\* A sum is at most one over fewer elements if those weigh at least as much
\* there, and the others nothing here.
LEMMA SumAtMost ==
  ASSUME NEW S, IsFiniteSet(S), NEW F \in SUBSET S,
         NEW g \in [S -> Int], NEW h \in [F -> Int],
         \A x \in F : g[x] <= h[x], \A x \in S \ F : g[x] <= 0
  PROVE  SumFunction(g) \in Int /\ SumFunction(h) \in Int /\ SumFunction(g) <= SumFunction(h)
<1>1. DOMAIN g = S /\ DOMAIN h = F
  OBVIOUS
<1>2. Below(g, h, S)
  BY <1>1 DEF Below, At
<1> QED  BY <1>1, <1>2, SumsCompare
-----------------------------------------------------------------------------
(* A queue that holds a field's next tokens in order, and what a batch takes *)
(* from its front.                                                           *)

Queues(q, f, from, path) ==
  /\ \A i \in DOMAIN q : q[i].field = f =>
       /\ q[i].position \in from .. Len(path) - 1
       /\ q[i].token = path[q[i].position + 1]
       /\ q[i].logits <=> q[i].position + 1 = Len(path)
  /\ \A i, j \in DOMAIN q :
       q[i].field = f /\ q[j].field = f /\ i < j => q[i].position < q[j].position
  /\ \A i \in DOMAIN q : q[i].field = f =>
       \A p \in from .. Len(path) - 1 : \E j \in DOMAIN q : q[j].field = f /\ q[j].position = p

\* The tokens of f among the first m.
Own(q, m, f) == {i \in 1 .. m : q[i].field = f}

\* The tokens of f in a batch.
Gained(f, batch) ==
  LET own    == {i \in DOMAIN batch : batch[i].field = f}
      nth(k) == CHOOSE i \in own : Cardinality({j \in own : j < i}) = k - 1
  IN  [k \in 1 .. Cardinality(own) |-> batch[nth(k)].token]

\* They are at the next positions, one each.
LEMMA OwnPositions ==
  ASSUME NEW I, NEW q \in Seq(I), NEW f, NEW from \in Nat, NEW path, Len(path) \in Nat,
         Queues(q, f, from, path), NEW m \in 0 .. Len(q)
  PROVE  /\ IsFiniteSet(Own(q, m, f)) /\ Cardinality(Own(q, m, f)) \in Nat
         /\ {q[i].position : i \in Own(q, m, f)} = from .. from + Cardinality(Own(q, m, f)) - 1
<1> DEFINE own == Own(q, m, f)
           at == [i \in own |-> q[i].position]
           T == {q[i].position : i \in own}
<1>1. DOMAIN q = 1 .. Len(q) /\ Len(q) \in Nat
  BY LenProperties
<1>2. \A i \in own : i \in 1 .. m /\ i \in DOMAIN q /\ q[i].field = f
  BY <1>1 DEF Own
<1>3. T \subseteq from .. Len(path) - 1
  BY <1>2 DEF Queues
<1>4. ASSUME NEW x \in T, NEW y \in from .. x PROVE y \in T
  <2>1. PICK i \in own : x = q[i].position
    OBVIOUS
  <2>2. i \in DOMAIN q /\ q[i].field = f /\ i \in 1 .. m
    BY <1>2
  <2>3. x \in from .. Len(path) - 1
    BY <1>3
  <2>4. y \in from .. Len(path) - 1
    BY <2>3
  <2>5. PICK j \in DOMAIN q : q[j].field = f /\ q[j].position = y
    BY <2>2, <2>4 DEF Queues
  <2>6. ~(i < j)
    <3>1. i < j => q[i].position < q[j].position
      BY <2>2, <2>5 DEF Queues
    <3> QED  BY <2>1, <2>3, <2>5, <3>1
  <2>7. j \in own
    BY <1>1, <2>2, <2>5, <2>6 DEF Own
  <2> QED  BY <2>5, <2>7
<1>5. IsFiniteSet(T) /\ T = from .. from + Cardinality(T) - 1
  <2>1. \A x \in T : from .. x \subseteq T
    <3> HIDE DEF T
    <3> QED  BY <1>4
  <2>2. from \in Int /\ Len(path) - 1 \in Int
    OBVIOUS
  <2> HIDE DEF T
  <2> QED  BY <1>3, <2>1, <2>2, Interval
<1>6. at \in Bijection(own, T)
  <2>1. at \in [own -> T] /\ \A t \in T : \E i \in own : at[i] = t
    OBVIOUS
  <2>2. ASSUME NEW i \in own, NEW j \in own, at[i] = at[j] PROVE i = j
    <3>1. i \in DOMAIN q /\ j \in DOMAIN q /\ q[i].field = f /\ q[j].field = f
          /\ q[i].position = q[j].position /\ q[i].position \in Int
      BY <1>2, <1>3, <2>2
    <3>2. ~(i < j) /\ ~(j < i)
      BY <3>1 DEF Queues
    <3> QED  BY <1>1, <3>1, <3>2
  <2>3. at \in Injection(own, T)
    <3> HIDE DEF at, own, T
    <3> QED  BY <2>1, <2>2 DEF Injection, IsInjective
  <2>4. at \in Surjection(own, T)
    <3> HIDE DEF at, own, T
    <3> QED  BY <2>1 DEF Surjection
  <2> QED  BY <2>3, <2>4 DEF Bijection
<1>7. IsFiniteSet(own) /\ Cardinality(T) = Cardinality(own)
  <2>1. IsFiniteSet(own)
    <3>1. IsFiniteSet(1 .. m) /\ own \in SUBSET (1 .. m)
      BY <1>1, FS_Interval DEF Own
    <3> QED  BY <3>1, FS_Subset
  <2>2. ExistsBijection(own, T)
    BY <1>6 DEF ExistsBijection
  <2> HIDE DEF own, T
  <2> QED  BY <2>1, <2>2, FS_Bijection
<1>8. Cardinality(own) \in Nat
  BY <1>7, FS_CardinalityType
<1> QED  BY <1>5, <1>7, <1>8

\* A token's position is that many after the first.
LEMMA Rank ==
  ASSUME NEW I, NEW q \in Seq(I), NEW f, NEW from \in Nat, NEW path, Len(path) \in Nat,
         Queues(q, f, from, path), NEW i \in 1 .. Len(q), q[i].field = f
  PROVE  /\ Cardinality(Own(q, i - 1, f)) \in Nat
         /\ q[i].position = from + Cardinality(Own(q, i - 1, f))
<1> DEFINE own == Own(q, i - 1, f)
           n == Cardinality(own)
           T == {q[j].position : j \in own}
           x == q[i].position
<1>1. DOMAIN q = 1 .. Len(q) /\ Len(q) \in Nat /\ i - 1 \in 0 .. Len(q)
  BY LenProperties
<1>2. n \in Nat /\ T = from .. from + n - 1
  BY <1>1, OwnPositions
<1>3. x \in from .. Len(path) - 1
  BY <1>1 DEF Queues
<1>4. \A j \in own : q[j].position < x
  BY <1>1 DEF Queues, Own
<1>5. ASSUME NEW y \in from .. x - 1 PROVE y \in T
  <2>1. y \in from .. Len(path) - 1
    BY <1>3
  <2>2. PICK j \in DOMAIN q : q[j].field = f /\ q[j].position = y
    BY <1>1, <2>1 DEF Queues
  <2>3. ~(i < j) /\ i # j
    <3>1. i < j => q[i].position < q[j].position
      BY <1>1, <2>2 DEF Queues
    <3> QED  BY <1>3, <2>2, <3>1
  <2>4. j \in own
    BY <1>1, <2>2, <2>3 DEF Own
  <2> QED  BY <2>2, <2>4
<1> HIDE DEF n, T, x
<1>6. ~(from + n - 1 >= x)
  <2> SUFFICES ASSUME from + n - 1 >= x PROVE FALSE
    OBVIOUS
  <2>1. x \in T
    BY <1>2, <1>3
  <2>2. x < x
    BY <1>4, <2>1 DEF T
  <2> QED  BY <1>3, <2>2
<1>7. ~(x - 1 > from + n - 1)
  <2> SUFFICES ASSUME x - 1 > from + n - 1 PROVE FALSE
    OBVIOUS
  <2>1. from + n \in from .. x - 1
    BY <1>2, <1>3
  <2>2. from + n \in T
    BY <1>5, <2>1
  <2> QED  BY <1>2, <2>2
<1>8. x = from + n
  BY <1>2, <1>3, <1>6, <1>7
<1> QED  BY <1>2, <1>8 DEF n, x

\* What the first m of them add is the path's next tokens.
LEMMA TakenTokens ==
  ASSUME NEW I, NEW q \in Seq(I), NEW f, NEW from \in Nat, NEW S, NEW path \in Seq(S),
         Queues(q, f, from, path), NEW m \in 0 .. Len(q)
  PROVE  /\ Own(q, m, f) # {} => from + Cardinality(Own(q, m, f)) <= Len(path)
         /\ Gained(f, SubSeq(q, 1, m)) = SubSeq(path, from + 1, from + Cardinality(Own(q, m, f)))
<1> DEFINE batch == SubSeq(q, 1, m)
           own == {i \in DOMAIN batch : batch[i].field = f}
           n == Cardinality(own)
           nth(k) == CHOOSE i \in own : Cardinality({j \in own : j < i}) = k - 1
<1>1. /\ DOMAIN q = 1 .. Len(q) /\ Len(q) \in Nat /\ Len(path) \in Nat
      /\ \A i \in 1 .. m : q[i] \in I
      /\ \A i \in 1 .. Len(path) : path[i] \in S
  BY LenProperties, ElementOfSeq
<1>2. batch \in Seq(I) /\ Len(batch) = m /\ DOMAIN batch = 1 .. m /\ \A i \in 1 .. m : batch[i] = q[i]
  <2>1. batch \in Seq(I) /\ Len(batch) = m /\ \A i \in 1 .. m : batch[i] = q[i]
    BY <1>1, SubSeqProperties
  <2> QED  BY <2>1, LenProperties
<1> HIDE DEF batch
<1>3. own = Own(q, m, f)
  BY <1>2 DEF Own
<1> DEFINE T == {q[i].position : i \in own}
<1>4. n \in Nat /\ T = from .. from + n - 1
  <2> HIDE DEF own
  <2>1. m \in 0 .. Len(q) /\ Len(path) \in Nat
    BY <1>1
  <2>2. /\ Cardinality(Own(q, m, f)) \in Nat
        /\ {q[i].position : i \in Own(q, m, f)} = from .. from + Cardinality(Own(q, m, f)) - 1
    BY <2>1, OwnPositions
  <2> QED  BY <1>3, <2>2
<1>5. ASSUME NEW i \in own
      PROVE  /\ Cardinality({j \in own : j < i}) \in Nat
             /\ q[i].position = from + Cardinality({j \in own : j < i})
             /\ q[i].position \in from .. Len(path) - 1
             /\ batch[i].token = path[q[i].position + 1]
  <2>1. i \in 1 .. m /\ i \in 1 .. Len(q) /\ q[i].field = f /\ batch[i] = q[i]
    BY <1>1, <1>2, <1>3 DEF Own
  <2>2. {j \in own : j < i} = Own(q, i - 1, f)
    BY <1>1, <1>3, <2>1 DEF Own
  <2>3. Cardinality(Own(q, i - 1, f)) \in Nat /\ q[i].position = from + Cardinality(Own(q, i - 1, f))
    BY <1>1, <2>1, Rank, ZenonT(60)
  <2>4. q[i].position \in from .. Len(path) - 1 /\ q[i].token = path[q[i].position + 1]
    BY <1>1, <2>1 DEF Queues
  <2> QED  BY <2>1, <2>2, <2>3, <2>4
<1>6. own # {} => from + n <= Len(path)
  <2> SUFFICES ASSUME own # {} PROVE from + n <= Len(path)
    OBVIOUS
  <2>1. PICK i \in own : TRUE
    OBVIOUS
  <2>2. n # 0
    <3>1. q[i].position \in T
      OBVIOUS
    <3> HIDE DEF n, own, T
    <3> QED  BY <1>4, <3>1
  <2>3. from + n - 1 \in T
    <3> HIDE DEF n, own, T
    <3> QED  BY <1>4, <2>2
  <2>4. PICK j \in own : q[j].position = from + n - 1
    BY <2>3
  <2>5. from + n - 1 \in from .. Len(path) - 1
    BY <1>5, <2>4, Zenon
  <2> HIDE DEF n
  <2> QED  BY <1>1, <1>4, <2>5
<1>7. ASSUME NEW k \in 1 .. n PROVE batch[nth(k)].token = path[from + k]
  <2>1. from + k - 1 \in T
    <3> HIDE DEF n, own, T
    <3> QED  BY <1>4
  <2>2. PICK i \in own : q[i].position = from + k - 1
    BY <2>1
  <2>3. Cardinality({j \in own : j < i}) = k - 1
    <3> DEFINE c == Cardinality({j \in own : j < i})
    <3>1. c \in Nat /\ from + k - 1 = from + c
      BY <1>5, <2>2
    <3> HIDE DEF c, n
    <3>2. c = k - 1
      BY <1>4, <3>1
    <3> QED  BY <3>2 DEF c
  <2>4. nth(k) \in own /\ Cardinality({j \in own : j < nth(k)}) = k - 1
    BY <2>3
  <2> HIDE DEF nth
  <2>5. q[nth(k)].position = from + (k - 1) /\ batch[nth(k)].token = path[q[nth(k)].position + 1]
    BY <1>5, <2>4
  <2>6. from + (k - 1) + 1 = from + k
    <3> HIDE DEF n
    <3> QED  BY <1>4
  <2> QED  BY <2>5, <2>6
<1>8. [k \in 1 .. n |-> batch[nth(k)].token] = SubSeq(path, from + 1, from + n)
  <2> DEFINE taken == [k \in 1 .. n |-> batch[nth(k)].token]
             next == SubSeq(path, from + 1, from + n)
  <2>1. \A i \in from + 1 .. from + n : path[i] \in S
    <3>1. CASE own = {}
      <4>1. n = 0
        BY <3>1, FS_EmptySet
      <4> QED  BY <4>1
    <3>2. CASE own # {}
      <4> HIDE DEF n, own
      <4> QED  BY <1>1, <1>4, <1>6, <3>2
    <3> QED  BY <3>1, <3>2
  <2> HIDE DEF n, nth
  <2>2. /\ next \in Seq(S) /\ Len(next) = n
        /\ \A k \in 1 .. n : next[k] = path[from + k]
    <3>1. /\ next \in Seq(S)
          /\ Len(next) = IF from + 1 <= from + n THEN from + n - (from + 1) + 1 ELSE 0
          /\ \A k \in 1 .. from + n - (from + 1) + 1 : next[k] = path[from + 1 + k - 1]
      BY <1>4, <2>1, SubSeqProperties
    <3>2. Len(next) = n /\ from + n - (from + 1) + 1 = n
          /\ \A k \in 1 .. n : from + 1 + k - 1 = from + k
      BY <1>4, <3>1
    <3> QED  BY <3>1, <3>2
  <2>3. next = [k \in 1 .. n |-> path[from + k]]
    <3> HIDE DEF next
    <3>1. next \in [1 .. n -> S]
      BY <2>2, LenProperties
    <3> QED  BY <2>2, <3>1
  <2>4. taken = [k \in 1 .. n |-> path[from + k]]
    BY <1>7
  <2> QED  BY <2>3, <2>4
<1>9. Gained(f, batch) = [k \in 1 .. n |-> batch[nth(k)].token]
  BY Zenon DEF Gained
<1> HIDE DEF own
<1> QED  BY <1>3, <1>6, <1>8, <1>9, Zenon DEF batch

\* The rest goes on from there.
LEMMA RestQueues ==
  ASSUME NEW I, NEW q \in Seq(I), NEW f, NEW from \in Nat, NEW path, Len(path) \in Nat,
         Queues(q, f, from, path), NEW m \in 0 .. Len(q)
  PROVE  Queues(SubSeq(q, m + 1, Len(q)), f, from + Cardinality(Own(q, m, f)), path)
<1> DEFINE n == Cardinality(Own(q, m, f))
           rest == SubSeq(q, m + 1, Len(q))
<1>1. DOMAIN q = 1 .. Len(q) /\ Len(q) \in Nat /\ \A i \in 1 .. Len(q) : q[i] \in I
  BY LenProperties, ElementOfSeq
<1>2. n \in Nat /\ {q[i].position : i \in Own(q, m, f)} = from .. from + n - 1
  BY OwnPositions
<1>3. /\ DOMAIN rest = 1 .. Len(q) - m
      /\ \A i \in 1 .. Len(q) - m : rest[i] = q[m + i] /\ m + i \in DOMAIN q
  <2>1. /\ rest \in Seq(I)
        /\ Len(rest) = IF m + 1 <= Len(q) THEN Len(q) - (m + 1) + 1 ELSE 0
        /\ \A i \in 1 .. Len(q) - (m + 1) + 1 : rest[i] = q[m + 1 + i - 1]
    BY <1>1, SubSeqProperties, SMTT(30)
  <2>2. m \in Nat /\ m <= Len(q) /\ Len(q) \in Nat
    BY <1>1
  <2>3. Len(q) - (m + 1) + 1 = Len(q) - m
        /\ \A i \in 1 .. Len(q) - m : m + 1 + i - 1 = m + i /\ m + i \in 1 .. Len(q)
    BY <2>2
  <2>4. (IF m + 1 <= Len(q) THEN Len(q) - (m + 1) + 1 ELSE 0) = Len(q) - m
    BY <2>2
  <2>5. DOMAIN rest = 1 .. Len(q) - m
    BY <2>1, <2>4, LenProperties
  <2> HIDE DEF rest
  <2> QED  BY <1>1, <2>1, <2>3, <2>5
<1> HIDE DEF rest, n
<1>4. ASSUME NEW i \in DOMAIN q, q[i].field = f
      PROVE  i > m <=> q[i].position >= from + n
  <2>1. q[i].position \in from .. Len(path) - 1
    BY <1>4 DEF Queues
  <2>2. CASE i > m
    <3>1. \A j \in Own(q, m, f) : q[j].position < q[i].position
      BY <1>1, <1>4, <2>2 DEF Own, Queues
    <3>2. ~(q[i].position < from + n)
      <4> SUFFICES ASSUME q[i].position < from + n PROVE FALSE
        OBVIOUS
      <4>1. q[i].position \in from .. from + n - 1
        BY <1>2, <2>1
      <4> QED  BY <1>2, <2>1, <3>1, <4>1
    <3> QED  BY <1>2, <2>1, <2>2, <3>2
  <2>3. CASE ~(i > m)
    <3>1. i \in Own(q, m, f)
      BY <1>1, <1>4, <2>3 DEF Own
    <3>2. q[i].position \in from .. from + n - 1
      BY <1>2, <3>1
    <3> QED  BY <1>2, <2>3, <3>2
  <2> QED  BY <2>2, <2>3
<1>5. ASSUME NEW i \in DOMAIN rest, rest[i].field = f
      PROVE  /\ rest[i].position \in from + n .. Len(path) - 1
             /\ rest[i].token = path[rest[i].position + 1]
             /\ rest[i].logits <=> rest[i].position + 1 = Len(path)
  <2>1. rest[i] = q[m + i] /\ m + i \in DOMAIN q /\ m + i > m /\ q[m + i].field = f
    BY <1>3, <1>5
  <2>2. /\ q[m + i].position \in from .. Len(path) - 1
        /\ q[m + i].token = path[q[m + i].position + 1]
        /\ q[m + i].logits <=> q[m + i].position + 1 = Len(path)
    BY <2>1 DEF Queues
  <2>3. q[m + i].position >= from + n
    BY <1>4, <2>1
  <2> QED  BY <1>2, <2>1, <2>2, <2>3
<1>6. ASSUME NEW i \in DOMAIN rest, NEW j \in DOMAIN rest, rest[i].field = f, rest[j].field = f, i < j
      PROVE  rest[i].position < rest[j].position
  <2>1. rest[i] = q[m + i] /\ m + i \in DOMAIN q /\ rest[j] = q[m + j] /\ m + j \in DOMAIN q
        /\ m + i < m + j
    BY <1>3, <1>6
  <2> QED  BY <1>6, <2>1 DEF Queues
<1>7. ASSUME NEW i \in DOMAIN rest, rest[i].field = f, NEW p \in from + n .. Len(path) - 1
      PROVE  \E j \in DOMAIN rest : rest[j].field = f /\ rest[j].position = p
  <2>1. rest[i] = q[m + i] /\ m + i \in DOMAIN q
    BY <1>3
  <2>2. p \in from .. Len(path) - 1 /\ p >= from + n
    BY <1>2
  <2>3. PICK j \in DOMAIN q : q[j].field = f /\ q[j].position = p
    BY <1>7, <2>1, <2>2 DEF Queues
  <2>4. j > m
    BY <1>4, <2>2, <2>3
  <2>5. j - m \in 1 .. Len(q) - m /\ m + (j - m) = j
    BY <1>1, <2>4
  <2>6. j - m \in DOMAIN rest /\ rest[j - m] = q[j]
    BY <1>3, <2>5
  <2> QED  BY <2>3, <2>6
<1>8. Queues(rest, f, from + n, path)
  BY <1>5, <1>6, <1>7 DEF Queues
<1> QED  BY <1>8 DEF rest, n
-----------------------------------------------------------------------------
(* The candidates of a field. *)

\* The smallest of a set of naturals.
LEMMA MinFacts ==
  ASSUME NEW S, S \subseteq Nat, S # {}
  PROVE  Min(S) \in S /\ \A x \in S : Min(S) <= x
<1>1. \E m \in S : \A x \in S : m <= x
  BY Least
<1> QED  BY <1>1 DEF Min

\* One of finitely many numbers is the largest.
LEMMA Largest ==
  ASSUME NEW n \in Nat \ {0}, NEW w \in [1 .. n -> Nat]
  PROVE  \E i \in 1 .. n : \A j \in 1 .. n : w[j] <= w[i]
<1> DEFINE Good(m) == \E i \in 1 .. m : \A j \in 1 .. m : w[j] <= w[i]
           bad == {m \in 1 .. n : ~Good(m)}
<1>1. ASSUME bad # {} PROVE FALSE
  <2>1. PICK m \in bad : \A k \in bad : m <= k
    <3>1. bad \subseteq Nat
      OBVIOUS
    <3> HIDE DEF bad
    <3> QED  BY <1>1, <3>1, Least
  <2>2. m \in 1 .. n /\ ~Good(m)
    BY <2>1
  <2>3. CASE m = 1
    BY <2>2, <2>3
  <2>4. CASE m # 1
    <3>1. m - 1 \in 1 .. n /\ ~(m <= m - 1)
      BY <2>2, <2>4
    <3>2. Good(m - 1)
      <4> HIDE DEF Good
      <4> QED  BY <2>1, <3>1
    <3>3. PICK i \in 1 .. m - 1 : \A j \in 1 .. m - 1 : w[j] <= w[i]
      BY <3>2
    <3>4. \A j \in 1 .. m : j = m \/ j \in 1 .. m - 1
      BY <2>2
    <3>5. w[i] \in Nat /\ w[m] \in Nat /\ i \in 1 .. m /\ m \in 1 .. m
      BY <2>2, <3>3
    <3>6. CASE w[m] <= w[i]
      BY <2>2, <3>3, <3>4, <3>5, <3>6
    <3>7. CASE ~(w[m] <= w[i])
      <4>1. \A j \in 1 .. m - 1 : w[j] <= w[m]
        <5> TAKE j \in 1 .. m - 1
        <5>1. w[j] \in Nat /\ w[j] <= w[i]
          BY <2>2, <3>3
        <5> QED  BY <3>5, <3>7, <5>1
      <4> QED  BY <2>2, <3>4, <3>5, <4>1
    <3> QED  BY <3>6, <3>7
  <2> QED  BY <2>3, <2>4
<1>2. n \in 1 .. n
  OBVIOUS
<1> QED  BY <1>1, <1>2

\* The longest choice of a field.
LEMMA DeepestFacts ==
  ASSUME NEW field, field.candidates \in Seq(Seq(Nat)) \ {<<>>}
  PROVE  /\ Deepest(field) \in Nat
         /\ \A i \in DOMAIN field.candidates : Len(field.candidates[i]) <= Deepest(field)
<1> DEFINE c == field.candidates
           lengths == {Len(x) : x \in ToSet(c)}
           w == [i \in 1 .. Len(c) |-> Len(c[i])]
<1>1. DOMAIN c = 1 .. Len(c) /\ Len(c) \in Nat \ {0} /\ \A i \in 1 .. Len(c) : c[i] \in Seq(Nat)
  BY LenProperties, EmptySeq, ElementOfSeq
<1>2. w \in [1 .. Len(c) -> Nat]
  BY <1>1, LenProperties
<1>3. lengths = {w[i] : i \in 1 .. Len(c)}
  BY <1>1 DEF ToSet
<1>4. PICK i \in 1 .. Len(c) : \A j \in 1 .. Len(c) : w[j] <= w[i]
  <2> HIDE DEF w
  <2> QED  BY <1>1, <1>2, Largest
<1>5. w[i] \in lengths /\ \A x \in lengths : x <= w[i]
  <2> HIDE DEF w, lengths
  <2> QED  BY <1>3, <1>4
<1>6. Max(lengths) \in lengths /\ \A x \in lengths : x <= Max(lengths)
  <2> HIDE DEF w, lengths
  <2> QED  BY <1>5 DEF Max
<1>7. Deepest(field) = Max(lengths)
  BY DEF Deepest
<1>8. \A j \in 1 .. Len(c) : Len(c[j]) = w[j] /\ w[j] \in lengths
  <2>1. \A j \in 1 .. Len(c) : Len(c[j]) = w[j]
    OBVIOUS
  <2> HIDE DEF w, lengths
  <2> QED  BY <1>3, <2>1
<1>9. lengths \subseteq Nat
  <2> HIDE DEF w, lengths
  <2> QED  BY <1>2, <1>3
<1> HIDE DEF lengths, w
<1> QED  BY <1>1, <1>6, <1>7, <1>8, <1>9

\* What a field's CandidateTree state always is: as many tokens consumed as levels,
\* and a choice as long as that while it is open.
Tree(s, candidates) ==
  /\ s \in [candidates : {candidates}, live : SUBSET DOMAIN candidates,
             consumed : Seq(Nat), levels : Nat, winner : Nat]
  /\ Len(s.consumed) = s.levels
  /\ ~Resolved(s) => s.levels = 0 \/ \E i \in DOMAIN candidates : Len(candidates[i]) >= s.levels

\* A field starts with nothing consumed.
LEMMA StartTree ==
  ASSUME NEW c \in Seq(Seq(Nat))
  PROVE  Tree(Start(c), c) /\ Start(c).consumed = <<>> /\ Start(c).levels = 0
<1> DEFINE s == [candidates |-> c, live |-> DOMAIN c, consumed |-> <<>>, levels |-> 0, winner |-> 0]
<1>1. Tree(s, c)
  BY DEF Tree
<1>2. Tree(Finish(s, 1), c) /\ Finish(s, 1).consumed = <<>> /\ Finish(s, 1).levels = 0
  <2>1. /\ s \in [candidates : {c}, live : SUBSET DOMAIN c, consumed : Seq(Nat), levels : Nat, winner : Nat]
        /\ s.consumed = <<>> /\ s.levels = 0
    OBVIOUS
  <2> HIDE DEF s
  <2> QED  BY <2>1 DEF Tree, Finish, Resolved
<1>3. Start(c) = IF Len(c) = 1 THEN Finish(s, 1) ELSE s
  BY Zenon DEF Start
<1> HIDE DEF s
<1>4. s.consumed = <<>> /\ s.levels = 0
  BY DEF s
<1> QED  BY <1>1, <1>2, <1>3, <1>4, Zenon

\* To finish a field is to resolve it.
LEMMA FinishTree ==
  ASSUME NEW c \in Seq(Seq(Nat)), NEW s, Tree(s, c), NEW i \in DOMAIN c
  PROVE  Tree(Finish(s, i), c) /\ Resolved(Finish(s, i))
<1>1. i \in Nat /\ i # 0
  BY LenProperties
<1> QED  BY <1>1 DEF Tree, Finish, Resolved

\* An advance resolves the field or consumes one more token.
LEMMA AdvancedTree ==
  ASSUME NEW c \in Seq(Seq(Nat)), NEW s, Tree(s, c), ~Resolved(s), NEW t \in Advanced(s)
  PROVE  /\ Tree(t, c)
         /\ ~Resolved(t) => /\ t.levels = s.levels + 1
                            /\ \E token \in Nat : t.consumed = Append(s.consumed, token)
<1>1. /\ s.candidates = c /\ s.live \subseteq DOMAIN c /\ s.levels \in Nat
      /\ s.consumed \in Seq(Nat) /\ Len(s.consumed) = s.levels /\ s.winner = 0
  BY DEF Tree, Resolved
<1>2. DOMAIN c = 1 .. Len(c) /\ \A i \in DOMAIN c : c[i] \in Seq(Nat) /\ Len(c[i]) \in Nat
  BY LenProperties, ElementOfSeq
<1>3. CASE Exhausted(s) # {}
  <2>1. Exhausted(s) \subseteq DOMAIN c
    BY <1>1 DEF Exhausted
  <2>2. Min(Exhausted(s)) \in DOMAIN c
    <3>1. Exhausted(s) \subseteq Nat
      BY <1>2, <2>1
    <3>2. Min(Exhausted(s)) \in Exhausted(s)
      BY <1>3, <3>1, MinFacts
    <3> QED  BY <2>1, <3>2
  <2>3. t = Finish(s, Min(Exhausted(s)))
    BY <1>3 DEF Advanced, TakeExhausted
  <2> QED  BY <2>2, <2>3, FinishTree
<1>4. CASE Exhausted(s) = {}
  <2>1. PICK token \in Tokens(s) : t = Descend(s, token)
    BY <1>4 DEF Advanced
  <2>2. PICK i \in s.live : token = NextToken(s, i)
    BY <2>1 DEF Tokens
  <2>3. Len(c[i]) >= s.levels + 1 /\ i \in DOMAIN c /\ token = c[i][s.levels + 1] /\ token \in Nat
    <3>1. i \in DOMAIN c /\ ~(s.levels >= Len(c[i]))
      BY <1>1, <1>4, <2>2 DEF Exhausted
    <3>2. Len(c[i]) >= s.levels + 1 /\ s.levels + 1 \in 1 .. Len(c[i])
      BY <1>1, <1>2, <3>1
    <3>3. c[i][s.levels + 1] \in Nat
      BY <1>2, <3>1, <3>2, ElementOfSeq
    <3> QED  BY <1>1, <2>2, <3>1, <3>2, <3>3 DEF NextToken
  <2> DEFINE d == [s EXCEPT !.live = Group(s, token), !.consumed = Append(@, token), !.levels = @ + 1]
  <2>4. Append(s.consumed, token) \in Seq(Nat) /\ Len(Append(s.consumed, token)) = s.levels + 1
    BY <1>1, <2>3, AppendProperties
  <2>5. Group(s, token) \subseteq DOMAIN c
    BY <1>1 DEF Group
  <2>6. /\ d \in [candidates : {c}, live : SUBSET DOMAIN c, consumed : Seq(Nat), levels : Nat, winner : Nat]
        /\ d.consumed = Append(s.consumed, token) /\ d.levels = s.levels + 1
        /\ d.live = Group(s, token)
    <3> DEFINE g == Group(s, token)
               p == Append(s.consumed, token)
               l == s.levels + 1
    <3>1. s \in [candidates : {c}, live : SUBSET DOMAIN c, consumed : Seq(Nat), levels : Nat, winner : Nat]
      BY DEF Tree
    <3>2. g \in SUBSET DOMAIN c /\ p \in Seq(Nat) /\ l \in Nat
      BY <1>1, <2>4, <2>5
    <3>3. d = [s EXCEPT !.live = g, !.consumed = p, !.levels = l]
      OBVIOUS
    <3> HIDE DEF g, p, l, d
    <3>4. /\ d \in [candidates : {c}, live : SUBSET DOMAIN c, consumed : Seq(Nat), levels : Nat, winner : Nat]
          /\ d.consumed = p /\ d.levels = l /\ d.live = g
      BY <3>1, <3>2, <3>3
    <3> QED  BY <3>4 DEF g, p, l
  <2>7. Tree(d, c)
    <3> HIDE DEF d
    <3> QED  BY <2>3, <2>4, <2>6 DEF Tree
  <2>8. t = IF Cardinality(d.live) = 1 THEN Finish(d, CHOOSE j \in d.live : TRUE) ELSE d
    BY <2>1, Zenon DEF Descend, Won
  <2>9. (CHOOSE j \in d.live : TRUE) \in DOMAIN c
    <3>1. i \in d.live
      BY <2>2, <2>6 DEF Group
    <3> HIDE DEF d
    <3> QED  BY <2>5, <2>6, <3>1
  <2> HIDE DEF d
  <2>10. CASE Cardinality(d.live) = 1
    <3>1. t = Finish(d, CHOOSE j \in d.live : TRUE)
      BY <2>8, <2>10
    <3> QED  BY <2>7, <2>9, <3>1, FinishTree
  <2>11. CASE Cardinality(d.live) # 1
    BY <2>3, <2>6, <2>7, <2>8, <2>11
  <2> QED  BY <2>10, <2>11
<1> QED  BY <1>3, <1>4

-----------------------------------------------------------------------------
(* What a sequence is after a batch, and what is left of the queue.         *)

\* What is left of a queue.
LEMMA RestFacts ==
  ASSUME NEW I, NEW q \in Seq(I), NEW m \in 0 .. Len(q)
  PROVE  LET rest == SubSeq(q, m + 1, Len(q)) IN
         /\ rest \in Seq(I) /\ Len(rest) = Len(q) - m /\ DOMAIN rest = 1 .. Len(q) - m
         /\ \A j \in 1 .. Len(q) - m : rest[j] = q[m + j] /\ m + j \in DOMAIN q
<1> DEFINE rest == SubSeq(q, m + 1, Len(q))
<1>1. DOMAIN q = 1 .. Len(q) /\ Len(q) \in Nat /\ m \in Nat /\ m <= Len(q)
  BY LenProperties
<1>2. \A x \in m + 1 .. Len(q) : q[x] \in I
  BY <1>1, ElementOfSeq
<1>3. /\ rest \in Seq(I) /\ Len(rest) = IF m + 1 <= Len(q) THEN Len(q) - (m + 1) + 1 ELSE 0
      /\ \A j \in 1 .. Len(q) - (m + 1) + 1 : rest[j] = q[m + 1 + j - 1]
  BY <1>1, <1>2, SubSeqProperties
<1>4. (IF m + 1 <= Len(q) THEN Len(q) - (m + 1) + 1 ELSE 0) = Len(q) - m
  <2>1. m \in Nat /\ m <= Len(q) /\ Len(q) \in Nat
    BY <1>1
  <2> QED  BY <2>1
<1>5. Len(rest) = Len(q) - m /\ DOMAIN rest = 1 .. Len(q) - m
  BY <1>3, <1>4, LenProperties
<1> HIDE DEF rest
<1>6. ASSUME NEW j \in 1 .. Len(q) - m PROVE rest[j] = q[m + j] /\ m + j \in DOMAIN q
  <2>1. j \in 1 .. Len(q) - (m + 1) + 1 /\ m + 1 + j - 1 = m + j /\ m + j \in 1 .. Len(q)
    BY <1>1
  <2> QED  BY <1>1, <1>3, <2>1
<1> QED  BY <1>3, <1>5, <1>6 DEF rest

\* What a sequence that holds held is with its tokens of a batch.
Taken(held, f, batch) == held \o Gained(f, batch)

\* held is a front part of path.
Leads(held, path) == Len(held) <= Len(path) /\ held = SubSeq(path, 1, Len(held))

\* Field f has tokens in the queue.
Queued(q, f) == \E i \in DOMAIN q : q[i].field = f

\* The whole path is in.
Whole(held, path) == held = path

\* took is n tokens longer than held.
LongerBy(took, held, n) == Len(took) = Len(held) + n

\* It is longer by the tokens of the batch.
LEMMA TakenLength ==
  ASSUME NEW I, NEW S, NEW q \in Seq(I), NEW f, NEW held \in Seq(S), NEW path \in Seq(S),
         NEW m \in 0 .. Len(q), Queues(q, f, Len(held), path)
  PROVE  LongerBy(Taken(held, f, SubSeq(q, 1, m)), held, Cardinality(Own(q, m, f)))
<1> DEFINE n == Cardinality(Own(q, m, f))
           more == SubSeq(path, Len(held) + 1, Len(held) + n)
<1>1. Len(held) \in Nat /\ Len(path) \in Nat
  BY LenProperties
<1>2. n \in Nat
  BY <1>1, OwnPositions
<1>3. Own(q, m, f) = {} => n = 0
  BY FS_EmptySet
<1>4. (Own(q, m, f) # {} => Len(held) + n <= Len(path)) /\ Gained(f, SubSeq(q, 1, m)) = more
  BY <1>1, TakenTokens
<1> HIDE DEF n
<1>5. \A i \in Len(held) + 1 .. Len(held) + n : path[i] \in S
  BY <1>1, <1>2, <1>3, <1>4, ElementOfSeq
<1>6. more \in Seq(S) /\ Len(more) = n
  BY <1>1, <1>2, <1>5, SubSeqProperties
<1>7. Len(held \o more) = Len(held) + Len(more)
  <2> HIDE DEF more
  <2> QED  BY <1>6, ConcatProperties
<1> QED  BY <1>4, <1>6, <1>7 DEF Taken, n, LongerBy

\* A batch takes a field along its path, or leaves it alone.
LEMMA TakeBatch ==
  ASSUME NEW I, NEW S, NEW q \in Seq(I), NEW f, NEW held \in Seq(S), NEW path \in Seq(S),
         NEW m \in 0 .. Len(q), Queues(q, f, Len(held), path),
         (\E i \in DOMAIN q : q[i].field = f) => Leads(held, path)
  PROVE  /\ Taken(held, f, SubSeq(q, 1, m)) \in Seq(S)
         /\ Queues(SubSeq(q, m + 1, Len(q)), f, Len(Taken(held, f, SubSeq(q, 1, m))), path)
         /\ IF Own(q, m, f) = {} THEN Taken(held, f, SubSeq(q, 1, m)) = held
            ELSE Leads(Taken(held, f, SubSeq(q, 1, m)), path)
<1> DEFINE own == Own(q, m, f)
           n == Cardinality(own)
           batch == SubSeq(q, 1, m)
<1>1. Len(held) \in Nat /\ Len(path) \in Nat /\ DOMAIN q = 1 .. Len(q) /\ Len(q) \in Nat
  BY LenProperties
<1>2. /\ own # {} => Len(held) + n <= Len(path)
      /\ Gained(f, batch) = SubSeq(path, Len(held) + 1, Len(held) + n)
  BY <1>1, TakenTokens
<1>3. n \in Nat
  BY <1>1, OwnPositions
<1>4. Queues(SubSeq(q, m + 1, Len(q)), f, Len(held) + n, path)
  BY <1>1, RestQueues
<1>5. Taken(held, f, batch) = held \o SubSeq(path, Len(held) + 1, Len(held) + n)
  BY <1>2, Zenon DEF Taken
<1> HIDE DEF n
<1>6. CASE own = {}
  <2>1. n = 0
    BY <1>6, FS_EmptySet DEF n
  <2>2. SubSeq(path, Len(held) + 1, Len(held) + n) = <<>>
    BY <1>1, <2>1, SubSeqEmpty
  <2>3. Taken(held, f, batch) = held
    BY <1>5, <2>2, ConcatEmptySeq
  <2>4. Len(held) + n = Len(held)
    BY <1>1, <2>1
  <2> QED  BY <1>4, <1>6, <2>3, <2>4 DEF n
<1>7. CASE own # {}
  <2>1. Len(held) + n <= Len(path)
    BY <1>2, <1>7
  <2>2. \E i \in DOMAIN q : q[i].field = f
    <3>1. \A i \in 1 .. m : i \in DOMAIN q
      BY <1>1
    <3> QED  BY <1>7, <3>1 DEF Own
  <2>3. held = SubSeq(path, 1, Len(held))
    BY <2>2 DEF Leads
  <2>4. held \o SubSeq(path, Len(held) + 1, Len(held) + n) = SubSeq(path, 1, Len(held) + n)
    <3> DEFINE l == Len(held)
    <3>1. 1 \in 1 .. Len(path) + 1 /\ l \in 1 - 1 .. Len(path) /\ l + n \in l .. Len(path)
      BY <1>1, <1>3, <2>1
    <3>2. held = SubSeq(path, 1, l)
      BY <2>3
    <3> HIDE DEF l
    <3>3. SubSeq(path, 1, l) \o SubSeq(path, l + 1, l + n) = SubSeq(path, 1, l + n)
      BY <3>1, ConcatAdjacentSubSeq
    <3>4. held \o SubSeq(path, l + 1, l + n) = SubSeq(path, 1, l + n)
      BY <3>2, <3>3, Zenon
    <3> QED  BY <3>4 DEF l
  <2>5. /\ SubSeq(path, 1, Len(held) + n) \in Seq(S)
        /\ Len(SubSeq(path, 1, Len(held) + n)) = Len(held) + n
    <3>1. \A i \in 1 .. Len(held) + n : path[i] \in S
      BY <1>1, <1>3, <2>1, ElementOfSeq
    <3> QED  BY <1>1, <1>3, <2>1, <3>1, SubSeqProperties
  <2>6. Taken(held, f, batch) = SubSeq(path, 1, Len(held) + n)
    BY <1>5, <2>4
  <2>7. Leads(Taken(held, f, batch), path)
    BY <2>1, <2>5, <2>6 DEF Leads
  <2> QED  BY <1>4, <1>7, <2>5, <2>6, <2>7 DEF n
<1> QED  BY <1>6, <1>7

\* The token whose logits are read is the path's last, and the queue's last of
\* its field.
LEMMA LastTaken ==
  ASSUME NEW I, NEW S, NEW q \in Seq(I), NEW f, NEW held \in Seq(S), NEW path \in Seq(S),
         NEW m \in 0 .. Len(q), NEW i \in 1 .. m,
         Queues(q, f, Len(held), path), Leads(held, path), q[i].field = f, q[i].logits
  PROVE  /\ Whole(Taken(held, f, SubSeq(q, 1, m)), path)
         /\ ~Queued(SubSeq(q, m + 1, Len(q)), f)
<1> DEFINE took == Taken(held, f, SubSeq(q, 1, m))
           n == Cardinality(Own(q, m, f))
           rest == SubSeq(q, m + 1, Len(q))
<1>1. Len(held) \in Nat /\ Len(path) \in Nat /\ DOMAIN q = 1 .. Len(q) /\ Len(q) \in Nat
  BY LenProperties
<1>2. i \in DOMAIN q /\ i \in Own(q, m, f)
  BY <1>1 DEF Own
<1>3. q[i].position \in Int /\ q[i].position + 1 = Len(path)
  BY <1>1, <1>2 DEF Queues
<1>4. n \in Nat /\ q[i].position \in Len(held) .. Len(held) + n - 1
  <2>1. /\ n \in Nat
        /\ {q[j].position : j \in Own(q, m, f)} = Len(held) .. Len(held) + n - 1
    BY <1>1, OwnPositions, ZenonT(60)
  <2> HIDE DEF n
  <2> QED  BY <1>2, <2>1
<1>5. /\ Len(took) = Len(held) + n /\ Len(took) <= Len(path) /\ took = SubSeq(path, 1, Len(took))
      /\ Queues(rest, f, Len(took), path)
  <2>1. Len(took) = Len(held) + n
    <3>1. LongerBy(took, held, n)
      BY TakenLength
    <3> QED  BY <3>1, Zenon DEF LongerBy
  <2>2. Queues(rest, f, Len(took), path)
    BY TakeBatch
  <2>3. Leads(took, path)
    BY <1>2, TakeBatch
  <2> QED  BY <2>1, <2>2, <2>3, Zenon DEF Leads
<1> HIDE DEF took, n
<1>6. Len(took) = Len(path)
  BY <1>1, <1>3, <1>4, <1>5
<1>7. took = path
  BY <1>5, <1>6, SubSeqFull
<1>8. ASSUME NEW j \in DOMAIN rest, rest[j].field = f PROVE FALSE
  <2>2. rest[j].position \in Len(path) .. Len(path) - 1
    BY <1>5, <1>6, <1>8 DEF Queues
  <2> QED  BY <1>1, <2>2
<1> QED  BY <1>7, <1>8 DEF took, rest, Whole, Queued

\* While it is not in the batch, the field stays in the queue.
LEMMA StillQueued ==
  ASSUME NEW I, NEW q \in Seq(I), NEW f, NEW from \in Nat, NEW path, Len(path) \in Nat,
         NEW m \in 0 .. Len(q),
         Queues(q, f, from, path), Queued(q, f),
         \A j \in 1 .. m : q[j].field = f => ~q[j].logits
  PROVE  Queued(SubSeq(q, m + 1, Len(q)), f)
<1> PICK i \in DOMAIN q : q[i].field = f
  BY DEF Queued
<1>1. DOMAIN q = 1 .. Len(q) /\ Len(q) \in Nat
  BY LenProperties
<1>2. q[i].position \in from .. Len(path) - 1
  BY DEF Queues
<1>3. Len(path) - 1 \in from .. Len(path) - 1
  BY <1>2
<1>4. PICK j \in DOMAIN q : q[j].field = f /\ q[j].position = Len(path) - 1
  BY <1>3 DEF Queues
<1>5. q[j].logits
  <2>1. q[j].position + 1 = Len(path)
    BY <1>4
  <2> QED  BY <1>4, <2>1 DEF Queues
<1>6. j \in m + 1 .. Len(q)
  BY <1>1, <1>4, <1>5
<1>7. j - m \in DOMAIN SubSeq(q, m + 1, Len(q)) /\ SubSeq(q, m + 1, Len(q))[j - m] = q[j]
  <2> DEFINE rest == SubSeq(q, m + 1, Len(q))
  <2>1. j - m \in 1 .. Len(q) - m /\ m + (j - m) = j
    BY <1>1, <1>6
  <2>2. DOMAIN rest = 1 .. Len(q) - m /\ \A x \in 1 .. Len(q) - m : rest[x] = q[m + x]
    BY RestFacts
  <2> HIDE DEF rest
  <2>3. j - m \in DOMAIN rest /\ rest[j - m] = q[j]
    BY <2>1, <2>2
  <2> QED  BY <2>3 DEF rest
<1> QED  BY <1>4, <1>7 DEF Queued

-----------------------------------------------------------------------------
(* Where a field is: how its queued tokens, its sequence, its candidates and*)
(* its next position fit together, and that every kind of step keeps it so. *)

\* A token in the queue.
Item == [field : Nat, token : Token, position : Nat, logits : BOOLEAN]

\* A field's sequence, from its first token to the last consumed one.
PathFrom(base, tree) == base \o PathTokens(tree.consumed)

\* Where a field is, n tree passes in, when its sequence holds held, its own
\* text ends base, and its next token goes to position next: with tokens in the
\* queue it is on its way to the end of its path, where it has consumed one token
\* in each pass before this one; without, unless it is resolved, it has read its
\* logits there and consumed one more.
FieldHolds(f, q, held, tree, choices, base, next, n, most) ==
  /\ Tree(tree, choices)
  /\ Queues(q, f, Len(held), PathFrom(base, tree))
  /\ Queued(q, f) =>
       /\ tree.levels = n
       /\ Leads(held, PathFrom(base, tree))
       /\ next = Len(PathFrom(base, tree))
       /\ Len(PathFrom(base, tree)) <= most
  /\ ~Queued(q, f) /\ ~Resolved(tree) =>
       /\ tree.levels = n + 1
       /\ Leads(held, PathFrom(base, tree))
       /\ next = Len(held)
       /\ Len(PathFrom(base, tree)) = Len(held) + 1

\* The tokens of a path.
LEMMA PathFacts ==
  ASSUME NEW path \in Seq(Nat)
  PROVE  PathTokens(path) \in Seq(Token) /\ Len(PathTokens(path)) = Len(path)
<1>1. DOMAIN path = 1 .. Len(path) /\ Len(path) \in Nat
  BY LenProperties
<1>2. \A i \in 1 .. Len(path) : <<"candidate", path[i], 0>> \in Token
  BY ElementOfSeq DEF Token
<1>3. PathTokens(path) \in [1 .. Len(path) -> Token]
  BY <1>1, <1>2 DEF PathTokens
<1> QED  BY <1>1, <1>3

\* A path one token further.
LEMMA PathFurther ==
  ASSUME NEW path \in Seq(Nat), NEW token \in Nat
  PROVE  PathTokens(Append(path, token)) = Append(PathTokens(path), <<"candidate", token, 0>>)
<1> DEFINE longer == Append(path, token)
           item == <<"candidate", token, 0>>
           one == PathTokens(longer)
           two == Append(PathTokens(path), item)
<1>1. /\ longer \in Seq(Nat) /\ Len(longer) = Len(path) + 1
      /\ \A i \in 1 .. Len(path) : longer[i] = path[i]
      /\ longer[Len(path) + 1] = token
  BY AppendProperties
<1>2. Len(path) \in Nat /\ DOMAIN path = 1 .. Len(path) /\ DOMAIN longer = 1 .. Len(path) + 1
  BY <1>1, LenProperties
<1>3. item \in Token
  BY DEF Token
<1>4. one \in Seq(Token) /\ Len(one) = Len(path) + 1
  BY <1>1, PathFacts
<1>5. /\ two \in Seq(Token) /\ Len(two) = Len(path) + 1
      /\ \A i \in 1 .. Len(path) : two[i] = PathTokens(path)[i]
      /\ two[Len(path) + 1] = item
  <2> HIDE DEF item
  <2>1. PathTokens(path) \in Seq(Token) /\ Len(PathTokens(path)) = Len(path)
    BY PathFacts
  <2> QED  BY <1>3, <2>1, AppendProperties
<1>6. \A i \in 1 .. Len(path) : one[i] = <<"candidate", path[i], 0>> /\ PathTokens(path)[i] = <<"candidate", path[i], 0>>
  BY <1>1, <1>2 DEF PathTokens
<1>7. one[Len(path) + 1] = item
  BY <1>1, <1>2 DEF PathTokens
<1> HIDE DEF one, two, item
<1>8. \A i \in 1 .. Len(one) : one[i] = two[i]
  <2> TAKE i \in 1 .. Len(one)
  <2>1. i \in 1 .. Len(path) \/ i = Len(path) + 1
    BY <1>2, <1>4
  <2> QED  BY <1>5, <1>6, <1>7, <2>1
<1>9. one = two
  BY <1>4, <1>5, <1>8, SeqEqual
<1> QED  BY <1>9 DEF one, two, item

\* The same with what comes before the path.
LEMMA PathFromFacts ==
  ASSUME NEW base \in Seq(Token), NEW tree, tree.consumed \in Seq(Nat)
  PROVE  /\ PathFrom(base, tree) \in Seq(Token)
         /\ Len(PathFrom(base, tree)) = Len(base) + Len(tree.consumed)
<1> DEFINE path == PathTokens(tree.consumed)
<1>1. path \in Seq(Token) /\ Len(path) = Len(tree.consumed)
  BY PathFacts
<1> HIDE DEF path
<1>2. base \o path \in Seq(Token) /\ Len(base \o path) = Len(base) + Len(path)
  BY <1>1, ConcatProperties
<1> QED  BY <1>1, <1>2 DEF PathFrom, path

LEMMA PathFromFurther ==
  ASSUME NEW base \in Seq(Token), NEW tree, tree.consumed \in Seq(Nat), NEW token \in Nat,
         NEW next, next.consumed = Append(tree.consumed, token)
  PROVE  /\ Leads(PathFrom(base, tree), PathFrom(base, next))
         /\ LongerBy(PathFrom(base, next), PathFrom(base, tree), 1)
<1> DEFINE path == PathTokens(tree.consumed)
           item == <<"candidate", token, 0>>
           more == Append(path, item)
           short == base \o path
           long == base \o more
<1>1. path \in Seq(Token) /\ item \in Token
  BY PathFacts DEF Token
<1>2. PathFrom(base, next) = long /\ PathFrom(base, tree) = short
  BY PathFurther DEF PathFrom
<1> HIDE DEF path, item
<1>3. Append(path, item) \in Seq(Token) /\ Len(Append(path, item)) = Len(path) + 1
      /\ \A i \in 1 .. Len(path) : Append(path, item)[i] = path[i]
  BY <1>1, AppendProperties
<1>4. /\ short \in Seq(Token) /\ Len(short) = Len(base) + Len(path)
      /\ \A i \in 1 .. Len(base) + Len(path) :
           short[i] = IF i <= Len(base) THEN base[i] ELSE path[i - Len(base)]
  BY <1>1, ConcatProperties
<1>5. /\ long \in Seq(Token) /\ Len(long) = Len(base) + Len(more)
      /\ \A i \in 1 .. Len(base) + Len(more) :
           long[i] = IF i <= Len(base) THEN base[i] ELSE more[i - Len(base)]
  <2>1. more \in Seq(Token)
    BY <1>3
  <2> HIDE DEF more
  <2> QED  BY <2>1, ConcatProperties
<1>6. Len(path) \in Nat /\ Len(base) \in Nat
  BY <1>1, LenProperties
<1> HIDE DEF short, long
<1>7. \A i \in 1 .. Len(short) : long[i] = short[i]
  <2> TAKE i \in 1 .. Len(short)
  <2>1. i \in 1 .. Len(base) + Len(path) /\ i \in 1 .. Len(base) + Len(more)
    BY <1>3, <1>4, <1>6
  <2>2. CASE i <= Len(base)
    BY <1>4, <1>5, <2>1, <2>2
  <2>3. CASE ~(i <= Len(base))
    <3>1. i - Len(base) \in 1 .. Len(path)
      BY <1>6, <2>1, <2>3
    <3>2. more[i - Len(base)] = path[i - Len(base)]
      BY <1>3, <3>1
    <3> QED  BY <1>4, <1>5, <2>1, <2>3, <3>2
  <2> QED  BY <2>2, <2>3
<1>8. Len(long) = Len(short) + 1 /\ Len(short) \in Nat
  BY <1>3, <1>4, <1>5, <1>6
<1>9. short = SubSeq(long, 1, Len(short))
  <2> DEFINE front == SubSeq(long, 1, Len(short))
  <2>1. \A i \in 1 .. Len(short) : long[i] \in Token
    BY <1>5, <1>8, ElementOfSeq
  <2>2. /\ front \in Seq(Token)
        /\ Len(front) = IF 1 <= Len(short) THEN Len(short) - 1 + 1 ELSE 0
        /\ \A i \in 1 .. Len(short) - 1 + 1 : front[i] = long[1 + i - 1]
    BY <1>8, <2>1, SubSeqProperties
  <2> HIDE DEF front
  <2>3. Len(front) = Len(short)
    BY <1>8, <2>2
  <2>4. \A i \in 1 .. Len(short) : front[i] = short[i]
    <3> TAKE i \in 1 .. Len(short)
    <3>1. i \in 1 .. Len(short) - 1 + 1 /\ 1 + i - 1 = i
      BY <1>8
    <3> QED  BY <1>7, <2>2, <3>1
  <2>5. front = short
    BY <1>4, <2>2, <2>3, <2>4, SeqEqual
  <2> QED  BY <2>5 DEF front
<1>10. Leads(short, long) /\ LongerBy(long, short, 1)
  BY <1>8, <1>9 DEF Leads, LongerBy
<1> QED  BY <1>2, <1>10, Zenon

\* A batch that reads no logits of a field takes it along its path.
LEMMA FieldTaken ==
  ASSUME NEW f, NEW I, NEW q \in Seq(I), NEW held \in Seq(Token), NEW tree, NEW choices,
         NEW base \in Seq(Token), NEW next, NEW n, NEW most \in Nat, NEW m \in 0 .. Len(q),
         FieldHolds(f, q, held, tree, choices, base, next, n, most), Len(held) <= most
  PROVE  /\ Taken(held, f, SubSeq(q, 1, m)) \in Seq(Token)
         /\ Len(Taken(held, f, SubSeq(q, 1, m))) <= most
         /\ (\A i \in 1 .. m : q[i].field = f => ~q[i].logits)
              => FieldHolds(f, SubSeq(q, m + 1, Len(q)), Taken(held, f, SubSeq(q, 1, m)),
                            tree, choices, base, next, n, most)
<1> DEFINE path == PathFrom(base, tree)
           took == Taken(held, f, SubSeq(q, 1, m))
           rest == SubSeq(q, m + 1, Len(q))
<1>1. /\ Tree(tree, choices) /\ Queues(q, f, Len(held), path)
      /\ Queued(q, f) => /\ tree.levels = n /\ Leads(held, path) /\ next = Len(path) /\ Len(path) <= most
      /\ ~Queued(q, f) /\ ~Resolved(tree) =>
           /\ tree.levels = n + 1 /\ Leads(held, path) /\ next = Len(held) /\ Len(path) = Len(held) + 1
  BY Zenon DEF FieldHolds
<1>2. tree.consumed \in Seq(Nat)
  BY <1>1 DEF Tree
<1>3. path \in Seq(Token) /\ Len(path) \in Nat /\ Len(held) \in Nat
  BY <1>2, PathFromFacts, LenProperties
<1> HIDE DEF path
<1>4. (\E i \in DOMAIN q : q[i].field = f) => Leads(held, path)
  BY <1>1, Zenon DEF Queued
<1>5. /\ took \in Seq(Token)
      /\ Queues(rest, f, Len(took), path)
      /\ IF Own(q, m, f) = {} THEN took = held ELSE Leads(took, path)
  BY <1>1, <1>3, <1>4, TakeBatch
<1>6. DOMAIN q = 1 .. Len(q) /\ Len(q) \in Nat
  BY LenProperties
<1>7. /\ DOMAIN rest = 1 .. Len(q) - m
      /\ \A j \in 1 .. Len(q) - m : rest[j] = q[m + j] /\ m + j \in DOMAIN q
  BY RestFacts
<1> HIDE DEF took, rest
<1>8. CASE Own(q, m, f) = {}
  <2>1. Queued(q, f) <=> Queued(rest, f)
    <3>1. ASSUME NEW i \in DOMAIN q, q[i].field = f PROVE Queued(rest, f)
      <4>1. i \notin 1 .. m
        BY <1>8, <3>1 DEF Own
      <4>2. i - m \in 1 .. Len(q) - m /\ m + (i - m) = i
        BY <1>6, <4>1
      <4>3. i - m \in DOMAIN rest /\ rest[i - m] = q[i]
        BY <1>7, <4>2
      <4> QED  BY <3>1, <4>3 DEF Queued
    <3>2. ASSUME NEW j \in DOMAIN rest, rest[j].field = f PROVE Queued(q, f)
      BY <1>7, <3>2 DEF Queued
    <3> QED  BY <3>1, <3>2 DEF Queued
  <2>2. FieldHolds(f, rest, took, tree, choices, base, next, n, most)
    BY <1>1, <1>5, <1>8, <2>1, Zenon DEF FieldHolds, path
  <2> QED  BY <1>5, <1>8, <2>2 DEF took, rest
<1>9. CASE Own(q, m, f) # {}
  <2>1. PICK i \in 1 .. m : q[i].field = f
    BY <1>9 DEF Own
  <2>2. i \in DOMAIN q /\ Queued(q, f)
    BY <1>6, <2>1, SMTT(30) DEF Queued
  <2>3. Len(took) <= most
    <3>1. Len(took) <= Len(path) /\ Len(path) <= most /\ Len(took) \in Nat
      BY <1>1, <1>5, <1>9, <2>2, LenProperties DEF Leads
    <3> QED  BY <1>3, <3>1
  <2>4. ASSUME \A j \in 1 .. m : q[j].field = f => ~q[j].logits
        PROVE  FieldHolds(f, rest, took, tree, choices, base, next, n, most)
    <3>2. Queued(rest, f)
      BY <1>1, <1>3, <2>2, <2>4, StillQueued DEF rest
    <3> QED  BY <1>1, <1>5, <1>9, <2>2, <3>2, Zenon DEF FieldHolds, path
  <2> QED  BY <1>5, <2>3, <2>4 DEF took, rest
<1> QED  BY <1>8, <1>9

\* A batch that reads a field's logits reads them at the end of the field's path,
\* and what is left of the field is its new candidates, one token further on.
LEMMA FieldRead ==
  ASSUME NEW f, NEW I, NEW q \in Seq(I), NEW held \in Seq(Token), NEW tree,
         NEW choices \in Seq(Seq(Nat)),
         NEW base \in Seq(Token), NEW next, NEW n, NEW most \in Nat, NEW m \in 0 .. Len(q),
         NEW i \in 1 .. m, NEW t,
         FieldHolds(f, q, held, tree, choices, base, next, n, most),
         q[i].field = f, q[i].logits, ~Resolved(tree), t \in Advanced(tree)
  PROVE  /\ Taken(held, f, SubSeq(q, 1, i)) = PathFrom(base, tree)
         /\ FieldHolds(f, SubSeq(q, m + 1, Len(q)), Taken(held, f, SubSeq(q, 1, m)),
                       t, choices, base, next, n, most)
<1> DEFINE path == PathFrom(base, tree)
           took == Taken(held, f, SubSeq(q, 1, m))
           rest == SubSeq(q, m + 1, Len(q))
           longer == PathFrom(base, t)
<1>1. DOMAIN q = 1 .. Len(q) /\ Len(q) \in Nat /\ i \in DOMAIN q /\ i \in 0 .. Len(q) /\ i \in 1 .. i
  BY LenProperties
<1>2. Queued(q, f)
  BY <1>1 DEF Queued
<1>3. /\ Tree(tree, choices) /\ Queues(q, f, Len(held), path)
      /\ tree.levels = n /\ Leads(held, path) /\ next = Len(path) /\ Len(path) <= most
  BY <1>2, Zenon DEF FieldHolds
<1>4. tree.consumed \in Seq(Nat)
  BY <1>3 DEF Tree
<1>5. path \in Seq(Token) /\ Len(path) \in Nat
  BY <1>4, PathFromFacts, LenProperties
<1> HIDE DEF path
<1>6. Taken(held, f, SubSeq(q, 1, i)) = path
  <2>1. Whole(Taken(held, f, SubSeq(q, 1, i)), path)
    BY <1>1, <1>3, <1>5, LastTaken
  <2> QED  BY <2>1, Zenon DEF Whole
<1>7. took = path /\ ~Queued(rest, f)
  <2>1. Whole(took, path) /\ ~Queued(rest, f)
    BY <1>3, <1>5, LastTaken
  <2> QED  BY <2>1, Zenon DEF Whole
<1> HIDE DEF took, rest
<1>9. ~Queued(rest, f) /\ \A p : Queues(rest, f, Len(took), p)
  BY <1>7 DEF Queued, Queues
<1>10. /\ Tree(t, choices)
       /\ ~Resolved(t) => /\ t.levels = tree.levels + 1
                          /\ \E token \in Nat : t.consumed = Append(tree.consumed, token)
  BY <1>3, AdvancedTree
<1>11. ASSUME ~Resolved(t)
       PROVE  t.levels = n + 1 /\ Leads(took, longer) /\ next = Len(took) /\ Len(longer) = Len(took) + 1
  <2>1. PICK token \in Nat : t.consumed = Append(tree.consumed, token)
    BY <1>10, <1>11
  <2>2. Leads(path, longer) /\ LongerBy(longer, path, 1)
    BY <1>4, <2>1, PathFromFurther DEF path
  <2> HIDE DEF longer
  <2> QED  BY <1>3, <1>7, <1>10, <1>11, <2>2 DEF LongerBy
<1>12. FieldHolds(f, rest, took, t, choices, base, next, n, most)
  BY <1>9, <1>10, <1>11, Zenon DEF FieldHolds
<1> QED  BY <1>6, <1>12 DEF path, took, rest

\* The parts of a batch token.
LEMMA BatchTokenFacts ==
  ASSUME NEW f, NEW token, NEW position, NEW last
  PROVE  LET b == BatchToken(f, token, position, last)
         IN  b.field = f /\ b.token = token /\ b.position = position /\ b.logits = last
  BY DEF BatchToken

\* A tree pass queues the last token of an unresolved field.
LEMMA FieldQueued ==
  ASSUME NEW f, NEW I, NEW q \in Seq(I), NEW i \in DOMAIN q, NEW held \in Seq(Token), NEW tree, NEW choices,
         NEW base \in Seq(Token), NEW next, NEW n \in Nat, NEW most, NEW most2 \in Nat,
         FieldHolds(f, <<>>, held, tree, choices, base, next, n, most), ~Resolved(tree),
         Len(base) + n + 1 <= most2,
         q[i] = BatchToken(f, PathTokens(<<Last(tree.consumed)>>)[1], next, TRUE),
         \A j \in DOMAIN q : q[j].field = f => j = i
  PROVE  FieldHolds(f, q, held, tree, choices, base, next + 1, n + 1, most2)
<1> DEFINE path == PathFrom(base, tree)
           token == PathTokens(<<Last(tree.consumed)>>)[1]
<1>1. ~Queued(<<>>, f)
  BY DEF Queued
<1>2. /\ Tree(tree, choices) /\ tree.levels = n + 1 /\ Leads(held, path)
      /\ next = Len(held) /\ Len(path) = Len(held) + 1
  BY <1>1, Zenon DEF FieldHolds
<1>3. tree.consumed \in Seq(Nat) /\ Len(tree.consumed) = n + 1
  BY <1>2 DEF Tree
<1>4. path \in Seq(Token) /\ Len(path) = Len(base) + (n + 1)
  BY <1>3, PathFromFacts
<1>5. Len(held) \in Nat /\ Len(base) \in Nat
  BY LenProperties
<1>6. q[i].field = f /\ q[i].token = token /\ q[i].position = Len(held) /\ q[i].logits = TRUE
  <2> HIDE DEF token
  <2>1. q[i] = BatchToken(f, token, next, TRUE)
    BY DEF token
  <2>2. q[i].field = f /\ q[i].token = token /\ q[i].position = next
    BY <2>1 DEF BatchToken
  <2>3. q[i].logits = TRUE
    BY <2>1 DEF BatchToken
  <2> QED  BY <1>2, <2>2, <2>3, Zenon
<1>7. token = path[Len(path)]
  <2> DEFINE c == tree.consumed
             p == PathTokens(c)
  <2>1. Last(c) = c[n + 1]
    BY <1>3 DEF Last
  <2>2. token = <<"candidate", c[n + 1], 0>>
    BY <2>1 DEF PathTokens
  <2>3. DOMAIN c = 1 .. n + 1
    BY <1>3, LenProperties
  <2>4. p[n + 1] = <<"candidate", c[n + 1], 0>>
    BY <2>3 DEF PathTokens
  <2>5. p \in Seq(Token) /\ Len(p) = n + 1
    BY <1>3, PathFacts
  <2>6. path = base \o p
    BY DEF PathFrom
  <2> HIDE DEF p, path
  <2>7. (base \o p)[Len(base) + (n + 1)] = p[n + 1]
    <3>1. Len(base) + (n + 1) \in 1 .. Len(base) + Len(p) /\ ~(Len(base) + (n + 1) <= Len(base))
          /\ Len(base) + (n + 1) - Len(base) = n + 1
      BY <1>5, <2>5
    <3> QED  BY <2>5, <3>1, ConcatProperties
  <2> QED  BY <1>4, <2>2, <2>4, <2>6, <2>7
<1> HIDE DEF path, token
<1>8. Queues(q, f, Len(held), path)
  <2>1. \A j \in DOMAIN q : q[j].field = f => q[j] = q[i] /\ j = i
    OBVIOUS
  <2> DEFINE l == Len(held)
             x == q[i].position
  <2>0. x = l /\ Len(path) = l + 1 /\ l \in Nat
    BY <1>2, <1>5, <1>6
  <2>2. x \in l .. Len(path) - 1 /\ x + 1 = Len(path)
    <3> HIDE DEF x, l
    <3> QED  BY <2>0
  <2>3. q[i].token = path[q[i].position + 1]
    BY <1>6, <1>7, <2>2
  <2>4. \A p \in l .. Len(path) - 1 : x = p
    <3> HIDE DEF x, l
    <3> QED  BY <2>0
  <2>5. \A j, k \in DOMAIN q : q[j].field = f /\ q[k].field = f => ~(j < k)
    <3> SUFFICES ASSUME NEW j \in DOMAIN q, NEW k \in DOMAIN q, q[j].field = f, q[k].field = f
                 PROVE  ~(j < k)
      OBVIOUS
    <3>1. j = i /\ k = i
      OBVIOUS
    <3>2. i \in Int
      BY LenProperties
    <3> QED  BY <3>1, <3>2
  <2> QED  BY <1>6, <2>1, <2>2, <2>3, <2>4, <2>5 DEF Queues
<1>9. Queued(q, f)
  BY <1>6 DEF Queued
<1>10. next + 1 = Len(path) /\ Len(path) <= most2
  <2>1. next + 1 = Len(path)
    BY <1>2
  <2>2. Len(path) = Len(base) + n + 1
    BY <1>4, <1>5
  <2> QED  BY <2>1, <2>2
<1> QED  BY <1>2, <1>8, <1>9, <1>10, Zenon DEF FieldHolds, path

\* A resolved field is left out of the tree passes.
LEMMA FieldLeftOut ==
  ASSUME NEW f, NEW q, NEW held, NEW tree, NEW choices, NEW base, NEW next, NEW n, NEW most,
         NEW next2, NEW n2, NEW most2,
         Tree(tree, choices), Resolved(tree), \A j \in DOMAIN q : q[j].field # f
  PROVE  FieldHolds(f, q, held, tree, choices, base, next2, n2, most2)
<1>1. ~Queued(q, f) /\ \A from, path : Queues(q, f, from, path)
  BY DEF Queued, Queues
<1> QED  BY <1>1, Zenon DEF FieldHolds

\* The broadcast queues a field's suffix behind what sequence 0 holds.
LEMMA FieldOpened ==
  ASSUME NEW f, NEW q, NEW held \in Seq(Token), NEW choices \in Seq(Seq(Nat)), NEW suffix \in Seq(Token),
         suffix # <<>>, NEW most \in Nat, Len(held) + Len(suffix) <= most,
         NEW start \in Nat,
         \A k \in 1 .. Len(suffix) :
           start + k \in DOMAIN q
           /\ q[start + k] = BatchToken(f, suffix[k], Len(held) + k - 1, k = Len(suffix)),
         \A i \in DOMAIN q : q[i].field = f => \E k \in 1 .. Len(suffix) : i = start + k
  PROVE  FieldHolds(f, q, held, Start(choices), choices, held \o suffix, Len(held) + Len(suffix), 0, most)
<1> DEFINE path == held \o suffix
           tree == Start(choices)
<1>1. Tree(tree, choices) /\ tree.consumed = <<>> /\ tree.levels = 0
  BY StartTree
<1>2. /\ path \in Seq(Token) /\ Len(path) = Len(held) + Len(suffix)
      /\ \A i \in 1 .. Len(held) + Len(suffix) :
           path[i] = IF i <= Len(held) THEN held[i] ELSE suffix[i - Len(held)]
  BY ConcatProperties
<1>3. PathFrom(path, tree) = path
  <2>1. PathTokens(<<>>) = <<>>
    BY DEF PathTokens
  <2> HIDE DEF path, tree
  <2> QED  BY <1>1, <1>2, <2>1, ConcatEmptySeq, ZenonT(60) DEF PathFrom
<1>4. Len(held) \in Nat /\ Len(suffix) \in Nat \ {0}
  BY LenProperties, EmptySeq
<1> HIDE DEF path, tree
<1>5. ASSUME NEW k \in 1 .. Len(suffix)
      PROVE  /\ start + k \in DOMAIN q /\ q[start + k].field = f
             /\ q[start + k].position = Len(held) + k - 1
             /\ q[start + k].token = path[Len(held) + k]
             /\ q[start + k].logits <=> k = Len(suffix)
  <2>1. /\ q[start + k].field = f /\ q[start + k].position = Len(held) + k - 1
        /\ q[start + k].token = suffix[k] /\ q[start + k].logits = (k = Len(suffix))
        /\ start + k \in DOMAIN q
    BY BatchTokenFacts, SMTT(30)
  <2>2. path[Len(held) + k] = suffix[k]
    <3>1. Len(held) + k \in 1 .. Len(held) + Len(suffix) /\ ~(Len(held) + k <= Len(held))
          /\ Len(held) + k - Len(held) = k
      BY <1>4
    <3> QED  BY <1>2, <3>1
  <2> QED  BY <2>1, <2>2
<1>6. Queues(q, f, Len(held), path)
  <2>1. ASSUME NEW i \in DOMAIN q, q[i].field = f
        PROVE  /\ q[i].position \in Len(held) .. Len(path) - 1
               /\ q[i].token = path[q[i].position + 1]
               /\ q[i].logits <=> q[i].position + 1 = Len(path)
    <3>1. PICK k \in 1 .. Len(suffix) : i = start + k
      BY <2>1
    <3> DEFINE l == Len(held)
               s == Len(suffix)
               p == l + k - 1
    <3>2. /\ p \in l .. Len(path) - 1 /\ p + 1 = l + k
          /\ (k = s <=> l + k = Len(path))
      <4>1. l \in Nat /\ s \in Nat /\ k \in 1 .. s /\ Len(path) = l + s
        BY <1>2, <1>4
      <4> HIDE DEF l, s
      <4> QED  BY <4>1
    <3>3. q[i].position = p /\ q[i].token = path[p + 1] /\ (q[i].logits <=> p + 1 = Len(path))
          /\ p \in Len(held) .. Len(path) - 1
      BY <1>5, <3>1, <3>2
    <3> HIDE DEF p
    <3> QED  BY <3>3
  <2>2. ASSUME NEW i \in DOMAIN q, NEW j \in DOMAIN q, q[i].field = f, q[j].field = f, i < j
        PROVE  q[i].position < q[j].position
    <3>1. PICK k \in 1 .. Len(suffix) : i = start + k
      BY <2>2
    <3>2. PICK l \in 1 .. Len(suffix) : j = start + l
      BY <2>2
    <3>3. Len(held) + k - 1 < Len(held) + l - 1
      BY <1>4, <2>2, <3>1, <3>2
    <3> QED  BY <1>5, <3>1, <3>2, <3>3
  <2>3. ASSUME NEW p \in Len(held) .. Len(path) - 1
        PROVE  \E j \in DOMAIN q : q[j].field = f /\ q[j].position = p
    <3> DEFINE k == p - Len(held) + 1
    <3>1. k \in 1 .. Len(suffix) /\ Len(held) + k - 1 = p
      BY <1>2, <1>4
    <3> HIDE DEF k
    <3>2. start + k \in DOMAIN q /\ q[start + k].field = f /\ q[start + k].position = p
      BY <1>5, <3>1
    <3> QED  BY <3>2
  <2> QED  BY <2>1, <2>2, <2>3 DEF Queues
<1>7. Queued(q, f)
  <2>1. 1 \in 1 .. Len(suffix)
    BY <1>4
  <2> QED  BY <1>5, <2>1 DEF Queued
<1>8. Leads(held, path)
  <2>1. Len(held) <= Len(path)
    BY <1>2, <1>4
  <2>2. held = SubSeq(path, 1, Len(held))
    <3> DEFINE front == SubSeq(path, 1, Len(held))
    <3>1. \A i \in 1 .. Len(held) : path[i] \in Token
      BY <1>2, <1>4, ElementOfSeq
    <3>2. /\ front \in Seq(Token)
          /\ Len(front) = IF 1 <= Len(held) THEN Len(held) - 1 + 1 ELSE 0
          /\ \A i \in 1 .. Len(held) - 1 + 1 : front[i] = path[1 + i - 1]
      BY <1>4, <3>1, SubSeqProperties
    <3> HIDE DEF front
    <3>3. Len(front) = Len(held)
      BY <1>4, <3>2
    <3>4. \A i \in 1 .. Len(held) : front[i] = held[i]
      <4> TAKE i \in 1 .. Len(held)
      <4>1. i \in 1 .. Len(held) - 1 + 1 /\ 1 + i - 1 = i /\ i \in 1 .. Len(held) + Len(suffix) /\ i <= Len(held)
        BY <1>4
      <4> QED  BY <1>2, <3>2, <4>1
    <3>5. front = held
      BY <3>2, <3>3, <3>4, SeqEqual
    <3> QED  BY <3>5 DEF front
  <2> QED  BY <2>1, <2>2 DEF Leads
<1>9. FieldHolds(f, q, held, tree, choices, path, Len(path), 0, most)
  BY <1>1, <1>2, <1>3, <1>6, <1>7, <1>8, Zenon DEF FieldHolds
<1> QED  BY <1>2, <1>9 DEF path, tree

-----------------------------------------------------------------------------
(* The second inductive invariant: where every field is while the fields are*)
(* scored, and what the sequences hold against what ensure_fits counted.    *)

\* The request's fields, what all of their sequences begin with, and what each
\* continues with.
TheFields == Schema[request.key].fields
Shared == ThePrefix \o TheContext
Base(f) == Shared \o SuffixTokens(request.key, f)

\* The cells a field's sequence may take, the shared ones included.
Most(r, f) == Completed(r) + FieldNeed(Schema[r.key].fields[f])

\* The tree loop.
Scoring ==
  /\ DOMAIN trees = Fields(request.key)
  /\ todo \in Seq(Item)
  /\ \A i \in DOMAIN todo : todo[i].field \in Fields(request.key)
  /\ level \in 0 .. MaxTreeLevels
  /\ mem[0] = Shared
  /\ \A f \in Fields(request.key) :
       FieldHolds(f, todo, mem[f], trees[f], TheFields[f].candidates, Base(f), nextPosition[f],
                  level, Most(request, f))

\* What the sequences hold was counted by ensure_fits.
HoldsRequest(r) ==
  /\ Fits(r)
  /\ Len(mem[0]) <= Completed(r)
  /\ \A s \in Sequence \ {0} : mem[s] # <<>> =>
       s \in Fields(r.key) /\ Len(mem[s]) - Len(mem[0]) <= FieldNeed(Schema[r.key].fields[s])

\* No sequence holds more than was counted, for this request or for the one that
\* left the memory as it is.
MemInv ==
  /\ \A s \in Sequence : mem[s] \in Seq(Token)
  /\ phase # "idle" => HoldsRequest(request)
  /\ phase = "idle" =>
       (\A s \in Sequence : mem[s] = <<>>) \/ \E r \in Request : HoldsRequest(r)
  /\ phase \notin {"idle", "score", "answer"} => \A s \in Sequence \ {0} : mem[s] = <<>>

\* The second inductive invariant.
SInv ==
  /\ phase = "idle" => request = NoRequest
  /\ phase # "score" => todo = <<>>
  /\ phase \notin {"score", "answer"} => trees = <<>> /\ level = 0
  /\ phase = "answer" => DOMAIN trees = Fields(request.key)
  /\ phase = "score" => Scoring
  /\ MemInv

\* The fields of a schema.
LEMMA FieldFacts ==
  ASSUME NEW k \in Key
  PROVE  /\ Len(Schema[k].fields) \in Nat \ {0}
         /\ Fields(k) = 1 .. Len(Schema[k].fields)
         /\ Fields(k) \subseteq Sequence \ {0}
         /\ \A f \in Fields(k) :
              /\ Schema[k].fields[f].suffix \in Nat \ {0}
              /\ Schema[k].fields[f].candidates \in Seq(Seq(Nat)) \ {<<>>}
              /\ FieldNeed(Schema[k].fields[f]) \in Nat
<1> DEFINE fields == Schema[k].fields
           R == [suffix : Nat \ {0}, candidates : Seq(Seq(Nat)) \ {<<>>}]
<1>1. fields \in Seq(R) /\ fields # <<>>
  BY FieldsAssumption
<1> HIDE DEF fields
<1>2. Len(fields) \in Nat \ {0} /\ DOMAIN fields = 1 .. Len(fields)
      /\ \A f \in 1 .. Len(fields) : fields[f] \in R
  <2> HIDE DEF R
  <2> QED  BY <1>1, LenProperties, EmptySeq, ElementOfSeq
<1>3. Fields(k) = DOMAIN fields
  BY DEF Fields, fields
<1>4. Fields(k) \subseteq Sequence \ {0}
  <2>1. Fields(k) \subseteq Sequence
    BY DEF Sequence
  <2>2. 0 \notin Fields(k)
    BY <1>2, <1>3
  <2> QED  BY <2>1, <2>2
<1>5. ASSUME NEW f \in Fields(k)
      PROVE  /\ fields[f].suffix \in Nat \ {0}
             /\ fields[f].candidates \in Seq(Seq(Nat)) \ {<<>>}
             /\ FieldNeed(fields[f]) \in Nat
  <2>1. fields[f].suffix \in Nat \ {0} /\ fields[f].candidates \in Seq(Seq(Nat)) \ {<<>>}
    BY <1>2, <1>3
  <2> DEFINE field == fields[f]
             d == Deepest(field)
  <2>2. d \in Nat
    <3> HIDE DEF field
    <3>1. field.candidates \in Seq(Seq(Nat)) \ {<<>>}
      BY <2>1 DEF field
    <3> QED  BY <3>1, DeepestFacts
  <2>3. Min({d, MaxTreeLevels}) \in Nat
    <3> HIDE DEF d
    <3>1. MaxTreeLevels \in Nat
      BY EngineAssumption
    <3>2. d \in Int /\ MaxTreeLevels \in Int
      BY <2>2, <3>1
    <3> QED  BY <2>2, <3>1, <3>2, MinOfTwo
  <2> QED  BY <2>1, <2>3 DEF FieldNeed
<1> QED  BY <1>2, <1>3, <1>4, <1>5 DEF fields

\* What any front part of prefix and context takes.
LEMMA TextFits ==
  ASSUME NEW r \in Request
  PROVE  LET p == PrefixTokens(r.key)
             d == DynamicTokens(r.context)
         IN  /\ r.key \in Key /\ r # NoRequest
             /\ Completed(r) \in Nat /\ PrefixLen(r) \in Nat
             /\ p \in Seq(Token) /\ Len(p) = PrefixLen(r)
             /\ d \in Seq(Token) /\ Len(d) = DynamicLength[r.context]
             /\ p \o d \in Seq(Token) /\ Len(p \o d) = Completed(r)
             /\ Len(p) <= Completed(r)
             /\ \A n \in 0 .. Len(p) : SubSeq(p, 1, n) \in Seq(Token) /\ Len(SubSeq(p, 1, n)) = n
             /\ \A n \in 0 .. Len(d) : /\ p \o SubSeq(d, 1, n) \in Seq(Token)
                                       /\ Len(p \o SubSeq(d, 1, n)) = PrefixLen(r) + n
<1> DEFINE p == PrefixTokens(r.key)
           d == DynamicTokens(r.context)
           lp == Schema[r.key].prefix
           ld == DynamicLength[r.context]
<1>1. r.key \in Key /\ r.context \in Context
  BY DEF Request
<1>2. lp \in Nat \ {0} /\ ld \in Nat \ {0}
  BY <1>1, TextAssumption
<1>3. r # NoRequest
  <2>1. NoRequest.key = NoEntry
    BY DEF NoRequest
  <2> QED  BY <1>1, <2>1, FieldsAssumption
<1> HIDE DEF lp, ld
<1>4. p \in Seq(Token) /\ Len(p) = lp
  <2> DEFINE t == [i \in 1 .. lp |-> <<"prefix", r.key, i>>]
  <2>1. p = t
    BY DEF PrefixTokens, lp
  <2>2. t \in [1 .. lp -> Token]
    BY <1>1, <1>2 DEF Token
  <2> HIDE DEF t, p
  <2> QED  BY <1>2, <2>1, <2>2
<1>5. d \in Seq(Token) /\ Len(d) = ld
  <2> DEFINE t == [i \in 1 .. ld |-> <<"dynamic", r.context, i>>]
  <2>1. d = t
    BY DEF DynamicTokens, ld
  <2>2. t \in [1 .. ld -> Token]
    BY <1>1, <1>2 DEF Token
  <2> HIDE DEF t, d
  <2> QED  BY <1>2, <2>1, <2>2
<1>6. PrefixLen(r) = lp /\ Completed(r) = lp + ld
  BY DEF PrefixLen, Completed, lp, ld
<1> HIDE DEF p, d
<1>7. \A q \in Seq(Token) : \A n \in 0 .. Len(q) : SubSeq(q, 1, n) \in Seq(Token) /\ Len(SubSeq(q, 1, n)) = n
  <2> TAKE q \in Seq(Token)
  <2> TAKE n \in 0 .. Len(q)
  <2>1. n \in Nat /\ \A i \in 1 .. n : q[i] \in Token
    BY LenProperties, ElementOfSeq
  <2>2. /\ SubSeq(q, 1, n) \in Seq(Token)
        /\ Len(SubSeq(q, 1, n)) = IF 1 <= n THEN n - 1 + 1 ELSE 0
    BY <2>1, SubSeqProperties
  <2>3. (IF 1 <= n THEN n - 1 + 1 ELSE 0) = n
    BY <2>1
  <2> QED  BY <2>2, <2>3
<1>8. \A q \in Seq(Token) : p \o q \in Seq(Token) /\ Len(p \o q) = lp + Len(q)
  BY <1>4, ConcatProperties
<1>9. \A n \in 0 .. Len(d) : /\ p \o SubSeq(d, 1, n) \in Seq(Token)
                             /\ Len(p \o SubSeq(d, 1, n)) = lp + n
  <2> TAKE n \in 0 .. Len(d)
  <2>1. SubSeq(d, 1, n) \in Seq(Token) /\ Len(SubSeq(d, 1, n)) = n
    BY <1>5, <1>7
  <2> QED  BY <1>8, <2>1
<1>10. p \o d \in Seq(Token) /\ Len(p \o d) = lp + ld
  BY <1>5, <1>8
<1>11. Completed(r) \in Nat /\ PrefixLen(r) \in Nat /\ lp <= lp + ld
  BY <1>2, <1>6
<1> QED  BY <1>1, <1>3, <1>4, <1>5, <1>6, <1>7, <1>9, <1>10, <1>11 DEF p, d, ld

\* Nothing is held at first.
LEMMA ScoringStarts == Init => SInv
<1> SUFFICES ASSUME Init PROVE SInv
  OBVIOUS
<1>1. \A s \in Sequence : mem[s] = <<>> /\ mem[s] \in Seq(Token)
  BY EmptySeq DEF Init, Cleared
<1>2. phase = "idle" /\ request = NoRequest /\ todo = <<>> /\ trees = <<>> /\ level = 0
  BY DEF Init
<1> QED  BY <1>1, <1>2 DEF SInv, MemInv

\* Before the broadcast only sequence 0 is written, and no more than was counted.
LEMMA QuietKeeps ==
  ASSUME SInv, phase \notin {"idle", "score", "answer"}, phase' \notin {"idle", "score", "answer"},
         UNCHANGED <<request, todo, trees, level>>,
         \A s \in Sequence \ {0} : mem'[s] = mem[s],
         mem'[0] \in Seq(Token), Len(mem'[0]) <= Completed(request)
  PROVE  SInv'
<1>1. Fits(request) /\ \A s \in Sequence \ {0} : mem[s] = <<>>
  BY DEF SInv, MemInv, HoldsRequest
<1>2. \A s \in Sequence \ {0} : mem'[s] = <<>>
  BY <1>1
<1>3. \A s \in Sequence : mem'[s] \in Seq(Token)
  BY <1>2, EmptySeq
<1>4. Fits(request)' /\ Completed(request)' = Completed(request)
  BY <1>1 DEF Fits, Completed, PrefixLen
<1>5. HoldsRequest(request)'
  BY <1>2, <1>4 DEF HoldsRequest
<1>6. MemInv'
  BY <1>2, <1>3, <1>5 DEF MemInv
<1> QED  BY <1>6 DEF SInv

\* A new request starts from cleared memory.
LEMMA BeginFits == ASSUME SInv, NEW r \in Request, Begin(r) PROVE SInv'
<1>1. /\ phase = "idle" /\ phase' = "restore" /\ request' = r /\ mem' = Cleared
      /\ Fits(r) /\ UNCHANGED <<todo, trees, level>>
  BY DEF Begin, fieldVars
<1>2. \A s \in Sequence : mem'[s] = <<>> /\ mem'[s] \in Seq(Token)
  BY <1>1, EmptySeq DEF Cleared
<1>3. 0 \in Sequence
  BY DEF Sequence
<1>4. Len(mem'[0]) <= Completed(r)
  <2>1. Len(mem'[0]) = 0
    BY <1>2, <1>3, EmptySeq
  <2>2. Completed(r) \in Nat
    BY TextFits
  <2> QED  BY <2>1, <2>2
<1>5. Fits(request)' /\ Completed(request)' = Completed(r)
  BY <1>1 DEF Fits, Completed, PrefixLen
<1>6. HoldsRequest(request)'
  BY <1>2, <1>4, <1>5 DEF HoldsRequest
<1>7. MemInv'
  BY <1>1, <1>2, <1>6 DEF MemInv
<1> QED  BY <1>1, <1>7 DEF SInv

\* A step that leaves all of this alone.
LEMMA UntouchedKeeps ==
  ASSUME SInv, UNCHANGED <<mem, phase, request, todo, trees, nextPosition, level>>
  PROVE  SInv'
<1>1. ASSUME NEW r PROVE HoldsRequest(r)' <=> HoldsRequest(r)
  BY DEF HoldsRequest, Fits, Completed, PrefixLen
<1>2. HoldsRequest(request)' <=> HoldsRequest(request)
  BY DEF HoldsRequest, Fits, Completed, PrefixLen
<1>3. MemInv'
  BY <1>1, <1>2 DEF SInv, MemInv
<1>4. Scoring' <=> Scoring
  BY DEF Scoring, Shared, Base, ThePrefix, TheContext, TheFields, Most, Completed, PrefixLen
<1> QED  BY <1>3, <1>4 DEF SInv

\* A failed restore wrote no more than a prefix.
LEMMA RestoreFits ==
  ASSUME EInv, SInv, RestoreHit \/ RestoreFallback \/ RestoreMiss
  PROVE  SInv'
<1>1. /\ phase = "restore" /\ phase' \in {"dynamic", "cold"}
      /\ UNCHANGED <<request, todo, trees, level>>
  BY DEF RestoreHit, RestoreFallback, RestoreMiss, fieldVars
<1>2. request \in Request /\ mem = [s \in Sequence |-> mem[s]] /\ 0 \in Sequence
      /\ returned \in {NoEntry, PrefixEntry(request.key)} /\ mem[0] = <<>>
  BY <1>1 DEF EInv, Written0, Sequence
<1> DEFINE p == PrefixTokens(request.key)
<1>3. /\ p \in Seq(Token) /\ Len(p) <= Completed(request) /\ Len(p) \in Nat
      /\ Completed(request) \in Nat
      /\ \A n \in 0 .. Len(p) : SubSeq(p, 1, n) \in Seq(Token) /\ Len(SubSeq(p, 1, n)) = n
  BY <1>2, TextFits, LenProperties
<1>4. returned # NoEntry => returned.content = p
  BY <1>2 DEF PrefixEntry
<1> HIDE DEF p
<1>5. (\A s \in Sequence \ {0} : mem'[s] = mem[s])
      /\ mem'[0] \in Seq(Token) /\ Len(mem'[0]) <= Completed(request)
  <2>1. CASE RestoreMiss
    <3>1. mem' = mem
      BY <2>1 DEF RestoreMiss
    <3>2. <<>> \in Seq(Token) /\ Len(<<>>) = 0
      OBVIOUS
    <3>3. mem'[0] = <<>> /\ \A s \in Sequence \ {0} : mem'[s] = mem[s]
      BY <1>2, <3>1
    <3>4. 0 <= Completed(request)
      BY <1>3
    <3> QED  BY <3>2, <3>3, <3>4
  <2>2. ASSUME NEW x \in Seq(Token), Len(x) <= Len(p), mem' = [mem EXCEPT ![0] = x]
        PROVE  (\A s \in Sequence \ {0} : mem'[s] = mem[s])
               /\ mem'[0] \in Seq(Token) /\ Len(mem'[0]) <= Completed(request)
    <3>1. mem'[0] = x /\ \A s \in Sequence \ {0} : mem'[s] = mem[s]
      BY <1>2, <2>2, Zenon
    <3> QED  BY <1>3, <2>2, <3>1, LenProperties
  <2>3. CASE RestoreHit
    <3>1. mem' = [mem EXCEPT ![0] = p]
      BY <1>4, <2>3 DEF RestoreHit
    <3>2. p \in Seq(Token) /\ Len(p) <= Len(p)
      BY <1>3
    <3> QED  BY <2>2, <3>1, <3>2, Zenon
  <2>4. CASE RestoreFallback
    <3>1. PICK n \in 0 .. Len(p) : mem' = [mem EXCEPT ![0] = SubSeq(p, 1, n)]
      BY <1>4, <2>4 DEF RestoreFallback
    <3>2. SubSeq(p, 1, n) \in Seq(Token) /\ Len(SubSeq(p, 1, n)) <= Len(p)
      BY <1>3
    <3> QED  BY <2>2, <3>1, <3>2
  <2> QED  BY <2>1, <2>3, <2>4
<1> QED  BY <1>1, <1>5, QuietKeeps

\* Clearing leaves nothing held, saving leaves the memory alone.
LEMMA ClearFits == ASSUME EInv, SInv, ColdStart \/ Save PROVE SInv'
<1>1. /\ phase \in {"cold", "save"} /\ phase' \in {"prefill", "dynamic"}
      /\ UNCHANGED <<request, todo, trees, level>>
      /\ mem' = Cleared \/ mem' = mem
  BY DEF ColdStart, Save, MemoryAfterFallback, fieldVars
<1>2. request \in Request /\ 0 \in Sequence
  BY <1>1 DEF EInv, Sequence
<1>3. Completed(request) \in Nat
  BY <1>2, TextFits
<1>4. /\ \A s \in Sequence \ {0} : mem[s] = <<>>
      /\ mem[0] \in Seq(Token) /\ Len(mem[0]) <= Completed(request)
  BY <1>1, <1>2 DEF SInv, MemInv, HoldsRequest
<1>5. mem' = Cleared => /\ \A s \in Sequence \ {0} : mem'[s] = mem[s]
                        /\ mem'[0] \in Seq(Token) /\ Len(mem'[0]) <= Completed(request)
  BY <1>2, <1>3, <1>4 DEF Cleared
<1> QED  BY <1>1, <1>4, <1>5, QuietKeeps

\* A chunk stays within its text.
LEMMA ChunkFits ==
  ASSUME EInv, SInv, EInv', Prefill \/ Dynamic
  PROVE  SInv'
<1>1. /\ phase \in {"prefill", "dynamic"} /\ phase' \in {"prefill", "save", "dynamic", "broadcast"}
      /\ UNCHANGED <<request, todo, trees, level>>
  BY DEF Prefill, Dynamic, fieldVars
<1>2. request \in Request /\ mem = [s \in Sequence |-> mem[s]] /\ 0 \in Sequence
  BY <1>1 DEF EInv, Sequence
<1>3. ThePrefix' = ThePrefix /\ TheContext' = TheContext
  BY <1>1 DEF ThePrefix, TheContext
<1>4. /\ ThePrefix \in Seq(Token) /\ Len(ThePrefix) \in Nat /\ Len(ThePrefix) <= Completed(request)
      /\ TheContext \in Seq(Token) /\ Len(TheContext) \in Nat
      /\ ThePrefix \o TheContext \in Seq(Token) /\ Len(ThePrefix \o TheContext) = Completed(request)
      /\ Len(TheContext) + Len(ThePrefix) = Completed(request)
      /\ \A n \in 0 .. Len(ThePrefix) : SubSeq(ThePrefix, 1, n) \in Seq(Token) /\ Len(SubSeq(ThePrefix, 1, n)) = n
      /\ \A n \in 0 .. Len(TheContext) : /\ ThePrefix \o SubSeq(TheContext, 1, n) \in Seq(Token)
                                         /\ Len(ThePrefix \o SubSeq(TheContext, 1, n)) = Len(ThePrefix) + n
  <2>1. request.context \in Context /\ request.key \in Key
    BY <1>2 DEF Request
  <2>2. DynamicLength[request.context] \in Nat /\ Schema[request.key].prefix \in Nat
    BY <2>1, TextAssumption
  <2>3. Completed(request) = PrefixLen(request) + DynamicLength[request.context]
    BY DEF Completed
  <2>4. PrefixLen(request) = Schema[request.key].prefix
    BY DEF PrefixLen
  <2> QED  BY <1>2, <2>2, <2>3, <2>4, TextFits DEF ThePrefix, TheContext
<1>5. offset' \in Nat /\ Completed(request) \in Nat
  BY <1>2, TextFits DEF EInv
<1>6. mem'[0] \in Seq(Token) /\ Len(mem'[0]) <= Completed(request)
  <2>1. CASE phase' = "prefill"
    <3>1. offset' < Len(ThePrefix) /\ mem'[0] = SubSeq(ThePrefix, 1, offset')
      BY <1>3, <2>1 DEF EInv, Written0
    <3>2. offset' \in 0 .. Len(ThePrefix)
      BY <1>4, <1>5, <3>1
    <3>3. mem'[0] \in Seq(Token) /\ Len(mem'[0]) = offset'
      BY <1>4, <3>1, <3>2
    <3> QED  BY <1>4, <1>5, <3>1, <3>3
  <2>2. CASE phase' = "save"
    BY <1>3, <1>4, <2>2 DEF EInv, Written0
  <2>3. CASE phase' = "dynamic"
    <3>1. offset' < Len(TheContext) /\ mem'[0] = ThePrefix \o SubSeq(TheContext, 1, offset')
      BY <1>3, <2>3 DEF EInv, Written0
    <3>2. offset' \in 0 .. Len(TheContext)
      BY <1>4, <1>5, <3>1
    <3>3. mem'[0] \in Seq(Token) /\ Len(mem'[0]) = Len(ThePrefix) + offset'
      BY <1>4, <3>1, <3>2
    <3> QED  BY <1>4, <1>5, <3>1, <3>3
  <2>4. CASE phase' = "broadcast"
    <3>1. mem'[0] = ThePrefix \o TheContext
      BY <1>3, <2>4 DEF EInv, Written0
    <3> QED  BY <1>4, <1>5, <3>1
  <2> QED  BY <1>1, <2>1, <2>2, <2>3, <2>4
<1>7. \A s \in Sequence \ {0} : mem'[s] = mem[s]
  <2>1. \E x : mem' = [mem EXCEPT ![0] = x]
    BY DEF Prefill, Dynamic, DecodeChunk
  <2> QED  BY <1>2, <2>1, Zenon
<1> QED  BY <1>1, <1>6, <1>7, QuietKeeps

\* What a request held stays counted, whichever request comes next.
LEMMA IdleHolds ==
  ASSUME SInv, NEW r \in Request, phase' = "idle", Release, HoldsRequest(r)',
         \A s \in Sequence : mem'[s] \in Seq(Token)
  PROVE  SInv'
<1>1. request' = NoRequest /\ todo' = <<>> /\ trees' = <<>> /\ level' = 0
  BY DEF Release
<1> QED  BY <1>1 DEF SInv, MemInv

\* The answer leaves the memory as it is.
LEMMA AnswerFits == ASSUME EInv, SInv, Answer PROVE SInv'
<1>1. phase = "answer" /\ phase' = "idle" /\ Release /\ UNCHANGED mem
  BY DEF Answer, Release
<1>2. request \in Request /\ HoldsRequest(request) /\ \A s \in Sequence : mem[s] \in Seq(Token)
  BY <1>1 DEF EInv, SInv, MemInv
<1>3. PICK r \in Request : r = request
  BY <1>2
<1>4. HoldsRequest(r)' <=> HoldsRequest(r)
  BY <1>1 DEF HoldsRequest, Fits, Completed, PrefixLen
<1>5. HoldsRequest(r)' /\ \A s \in Sequence : mem'[s] \in Seq(Token)
  BY <1>1, <1>2, <1>3, <1>4
<1> QED  BY <1>1, <1>5, IdleHolds

-----------------------------------------------------------------------------
(* The broadcast and the tree passes fill the queue.                        *)

\* q is one block of tokens per field.
Gathers(q, blocks) ==
  /\ \A i \in DOMAIN q : q[i].field \in 1 .. Len(blocks)
  /\ \A f \in 1 .. Len(blocks) : \E start \in Nat :
       /\ \A k \in 1 .. Len(blocks[f]) :
            start + k \in DOMAIN q /\ q[start + k] = blocks[f][k]
       /\ \A i \in DOMAIN q : q[i].field = f =>
            \E k \in 1 .. Len(blocks[f]) : i = start + k

\* In a queue of one block per field, a field's tokens are its block.
LEMMA BlockFacts ==
  ASSUME NEW S, NEW blocks, Len(blocks) \in Nat \ {0},
         \A f \in 1 .. Len(blocks) : blocks[f] \in Seq(S),
         \A f \in 1 .. Len(blocks) : \A k \in 1 .. Len(blocks[f]) : blocks[f][k].field = f
  PROVE  FlattenSeq(blocks) \in Seq(S) /\ Gathers(FlattenSeq(blocks), blocks)
<1> DEFINE q == FlattenSeq(blocks)
           n == Len(blocks)
<1>1. q \in Seq(S) /\ \E start : Laid(q, blocks, n, start)
  BY FlattenFacts
<1>2. PICK start : Laid(q, blocks, n, start)
  BY <1>1
<1> HIDE DEF q, n
<1>3. DOMAIN q = 1 .. Len(q)
  BY <1>1, LenProperties
<1>4. /\ start \in [1 .. n -> Nat]
      /\ \A f \in 1 .. n : \A k \in 1 .. Len(blocks[f]) :
           start[f] + k \in DOMAIN q /\ q[start[f] + k] = blocks[f][k]
      /\ \A i \in DOMAIN q : \E f \in 1 .. n : \E k \in 1 .. Len(blocks[f]) : i = start[f] + k
  BY <1>2, <1>3, Zenon DEF Laid
<1>5. \A f \in 1 .. n : \A k \in 1 .. Len(blocks[f]) : blocks[f][k].field = f
  BY DEF n
<1>6. \A i \in DOMAIN q : q[i].field \in 1 .. n
  BY <1>4, <1>5
<1>7. ASSUME NEW f \in 1 .. n
      PROVE  \E s \in Nat :
              /\ \A k \in 1 .. Len(blocks[f]) : s + k \in DOMAIN q /\ q[s + k] = blocks[f][k]
              /\ \A i \in DOMAIN q : q[i].field = f =>
                   \E k \in 1 .. Len(blocks[f]) : i = s + k
  <2>1. start[f] \in Nat
    BY <1>4
  <2>2. ASSUME NEW i \in DOMAIN q, q[i].field = f
        PROVE  \E k \in 1 .. Len(blocks[f]) : i = start[f] + k
    <3>0. PICK g \in 1 .. n : \E k \in 1 .. Len(blocks[g]) : i = start[g] + k
      BY <1>4
    <3>1. PICK k \in 1 .. Len(blocks[g]) : i = start[g] + k
      BY <3>0
    <3>2. q[i] = blocks[g][k]
      BY <1>4, <3>1
    <3>3. q[i].field = g
      BY <1>5, <3>2
    <3> QED  BY <2>2, <3>1, <3>3
  <2> QED  BY <1>4, <2>1, <2>2
<1> QED  BY <1>1, <1>6, <1>7 DEF q, n, Gathers

\* A field's suffix.
LEMMA SuffixFacts ==
  ASSUME NEW k \in Key, NEW f \in Fields(k)
  PROVE  LET t == SuffixTokens(k, f) IN
         t \in Seq(Token) /\ Len(t) = Schema[k].fields[f].suffix /\ Len(t) \in Nat \ {0}
<1> DEFINE n == Schema[k].fields[f].suffix
           t == [i \in 1 .. n |-> <<"suffix", f, i>>]
<1>1. n \in Nat \ {0} /\ f \in Nat
  BY FieldFacts
<1>2. SuffixTokens(k, f) = t
  BY DEF SuffixTokens
<1> HIDE DEF n
<1>3. t \in [1 .. n -> Token]
  BY <1>1 DEF Token
<1> HIDE DEF t
<1>4. t \in Seq(Token) /\ Len(t) = n
  BY <1>1, <1>3
<1> QED  BY <1>1, <1>2, <1>4 DEF n

\* A field's block of the broadcast.
LEMMA SuffixBatchFacts ==
  ASSUME NEW r \in Request, NEW f \in Fields(r.key)
  PROVE  LET b == SuffixBatch(r, f)
             t == SuffixTokens(r.key, f)
         IN  /\ b \in Seq(Item) /\ Len(b) = Len(t)
             /\ \A k \in 1 .. Len(t) :
                  b[k] = BatchToken(f, t[k], Completed(r) + k - 1, k = Len(t)) /\ b[k].field = f
<1> DEFINE t == SuffixTokens(r.key, f)
           l == Completed(r)
           b == [i \in DOMAIN t |-> BatchToken(f, t[i], l + i - 1, i = Len(t))]
<1>1. r.key \in Key /\ l \in Nat
  BY TextFits
<1>2. t \in Seq(Token) /\ Len(t) \in Nat /\ f \in Nat
  BY <1>1, SuffixFacts, FieldFacts
<1>3. SuffixBatch(r, f) = b
  BY Zenon DEF SuffixBatch
<1> HIDE DEF t, l
<1>4. DOMAIN t = 1 .. Len(t) /\ \A k \in 1 .. Len(t) : t[k] \in Token
  BY <1>2, LenProperties, ElementOfSeq
<1>5. ASSUME NEW k \in 1 .. Len(t)
      PROVE  BatchToken(f, t[k], l + k - 1, k = Len(t)) \in Item
  <2> DEFINE x == t[k]
             y == l + k - 1
             z == k = Len(t)
  <2>1. x \in Token /\ y \in Nat /\ z \in BOOLEAN
    BY <1>1, <1>2, <1>4
  <2> HIDE DEF x, y, z
  <2>2. BatchToken(f, x, y, z) \in Item
    BY <1>2, <2>1 DEF BatchToken, Item
  <2> QED  BY <2>2 DEF x, y, z
<1>6. b \in [1 .. Len(t) -> Item]
  BY <1>4, <1>5
<1>7. \A k \in 1 .. Len(t) : b[k] = BatchToken(f, t[k], l + k - 1, k = Len(t))
  BY <1>4
<1> HIDE DEF b
<1>8. b \in Seq(Item) /\ Len(b) = Len(t)
  BY <1>2, <1>6
<1>9. \A k \in 1 .. Len(t) : b[k].field = f
  BY <1>7, BatchTokenFacts
<1> QED  BY <1>3, <1>7, <1>8, <1>9 DEF t, l

\* What a request's fields may take, next to what they need.
LEMMA MostFacts ==
  ASSUME NEW r \in Request, NEW f \in Fields(r.key)
  PROVE  /\ Most(r, f) \in Nat
         /\ Completed(r) + Len(SuffixTokens(r.key, f)) <= Most(r, f)
         /\ \A n \in Nat : n <= MaxTreeLevels /\ n <= Deepest(Schema[r.key].fields[f]) =>
              Completed(r) + Len(SuffixTokens(r.key, f)) + n <= Most(r, f)
<1> DEFINE field == Schema[r.key].fields[f]
           d == Deepest(field)
           s == field.suffix
           l == Completed(r)
           t == Len(SuffixTokens(r.key, f))
<1>1. r.key \in Key /\ l \in Nat
  BY TextFits
<1>2. t = s /\ s \in Nat
  BY <1>1, SuffixFacts, FieldFacts
<1>3. d \in Nat
  <2>1. field.candidates \in Seq(Seq(Nat)) \ {<<>>}
    BY <1>1, FieldFacts
  <2> HIDE DEF field
  <2> QED  BY <2>1, DeepestFacts
<1>4. Most(r, f) = l + (s + Min({d, MaxTreeLevels}))
  BY DEF Most, FieldNeed
<1> HIDE DEF d, s, l, t, field
<1>5. MaxTreeLevels \in Nat
  BY EngineAssumption
<1>6. Min({d, MaxTreeLevels}) = IF d <= MaxTreeLevels THEN d ELSE MaxTreeLevels
  BY <1>3, <1>5, MinOfTwo
<1> DEFINE m == Min({d, MaxTreeLevels})
           x == Most(r, f)
<1>7. m \in Nat /\ x = l + (s + m) /\ \A n \in Nat : n <= MaxTreeLevels /\ n <= d => n <= m
  BY <1>3, <1>4, <1>5, <1>6
<1> HIDE DEF m, x
<1>8. x \in Nat /\ l + t <= x /\ \A n \in Nat : n <= MaxTreeLevels /\ n <= d => l + t + n <= x
  BY <1>1, <1>2, <1>7
<1> QED  BY <1>8 DEF d, l, t, field, x

\* What decode has in sequence 0 when the fields are scored.
LEMMA SharedFacts ==
  ASSUME request \in Request
  PROVE  /\ request.key \in Key
         /\ Shared \in Seq(Token) /\ Len(Shared) = Completed(request) /\ Len(Shared) \in Nat
         /\ \A f \in Fields(request.key) :
              /\ f \in Nat \ {0} /\ f \in Sequence
              /\ TheFields[f].candidates \in Seq(Seq(Nat)) \ {<<>>}
              /\ Base(f) \in Seq(Token)
              /\ Len(Base(f)) = Completed(request) + Len(SuffixTokens(request.key, f))
<1>1. /\ request.key \in Key
      /\ Shared \in Seq(Token) /\ Len(Shared) = Completed(request) /\ Completed(request) \in Nat
  BY TextFits DEF Shared, ThePrefix, TheContext
<1>2. ASSUME NEW f \in Fields(request.key)
      PROVE  /\ f \in Nat \ {0} /\ f \in Sequence
             /\ TheFields[f].candidates \in Seq(Seq(Nat)) \ {<<>>}
             /\ Base(f) \in Seq(Token)
             /\ Len(Base(f)) = Completed(request) + Len(SuffixTokens(request.key, f))
  <2>1. SuffixTokens(request.key, f) \in Seq(Token)
    BY <1>1, SuffixFacts
  <2>2. f \in Nat \ {0} /\ f \in Sequence /\ TheFields[f].candidates \in Seq(Seq(Nat)) \ {<<>>}
    BY <1>1, FieldFacts DEF TheFields
  <2> QED  BY <1>1, <2>1, <2>2, ConcatProperties DEF Base
<1> QED  BY <1>1, <1>2

\* The broadcast opens every field behind the shared text.
LEMMA BroadcastFits == ASSUME EInv, SInv, Broadcast PROVE SInv'
<1> DEFINE k == request.key
           n == Len(Schema[k].fields)
           blocks == [f \in Fields(k) |-> SuffixBatch(request, f)]
<1>1. /\ phase = "broadcast" /\ phase' = "score" /\ UNCHANGED <<request, level>>
      /\ mem' = [s \in Sequence |-> IF s \in Fields(k) THEN mem[0] ELSE mem[s]]
      /\ trees' = [f \in Fields(k) |-> Start(Schema[k].fields[f].candidates)]
      /\ nextPosition' = [f \in Fields(k) |-> Completed(request) + Schema[k].fields[f].suffix]
      /\ todo' = FlattenSeq(blocks)
  BY DEF Broadcast
<1>2. request \in Request /\ mem[0] = Shared
  BY <1>1 DEF EInv, Written0, Shared
<1>3. /\ k \in Key /\ Fields(k) = 1 .. n /\ n \in Nat \ {0} /\ 0 \in Sequence /\ 0 \notin Fields(k)
      /\ Fields(k) \subseteq Sequence
  BY <1>2, SharedFacts, FieldFacts DEF Sequence
<1>4. /\ \A s \in Sequence : mem'[s] = IF s \in Fields(k) THEN Shared ELSE mem[s]
      /\ mem'[0] = Shared
  BY <1>1, <1>2, <1>3
<1>5. level = 0 /\ Fits(request) /\ \A s \in Sequence \ {0} : mem[s] = <<>>
  BY <1>1 DEF SInv, MemInv, HoldsRequest
<1>6. \A f \in Fields(k) :
        /\ blocks[f] \in Seq(Item) /\ Len(blocks[f]) = Len(SuffixTokens(k, f))
        /\ \A i \in 1 .. Len(SuffixTokens(k, f)) :
             /\ blocks[f][i] = BatchToken(f, SuffixTokens(k, f)[i], Completed(request) + i - 1,
                                          i = Len(SuffixTokens(k, f)))
             /\ blocks[f][i].field = f
  BY <1>2, SuffixBatchFacts
<1>7. Len(blocks) = n
  BY <1>3
<1> HIDE DEF blocks
<1>8. /\ todo' \in Seq(Item)
      /\ \A i \in DOMAIN todo' : todo'[i].field \in Fields(k)
      /\ \A f \in Fields(k) : \E start \in Nat :
           /\ \A i \in 1 .. Len(blocks[f]) :
                start + i \in DOMAIN todo' /\ todo'[start + i] = blocks[f][i]
           /\ \A i \in DOMAIN todo' : todo'[i].field = f =>
                \E j \in 1 .. Len(blocks[f]) : i = start + j
  <2> DEFINE q == FlattenSeq(blocks)
  <2>1. /\ Len(blocks) \in Nat \ {0}
        /\ \A f \in 1 .. Len(blocks) : blocks[f] \in Seq(Item)
        /\ \A f \in 1 .. Len(blocks) : \A i \in 1 .. Len(blocks[f]) : blocks[f][i].field = f
    BY <1>3, <1>6, <1>7
  <2>2. q \in Seq(Item) /\ Gathers(q, blocks)
    BY <2>1, BlockFacts
  <2>3. todo' = q /\ 1 .. Len(blocks) = Fields(k)
    BY <1>1, <1>3, <1>7
  <2> HIDE DEF q
  <2>4. todo' \in Seq(Item) /\ Gathers(todo', blocks)
    BY <2>2, <2>3, Zenon
  <2> QED  BY <2>3, <2>4 DEF Gathers
<1>9. request' = request /\ Shared' = Shared /\ Completed(request)' = Completed(request)
      /\ TheFields' = TheFields
  BY <1>1 DEF Shared, ThePrefix, TheContext, Completed, PrefixLen, TheFields
<1>10. ASSUME NEW f \in Fields(k)
       PROVE  FieldHolds(f, todo, mem[f], trees[f], TheFields[f].candidates, Base(f),
                         nextPosition[f], level, Most(request, f))'
  <2> DEFINE t == SuffixTokens(k, f)
             c == Schema[k].fields[f].candidates
             most == Most(request, f)
  <2>1. t \in Seq(Token) /\ t # <<>> /\ Len(t) = Schema[k].fields[f].suffix
    BY <1>3, SuffixFacts, EmptySeq
  <2>2. c \in Seq(Seq(Nat)) /\ Shared \in Seq(Token) /\ Len(Shared) = Completed(request)
        /\ most \in Nat /\ Len(Shared) + Len(t) <= most
    BY <1>2, <1>3, FieldFacts, SharedFacts, MostFacts
  <2>3. PICK start \in Nat :
           /\ \A i \in 1 .. Len(blocks[f]) :
                start + i \in DOMAIN todo' /\ todo'[start + i] = blocks[f][i]
           /\ \A i \in DOMAIN todo' : todo'[i].field = f =>
                \E j \in 1 .. Len(blocks[f]) : i = start + j
    BY <1>8
  <2>4. Base(f)' = Shared \o t /\ TheFields'[f].candidates = c /\ Most(request, f)' = most
    BY <1>9 DEF Base, TheFields, Most
  <2>5. mem'[f] = Shared /\ trees'[f] = Start(c) /\ nextPosition'[f] = Len(Shared) + Len(t)
        /\ level' = 0
    BY <1>1, <1>3, <1>4, <1>5, <2>1, <2>2
  <2> HIDE DEF t, c, most
  <2>6. \A i \in 1 .. Len(t) :
          start + i \in DOMAIN todo'
          /\ todo'[start + i] = BatchToken(f, t[i], Len(Shared) + i - 1, i = Len(t))
    <3>1. /\ Len(blocks[f]) = Len(t)
          /\ \A i \in 1 .. Len(t) :
               blocks[f][i] = BatchToken(f, t[i], Completed(request) + i - 1, i = Len(t))
      BY <1>6 DEF t
    <3>2. \A i \in 1 .. Len(t) :
            blocks[f][i] = BatchToken(f, t[i], Len(Shared) + i - 1, i = Len(t))
      BY <2>2, <3>1, Zenon
    <3> QED  BY <2>3, <3>1, <3>2, Zenon
  <2>7. \A i \in DOMAIN todo' : todo'[i].field = f => \E j \in 1 .. Len(t) : i = start + j
    BY <1>6, <2>3 DEF t
  <2>8. FieldHolds(f, todo', Shared, Start(c), c, Shared \o t, Len(Shared) + Len(t), 0, most)
    BY <2>1, <2>2, <2>6, <2>7, FieldOpened
  <2>9. FieldHolds(f, todo', mem'[f], trees'[f], TheFields'[f].candidates, Base(f)',
                   nextPosition'[f], level', Most(request, f)')
    BY <2>4, <2>5, <2>8, Zenon
  <2> QED  BY <2>9, Zenon
<1>11. Scoring'
  <2>1. DOMAIN trees' = Fields(k) /\ request'.key = k /\ level' \in 0 .. MaxTreeLevels
    BY <1>1, <1>5, EngineAssumption
  <2> QED  BY <1>4, <1>8, <1>9, <1>10, <2>1 DEF Scoring
<1>12. HoldsRequest(request)'
  <2>1. Fits(request)'
    BY <1>1, <1>5 DEF Fits, Completed, PrefixLen
  <2>2. Len(mem'[0]) <= Completed(request)'
    BY <1>2, <1>4, <1>9, SharedFacts
  <2>3. ASSUME NEW s \in Sequence \ {0}, mem'[s] # <<>>
        PROVE  s \in Fields(k) /\ Len(mem'[s]) - Len(mem'[0]) <= FieldNeed(Schema[k].fields[s])
    <3>1. s \in Fields(k) /\ mem'[s] = mem'[0]
      BY <1>4, <1>5, <2>3
    <3>2. FieldNeed(Schema[k].fields[s]) \in Nat /\ Len(Shared) \in Nat
      BY <1>2, <1>3, <3>1, FieldFacts, SharedFacts
    <3> QED  BY <1>4, <3>1, <3>2
  <2> QED  BY <1>1, <2>1, <2>2, <2>3 DEF HoldsRequest
<1>13. \A s \in Sequence : mem'[s] \in Seq(Token)
  <2>1. <<>> \in Seq(Token)
    OBVIOUS
  <2> QED  BY <1>2, <1>4, <1>5, <2>1, SharedFacts
<1>14. MemInv'
  BY <1>1, <1>12, <1>13 DEF MemInv
<1> QED  BY <1>1, <1>11, <1>14 DEF SInv

\* The block of an open field in a tree pass, and where its path ends after it.
LEMMA LevelBatchFacts ==
  ASSUME request \in Request, SInv, Scoring, todo = <<>>, LevelsLeft,
         NEW f \in Fields(request.key), ~Resolved(trees[f])
  PROVE  /\ LevelBatch(f) \in Seq(Item) /\ Len(LevelBatch(f)) = 1
         /\ LevelBatch(f)[1] =
              BatchToken(f, PathTokens(<<Last(trees[f].consumed)>>)[1], nextPosition[f], TRUE)
         /\ LevelBatch(f)[1].field = f
         /\ Len(Base(f)) + level + 1 <= Most(request, f)
<1> DEFINE s == trees[f]
           c == TheFields[f].candidates
           x == PathTokens(<<Last(s.consumed)>>)[1]
           y == nextPosition[f]
           b == BatchToken(f, x, y, TRUE)
<1>1. /\ f \in Nat /\ f \in Sequence /\ request.key \in Key
      /\ Len(Base(f)) = Completed(request) + Len(SuffixTokens(request.key, f))
      /\ c \in Seq(Seq(Nat)) \ {<<>>}
  BY SharedFacts
<1>2. Tree(s, c) /\ s.levels = level + 1 /\ y \in Nat /\ level \in Nat /\ level + 1 <= MaxTreeLevels
  <2>1. ~Queued(<<>>, f)
    BY DEF Queued
  <2>2. FieldHolds(f, <<>>, mem[f], s, c, Base(f), y, level, Most(request, f))
    BY Zenon DEF Scoring
  <2>3. Tree(s, c) /\ s.levels = level + 1 /\ y = Len(mem[f])
    BY <2>1, <2>2, Zenon DEF FieldHolds
  <2>4. mem[f] \in Seq(Token)
    BY <1>1 DEF SInv, MemInv
  <2>5. level \in Nat /\ level + 1 <= MaxTreeLevels
    BY EngineAssumption DEF Scoring, LevelsLeft
  <2> QED  BY <2>3, <2>4, <2>5, LenProperties
<1>3. x \in Token
  <2> DEFINE p == s.consumed
             z == Last(p)
  <2>1. p \in Seq(Nat) /\ Len(p) = level + 1
    BY <1>2 DEF Tree
  <2>2. z = p[Len(p)]
    BY DEF Last
  <2>3. z \in Nat
    <3> HIDE DEF p
    <3>1. Len(p) \in 1 .. Len(p)
      BY <1>2, <2>1
    <3> QED  BY <2>1, <2>2, <3>1, ElementOfSeq
  <2> HIDE DEF z
  <2>4. x = <<"candidate", z, 0>>
    BY DEF PathTokens, z
  <2> HIDE DEF x
  <2> QED  BY <2>3, <2>4 DEF Token
<1>4. Len(Base(f)) + level + 1 <= Most(request, f)
  <2> DEFINE field == Schema[request.key].fields[f]
  <2>1. field.candidates = c
    BY DEF TheFields
  <2>2. PICK i \in DOMAIN c : Len(c[i]) >= level + 1
    <3>1. ~(s.levels = 0)
      BY <1>2
    <3>2. \E i \in DOMAIN c : Len(c[i]) >= s.levels
      BY <1>2, <3>1, Zenon DEF Tree
    <3> QED  BY <1>2, <3>2
  <2> HIDE DEF field, c
  <2>3. Deepest(field) \in Nat /\ Len(c[i]) <= Deepest(field)
    BY <1>1, <2>1, DeepestFacts
  <2>4. c[i] \in Seq(Nat)
    BY <1>1, ElementOfSeq, LenProperties
  <2>5. Len(c[i]) \in Nat
    BY <2>4, LenProperties
  <2>6. level + 1 \in Nat /\ level + 1 <= MaxTreeLevels /\ level + 1 <= Deepest(field)
    <3> DEFINE l == Len(c[i])
               d == Deepest(field)
    <3>1. l \in Nat /\ d \in Nat /\ l >= level + 1 /\ l <= d
      BY <2>2, <2>3, <2>5
    <3> HIDE DEF l, d
    <3>2. level + 1 <= d
      BY <1>2, <3>1
    <3> QED  BY <1>2, <3>2 DEF d
  <2>7. Completed(request) + Len(SuffixTokens(request.key, f)) + (level + 1) <= Most(request, f)
    BY <2>6, MostFacts DEF field
  <2> DEFINE t == Len(SuffixTokens(request.key, f))
             l == Completed(request)
  <2>8. t \in Nat /\ l \in Nat /\ Most(request, f) \in Nat
    BY <1>1, SuffixFacts, TextFits, MostFacts
  <2> HIDE DEF t, l
  <2>9. Len(Base(f)) = l + t /\ l + t + (level + 1) <= Most(request, f)
    BY <1>1, <2>7 DEF t, l
  <2> QED  BY <1>2, <2>8, <2>9
<1>5. LevelBatch(f) = <<b>>
  BY Zenon DEF LevelBatch
<1> HIDE DEF x, y
<1>6. b \in Item
  BY <1>1, <1>2, <1>3 DEF BatchToken, Item
<1>7. b.field = f
  BY DEF BatchToken
<1> HIDE DEF b
<1>8. <<b>> \in Seq(Item) /\ Len(<<b>>) = 1 /\ <<b>>[1] = b
  BY <1>6
<1>9. LevelBatch(f) \in Seq(Item) /\ Len(LevelBatch(f)) = 1 /\ LevelBatch(f)[1] = b
  BY <1>5, <1>8
<1> QED  BY <1>4, <1>7, <1>9 DEF b, x, y

\* What a tree pass queues for each field.
LevelQueue == [f \in DOMAIN trees |-> IF f \in Unresolved THEN LevelBatch(f) ELSE <<>>]

\* A block of one token per open field, an empty one for the others.
LEMMA LevelBlocks ==
  ASSUME EInv, SInv, QueueLevel
  PROVE  /\ Len(LevelQueue) = Len(Schema[request.key].fields)
         /\ \A f \in Fields(request.key) :
              /\ LevelQueue[f] = IF Resolved(trees[f]) THEN <<>> ELSE LevelBatch(f)
              /\ LevelQueue[f] \in Seq(Item)
              /\ Len(LevelQueue[f]) = IF Resolved(trees[f]) THEN 0 ELSE 1
              /\ \A i \in 1 .. Len(LevelQueue[f]) : LevelQueue[f][i].field = f
         /\ todo' \in Seq(Item) /\ Gathers(todo', LevelQueue)
<1> DEFINE fields == Fields(request.key)
           blocks == LevelQueue
<1>1. phase = "score" /\ todo = <<>> /\ LevelsLeft /\ todo' = FlattenSeq(blocks)
  BY DEF QueueLevel, LevelQueue
<1>2. request \in Request /\ Scoring
  BY <1>1 DEF EInv, SInv
<1>3. DOMAIN trees = fields
  BY <1>2 DEF Scoring
<1>4. request.key \in Key /\ fields = 1 .. Len(Schema[request.key].fields)
      /\ Len(Schema[request.key].fields) \in Nat \ {0}
  BY <1>2, SharedFacts, FieldFacts
<1>5. \A f \in fields : f \in Unresolved <=> ~Resolved(trees[f])
  BY <1>3 DEF Unresolved
<1>6. \A f \in fields :
        /\ f \in Unresolved => blocks[f] = LevelBatch(f)
        /\ f \notin Unresolved => blocks[f] = <<>>
  BY <1>3 DEF LevelQueue
<1>7. Len(blocks) = Len(Schema[request.key].fields)
  BY <1>3, <1>4 DEF LevelQueue
<1> HIDE DEF blocks
<1>8. \A f \in fields :
        /\ blocks[f] \in Seq(Item)
        /\ Len(blocks[f]) = IF f \in Unresolved THEN 1 ELSE 0
        /\ \A i \in 1 .. Len(blocks[f]) : blocks[f][i].field = f
  <2> SUFFICES ASSUME NEW f \in fields
               PROVE  /\ blocks[f] \in Seq(Item)
                      /\ Len(blocks[f]) = IF f \in Unresolved THEN 1 ELSE 0
                      /\ \A i \in 1 .. Len(blocks[f]) : blocks[f][i].field = f
    OBVIOUS
  <2> DEFINE block == blocks[f]
  <2> SUFFICES /\ block \in Seq(Item)
               /\ Len(block) = IF f \in Unresolved THEN 1 ELSE 0
               /\ \A i \in 1 .. Len(block) : block[i].field = f
    OBVIOUS
  <2>1. CASE f \in Unresolved
    <3>1. /\ LevelBatch(f) \in Seq(Item) /\ Len(LevelBatch(f)) = 1
          /\ LevelBatch(f)[1].field = f
      BY <1>1, <1>2, <1>5, <2>1, LevelBatchFacts
    <3> DEFINE b == LevelBatch(f)
    <3>2. b \in Seq(Item) /\ Len(b) = 1 /\ b[1].field = f /\ block = b
      BY <1>6, <2>1, <3>1
    <3> HIDE DEF b, block
    <3>3. block \in Seq(Item) /\ Len(block) = 1 /\ block[1].field = f
      BY <3>2
    <3>4. \A i \in 1 .. 1 : block[i].field = f
      BY <3>3
    <3>5. \A i \in 1 .. Len(block) : block[i].field = f
      BY <3>3, <3>4, Zenon
    <3>6. Len(block) = IF f \in Unresolved THEN 1 ELSE 0
      BY <2>1, <3>3
    <3> QED  BY <3>3, <3>5, <3>6, Zenon
  <2>2. CASE f \notin Unresolved
    <3>1. block = <<>>
      BY <1>6, <2>2
    <3> HIDE DEF block
    <3>2. <<>> \in Seq(Item) /\ Len(<<>>) = 0
      OBVIOUS
    <3> QED  BY <2>2, <3>1, <3>2
  <2> QED  BY <2>1, <2>2
<1>9. todo' \in Seq(Item) /\ Gathers(todo', blocks)
  <2> DEFINE q == FlattenSeq(blocks)
  <2>1. q \in Seq(Item) /\ Gathers(q, blocks)
    BY <1>4, <1>7, <1>8, BlockFacts
  <2> HIDE DEF q
  <2> QED  BY <1>1, <2>1, Zenon DEF q
<1> QED  BY <1>5, <1>6, <1>7, <1>8, <1>9 DEF blocks

\* A tree pass queues the next token of every open field and nothing else.
LEMMA QueueLevelFits == ASSUME EInv, SInv, QueueLevel PROVE SInv'
<1> DEFINE fields == Fields(request.key)
           blocks == LevelQueue
<1>1. /\ phase = "score" /\ todo = <<>> /\ LevelsLeft
      /\ nextPosition' = [f \in DOMAIN trees |->
                            IF f \in Unresolved THEN nextPosition[f] + 1 ELSE nextPosition[f]]
      /\ level' = level + 1
      /\ UNCHANGED <<mem, phase, request, trees>>
  BY DEF QueueLevel, NextPositions
<1>2. request \in Request /\ Scoring /\ MemInv
  BY <1>1 DEF EInv, SInv
<1>3. /\ DOMAIN trees = fields /\ level \in Nat /\ level' \in 0 .. MaxTreeLevels
      /\ mem[0] = Shared
      /\ \A f \in fields : FieldHolds(f, <<>>, mem[f], trees[f], TheFields[f].candidates, Base(f),
                                      nextPosition[f], level, Most(request, f))
  <2>1. level \in Nat /\ level' \in 0 .. MaxTreeLevels
    BY <1>1, <1>2, EngineAssumption DEF Scoring, LevelsLeft
  <2> QED  BY <1>1, <1>2, <2>1, Zenon DEF Scoring
<1>4. request.key \in Key /\ fields = 1 .. Len(Schema[request.key].fields)
      /\ Len(Schema[request.key].fields) \in Nat \ {0}
  BY <1>2, SharedFacts, FieldFacts
<1>5. \A f \in fields : f \in Unresolved <=> ~Resolved(trees[f])
  BY <1>3 DEF Unresolved
<1>6. \A f \in fields :
        /\ f \in Unresolved => blocks[f] = LevelBatch(f)
        /\ f \notin Unresolved => blocks[f] = <<>>
  BY <1>5, LevelBlocks
<1>7. Len(blocks) = Len(Schema[request.key].fields)
  BY LevelBlocks
<1>8. \A f \in fields : Len(blocks[f]) = IF f \in Unresolved THEN 1 ELSE 0
  BY <1>5, LevelBlocks
<1>9. todo' \in Seq(Item) /\ Gathers(todo', blocks)
  BY LevelBlocks
<1> HIDE DEF blocks
<1>10. request' = request /\ Shared' = Shared /\ TheFields' = TheFields
      /\ \A f : Base(f)' = Base(f) /\ Most(request, f)' = Most(request, f)
  BY <1>1 DEF Shared, ThePrefix, TheContext, Completed, PrefixLen, TheFields, Base, Most
<1>11. ASSUME NEW f \in fields
       PROVE  FieldHolds(f, todo, mem[f], trees[f], TheFields[f].candidates, Base(f),
                         nextPosition[f], level, Most(request, f))'
  <2> DEFINE q == todo'
             held == mem[f]
             tree == trees[f]
             c == TheFields[f].candidates
             base == Base(f)
             next == nextPosition[f]
             most == Most(request, f)
  <2>1. FieldHolds(f, <<>>, held, tree, c, base, next, level, most)
    BY <1>3
  <2>2. held \in Seq(Token) /\ base \in Seq(Token) /\ most \in Nat /\ f \in Nat
    BY <1>2, SharedFacts, MostFacts DEF MemInv
  <2>3. PICK start \in Nat :
           /\ \A i \in 1 .. Len(blocks[f]) : start + i \in DOMAIN q /\ q[start + i] = blocks[f][i]
           /\ \A i \in DOMAIN q : q[i].field = f =>
                \E j \in 1 .. Len(blocks[f]) : i = start + j
    BY <1>4, <1>7, <1>9 DEF Gathers
  <2>4. /\ mem'[f] = held /\ trees'[f] = tree /\ TheFields'[f].candidates = c /\ Base(f)' = base
        /\ Most(request, f)' = most /\ level' = level + 1
        /\ nextPosition'[f] = IF f \in Unresolved THEN next + 1 ELSE next
    BY <1>1, <1>3, <1>10
  <2>5. CASE f \in Unresolved
    <3> DEFINE token == BatchToken(f, PathTokens(<<Last(tree.consumed)>>)[1], next, TRUE)
    <3>1. LevelBatch(f)[1] = token /\ Len(base) + level + 1 <= most
      BY <1>1, <1>2, <1>5, <2>5, LevelBatchFacts
    <3>2. blocks[f][1] = token /\ Len(blocks[f]) = 1
      BY <1>6, <1>8, <2>5, <3>1
    <3> HIDE DEF token
    <3>3. start + 1 \in DOMAIN q /\ q[start + 1] = token
      BY <2>3, <3>2
    <3>4. \A j \in DOMAIN q : q[j].field = f => j = start + 1
      BY <2>3, <3>2
    <3>5. ~Resolved(tree)
      BY <1>5, <2>5
    <3> HIDE DEF q, held, tree, c, base, next, most
    <3>6. FieldHolds(f, q, held, tree, c, base, next + 1, level + 1, most)
      <4>1. q \in Seq(Item)
        BY <1>9 DEF q
      <4>2. q[start + 1] = BatchToken(f, PathTokens(<<Last(tree.consumed)>>)[1], next, TRUE)
        BY <3>3 DEF token
      <4> QED  BY <1>3, <2>1, <2>2, <3>1, <3>3, <3>4, <3>5, <4>1, <4>2, FieldQueued
    <3> QED  BY <2>4, <2>5, <3>6, Zenon DEF q, held, tree, c, base, next, most
  <2>6. CASE f \notin Unresolved
    <3>1. Resolved(tree) /\ Tree(tree, c)
      BY <1>5, <2>1, <2>6, Zenon DEF FieldHolds
    <3>2. \A j \in DOMAIN q : q[j].field # f
      <4>1. Len(blocks[f]) = 0
        BY <1>8, <2>6
      <4> QED  BY <2>3, <4>1
    <3>3. FieldHolds(f, q, held, tree, c, base, next, level + 1, most)
      <4> HIDE DEF q, held, tree, c, base, next, most
      <4> QED  BY <3>1, <3>2, FieldLeftOut
    <3> QED  BY <2>4, <2>6, <3>3, Zenon
  <2> QED  BY <2>5, <2>6
<1>12. Scoring'
  <2>1. \A i \in DOMAIN todo' : todo'[i].field \in fields
    BY <1>4, <1>7, <1>9 DEF Gathers
  <2>2. DOMAIN trees' = fields /\ mem'[0] = Shared
    BY <1>1, <1>3
  <2> QED  BY <1>3, <1>9, <1>10, <1>11, <2>1, <2>2 DEF Scoring
<1>13. MemInv'
  <2>1. HoldsRequest(request)' <=> HoldsRequest(request)
    BY <1>1 DEF HoldsRequest, Fits, Completed, PrefixLen
  <2> QED  BY <1>1, <1>2, <2>1 DEF MemInv
<1> QED  BY <1>1, <1>12, <1>13 DEF SInv

-----------------------------------------------------------------------------
(* The batches empty it.                                                    *)

\* The front of a front.
LEMMA FrontOfFront ==
  ASSUME NEW I, NEW q \in Seq(I), NEW m \in 0 .. Len(q), NEW n \in 0 .. m
  PROVE  /\ SubSeq(q, 1, m) \in Seq(I) /\ Len(SubSeq(q, 1, m)) = m
         /\ \A i \in 1 .. m : SubSeq(q, 1, m)[i] = q[i]
         /\ SubSeq(SubSeq(q, 1, m), 1, n) = SubSeq(q, 1, n)
<1> DEFINE whole == SubSeq(q, 1, m)
           front == SubSeq(q, 1, n)
           part == SubSeq(whole, 1, n)
<1>1. Len(q) \in Nat /\ \A i \in 1 .. Len(q) : q[i] \in I
  BY LenProperties, ElementOfSeq
<1>2. \A l \in 0 .. Len(q) : /\ SubSeq(q, 1, l) \in Seq(I) /\ Len(SubSeq(q, 1, l)) = l
                             /\ \A i \in 1 .. l : SubSeq(q, 1, l)[i] = q[i]
  <2> TAKE l \in 0 .. Len(q)
  <2>1. l \in Nat /\ \A i \in 1 .. l : q[i] \in I
    BY <1>1
  <2>2. /\ SubSeq(q, 1, l) \in Seq(I)
        /\ Len(SubSeq(q, 1, l)) = IF 1 <= l THEN l - 1 + 1 ELSE 0
        /\ \A i \in 1 .. l - 1 + 1 : SubSeq(q, 1, l)[i] = q[1 + i - 1]
    BY <2>1, SubSeqProperties
  <2>3. (IF 1 <= l THEN l - 1 + 1 ELSE 0) = l /\ l - 1 + 1 = l /\ \A i \in 1 .. l : 1 + i - 1 = i
    BY <2>1
  <2> QED  BY <2>2, <2>3
<1>3. whole \in Seq(I) /\ Len(whole) = m /\ \A i \in 1 .. m : whole[i] = q[i]
  BY <1>2
<1>4. front \in Seq(I) /\ Len(front) = n /\ \A i \in 1 .. n : front[i] = q[i]
  BY <1>1, <1>2
<1> HIDE DEF whole, front
<1>5. part \in Seq(I) /\ Len(part) = n /\ \A i \in 1 .. n : part[i] = whole[i]
  <2>1. n \in Nat /\ \A i \in 1 .. n : whole[i] \in I
    BY <1>3, ElementOfSeq
  <2>2. /\ part \in Seq(I)
        /\ Len(part) = IF 1 <= n THEN n - 1 + 1 ELSE 0
        /\ \A i \in 1 .. n - 1 + 1 : part[i] = whole[1 + i - 1]
    BY <2>1, SubSeqProperties
  <2>3. (IF 1 <= n THEN n - 1 + 1 ELSE 0) = n /\ n - 1 + 1 = n /\ \A i \in 1 .. n : 1 + i - 1 = i
    BY <2>1
  <2> HIDE DEF part
  <2> QED  BY <2>2, <2>3
<1> HIDE DEF part
<1>6. \A i \in 1 .. n : part[i] = front[i]
  BY <1>3, <1>4, <1>5
<1>7. part = front
  BY <1>4, <1>5, <1>6, SeqEqual
<1> QED  BY <1>3, <1>7 DEF part, front, whole

\* Extended, as what a sequence takes.
LEMMA ExtendedTakes == ASSUME NEW s, NEW batch PROVE Extended(s, batch) = Taken(mem[s], s, batch)
  BY Zenon DEF Extended, Taken, Gained

\* A sequence without tokens in the queue takes nothing.
LEMMA NothingTaken ==
  ASSUME NEW I, NEW q \in Seq(I), NEW f, NEW held \in Seq(Token), NEW m \in 0 .. Len(q),
         ~Queued(q, f)
  PROVE  Whole(Taken(held, f, SubSeq(q, 1, m)), held)
<1>1. \A i \in DOMAIN q : q[i].field # f
  BY DEF Queued
<1>2. Queues(q, f, Len(held), <<>>)
  BY <1>1 DEF Queues
<1>3. <<>> \in Seq(Token)
  OBVIOUS
<1>4. Own(q, m, f) = {}
  <2>1. DOMAIN q = 1 .. Len(q) /\ Len(q) \in Nat
    BY LenProperties
  <2> QED  BY <1>1, <2>1 DEF Own
<1>5. IF Own(q, m, f) = {} THEN Taken(held, f, SubSeq(q, 1, m)) = held
      ELSE Leads(Taken(held, f, SubSeq(q, 1, m)), <<>>)
  BY <1>1, <1>2, <1>3, TakeBatch
<1> QED  BY <1>4, <1>5, Zenon DEF Whole

\* What the sequences hold is within their budgets while the fields are scored.
LEMMA SequenceTaken ==
  ASSUME request \in Request, Scoring, MemInv, phase = "score",
         NEW m \in 0 .. Len(todo), NEW s \in Sequence
  PROVE  /\ Taken(mem[s], s, SubSeq(todo, 1, m)) \in Seq(Token)
         /\ s \in Fields(request.key) =>
              /\ Len(mem[s]) <= Most(request, s)
              /\ Len(Taken(mem[s], s, SubSeq(todo, 1, m))) <= Most(request, s)
         /\ s \notin Fields(request.key) => Whole(Taken(mem[s], s, SubSeq(todo, 1, m)), mem[s])
<1> DEFINE took == Taken(mem[s], s, SubSeq(todo, 1, m))
<1>1. todo \in Seq(Item) /\ mem[s] \in Seq(Token)
  BY DEF Scoring, MemInv
<1>2. CASE s \in Fields(request.key)
  <2> DEFINE most == Most(request, s)
             held == mem[s]
  <2>1. FieldHolds(s, todo, held, trees[s], TheFields[s].candidates, Base(s), nextPosition[s],
                   level, most)
    BY <1>2 DEF Scoring
  <2>2. most \in Nat /\ Base(s) \in Seq(Token)
    BY <1>2, MostFacts, SharedFacts
  <2>3. Len(held) <= most
    <3> DEFINE need == FieldNeed(Schema[request.key].fields[s])
               shared == Completed(request)
               l == Len(held)
    <3>1. need \in Nat /\ shared \in Nat /\ l \in Nat /\ Len(mem[0]) = shared
      BY <1>1, <1>2, SharedFacts, FieldFacts, LenProperties DEF Scoring
    <3>2. most = shared + need
      BY DEF Most
    <3>3. s # 0 /\ (held # <<>> => l - Len(mem[0]) <= need)
      BY <1>2, SharedFacts DEF MemInv, HoldsRequest
    <3>4. held = <<>> => l = 0
      BY EmptySeq
    <3> HIDE DEF need, shared, l, most, held
    <3>5. held # <<>> => l - shared <= need
      BY <3>1, <3>3
    <3>6. l <= most
      BY <3>1, <3>2, <3>4, <3>5
    <3> QED  BY <3>6 DEF l
  <2> HIDE DEF most, held
  <2>4. Taken(held, s, SubSeq(todo, 1, m)) \in Seq(Token)
        /\ Len(Taken(held, s, SubSeq(todo, 1, m))) <= most
    BY <1>1, <2>1, <2>2, <2>3, FieldTaken DEF held
  <2> QED  BY <1>2, <2>3, <2>4 DEF most, held
<1>3. CASE s \notin Fields(request.key)
  <2>1. ~Queued(todo, s)
    BY <1>3 DEF Scoring, Queued
  <2>2. Whole(took, mem[s])
    BY <1>1, <2>1, NothingTaken
  <2>3. took \in Seq(Token)
    BY <1>1, <2>2, Zenon DEF Whole
  <2> QED  BY <1>3, <2>2, <2>3
<1> QED  BY <1>2, <1>3

\* So a batch, or a part of one, is what ensure_fits counted.
LEMMA HoldsTaken ==
  ASSUME request \in Request, Scoring, MemInv, phase = "score", NEW r \in Request, r = request,
         NEW m \in 0 .. Len(todo),
         mem' = [s \in Sequence |-> Extended(s, SubSeq(todo, 1, m))]
  PROVE  /\ HoldsRequest(r)'
         /\ \A s \in Sequence : mem'[s] \in Seq(Token)
         /\ mem'[0] = mem[0]
         /\ \A s \in Sequence : mem'[s] = Taken(mem[s], s, SubSeq(todo, 1, m))
<1>1. \A s \in Sequence : mem'[s] = Taken(mem[s], s, SubSeq(todo, 1, m))
  BY ExtendedTakes
<1>2. \A s \in Sequence : mem'[s] \in Seq(Token)
  BY <1>1, SequenceTaken
<1>3. 0 \in Sequence /\ 0 \notin Fields(request.key) /\ request.key \in Key
  BY SharedFacts DEF Sequence
<1>4. \A s \in Sequence : s \notin Fields(request.key) => mem'[s] = mem[s]
  <2> SUFFICES ASSUME NEW s \in Sequence, s \notin Fields(request.key) PROVE mem'[s] = mem[s]
    OBVIOUS
  <2>1. Whole(Taken(mem[s], s, SubSeq(todo, 1, m)), mem[s])
    BY SequenceTaken
  <2> QED  BY <1>1, <2>1, Zenon DEF Whole
<1>5. \A s \in Fields(request.key) : Len(mem'[s]) <= Most(request, s) /\ s \in Sequence
  <2> TAKE s \in Fields(request.key)
  <2>1. s \in Sequence
    BY SharedFacts
  <2>2. Len(Taken(mem[s], s, SubSeq(todo, 1, m))) <= Most(request, s)
    BY <2>1, SequenceTaken
  <2> QED  BY <1>1, <2>1, <2>2
<1>6. Fits(request) /\ Len(mem[0]) = Completed(request) /\ Completed(request) \in Nat
  BY SharedFacts DEF MemInv, HoldsRequest, Scoring
<1>7. ASSUME NEW s \in Sequence \ {0}, mem'[s] # <<>>
      PROVE  s \in Fields(request.key)
             /\ Len(mem'[s]) - Len(mem'[0]) <= FieldNeed(Schema[request.key].fields[s])
  <2>1. s \in Fields(request.key)
    BY <1>4, <1>7 DEF MemInv, HoldsRequest
  <2> DEFINE l == Len(mem'[s])
             need == FieldNeed(Schema[request.key].fields[s])
             shared == Completed(request)
  <2>2. l \in Nat /\ need \in Nat /\ shared \in Nat
    BY <1>2, <1>3, <1>6, <2>1, FieldFacts, LenProperties
  <2>3. l <= shared + need
    BY <1>5, <2>1 DEF Most
  <2>4. Len(mem'[0]) = shared
    BY <1>3, <1>4, <1>6
  <2> HIDE DEF l, need, shared
  <2>5. l - shared <= need
    BY <2>2, <2>3
  <2> QED  BY <2>1, <2>4, <2>5 DEF l, need
<1>8. HoldsRequest(r)'
  <2>1. Fits(r)' /\ Len(mem'[0]) <= Completed(r)'
    <3>1. Completed(r)' = Completed(r) /\ (Fits(r)' <=> Fits(r))
      BY DEF Fits, Completed, PrefixLen
    <3> QED  BY <1>3, <1>4, <1>6, <3>1
  <2> QED  BY <1>7, <2>1 DEF HoldsRequest
<1> QED  BY <1>1, <1>2, <1>3, <1>4, <1>8

\* The batch is the front of the queue.
LEMMA BatchFacts ==
  ASSUME todo \in Seq(Item)
  PROVE  \E m \in 0 .. Len(todo) :
           /\ Batch = SubSeq(todo, 1, m) /\ Len(Batch) = m /\ DOMAIN Batch = 1 .. m
           /\ \A i \in 1 .. m : Batch[i] = todo[i]
           /\ todo # <<>> => m # 0
<1> DEFINE m == Min({BatchSize, Len(todo)})
<1>1. Len(todo) \in Nat /\ BatchSize \in Nat \ {0} /\ (todo # <<>> => Len(todo) # 0)
  BY EngineAssumption, LenProperties, EmptySeq
<1>2. m \in 0 .. Len(todo) /\ (todo # <<>> => m # 0)
  BY <1>1, MinOfTwo
<1>3. Batch = SubSeq(todo, 1, m)
  BY DEF Batch
<1> HIDE DEF m
<1>4. SubSeq(todo, 1, m) \in Seq(Item) /\ Len(SubSeq(todo, 1, m)) = m
      /\ \A i \in 1 .. m : SubSeq(todo, 1, m)[i] = todo[i]
  BY <1>2, FrontOfFront
<1>5. DOMAIN SubSeq(todo, 1, m) = 1 .. m
  BY <1>4, LenProperties
<1> QED  BY <1>2, <1>3, <1>4, <1>5

\* The logits of field f are read in the first m of the queue, behind the i-th.
Read(f, m, i) ==
  /\ i \in 1 .. m /\ todo[i].field = f /\ todo[i].logits
  /\ ~Resolved(trees[f]) /\ trees'[f] \in Advanced(trees[f])
  /\ scoredOn'[f] = Taken(mem[f], f, SubSeq(todo, 1, i))

\* Field f's logits are not read.
Passed(f, m) ==
  /\ \A i \in 1 .. m : todo[i].field = f => ~todo[i].logits
  /\ trees'[f] = trees[f] /\ scoredOn'[f] = scoredOn[f]

\* What flush does, field by field.
LEMMA FlushFacts ==
  ASSUME Flush, todo \in Seq(Item)
  PROVE  \E m \in 0 .. Len(todo) :
           /\ m # 0
           /\ mem' = [s \in Sequence |-> Extended(s, SubSeq(todo, 1, m))]
           /\ todo' = SubSeq(todo, m + 1, Len(todo))
           /\ DOMAIN trees' = DOMAIN trees
           /\ \A f \in DOMAIN trees : (\E i \in Nat : Read(f, m, i)) \/ Passed(f, m)
<1>1. PICK m \in 0 .. Len(todo) :
        /\ Batch = SubSeq(todo, 1, m) /\ Len(Batch) = m /\ DOMAIN Batch = 1 .. m
        /\ \A i \in 1 .. m : Batch[i] = todo[i]
        /\ m # 0
  BY BatchFacts DEF Flush
<1> DEFINE batch == Batch
           fields == {batch[i].field : i \in Pending(batch)}
           at == [f \in fields |-> LogitsIndex(CHOOSE i \in Pending(batch) : batch[i].field = f)]
           scored == DOMAIN at
<1>2. /\ \A f \in scored : ~Resolved(trees[f])
      /\ mem' = [s \in Sequence |-> Extended(s, batch)]
      /\ scoredOn' = [f \in DOMAIN trees |->
                        IF f \in scored
                        THEN Extended(batch[at[f]].field, SubSeq(batch, 1, at[f]))
                        ELSE scoredOn[f]]
      /\ \E next \in [scored -> UNION {Advanced(trees[f]) : f \in scored}] :
           /\ \A f \in scored : next[f] \in Advanced(trees[f])
           /\ trees' = [f \in DOMAIN trees |->
                          IF f \in scored THEN next[f] ELSE trees[f]]
      /\ todo' = SubSeq(todo, Len(batch) + 1, Len(todo))
  BY Zenon DEF Flush
<1>3. PICK next : /\ \A f \in scored : next[f] \in Advanced(trees[f])
                  /\ trees' = [f \in DOMAIN trees |->
                                 IF f \in scored THEN next[f] ELSE trees[f]]
  BY <1>2
<1>4. scored = fields /\ \A f \in fields :
        at[f] = LogitsIndex(CHOOSE i \in Pending(batch) : batch[i].field = f)
  OBVIOUS
<1>5. mem' = [s \in Sequence |-> Extended(s, SubSeq(todo, 1, m))]
      /\ todo' = SubSeq(todo, m + 1, Len(todo)) /\ DOMAIN trees' = DOMAIN trees
  BY <1>1, <1>2, <1>3
<1>6. \A i : i \in Pending(batch) <=> i \in 1 .. m /\ todo[i].logits
  BY <1>1 DEF Pending
<1>7. ASSUME NEW f \in DOMAIN trees
      PROVE  (\E i \in Nat : Read(f, m, i)) \/ Passed(f, m)
  <2>1. CASE f \in scored
    <3> DEFINE i == CHOOSE x \in Pending(batch) : batch[x].field = f
    <3>1. i \in Pending(batch) /\ batch[i].field = f
      <4>1. \E x \in Pending(batch) : batch[x].field = f
        BY <1>4, <2>1
      <4> QED  BY <4>1
    <3>2. at[f] = i
      BY <1>4, <2>1 DEF LogitsIndex
    <3> HIDE DEF i, at
    <3>3. i \in 1 .. m /\ todo[i].logits /\ todo[i].field = f /\ i \in 0 .. m /\ i \in Nat
      BY <1>1, <1>6, <3>1
    <3>4. scoredOn'[f] = Extended(batch[at[f]].field, SubSeq(batch, 1, at[f]))
      BY <1>2, <2>1, Zenon
    <3>5. SubSeq(batch, 1, i) = SubSeq(todo, 1, i)
      BY <1>1, <3>3, FrontOfFront
    <3>6. scoredOn'[f] = Extended(f, SubSeq(todo, 1, i))
      BY <3>1, <3>2, <3>4, <3>5, Zenon
    <3>7. scoredOn'[f] = Taken(mem[f], f, SubSeq(todo, 1, i))
      BY <3>6, ExtendedTakes, Zenon
    <3>8. ~Resolved(trees[f]) /\ trees'[f] \in Advanced(trees[f])
      <4>1. trees'[f] = next[f]
        BY <1>3, <2>1, Zenon
      <4> QED  BY <1>2, <1>3, <2>1, <4>1, Zenon
    <3> QED  BY <3>3, <3>7, <3>8 DEF Read
  <2>2. CASE f \notin scored
    <3>1. trees'[f] = trees[f] /\ scoredOn'[f] = scoredOn[f]
      BY <1>2, <1>3, <2>2, Zenon
    <3>2. \A x \in 1 .. m : todo[x].field = f => ~todo[x].logits
      <4> SUFFICES ASSUME NEW x \in 1 .. m, todo[x].field = f, todo[x].logits PROVE FALSE
        OBVIOUS
      <4>1. x \in Pending(batch) /\ batch[x].field = f
        BY <1>1, <1>6
      <4> QED  BY <1>4, <2>2, <4>1
    <3> QED  BY <3>1, <3>2 DEF Passed
  <2> QED  BY <2>1, <2>2
<1> QED  BY <1>1, <1>5, <1>7

\* Where a field was last scored.
ScoredOn(f) == PathFrom(Base(f), trees[f])

\* A batch takes every field one step along, or reads its logits at the end of
\* its own path.
LEMMA FlushFields ==
  ASSUME EInv, SInv, Flush
  PROVE  /\ SInv'
         /\ \A f \in DOMAIN trees : scoredOn'[f] = scoredOn[f] \/ Whole(scoredOn'[f], ScoredOn(f))
<1> DEFINE fields == Fields(request.key)
<1>1. phase = "score" /\ UNCHANGED <<phase, request, nextPosition, level>>
  BY Zenon DEF Flush
<1>2. request \in Request /\ Scoring /\ MemInv /\ DOMAIN trees = fields /\ todo \in Seq(Item)
  BY <1>1 DEF EInv, SInv, Scoring
<1>3. PICK m \in 0 .. Len(todo) :
        /\ mem' = [s \in Sequence |-> Extended(s, SubSeq(todo, 1, m))]
        /\ todo' = SubSeq(todo, m + 1, Len(todo))
        /\ DOMAIN trees' = DOMAIN trees
        /\ \A f \in DOMAIN trees : (\E i \in Nat : Read(f, m, i)) \/ Passed(f, m)
  BY <1>2, FlushFacts
<1>4. PICK r \in Request : r = request
  BY <1>2
<1>5. /\ HoldsRequest(r)'
      /\ \A s \in Sequence : mem'[s] \in Seq(Token)
      /\ mem'[0] = mem[0]
      /\ \A s \in Sequence : mem'[s] = Taken(mem[s], s, SubSeq(todo, 1, m))
  BY <1>1, <1>2, <1>3, <1>4, HoldsTaken
<1>6. request' = request /\ Shared' = Shared /\ TheFields' = TheFields
      /\ \A f : Base(f)' = Base(f) /\ Most(request, f)' = Most(request, f)
  BY <1>1 DEF Shared, ThePrefix, TheContext, Completed, PrefixLen, TheFields, Base, Most
<1>7. ASSUME NEW f \in fields
      PROVE  /\ FieldHolds(f, todo, mem[f], trees[f], TheFields[f].candidates, Base(f),
                           nextPosition[f], level, Most(request, f))'
             /\ scoredOn'[f] = scoredOn[f] \/ Whole(scoredOn'[f], ScoredOn(f))
  <2> DEFINE q == todo
             held == mem[f]
             tree == trees[f]
             t == trees'[f]
             c == TheFields[f].candidates
             base == Base(f)
             next == nextPosition[f]
             most == Most(request, f)
             rest == SubSeq(q, m + 1, Len(q))
             took == Taken(held, f, SubSeq(q, 1, m))
  <2>1. /\ FieldHolds(f, q, held, tree, c, base, next, level, most)
        /\ f \in Sequence /\ q \in Seq(Item) /\ held \in Seq(Token) /\ base \in Seq(Token) /\ most \in Nat
        /\ c \in Seq(Seq(Nat)) /\ Len(held) <= most
    <3>1. f \in Sequence
      BY <1>2, SharedFacts
    <3>2. Len(held) <= most
      BY <1>1, <1>2, <3>1, SequenceTaken
    <3> QED  BY <1>2, <3>1, <3>2, SharedFacts, MostFacts DEF Scoring, MemInv
  <2>2. mem'[f] = took /\ todo' = rest /\ TheFields'[f].candidates = c /\ Base(f)' = base
        /\ nextPosition'[f] = next /\ level' = level /\ Most(request, f)' = most
    BY <1>1, <1>3, <1>5, <1>6, <2>1
  <2>3. /\ FieldHolds(f, rest, took, t, c, base, next, level, most)
        /\ scoredOn'[f] = scoredOn[f] \/ Whole(scoredOn'[f], PathFrom(base, tree))
    <3>1. CASE Passed(f, m)
      <4>1. t = tree /\ scoredOn'[f] = scoredOn[f] /\ \A i \in 1 .. m : q[i].field = f => ~q[i].logits
        BY <3>1 DEF Passed
      <4> HIDE DEF q, held, tree, c, base, next, most, t
      <4>2. FieldHolds(f, rest, took, tree, c, base, next, level, most)
        BY <1>3, <2>1, <4>1, FieldTaken DEF q
      <4> QED  BY <4>1, <4>2
    <3>2. CASE \E i \in Nat : Read(f, m, i)
      <4>1. PICK i \in 1 .. m : Read(f, m, i)
        BY <3>2 DEF Read
      <4>2. /\ q[i].field = f /\ q[i].logits /\ ~Resolved(tree) /\ t \in Advanced(tree)
            /\ scoredOn'[f] = Taken(held, f, SubSeq(q, 1, i))
        BY <4>1 DEF Read
      <4> DEFINE on == scoredOn'[f]
      <4> HIDE DEF q, held, tree, c, base, next, most, t, on
      <4>3. /\ Taken(held, f, SubSeq(q, 1, i)) = PathFrom(base, tree)
            /\ FieldHolds(f, rest, took, t, c, base, next, level, most)
        BY <1>3, <2>1, <4>2, FieldRead DEF q
      <4>4. Whole(on, PathFrom(base, tree))
        BY <4>2, <4>3, Zenon DEF Whole, on
      <4> QED  BY <4>3, <4>4 DEF on
    <3> QED  BY <1>2, <1>3, <3>1, <3>2
  <2>4. FieldHolds(f, todo', mem'[f], trees'[f], TheFields'[f].candidates, Base(f)',
                   nextPosition'[f], level', Most(request, f)')
    BY <2>2, <2>3, Zenon
  <2> QED  BY <2>3, <2>4, Zenon DEF ScoredOn
<1>8. Scoring'
  <2>1. todo' \in Seq(Item) /\ \A i \in DOMAIN todo' : todo'[i].field \in fields
    <3>1. /\ todo' \in Seq(Item) /\ DOMAIN todo' = 1 .. Len(todo) - m
          /\ \A j \in 1 .. Len(todo) - m : todo'[j] = todo[m + j] /\ m + j \in DOMAIN todo
      <4> DEFINE rest == SubSeq(todo, m + 1, Len(todo))
      <4>1. /\ rest \in Seq(Item) /\ DOMAIN rest = 1 .. Len(todo) - m
            /\ \A j \in 1 .. Len(todo) - m : rest[j] = todo[m + j] /\ m + j \in DOMAIN todo
        BY <1>2, RestFacts
      <4> HIDE DEF rest
      <4> QED  BY <1>3, <4>1 DEF rest
    <3> QED  BY <1>2, <3>1 DEF Scoring
  <2>2. mem'[0] = Shared /\ level' \in 0 .. MaxTreeLevels
    BY <1>1, <1>2, <1>5 DEF Scoring
  <2> QED  BY <1>2, <1>3, <1>6, <1>7, <2>1, <2>2 DEF Scoring
<1>9. MemInv'
  <2>1. HoldsRequest(request)' <=> HoldsRequest(r)'
    BY <1>1, <1>4 DEF HoldsRequest, Fits, Completed, PrefixLen
  <2> QED  BY <1>1, <1>5, <2>1 DEF MemInv
<1>10. SInv'
  BY <1>1, <1>8, <1>9 DEF SInv
<1> QED  BY <1>2, <1>7, <1>10

-----------------------------------------------------------------------------
(* The other steps, and all of them.                                        *)

\* Forcing what is open changes no memory.
LEMMA AssembleFits == ASSUME EInv, SInv, Assemble PROVE SInv'
<1>1. /\ phase = "score" /\ phase' = "answer" /\ todo = <<>>
      /\ trees' = [f \in DOMAIN trees |-> ForceResolve(trees[f])]
      /\ UNCHANGED <<mem, request, todo>>
  BY DEF Assemble
<1>2. DOMAIN trees' = Fields(request'.key)
  BY <1>1 DEF SInv, Scoring
<1>3. HoldsRequest(request)' <=> HoldsRequest(request)
  BY <1>1 DEF HoldsRequest, Fits, Completed, PrefixLen
<1>4. MemInv'
  BY <1>1, <1>3 DEF SInv, MemInv
<1> QED  BY <1>1, <1>2, <1>4 DEF SInv

\* Sequence 0 may grow as far as the texts go.
LEMMA HoldsGrown ==
  ASSUME NEW r \in Request, HoldsRequest(r), \A s \in Sequence : mem[s] \in Seq(Token),
         mem = [s \in Sequence |-> mem[s]],
         NEW x \in Seq(Token), Len(mem[0]) <= Len(x), Len(x) <= Completed(r),
         mem' = [mem EXCEPT ![0] = x]
  PROVE  HoldsRequest(r)' /\ \A s \in Sequence : mem'[s] \in Seq(Token)
<1>1. 0 \in Sequence /\ r.key \in Key
  BY TextFits DEF Sequence
<1>2. mem'[0] = x /\ \A s \in Sequence \ {0} : mem'[s] = mem[s]
  BY <1>1, Zenon
<1>3. Fits(r)' /\ Completed(r)' = Completed(r)
  BY DEF HoldsRequest, Fits, Completed, PrefixLen
<1>4. ASSUME NEW s \in Sequence \ {0}, mem'[s] # <<>>
      PROVE  s \in Fields(r.key) /\ Len(mem'[s]) - Len(mem'[0]) <= FieldNeed(Schema[r.key].fields[s])
  <2> DEFINE l == Len(mem[s])
             m == Len(mem[0])
             n == Len(x)
             need == FieldNeed(Schema[r.key].fields[s])
  <2>1. s \in Fields(r.key) /\ l - m <= need /\ m <= n
    BY <1>2, <1>4 DEF HoldsRequest
  <2>2. l \in Nat /\ m \in Nat /\ n \in Nat /\ need \in Nat
    BY <1>1, <2>1, FieldFacts, LenProperties
  <2> HIDE DEF l, m, n, need
  <2>3. l - n <= need
    BY <2>1, <2>2
  <2> QED  BY <1>2, <1>4, <2>1, <2>3 DEF l, n, need
<1> QED  BY <1>1, <1>2, <1>3, <1>4 DEF HoldsRequest

\* What a failing call of the texts leaves in sequence 0.
LEMMA WrittenFacts ==
  ASSUME EInv, SInv, phase \in {"prefill", "dynamic", "save", "score", "broadcast"},
         NEW n \in 0 .. Len(Written)
  PROVE  LET x == mem[0] \o SubSeq(Written, 1, n)
         IN  x \in Seq(Token) /\ Len(mem[0]) <= Len(x) /\ Len(x) <= Completed(request)
<1> DEFINE x == mem[0] \o SubSeq(Written, 1, n)
           l == Completed(request)
           h == mem[0]
<1>1. request \in Request /\ 0 \in Sequence /\ h \in Seq(Token) /\ Len(h) <= l /\ offset \in Nat
  BY DEF EInv, SInv, MemInv, HoldsRequest, Sequence
<1>2. l \in Nat /\ Len(h) \in Nat
  BY <1>1, TextFits, LenProperties
<1>3. /\ Len(ThePrefix) \in Nat /\ ThePrefix \in Seq(Token) /\ TheContext \in Seq(Token)
      /\ Len(TheContext) \in Nat /\ Len(ThePrefix) + Len(TheContext) = l
      /\ \A i \in 0 .. Len(ThePrefix) : Len(SubSeq(ThePrefix, 1, i)) = i
      /\ \A i \in 0 .. Len(TheContext) : Len(ThePrefix \o SubSeq(TheContext, 1, i)) = Len(ThePrefix) + i
  <2>1. request.context \in Context /\ request.key \in Key
    BY <1>1 DEF Request
  <2>2. DynamicLength[request.context] \in Nat /\ Schema[request.key].prefix \in Nat
    BY <2>1, TextAssumption
  <2>3. l = PrefixLen(request) + DynamicLength[request.context]
    BY DEF Completed
  <2>4. PrefixLen(request) = Schema[request.key].prefix
    BY DEF PrefixLen
  <2> QED  BY <1>1, <2>2, <2>3, <2>4, TextFits DEF ThePrefix, TheContext
<1>4. Written \in Seq(Token) /\ Len(h) + Len(Written) <= l
  <2>1. CASE phase = "prefill"
    <3>1. offset < Len(ThePrefix) /\ h = SubSeq(ThePrefix, 1, offset) /\ Written = Chunk(ThePrefix)
      BY <2>1 DEF EInv, Written0, Written, ThePrefix
    <3>2. Chunk(ThePrefix) \in Seq(Token) /\ offset + Len(Chunk(ThePrefix)) <= Len(ThePrefix)
          /\ Len(Chunk(ThePrefix)) \in Nat
      BY <1>1, <1>3, <3>1, ChunkFacts, LenProperties
    <3>3. Len(h) = offset
      <4>1. offset \in 0 .. Len(ThePrefix)
        BY <1>1, <1>3, <3>1
      <4> QED  BY <1>3, <3>1, <4>1
    <3> HIDE DEF h, l
    <3> QED  BY <1>1, <1>2, <1>3, <3>1, <3>2, <3>3
  <2>2. CASE phase = "dynamic"
    <3>1. offset < Len(TheContext) /\ h = ThePrefix \o SubSeq(TheContext, 1, offset)
          /\ Written = Chunk(TheContext)
      BY <2>2 DEF EInv, Written0, Written, TheContext
    <3>2. Chunk(TheContext) \in Seq(Token) /\ offset + Len(Chunk(TheContext)) <= Len(TheContext)
          /\ Len(Chunk(TheContext)) \in Nat
      BY <1>1, <1>3, <3>1, ChunkFacts, LenProperties
    <3>3. Len(h) = Len(ThePrefix) + offset
      <4>1. offset \in 0 .. Len(TheContext)
        BY <1>1, <1>3, <3>1
      <4> QED  BY <1>3, <3>1, <4>1
    <3> HIDE DEF h, l
    <3> QED  BY <1>1, <1>2, <1>3, <3>1, <3>2, <3>3
  <2>3. CASE phase \notin {"prefill", "dynamic"}
    <3>1. Written = <<>>
      BY <2>3 DEF Written
    <3> HIDE DEF h, l
    <3>2. <<>> \in Seq(Token) /\ Len(<<>>) = 0
      OBVIOUS
    <3> QED  BY <1>1, <1>2, <3>1, <3>2
  <2> QED  BY <2>1, <2>2, <2>3
<1>5. SubSeq(Written, 1, n) \in Seq(Token) /\ Len(SubSeq(Written, 1, n)) = n
      /\ Len(Written) \in Nat
  <2>1. n \in 0 .. Len(Written) /\ 0 \in 0 .. n /\ Len(Written) \in Nat
    BY <1>4, LenProperties
  <2> QED  BY <1>4, <2>1, FrontOfFront
<1> HIDE DEF h
<1>6. h \o SubSeq(Written, 1, n) \in Seq(Token)
      /\ Len(h \o SubSeq(Written, 1, n)) = Len(h) + n
  BY <1>1, <1>5, ConcatProperties
<1>7. Len(h) <= Len(h) + n /\ Len(h) + n <= l
  <2> HIDE DEF l
  <2> QED  BY <1>2, <1>4, <1>5
<1> QED  BY <1>6, <1>7 DEF h

\* A decode that throws leaves no more than was counted.
LEMMA FailFits == ASSUME EInv, SInv, Fail PROVE SInv'
<1>1. /\ phase \in {"prefill", "dynamic", "save", "score", "broadcast"} /\ phase' = "idle" /\ Release
      /\ \/ \E n \in 0 .. Len(Written) : mem' = [mem EXCEPT ![0] = mem[0] \o SubSeq(Written, 1, n)]
         \/ \E n \in 1 .. Len(Batch) : mem' = [s \in Sequence |-> Extended(s, SubSeq(Batch, 1, n))]
  BY Zenon DEF Fail, Release
<1>2. request \in Request /\ mem = [s \in Sequence |-> mem[s]] /\ HoldsRequest(request) /\ MemInv
  BY <1>1 DEF EInv, SInv, MemInv
<1>3. PICK r \in Request : r = request
  BY <1>2
<1>4. HoldsRequest(r)
  BY <1>2, <1>3
<1>5. HoldsRequest(r)' /\ \A s \in Sequence : mem'[s] \in Seq(Token)
  <2>1. CASE \E n \in 0 .. Len(Written) : mem' = [mem EXCEPT ![0] = mem[0] \o SubSeq(Written, 1, n)]
    <3>1. PICK n \in 0 .. Len(Written) : mem' = [mem EXCEPT ![0] = mem[0] \o SubSeq(Written, 1, n)]
      BY <2>1
    <3> DEFINE x == mem[0] \o SubSeq(Written, 1, n)
    <3>2. x \in Seq(Token) /\ Len(mem[0]) <= Len(x) /\ Len(x) <= Completed(request)
      BY <1>1, WrittenFacts
    <3>3. Completed(request) = Completed(r) /\ \A s \in Sequence : mem[s] \in Seq(Token)
      BY <1>2, <1>3 DEF MemInv
    <3> HIDE DEF x
    <3>4. mem' = [mem EXCEPT ![0] = x]
      BY <3>1 DEF x
    <3>5. Len(x) <= Completed(r)
      BY <3>2, <3>3
    <3> QED  BY <1>2, <1>4, <3>2, <3>3, <3>4, <3>5, HoldsGrown
  <2>2. CASE \E n \in 1 .. Len(Batch) : mem' = [s \in Sequence |-> Extended(s, SubSeq(Batch, 1, n))]
    <3>1. PICK n \in 1 .. Len(Batch) : mem' = [s \in Sequence |-> Extended(s, SubSeq(Batch, 1, n))]
      BY <2>2
    <3>2. todo \in Seq(Item)
      <4>1. <<>> \in Seq(Item)
        OBVIOUS
      <4> QED  BY <4>1 DEF SInv, Scoring
    <3>3. PICK m \in 0 .. Len(todo) : Batch = SubSeq(todo, 1, m) /\ Len(Batch) = m
      BY <3>2, BatchFacts
    <3>4. Len(todo) \in Nat
      BY <3>2, LenProperties
    <3>5. phase = "score" /\ Scoring
      <4>1. phase # "score" => Len(todo) = 0
        BY EmptySeq DEF SInv
      <4>2. Len(todo) # 0
        BY <3>1, <3>3, <3>4
      <4> QED  BY <4>1, <4>2 DEF SInv
    <3>6. n \in 0 .. m /\ n \in 0 .. Len(todo)
      BY <3>1, <3>3, <3>4
    <3>7. SubSeq(Batch, 1, n) = SubSeq(todo, 1, n)
      BY <3>2, <3>3, <3>6, FrontOfFront
    <3>8. mem' = [s \in Sequence |-> Extended(s, SubSeq(todo, 1, n))]
      BY <3>1, <3>7, Zenon
    <3> QED  BY <1>2, <1>3, <3>5, <3>6, <3>8, HoldsTaken
  <2> QED  BY <1>1, <2>1, <2>2
<1> QED  BY <1>1, <1>5, IdleHolds

\* All steps.
LEMMA ScoringInvKeeps == EInv /\ SInv /\ [Next]_vars => SInv'
<1> SUFFICES ASSUME EInv, SInv, [Next]_vars PROVE SInv'
  OBVIOUS
<1>1. EInv'
  BY EngineKeeps
<1>2. CASE UNCHANGED vars
  <2>1. UNCHANGED <<mem, phase, request, todo, trees, nextPosition, level>>
    BY <1>2 DEF vars, fieldVars
  <2> QED  BY <2>1, UntouchedKeeps
<1>3. ASSUME NEW r \in Request, Begin(r) \/ Reject(r) PROVE SInv'
  <2>1. CASE Reject(r)
    <3>1. UNCHANGED <<mem, phase, request, todo, trees, nextPosition, level>>
      BY <2>1 DEF Reject, fieldVars
    <3> QED  BY <3>1, UntouchedKeeps
  <2> QED  BY <1>3, <2>1, BeginFits
<1>4. CASE Serve
  BY <1>1, <1>4, RestoreFits, ClearFits, ChunkFits, BroadcastFits, FlushFields, QueueLevelFits,
     AssembleFits, AnswerFits, FailFits DEF Serve
<1> QED  BY <1>2, <1>3, <1>4 DEF Next

-----------------------------------------------------------------------------
(* What the invariant says of the memory.                                   *)

\* The fields of all schemas are finitely many.
LEMMA FiniteSequences == IsFiniteSet(Sequence \ {0})
<1> DEFINE all == {Fields(k) : k \in Key}
<1>1. IsFiniteSet(all)
  <2> DEFINE fieldsOf == [k \in Key |-> Fields(k)]
  <2>1. fieldsOf \in Surjection(Key, all)
    <3>1. fieldsOf \in [Key -> all] /\ \A x \in all : \E k \in Key : fieldsOf[k] = x
      OBVIOUS
    <3> QED  BY <3>1 DEF Surjection
  <2>2. IsFiniteSet(Key)
    BY TextAssumption
  <2> HIDE DEF fieldsOf, all
  <2> QED  BY <2>1, <2>2, FS_Surjection
<1>2. \A x \in all : IsFiniteSet(x)
  <2> SUFFICES ASSUME NEW k \in Key PROVE IsFiniteSet(Fields(k))
    OBVIOUS
  <2>1. Fields(k) = 1 .. Len(Schema[k].fields) /\ Len(Schema[k].fields) \in Int
    BY FieldFacts
  <2> QED  BY <2>1, FS_Interval
<1>3. IsFiniteSet(UNION all)
  BY <1>1, <1>2, FS_UNION
<1>4. Sequence \ {0} \subseteq UNION all
  BY DEF Sequence
<1> QED  BY <1>3, <1>4, FS_Subset

\* Nothing adds up to nothing.
LEMMA SumOfNone == ASSUME NEW w, DOMAIN w = {} PROVE SumFunction(w) = 0
<1>1. IsFiniteSet(DOMAIN w)
  BY FS_EmptySet
<1>2. PICK sum : Adds(sum, w) /\ SumFunction(w) = sum[DOMAIN w]
  BY <1>1, SumDef
<1>3. sum[DOMAIN w] = 0
  <2>1. {} \in SUBSET DOMAIN w
    OBVIOUS
  <2> QED  BY <1>2, <2>1 DEF Adds
<1> QED  BY <1>2, <1>3

\* What is counted fits the context.
LEMMA CellsFit == EInv /\ SInv => FitsContext
<1> SUFFICES ASSUME EInv, SInv PROVE FitsContext
  OBVIOUS
<1> DEFINE S == Sequence \ {0}
           g == [s \in S |-> IF mem[s] = <<>> THEN 0 ELSE Len(mem[s]) - Len(mem[0])]
<1>1. IsFiniteSet(S) /\ 0 \in Sequence
  BY FiniteSequences DEF Sequence
<1>2. \A s \in Sequence : mem[s] \in Seq(Token) /\ Len(mem[s]) \in Nat
  BY LenProperties DEF SInv, MemInv
<1>3. g \in [S -> Int] /\ Len(mem[0]) \in Nat
  <2>1. \A s \in S : (IF mem[s] = <<>> THEN 0 ELSE Len(mem[s]) - Len(mem[0])) \in Int
    BY <1>1, <1>2
  <2> QED  BY <1>1, <1>2, <2>1
<1>4. \A s \in S : g[s] = IF mem[s] = <<>> THEN 0 ELSE Len(mem[s]) - Len(mem[0])
  OBVIOUS
<1>5. Cells = Len(mem[0]) + SumFunction(g)
  BY DEF Cells
<1> HIDE DEF g
<1>6. ASSUME NEW r \in Request, HoldsRequest(r) PROVE FitsContext
  <2> DEFINE F == Fields(r.key)
             h == [f \in F |-> FieldNeed(Schema[r.key].fields[f])]
  <2>1. r.key \in Key /\ F \in SUBSET S /\ Completed(r) \in Nat
    <3>1. r.key \in Key /\ Completed(r) \in Nat
      BY TextFits
    <3> QED  BY <3>1, FieldFacts
  <2>2. h \in [F -> Int]
    BY <2>1, FieldFacts
  <2>3. \A x \in F : g[x] <= h[x]
    <3> TAKE x \in F
    <3> DEFINE need == FieldNeed(Schema[r.key].fields[x])
    <3>1. x \in S /\ need \in Nat /\ h[x] = need
      BY <2>1, FieldFacts
    <3>2. mem[x] # <<>> => Len(mem[x]) - Len(mem[0]) <= need
      BY <1>6, <3>1 DEF HoldsRequest
    <3> DEFINE l == Len(mem[x])
               m == Len(mem[0])
    <3>3. l \in Nat /\ m \in Nat /\ (mem[x] # <<>> => l - m <= need)
      BY <1>1, <1>2, <3>1, <3>2
    <3>4. (mem[x] = <<>> => g[x] = 0) /\ (mem[x] # <<>> => g[x] = l - m)
      BY <1>4, <3>1
    <3> HIDE DEF need, h, l, m
    <3> QED  BY <3>1, <3>3, <3>4
  <2>4. \A x \in S \ F : g[x] <= 0
    <3> TAKE x \in S \ F
    <3>1. mem[x] = <<>>
      BY <1>6 DEF HoldsRequest
    <3>2. g[x] = 0
      BY <1>4, <3>1
    <3> QED  BY <3>2
  <2>5. Completed(r) + SumFunction(h) <= ContextSize /\ Len(mem[0]) <= Completed(r)
    BY <1>6 DEF HoldsRequest, Fits
  <2> HIDE DEF h
  <2>6. SumFunction(g) \in Int /\ SumFunction(h) \in Int /\ SumFunction(g) <= SumFunction(h)
    BY <1>1, <1>3, <2>1, <2>2, <2>3, <2>4, SumAtMost
  <2>7. ContextSize \in Nat
    BY EngineAssumption
  <2> QED  BY <1>3, <1>5, <2>1, <2>5, <2>6, <2>7 DEF FitsContext
<1>7. ASSUME \A s \in Sequence : mem[s] = <<>> PROVE FitsContext
  <2> DEFINE h == [f \in {} |-> 0]
  <2>1. h \in [{} -> Int] /\ {} \in SUBSET S /\ DOMAIN h = {}
    OBVIOUS
  <2>2. \A x \in S \ {} : g[x] <= 0
    <3> TAKE x \in S \ {}
    <3>1. g[x] = 0
      BY <1>4, <1>7
    <3> QED  BY <3>1
  <2> HIDE DEF h
  <2>3. SumFunction(g) \in Int /\ SumFunction(h) \in Int /\ SumFunction(g) <= SumFunction(h)
    BY <1>1, <1>3, <2>1, <2>2, SumAtMost
  <2>4. SumFunction(h) = 0
    BY <2>1, SumOfNone
  <2>5. Len(mem[0]) = 0 /\ ContextSize \in Nat
    BY <1>1, <1>7, EmptySeq, EngineAssumption
  <2> QED  BY <1>5, <2>3, <2>4, <2>5 DEF FitsContext
<1>8. (\A s \in Sequence : mem[s] = <<>>) \/ \E r \in Request : HoldsRequest(r)
  BY DEF EInv, SInv, MemInv
<1> QED  BY <1>6, <1>7, <1>8

\* A queued token follows what its sequence holds and its queue before it.
LEMMA PositionsFollow == EInv /\ SInv => PositionsContinue
<1> SUFFICES ASSUME EInv, SInv PROVE PositionsContinue
  OBVIOUS
<1>1. phase = "prefill" => Len(mem[0]) = offset
  <2> SUFFICES ASSUME phase = "prefill" PROVE Len(mem[0]) = offset
    OBVIOUS
  <2>1. request \in Request /\ offset < Len(ThePrefix) /\ mem[0] = SubSeq(ThePrefix, 1, offset) /\ offset \in Nat
    BY DEF EInv, Written0
  <2>2. Len(ThePrefix) \in Nat /\ \A n \in 0 .. Len(ThePrefix) : Len(SubSeq(ThePrefix, 1, n)) = n
    BY <2>1, TextFits DEF ThePrefix
  <2>3. offset \in 0 .. Len(ThePrefix)
    BY <2>1, <2>2
  <2> QED  BY <2>1, <2>2, <2>3
<1>2. phase = "dynamic" => Len(mem[0]) = PrefixLen(request) + offset
  <2> SUFFICES ASSUME phase = "dynamic" PROVE Len(mem[0]) = PrefixLen(request) + offset
    OBVIOUS
  <2>1. request \in Request /\ offset < Len(TheContext) /\ offset \in Nat
        /\ mem[0] = ThePrefix \o SubSeq(TheContext, 1, offset)
    BY DEF EInv, Written0
  <2>2. TheContext \in Seq(Token)
        /\ \A n \in 0 .. Len(TheContext) :
             Len(ThePrefix \o SubSeq(TheContext, 1, n)) = PrefixLen(request) + n
    BY <2>1, TextFits DEF ThePrefix, TheContext
  <2>3. offset \in 0 .. Len(TheContext)
    BY <2>1, <2>2, LenProperties
  <2> QED  BY <2>1, <2>2, <2>3
<1>3. ASSUME NEW i \in DOMAIN todo
      PROVE  todo[i].position = Len(mem[todo[i].field])
               + Cardinality({j \in 1 .. i - 1 : todo[j].field = todo[i].field})
  <2> DEFINE f == todo[i].field
             path == PathFrom(Base(f), trees[f])
  <2>1. phase = "score" /\ Scoring /\ MemInv /\ request \in Request
    <3>1. todo # <<>>
      BY <1>3
    <3> QED  BY <3>1 DEF EInv, SInv
  <2>2. todo \in Seq(Item) /\ f \in Fields(request.key) /\ i \in 1 .. Len(todo)
    BY <2>1, LenProperties DEF Scoring
  <2>3. FieldHolds(f, todo, mem[f], trees[f], TheFields[f].candidates, Base(f), nextPosition[f],
                   level, Most(request, f))
    BY <2>1, <2>2 DEF Scoring
  <2>4. Tree(trees[f], TheFields[f].candidates) /\ Queues(todo, f, Len(mem[f]), path)
    BY <2>3, Zenon DEF FieldHolds
  <2>5. Len(path) \in Nat /\ Len(mem[f]) \in Nat
    <3>1. f \in Sequence /\ Base(f) \in Seq(Token)
      BY <2>1, <2>2, SharedFacts
    <3>2. trees[f].consumed \in Seq(Nat)
      BY <2>4 DEF Tree
    <3>3. path \in Seq(Token) /\ mem[f] \in Seq(Token)
      BY <2>1, <3>1, <3>2, PathFromFacts DEF MemInv
    <3> QED  BY <3>3, LenProperties
  <2> HIDE DEF path
  <2>6. todo[i].position = Len(mem[f]) + Cardinality(Own(todo, i - 1, f))
    BY <2>2, <2>4, <2>5, Rank
  <2> QED  BY <2>6, Zenon DEF Own
<1> QED  BY <1>1, <1>2, <1>3 DEF PositionsContinue

-----------------------------------------------------------------------------
(* What a step does to the logits, and which step of the promise it is.     *)

\* A step that changes a field's logits read them at the end of the field's path.
LEMMA ScoredStep ==
  ASSUME EInv, SInv, [Next]_vars
  PROVE  \A f \in DOMAIN trees' : phase = "score" /\ scoredOn'[f] # scoredOn[f] =>
           scoredOn'[f] = PrefixTokens(request.key) \o DynamicTokens(request.context)
                            \o SuffixTokens(request.key, f) \o PathTokens(trees[f].consumed)
<1> SUFFICES ASSUME NEW f \in DOMAIN trees', phase = "score", scoredOn'[f] # scoredOn[f]
             PROVE  scoredOn'[f] = PrefixTokens(request.key) \o DynamicTokens(request.context)
                            \o SuffixTokens(request.key, f) \o PathTokens(trees[f].consumed)
  OBVIOUS
<1>1. CASE Flush
  <2>1. DOMAIN trees' = DOMAIN trees
    <3>1. todo \in Seq(Item)
      BY DEF SInv, Scoring
    <3> QED  BY <1>1, <3>1, FlushFacts
  <2>2. Whole(scoredOn'[f], ScoredOn(f))
    BY <1>1, <2>1, FlushFields
  <2> QED  BY <2>2, Zenon DEF Whole, ScoredOn, PathFrom, Base, Shared, ThePrefix, TheContext
<1>2. CASE Fail \/ Answer
  <2>1. trees' = <<>>
    BY <1>2 DEF Fail, Answer, Release
  <2> QED  BY <2>1
<1>3. CASE ~(Flush \/ Fail \/ Answer)
  <2>1. scoredOn' = scoredOn
    BY <1>3 DEF Next, Serve, Begin, Reject, RestoreHit, RestoreFallback, RestoreMiss, ColdStart,
                Prefill, Save, Dynamic, Broadcast, QueueLevel, Assemble, fieldVars, vars
  <2> QED  BY <2>1
<1> QED  BY <1>1, <1>2, <1>3

\* The instance's candidate operators are the engine's.
LEMMA SameCandidates ==
  ASSUME NEW s
  PROVE  /\ Decode!Start(s) = Start(s)
         /\ Decode!Resolved(s) <=> Resolved(s)
         /\ Decode!Advanced(s) = Advanced(s)
         /\ Decode!ForceResolve(s) = ForceResolve(s)
<1>1. \A x, i : Decode!Finish(x, i) = Finish(x, i)
  BY DEF Finish, Decode!Finish
<1>2. \A x : Decode!Resolved(x) <=> Resolved(x)
  BY DEF Resolved, Decode!Resolved
<1> DEFINE same == \A S : Decode!Cardinality(S) = Cardinality(S) /\ Decode!Min(S) = Min(S)
<1>0. same
  BY Zenon DEF Cardinality, Decode!Cardinality, Min, Decode!Min
<1>3. Decode!Start(s) = Start(s)
  BY <1>1, Zenon DEF Start, Decode!Start
<1>4. Decode!ForceResolve(s) = ForceResolve(s)
  BY <1>0, <1>1, <1>2, Zenon DEF ForceResolve, Decode!ForceResolve
<1>5. \A x : Decode!Won(x) = Won(x)
  <2> TAKE x
  <2>1. Decode!Cardinality(x.live) = Cardinality(x.live)
    BY <1>0
  <2>2. CASE Cardinality(x.live) = 1
    <3> DEFINE i == CHOOSE y \in x.live : TRUE
    <3>1. Won(x) = Finish(x, i)
      BY <2>2, Zenon DEF Won
    <3>2. Decode!Won(x) = Decode!Finish(x, i)
      BY <2>1, <2>2, Zenon DEF Decode!Won
    <3> HIDE DEF i
    <3> QED  BY <1>1, <3>1, <3>2, Zenon
  <2>3. CASE Cardinality(x.live) # 1
    BY <2>1, <2>3, Zenon DEF Won, Decode!Won
  <2> QED  BY <2>2, <2>3
<1>6. \A x, i : Decode!NextToken(x, i) = NextToken(x, i)
  BY Zenon DEF NextToken, Decode!NextToken
<1>7. Decode!Exhausted(s) = Exhausted(s) /\ Decode!Tokens(s) = Tokens(s)
      /\ \A t : Decode!Group(s, t) = Group(s, t)
  BY <1>6, Zenon DEF Exhausted, Decode!Exhausted, Tokens, Decode!Tokens, Group, Decode!Group
<1>8. Decode!TakeExhausted(s) = TakeExhausted(s) /\ \A t : Decode!Descend(s, t) = Descend(s, t)
  BY <1>0, <1>1, <1>5, <1>7, Zenon DEF TakeExhausted, Decode!TakeExhausted, Descend, Decode!Descend
<1>9. Decode!Advanced(s) = Advanced(s)
  BY <1>7, <1>8, Zenon DEF Advanced, Decode!Advanced
<1> QED  BY <1>2, <1>3, <1>4, <1>9

\* The engine starts as the promise does.
LEMMA DecodeStarts == Init => Decode!Init
  BY DEF Init, Decode!Init

\* Every step is one of the promise's, or does not show.
LEMMA DecodeStep ==
  ASSUME EInv, SInv, [Next]_vars
  PROVE  [Decode!Next]_(Decode!decodeVars)
<1> DEFINE answered == phase = "answer"
<1>1. ASSUME UNCHANGED <<request, trees>>, answered' = answered
      PROVE  UNCHANGED Decode!decodeVars
  BY <1>1 DEF Decode!decodeVars
<1>2. CASE UNCHANGED vars
  <2>1. UNCHANGED <<request, trees, phase>>
    BY <1>2 DEF vars, fieldVars
  <2> QED  BY <1>1, <2>1
<1>3. ASSUME NEW r \in Request, Begin(r) \/ Reject(r)
      PROVE  [Decode!Next]_(Decode!decodeVars)
  <2>1. CASE Reject(r)
    <3>1. UNCHANGED <<request, trees, phase>>
      BY <2>1 DEF Reject, fieldVars
    <3> QED  BY <1>1, <3>1
  <2>2. CASE Begin(r)
    <3>1. request = NoRequest /\ request' = r /\ trees' = trees /\ phase = "idle" /\ phase' = "restore"
      BY <2>2 DEF SInv, Begin, fieldVars
    <3>2. Decode!Accept
      BY <3>1 DEF Decode!Accept
    <3> QED  BY <3>2 DEF Decode!Next
  <2> QED  BY <1>3, <2>1, <2>2
<1>4. CASE RestoreHit \/ RestoreFallback \/ RestoreMiss \/ ColdStart \/ Prefill \/ Save \/ Dynamic
           \/ QueueLevel
  <2>1. UNCHANGED <<request, trees>> /\ phase # "answer" /\ phase' # "answer"
    BY <1>4 DEF RestoreHit, RestoreFallback, RestoreMiss, ColdStart, Prefill, Save, Dynamic,
                QueueLevel, fieldVars
  <2> QED  BY <1>1, <2>1
<1>5. CASE Broadcast
  <2> DEFINE fields == Fields(request.key)
             choices == [f \in fields |-> Schema[request.key].fields[f].candidates]
  <2>1. /\ phase = "broadcast" /\ phase' = "score" /\ request' = request
        /\ trees' = [f \in fields |-> Start(Schema[request.key].fields[f].candidates)]
    BY <1>5 DEF Broadcast
  <2>2. request \in Request /\ request # NoRequest /\ trees = <<>>
    BY <2>1, TextFits DEF EInv, SInv
  <2>3. [r \in Request |-> [f \in Fields(r.key) |-> Schema[r.key].fields[f].candidates]][request]
          = choices
    BY <2>2
  <2>4. trees' = [f \in DOMAIN choices |-> Decode!Start(choices[f])]
    <3>1. \A f \in fields : Decode!Start(choices[f]) = Start(Schema[request.key].fields[f].candidates)
      BY SameCandidates
    <3> QED  BY <2>1, <3>1
  <2>5. Decode!Open
    BY <2>1, <2>2, <2>3, <2>4 DEF Decode!Open
  <2> QED  BY <2>5 DEF Decode!Next
<1>6. phase \in {"score", "answer"} => request \in Request /\ DOMAIN trees = Fields(request.key)
                                       /\ trees # <<>> /\ request # NoRequest
  <2> SUFFICES ASSUME phase \in {"score", "answer"}
               PROVE  request \in Request /\ DOMAIN trees = Fields(request.key)
                      /\ trees # <<>> /\ request # NoRequest
    OBVIOUS
  <2>1. request \in Request /\ DOMAIN trees = Fields(request.key)
    BY DEF EInv, SInv, Scoring
  <2>2. request.key \in Key /\ request # NoRequest
    BY <2>1, TextFits
  <2> DEFINE n == Len(Schema[request.key].fields)
  <2>3. n \in Nat \ {0} /\ Fields(request.key) = 1 .. n
    BY <2>2, FieldFacts
  <2> HIDE DEF n
  <2>4. 1 \in DOMAIN trees
    BY <2>1, <2>3
  <2>5. 1 \notin DOMAIN <<>>
    OBVIOUS
  <2> QED  BY <2>1, <2>2, <2>4, <2>5
<1>7. CASE Flush
  <2>1. phase = "score" /\ phase' = "score" /\ request' = request
    BY <1>7, Zenon DEF Flush
  <2>2. todo \in Seq(Item)
    BY <2>1 DEF SInv, Scoring
  <2>3. /\ DOMAIN trees' = DOMAIN trees
        /\ \A f \in DOMAIN trees :
             trees'[f] = trees[f] \/ (~Resolved(trees[f]) /\ trees'[f] \in Advanced(trees[f]))
    BY <1>7, <2>2, FlushFacts DEF Read, Passed
  <2>4. \A f \in DOMAIN trees :
          trees'[f] = trees[f]
          \/ (~Decode!Resolved(trees[f]) /\ trees'[f] \in Decode!Advanced(trees[f]))
    BY <2>3, SameCandidates
  <2>5. Decode!Score
    BY <1>6, <2>1, <2>3, <2>4 DEF Decode!Score
  <2> QED  BY <2>5 DEF Decode!Next
<1>8. CASE Assemble
  <2>1. /\ phase = "score" /\ phase' = "answer" /\ request' = request /\ todo = <<>>
        /\ ~LevelsLeft \/ Unresolved = {}
        /\ trees' = [f \in DOMAIN trees |-> ForceResolve(trees[f])]
    BY <1>8 DEF Assemble
  <2>2. Scoring
    BY <2>1 DEF SInv
  <2>3. ASSUME NEW f \in DOMAIN trees, ~Resolved(trees[f])
        PROVE  trees[f].levels = MaxTreeLevels + 1
    <3>1. FieldHolds(f, <<>>, mem[f], trees[f], TheFields[f].candidates, Base(f), nextPosition[f],
                     level, Most(request, f))
      BY <2>1, <2>2, Zenon DEF Scoring
    <3>2. ~Queued(<<>>, f)
      BY DEF Queued
    <3>3. trees[f].levels = level + 1
      BY <2>3, <3>1, <3>2, Zenon DEF FieldHolds
    <3>4. ~LevelsLeft
      BY <2>1, <2>3 DEF Unresolved
    <3>5. level = MaxTreeLevels
      BY <2>2, <3>4, EngineAssumption DEF Scoring, LevelsLeft
    <3> QED  BY <3>3, <3>5
  <2>4. \A f \in DOMAIN trees : Decode!Resolved(trees[f]) \/ trees[f].levels = MaxTreeLevels + 1
    BY <2>3, SameCandidates
  <2>5. trees' = [f \in DOMAIN trees |-> Decode!ForceResolve(trees[f])]
    BY <2>1, SameCandidates
  <2>6. Decode!Settle
    BY <1>6, <2>1, <2>4, <2>5 DEF Decode!Settle
  <2> QED  BY <2>6 DEF Decode!Next
<1>9. CASE Answer \/ Fail
  <2>1. phase # "idle" /\ phase' = "idle" /\ request' = NoRequest /\ trees' = <<>>
    BY <1>9 DEF Answer, Fail, Release
  <2>2. request # NoRequest
    BY <2>1, TextFits DEF EInv
  <2>3. Decode!End
    BY <2>1, <2>2 DEF Decode!End
  <2> QED  BY <2>3 DEF Decode!Next
<1> QED  BY <1>2, <1>3, <1>4, <1>5, <1>7, <1>8, <1>9 DEF Next, Serve

-----------------------------------------------------------------------------
(* The theorems on scoring.                                                 *)

\* The second inductive invariant holds of every behaviour.
THEOREM ScoringInvariance == Spec => []SInv
  BY ScoringStarts, ScoringInvKeeps, EngineInvariance, PTL DEF Spec

\* Every token is decoded at the position behind its sequence's last one, for all
\* schemas, batch sizes and splits of the fields over batches: completed,
\* next_position and the order of the queue stay in step with the memory.
THEOREM PositionsAlwaysContinue == Spec => []PositionsContinue
  BY PositionsFollow, EngineInvariance, ScoringInvariance, PTL

\* What ensure_fits admits never exceeds the context, in no phase and not after a
\* decode that threw: the need it counts per field, the suffix and as many levels
\* as the deepest choice or max_tree_levels allow, covers what the field takes.
THEOREM ContextIsNeverExceeded == Spec => []FitsContext
  BY CellsFit, EngineInvariance, ScoringInvariance, PTL

\* The logits a field is advanced with are those at the end of prefix, context,
\* its own suffix and its own path, wherever its tokens end in a batch and
\* whatever other fields' tokens lie between them.
THEOREM FieldsReadTheirOwnLogits == Spec => ScoredOnOwnPath
<1>1. EInv /\ SInv /\ [Next]_vars =>
        [\A f \in DOMAIN trees' : phase = "score" /\ scoredOn'[f] # scoredOn[f] =>
           scoredOn'[f] = PrefixTokens(request.key) \o DynamicTokens(request.context)
                            \o SuffixTokens(request.key, f) \o PathTokens(trees[f].consumed)]_vars
  BY ScoredStep
<1> QED  BY <1>1, EngineInvariance, ScoringInvariance, PTL DEF Spec, ScoredOnOwnPath

\* The engine, with its cache, batches, tree passes and failures, decodes as if
\* every field were decoded alone: each step is a step of ConstrainedDecode or
\* changes nothing it shows, and only a field that used up its levels is forced.
THEOREM EngineImplementsDecode == Spec => ImplementsConstrainedDecode
<1>1. EInv /\ SInv /\ [Next]_vars => [Decode!Next]_(Decode!decodeVars)
  BY DecodeStep
<1> QED  BY <1>1, DecodeStarts, EngineInvariance, ScoringInvariance, PTL
         DEF Spec, ImplementsConstrainedDecode, Decode!Spec

-----------------------------------------------------------------------------
(* The checks decode makes of itself never fail.                            *)

\* An entry the lookup returned is not of a disabled key, the position after the
\* dynamic context is the one the native side reports, and a token whose logits
\* are on their way belongs to a field that is still open: neither the
\* NativeError of decode nor the logic_error of advance is ever thrown.
OwnChecksHold ==
  /\ phase = "restore" /\ returned # NoEntry => ~Cache!Disabled(request.key)
  /\ phase = "broadcast" => Len(mem[0]) = Completed(request)
  /\ phase = "score" => \A i \in DOMAIN todo : ~Resolved(trees[todo[i].field])

\* What a lookup finds is not disabled.
Usable == phase = "restore" /\ returned # NoEntry => ~Cache!Disabled(request.key)

\* Only open fields have tokens in the queue.
QueuedOpen == phase = "score" => \A i \in DOMAIN todo : ~Resolved(trees[todo[i].field])

LEMMA UsableKeeps == EInv /\ Usable /\ [Next]_vars => Usable'
<1> SUFFICES ASSUME EInv, Usable, [Next]_vars PROVE Usable'
  OBVIOUS
<1>1. ASSUME NEW r \in Request, Begin(r) PROVE Usable'
  <2>1. /\ Cache!Get(r.key) /\ request' = r /\ r.key \in Key
        /\ restoreFailures' = restoreFailures
    BY <1>1 DEF Begin, Cache!Get, Request
  <2>2. returned' # NoEntry => r.key \in CP!Cached
    BY <2>1, SameCounts DEF Cache!Get
  <2>3. r.key \in CP!Cached => ~Cache!Disabled(r.key)
    BY <2>1 DEF EInv, CacheSound, CP!IInv, CP!DisabledNotCached, CP!Disabled, Cache!Disabled,
                CP!FailuresBeforeDisable, Cache!FailuresBeforeDisable
  <2> QED  BY <2>1, <2>2, <2>3 DEF Usable, Cache!Disabled
<1>2. CASE ~ \E r \in Request : Begin(r)
  <2>1. phase' # "restore" \/ UNCHANGED <<phase, returned, request, restoreFailures>>
    BY <1>2 DEF Next, Serve, Reject, RestoreHit, RestoreFallback, RestoreMiss, ColdStart, Prefill, Save,
                Dynamic, Broadcast, Flush, QueueLevel, Assemble, Answer, Fail, Release, cacheVars, vars
  <2> QED  BY <2>1 DEF Usable, Cache!Disabled
<1> QED  BY <1>1, <1>2

\* A batch leaves no token behind of a field it read the logits of.
LEMMA FlushLeavesOpen ==
  ASSUME EInv, SInv, QueuedOpen, Flush
  PROVE  QueuedOpen'
<1>1. phase = "score" /\ request \in Request /\ Scoring /\ MemInv /\ todo \in Seq(Item)
  BY DEF Flush, EInv, SInv, Scoring
<1>2. PICK m \in 0 .. Len(todo) :
        /\ todo' = SubSeq(todo, m + 1, Len(todo))
        /\ \A f \in DOMAIN trees : (\E i \in Nat : Read(f, m, i)) \/ Passed(f, m)
  BY <1>1, FlushFacts
<1>3. /\ DOMAIN todo' = 1 .. Len(todo) - m
      /\ \A j \in 1 .. Len(todo) - m : todo'[j] = todo[m + j] /\ m + j \in DOMAIN todo
  BY <1>1, <1>2, RestFacts
<1>4. SUFFICES ASSUME NEW j \in DOMAIN todo' PROVE ~Resolved(trees'[todo'[j].field])
  BY DEF QueuedOpen
<1> DEFINE f == todo'[j].field
<1>5. f = todo[m + j].field /\ m + j \in DOMAIN todo
  BY <1>3, <1>4
<1>6. f \in Fields(request.key) /\ f \in DOMAIN trees /\ ~Resolved(trees[f])
  BY <1>1, <1>5 DEF Scoring, QueuedOpen
<1>7. Queued(SubSeq(todo, m + 1, Len(todo)), f)
  BY <1>2, <1>4 DEF Queued
<1> HIDE DEF f
<1>8. ASSUME NEW i \in Nat, Read(f, m, i) PROVE FALSE
  <2> DEFINE path == PathFrom(Base(f), trees[f])
  <2>1. i \in 1 .. m /\ todo[i].field = f /\ todo[i].logits
    BY <1>8 DEF Read
  <2>2. /\ FieldHolds(f, todo, mem[f], trees[f], TheFields[f].candidates, Base(f), nextPosition[f],
                      level, Most(request, f))
        /\ Base(f) \in Seq(Token) /\ mem[f] \in Seq(Token)
    BY <1>1, <1>6, SharedFacts DEF Scoring, MemInv
  <2>3. Queued(todo, f)
    BY <1>2, <2>1, LenProperties DEF Queued
  <2>4. Tree(trees[f], TheFields[f].candidates) /\ Queues(todo, f, Len(mem[f]), path)
        /\ Leads(mem[f], path)
    BY <2>2, <2>3, Zenon DEF FieldHolds
  <2>5. path \in Seq(Token)
    BY <2>2, <2>4, PathFromFacts DEF Tree
  <2> HIDE DEF path
  <2>6. ~Queued(SubSeq(todo, m + 1, Len(todo)), f)
    BY <1>1, <2>1, <2>2, <2>4, <2>5, LastTaken
  <2> QED  BY <1>7, <2>6
<1>9. Passed(f, m)
  BY <1>2, <1>6, <1>8
<1> QED  BY <1>6, <1>9 DEF Passed, f

\* Every field starts open.
LEMMA StartsOpen ==
  ASSUME NEW k \in Key, NEW f \in Fields(k)
  PROVE  ~Resolved(Start(Schema[k].fields[f].candidates))
<1> DEFINE c == Schema[k].fields[f].candidates
           s == [candidates |-> c, live |-> DOMAIN c, consumed |-> <<>>, levels |-> 0, winner |-> 0]
<1>1. Len(c) # 1
  <2>1. Len(c) >= 2
    BY ChoicesAssumption DEF Fields
  <2>2. c \in Seq(Seq(Nat))
    BY FieldFacts
  <2> DEFINE n == Len(c)
  <2>3. n \in Nat /\ n >= 2
    <3> HIDE DEF c
    <3> QED  BY <2>1, <2>2, LenProperties
  <2> HIDE DEF n
  <2>4. n # 1
    BY <2>3
  <2> QED  BY <2>4 DEF n
<1>2. Start(c) = s /\ s.winner = 0
  BY <1>1 DEF Start
<1> QED  BY <1>2 DEF Resolved

\* A tree pass queues open fields only.
LEMMA LevelsOpen == ASSUME EInv, SInv, QueueLevel PROVE QueuedOpen'
<1>1. phase = "score" /\ trees' = trees /\ request \in Request
  BY DEF QueueLevel, EInv
<1>2. todo' \in Seq(Item) /\ Gathers(todo', LevelQueue)
      /\ 1 .. Len(LevelQueue) = Fields(request.key)
  BY <1>1, LevelBlocks, SharedFacts, FieldFacts
<1>3. SUFFICES ASSUME NEW i \in DOMAIN todo' PROVE ~Resolved(trees[todo'[i].field])
  BY <1>1 DEF QueuedOpen
<1> DEFINE f == todo'[i].field
<1>4. f \in Fields(request.key) /\ f \in 1 .. Len(LevelQueue)
  BY <1>2, <1>3 DEF Gathers
<1>5. \E j \in 1 .. Len(LevelQueue[f]) : TRUE
  BY <1>2, <1>3, <1>4 DEF Gathers
<1> HIDE DEF f
<1>6. Len(LevelQueue[f]) # 0
  BY <1>5
<1> QED  BY <1>4, <1>6, LevelBlocks DEF f

\* The queue holds tokens of open fields only.
LEMMA OpenKeeps == EInv /\ SInv /\ QueuedOpen /\ [Next]_vars => QueuedOpen'
<1> SUFFICES ASSUME EInv, SInv, QueuedOpen, [Next]_vars PROVE QueuedOpen'
  OBVIOUS
<1>1. CASE Broadcast
  <2>1. /\ request \in Request /\ request.key \in Key
        /\ trees' = [f \in Fields(request.key) |-> Start(Schema[request.key].fields[f].candidates)]
        /\ request' = request /\ phase' = "score"
    BY <1>1, SharedFacts DEF Broadcast, EInv
  <2>2. SInv'
    BY <1>1, BroadcastFits
  <2>3. \A i \in DOMAIN todo' : todo'[i].field \in Fields(request.key)
    BY <2>1, <2>2 DEF SInv, Scoring
  <2> QED  BY <2>1, <2>3, StartsOpen DEF QueuedOpen
<1>2. CASE ~(Broadcast \/ Flush \/ QueueLevel)
  <2>1. phase' # "score" \/ UNCHANGED <<phase, todo, trees>>
    BY <1>2 DEF Next, Serve, Begin, Reject, RestoreHit, RestoreFallback, RestoreMiss, ColdStart, Prefill,
                Save, Dynamic, Assemble, Answer, Fail, Release, fieldVars, vars
  <2> QED  BY <2>1 DEF QueuedOpen
<1> QED  BY <1>1, <1>2, FlushLeavesOpen, LevelsOpen

\* For every schema whose fields have two choices or more.
THEOREM OwnChecksNeverFail == Spec => []OwnChecksHold
<1>1. Init => Usable /\ QueuedOpen
  BY DEF Init, Usable, QueuedOpen
<1>2. EInv /\ SInv /\ Usable /\ QueuedOpen => OwnChecksHold
  <2> SUFFICES ASSUME EInv, SInv, Usable, QueuedOpen PROVE OwnChecksHold
    OBVIOUS
  <2>1. phase = "broadcast" => Len(mem[0]) = Completed(request)
    BY SharedFacts DEF EInv, Written0, Shared
  <2> QED  BY <2>1 DEF Usable, QueuedOpen, OwnChecksHold
<1> QED  BY <1>1, <1>2, UsableKeeps, OpenKeeps, EngineInvariance, ScoringInvariance, PTL DEF Spec

-----------------------------------------------------------------------------
(* Every decode comes to an end.                                            *)

\* How many phases are still ahead, at most.
Stage ==
  CASE phase = "restore"   -> 8
    [] phase = "cold"      -> 7
    [] phase = "prefill"   -> 6
    [] phase = "save"      -> 5
    [] phase = "dynamic"   -> 4
    [] phase = "broadcast" -> 3
    [] phase = "score"     -> 2
    [] phase = "answer"    -> 1
    [] OTHER               -> 0

\* The tokens or tree passes left in this phase.
Left ==
  CASE phase = "prefill" -> Len(ThePrefix) - offset
    [] phase = "dynamic" -> Len(TheContext) - offset
    [] phase = "score"   -> MaxTreeLevels - level
    [] OTHER             -> 0

\* What is left of a decode, as <<stage, left, queue>>.
Remaining == <<Stage, Left, Len(todo)>>

Amounts == Nat \X Nat \X Nat

\* a is lexicographically before b.
Before(a, b) ==
  \/ a[1] < b[1]
  \/ a[1] = b[1] /\ a[2] < b[2]
  \/ a[1] = b[1] /\ a[2] = b[2] /\ a[3] < b[3]

\* One of several amounts is the least at place n.
LEMMA LeastAt ==
  ASSUME NEW T, T # {}, NEW n, \A x \in T : x[n] \in Nat
  PROVE  \E x \in T : \A y \in T : x[n] <= y[n]
<1> DEFINE S == {x[n] : x \in T}
<1>1. S \subseteq Nat /\ S # {}
  OBVIOUS
<1>2. PICK m \in S : \A k \in S : m <= k
  <2> HIDE DEF S
  <2> QED  BY <1>1, Least
<1> QED  BY <1>2

\* There is no infinite descent in it.
LEMMA BeforeWellFounded == IsWellFoundedOn({p \in Amounts \X Amounts : Before(p[1], p[2])}, Amounts)
<1> DEFINE R == {p \in Amounts \X Amounts : Before(p[1], p[2])}
<1>2. ASSUME NEW T \in SUBSET Amounts, T # {}
      PROVE  \E x \in T : \A y \in T : ~(<<y, x>> \in R)
  <2>0. \A x \in T : x[1] \in Nat /\ x[2] \in Nat /\ x[3] \in Nat
    BY <1>2 DEF Amounts
  <2>1. PICK i \in T : \A y \in T : i[1] <= y[1]
    BY <1>2, <2>0, LeastAt
  <2> DEFINE A == {x \in T : x[1] = i[1]}
  <2>2. PICK k \in A : \A y \in A : k[2] <= y[2]
    BY <2>0, <2>1, LeastAt
  <2> DEFINE B == {x \in A : x[2] = k[2]}
  <2>3. PICK x \in B : \A y \in B : x[3] <= y[3]
    BY <2>0, <2>2, LeastAt
  <2>4. ASSUME NEW y \in T, Before(y, x) PROVE FALSE
    <3>1. x[1] = i[1] /\ x[2] = k[2] /\ x \in T
      OBVIOUS
    <3>2. x[1] <= y[1]
      BY <2>1, <3>1
    <3>3. y[1] = x[1] => x[2] <= y[2]
      BY <2>2, <3>1
    <3>4. y[1] = x[1] /\ y[2] = x[2] => x[3] <= y[3]
      BY <2>3, <3>1
    <3> QED  BY <2>0, <2>4, <3>1, <3>2, <3>3, <3>4 DEF Before
  <2> QED  BY <2>4
<1> HIDE DEF R
<1> QED  BY <1>2, MinWF DEF R

\* What is left is counted in naturals.
LEMMA RemainingType == EInv /\ SInv => Remaining \in Amounts
<1> SUFFICES ASSUME EInv, SInv PROVE Remaining \in Amounts
  OBVIOUS
<1>1. Stage \in Nat
  BY Zenon DEF Stage
<1>2. Left \in Nat
  <2>1. CASE phase = "prefill"
    <3>1. offset \in Nat /\ Len(ThePrefix) \in Nat /\ offset < Len(ThePrefix)
      BY <2>1, TextFacts, LenProperties DEF EInv, Written0
    <3> QED  BY <2>1, <3>1 DEF Left
  <2>2. CASE phase = "dynamic"
    <3>1. offset \in Nat /\ Len(TheContext) \in Nat /\ offset < Len(TheContext)
      BY <2>2, TextFacts, LenProperties DEF EInv, Written0
    <3> QED  BY <2>2, <3>1 DEF Left
  <2>3. CASE phase = "score"
    <3>1. MaxTreeLevels \in Nat /\ level \in 0 .. MaxTreeLevels
      BY <2>3, EngineAssumption DEF SInv, Scoring
    <3> QED  BY <2>3, <3>1 DEF Left
  <2> QED  BY <2>1, <2>2, <2>3 DEF Left
<1>3. Len(todo) \in Nat
  <2>1. todo \in Seq(Item)
    <3>1. <<>> \in Seq(Item)
      OBVIOUS
    <3> QED  BY <3>1 DEF SInv, Scoring
  <2> QED  BY <2>1, LenProperties
<1> QED  BY <1>1, <1>2, <1>3 DEF Remaining, Amounts

\* A step to a later phase.
LEMMA LaterPhase == ASSUME Stage' < Stage PROVE Before(Remaining', Remaining)
  BY DEF Before, Remaining

\* A chunk leaves fewer tokens, or completes its text.
LEMMA ChunkProgress ==
  ASSUME NEW tokens \in Seq(Token), offset \in Nat, offset < Len(tokens), DecodeChunk(tokens)
  PROVE  offset' = 0 \/ Len(tokens) - offset' < Len(tokens) - offset
<1> DEFINE n == Len(Chunk(tokens))
<1>1. n \in 1 .. BatchSize /\ Len(tokens) \in Nat /\ BatchSize \in Nat
  BY ChunkFacts, LenProperties, EngineAssumption
<1>2. offset' = 0 \/ offset' = offset + n
  BY DEF DecodeChunk
<1> HIDE DEF n
<1> QED  BY <1>1, <1>2

\* Every step of a decode leaves less to do.
LEMMA ServeAdvances == EInv /\ SInv /\ Serve => Before(Remaining', Remaining)
<1> SUFFICES ASSUME EInv, SInv, Serve PROVE Before(Remaining', Remaining)
  OBVIOUS
<1>1. CASE RestoreHit \/ RestoreFallback \/ RestoreMiss \/ ColdStart \/ Save \/ Broadcast \/ Assemble
           \/ Answer \/ Fail
  <2>1. Stage' < Stage
    BY <1>1 DEF Stage, RestoreHit, RestoreFallback, RestoreMiss, ColdStart, Save, Broadcast, Assemble,
                Answer, Fail, Release
  <2> QED  BY <2>1, LaterPhase
<1>2. CASE Prefill
  <2>1. /\ phase = "prefill" /\ phase' = IF offset' = 0 THEN "save" ELSE phase
        /\ UNCHANGED <<request, todo>> /\ DecodeChunk(ThePrefix)
    BY <1>2 DEF Prefill, fieldVars, ThePrefix
  <2>2. offset' = 0 \/ Len(ThePrefix) - offset' < Len(ThePrefix) - offset
    BY <2>1, TextFacts, ChunkProgress DEF EInv, Written0
  <2>3. CASE offset' = 0
    BY <2>1, <2>3, LaterPhase DEF Stage
  <2>4. CASE offset' # 0
    <3>1. ThePrefix' = ThePrefix /\ phase' = phase
      BY <2>1, <2>4 DEF ThePrefix
    <3>2. Stage' = Stage /\ Left' < Left
      BY <2>1, <2>2, <2>4, <3>1 DEF Stage, Left
    <3> QED  BY <3>2 DEF Before, Remaining
  <2> QED  BY <2>3, <2>4
<1>3. CASE Dynamic
  <2>1. /\ phase = "dynamic" /\ phase' = IF offset' = 0 THEN "broadcast" ELSE phase
        /\ UNCHANGED <<request, todo>> /\ DecodeChunk(TheContext)
    BY <1>3 DEF Dynamic, fieldVars, TheContext
  <2>2. offset' = 0 \/ Len(TheContext) - offset' < Len(TheContext) - offset
    BY <2>1, TextFacts, ChunkProgress DEF EInv, Written0
  <2>3. CASE offset' = 0
    BY <2>1, <2>3, LaterPhase DEF Stage
  <2>4. CASE offset' # 0
    <3>1. TheContext' = TheContext /\ phase' = phase
      BY <2>1, <2>4 DEF TheContext
    <3>2. Stage' = Stage /\ Left' < Left
      BY <2>1, <2>2, <2>4, <3>1 DEF Stage, Left
    <3> QED  BY <3>2 DEF Before, Remaining
  <2> QED  BY <2>3, <2>4
<1>4. CASE QueueLevel
  <2>1. phase = "score" /\ phase' = "score" /\ level' = level + 1
    BY <1>4 DEF QueueLevel
  <2>2. level \in Nat /\ MaxTreeLevels \in Nat
    BY <2>1, EngineAssumption DEF SInv, Scoring
  <2>3. Stage' = Stage /\ Left' < Left
    BY <2>1, <2>2 DEF Stage, Left
  <2> QED  BY <2>3 DEF Before, Remaining
<1>5. CASE Flush
  <2>1. /\ phase = "score" /\ phase' = "score" /\ level' = level /\ todo # <<>>
    BY <1>5, Zenon DEF Flush
  <2>2. todo \in Seq(Item)
    BY <2>1 DEF SInv, Scoring
  <2>3. PICK m \in 0 .. Len(todo) : m # 0 /\ todo' = SubSeq(todo, m + 1, Len(todo))
    BY <1>5, <2>2, FlushFacts
  <2>4. Len(todo') < Len(todo)
    <3>1. Len(SubSeq(todo, m + 1, Len(todo))) = Len(todo) - m /\ Len(todo) \in Nat
      BY <2>2, SubSeqProperties, LenProperties
    <3> QED  BY <2>3, <3>1
  <2>5. Stage' = Stage /\ Left' = Left /\ Len(todo') < Len(todo)
    <3>1. Stage' = Stage /\ Left' = Left
      BY <2>1 DEF Stage, Left
    <3> QED  BY <2>4, <3>1
  <2> QED  BY <2>5 DEF Before, Remaining
<1> QED  BY <1>1, <1>2, <1>3, <1>4, <1>5 DEF Serve

\* A decode cannot go on for ever: what is left of it, in phases, then in tokens or
\* tree passes of the phase, then in queued tokens, is counted in naturals and every
\* step leaves less of it, whichever calls fail and however the texts are batched.
THEOREM EveryStepIsProgress ==
  Spec => [](Remaining \in Amounts) /\ [][Serve => Before(Remaining', Remaining)]_vars
<1>1. EInv /\ SInv /\ [Next]_vars => [Serve => Before(Remaining', Remaining)]_vars
  BY ServeAdvances
<1> QED  BY <1>1, RemainingType, EngineInvariance, ScoringInvariance, PTL DEF Spec

-----------------------------------------------------------------------------
(* Every llama_decode call of a request decodes a token that stays in memory: *)
(* the context bounds the calls.                                            *)

\* The calls of this request.
CallsBounded == decodes <= ContextSize

\* What the sequences of m hold beyond its sequence 0.
Spread(m) == [s \in Sequence \ {0} |-> IF m[s] = <<>> THEN 0 ELSE Len(m[s]) - Len(m[0])]

\* A call for every cell at most.
Paid ==
  /\ phase \in {"idle", "restore", "cold", "prefill", "save", "dynamic", "broadcast", "score", "answer"}
  /\ phase \in {"prefill", "save", "dynamic", "broadcast"} => decodes <= Len(mem[0])
  /\ phase = "score" => \A f \in Fields(request.key) : Len(mem[0]) <= Len(mem[f])
  /\ phase \in {"score", "answer"} => decodes <= Cells

\* Sequences of tokens, one for each number.
Memory(m) == \A s \in Sequence : m[s] \in Seq(Token)

\* Naturals add up to a natural.
LEMMA SumNotNegative ==
  ASSUME NEW S, IsFiniteSet(S), NEW w \in [S -> Int], \A x \in S : w[x] >= 0
  PROVE  SumFunction(w) \in Nat
<1> DEFINE none == [x \in {} |-> 0]
<1>1. none \in [{} -> Int] /\ {} \in SUBSET S /\ DOMAIN none = {} /\ DOMAIN w = S
  OBVIOUS
<1> HIDE DEF none
<1>2. Below(none, w, S)
  BY <1>1 DEF Below, At
<1>3. SumFunction(none) = 0
  BY <1>1, SumOfNone
<1>4. SumFunction(w) \in Int /\ SumFunction(none) <= SumFunction(w)
  BY <1>1, <1>2, SumsCompare
<1> QED  BY <1>3, <1>4

\* The cells, sequence by sequence.
LEMMA SpreadFacts ==
  ASSUME NEW m, Memory(m)
  PROVE  /\ Spread(m) \in [Sequence \ {0} -> Int]
         /\ Len(m[0]) \in Nat
         /\ \A s \in Sequence \ {0} :
              /\ At(Spread(m), s) = IF m[s] = <<>> THEN 0 ELSE Len(m[s]) - Len(m[0])
              /\ Spread(m)[s] = IF m[s] = <<>> THEN 0 ELSE Len(m[s]) - Len(m[0])
              /\ Len(m[s]) \in Nat /\ (m[s] = <<>> <=> Len(m[s]) = 0)
<1>1. \A s \in Sequence : Len(m[s]) \in Nat /\ (m[s] = <<>> <=> Len(m[s]) = 0)
  BY LenProperties, EmptySeq DEF Memory
<1>2. 0 \in Sequence
  BY DEF Sequence
<1>3. \A s \in Sequence \ {0} : (IF m[s] = <<>> THEN 0 ELSE Len(m[s]) - Len(m[0])) \in Int
  BY <1>1, <1>2
<1>4. DOMAIN Spread(m) = Sequence \ {0}
      /\ \A s \in Sequence \ {0} : Spread(m)[s] = IF m[s] = <<>> THEN 0 ELSE Len(m[s]) - Len(m[0])
  BY DEF Spread
<1>5. Spread(m) \in [Sequence \ {0} -> Int]
  BY <1>3 DEF Spread
<1> QED  BY <1>1, <1>2, <1>4, <1>5 DEF At

\* No sequence is shorter than sequence 0, or it is empty.
LEMMA SpreadNotNegative ==
  ASSUME NEW m, Memory(m), \A s \in Sequence \ {0} : m[s] = <<>> \/ Len(m[0]) <= Len(m[s])
  PROVE  SumFunction(Spread(m)) \in Nat
<1>1. ASSUME NEW s \in Sequence \ {0} PROVE Spread(m)[s] >= 0
  <2> DEFINE a == Len(m[s])
             z == Len(m[0])
             x == Spread(m)[s]
  <2>1. a \in Nat /\ z \in Nat /\ (m[s] = <<>> <=> a = 0) /\ x = IF m[s] = <<>> THEN 0 ELSE a - z
    BY SpreadFacts
  <2>2. m[s] = <<>> \/ z <= a
    OBVIOUS
  <2> HIDE DEF a, z, x
  <2>3. x >= 0
    BY <2>1, <2>2
  <2> QED  BY <2>3 DEF x
<1> QED  BY <1>1, SpreadFacts, FiniteSequences, SumNotNegative

\* f's sequence is longer in n, and none is shorter.
LEMMA SpreadGrows ==
  ASSUME NEW m, Memory(m), NEW n, Memory(n), m[0] = n[0],
         \A s \in Sequence \ {0} :
           m[s] = n[s] \/ (Len(m[0]) <= Len(m[s]) /\ Len(m[s]) <= Len(n[s])),
         NEW f \in Sequence \ {0}, Len(m[0]) <= Len(m[f]), Len(m[f]) < Len(n[f])
  PROVE  /\ SumFunction(Spread(m)) \in Int /\ SumFunction(Spread(n)) \in Int
         /\ SumFunction(Spread(m)) < SumFunction(Spread(n))
<1> DEFINE S == Sequence \ {0}
<1>0. ASSUME NEW s \in S
      PROVE  LET a == Len(m[s])
                 b == Len(n[s])
                 z == Len(m[0])
                 x == At(Spread(m), s)
                 y == At(Spread(n), s)
             IN  /\ x \in Int /\ y \in Int
                 /\ m[s] = n[s] => x = y
                 /\ z <= a /\ a <= b => x <= y
                 /\ z <= a /\ a < b => x < y
  <2> DEFINE a == Len(m[s])
             b == Len(n[s])
             z == Len(m[0])
             x == At(Spread(m), s)
             y == At(Spread(n), s)
  <2>1. /\ a \in Nat /\ z \in Nat /\ (m[s] = <<>> <=> a = 0)
        /\ x = IF m[s] = <<>> THEN 0 ELSE a - z
    BY SpreadFacts
  <2>2. /\ b \in Nat /\ (n[s] = <<>> <=> b = 0)
        /\ y = IF n[s] = <<>> THEN 0 ELSE b - z
    BY SpreadFacts
  <2> HIDE DEF a, b, z, x, y
  <2>3. x \in Int /\ y \in Int /\ (m[s] = n[s] => a = b)
    BY <2>1, <2>2 DEF a, b
  <2>4. /\ m[s] = n[s] => x = y
        /\ z <= a /\ a <= b => x <= y
        /\ z <= a /\ a < b => x < y
    BY <2>1, <2>2, <2>3
  <2> QED  BY <2>3, <2>4 DEF a, b, z, x, y
<1>1. Below(Spread(m), Spread(n), S)
  <2> SUFFICES ASSUME NEW s \in S PROVE At(Spread(m), s) <= At(Spread(n), s)
    BY DEF Below
  <2>1. CASE m[s] = n[s]
    <3>1. At(Spread(m), s) \in Int /\ At(Spread(m), s) = At(Spread(n), s)
      BY <1>0, <2>1
    <3> QED  BY <3>1
  <2>2. CASE Len(m[0]) <= Len(m[s]) /\ Len(m[s]) <= Len(n[s])
    BY <1>0, <2>2
  <2> QED  BY <2>1, <2>2
<1>2. At(Spread(m), f) < At(Spread(n), f)
  BY <1>0
<1>3. IsFiniteSet(S) /\ S \in SUBSET S /\ Spread(m) \in [S -> Int] /\ Spread(n) \in [S -> Int]
  BY SpreadFacts, FiniteSequences
<1> HIDE DEF S
<1>4. f \in S
  BY DEF S
<1> QED  BY <1>1, <1>2, <1>3, <1>4, SumsCompare

\* The memory holds tokens.
LEMMA HoldsTokens == SInv => Memory(mem)
  BY DEF SInv, MemInv, Memory

\* The cells are sequence 0 and the spread.
LEMMA CellsSpread ==
  ASSUME SInv
  PROVE  Cells = Len(mem[0]) + SumFunction(Spread(mem)) /\ Cells \in Int /\ Len(mem[0]) \in Nat
<1> DEFINE S == Sequence \ {0}
           w == Spread(mem)
<1>1. IsFiniteSet(S) /\ S \in SUBSET S /\ w \in [S -> Int] /\ Len(mem[0]) \in Nat
  BY HoldsTokens, SpreadFacts, FiniteSequences
<1>2. Cells = Len(mem[0]) + SumFunction(w)
  BY DEF Cells, Spread
<1> HIDE DEF S, w
<1>3. PICK sum : SumFunction(w) = sum[S] /\ Takes(sum, w, S)
  BY <1>1, SumTakesAnyOf
<1>4. SumFunction(w) \in Int
  BY <1>1, <1>3 DEF Takes
<1> QED  BY <1>1, <1>2, <1>4 DEF w

\* The calls are counted from 0.
LEMMA CallsCounted == EInv => decodes \in Nat
  BY DEF EInv, Counted

\* A chunk is a call that adds a token to sequence 0 at least.
LEMMA ChunkPaid ==
  ASSUME EInv, SInv, NEW tokens \in Seq(Token), offset < Len(tokens), DecodeChunk(tokens),
         decodes <= Len(mem[0])
  PROVE  decodes' <= Len(mem'[0])
<1>1. mem'[0] = mem[0] \o Chunk(tokens) /\ decodes' = decodes + 1
  BY ChunkStep DEF DecodeChunk
<1>2. Len(Chunk(tokens)) \in 1 .. BatchSize /\ Chunk(tokens) \in Seq(Token)
  BY ChunkFacts DEF EInv
<1>3. mem[0] \in Seq(Token) /\ Len(mem[0]) \in Nat /\ decodes \in Nat /\ BatchSize \in Nat
  BY HoldsTokens, CallsCounted, LenProperties, EngineAssumption DEF Memory, Sequence
<1>4. Len(mem[0] \o Chunk(tokens)) = Len(mem[0]) + Len(Chunk(tokens))
  BY <1>2, <1>3, ConcatProperties
<1> DEFINE n == Len(Chunk(tokens))
           l == Len(mem[0])
<1>5. decodes' = decodes + 1 /\ Len(mem'[0]) = l + n /\ n \in 1 .. BatchSize /\ l \in Nat /\ decodes <= l
  BY <1>1, <1>2, <1>3, <1>4
<1> HIDE DEF n, l
<1> QED  BY <1>3, <1>5

\* The broadcast shares sequence 0: nothing is paid for, nothing is lost.
LEMMA BroadcastPaid == ASSUME EInv, SInv, Paid, Broadcast PROVE Paid'
<1>1. /\ phase = "broadcast" /\ phase' = "score" /\ request' = request /\ decodes' = decodes
      /\ mem' = [s \in Sequence |-> IF s \in Fields(request.key) THEN mem[0] ELSE mem[s]]
  BY DEF Broadcast, countVars
<1>2. SInv'
  BY BroadcastFits
<1>3. Memory(mem')
  <2>1. \A s \in Sequence : mem'[s] \in Seq(Token)
    BY <1>2 DEF SInv, MemInv
  <2> QED  BY <2>1 DEF Memory
<1>4. request \in Request /\ 0 \in Sequence /\ 0 \notin Fields(request.key)
      /\ Fields(request.key) \subseteq Sequence
  BY <1>1, SharedFacts DEF EInv, Sequence
<1>5. mem'[0] = mem[0] /\ \A s \in Sequence \ {0} : mem'[s] = mem[0] \/ mem'[s] = <<>>
  BY <1>1, <1>4 DEF SInv, MemInv
<1>6. Len(mem[0]) \in Nat /\ decodes \in Nat /\ decodes <= Len(mem[0])
  BY <1>1, HoldsTokens, CallsCounted, LenProperties, <1>4 DEF Memory, Paid
<1>7. SumFunction(Spread(mem')) \in Nat
  <2> DEFINE m == mem'
  <2>1. \A s \in Sequence \ {0} : m[s] = <<>> \/ Len(m[0]) <= Len(m[s])
    BY <1>5, <1>6
  <2> HIDE DEF m
  <2>2. SumFunction(Spread(m)) \in Nat
    BY <1>3, <2>1, SpreadNotNegative DEF m
  <2> QED  BY <2>2 DEF m
<1>8. Cells' = Len(mem'[0]) + SumFunction(Spread(mem'))
  BY DEF Cells, Spread
<1>9. decodes' <= Cells'
  BY <1>1, <1>5, <1>6, <1>7, <1>8
<1>10. \A f \in Fields(request'.key) : Len(mem'[0]) <= Len(mem'[f])
  BY <1>1, <1>4, <1>5, <1>6
<1> QED  BY <1>1, <1>9, <1>10 DEF Paid

\* A batch is a call that adds a token to a field's sequence at least.
LEMMA FlushPaid == ASSUME EInv, SInv, Paid, Flush PROVE Paid'
<1>1. /\ phase = "score" /\ phase' = "score" /\ request' = request /\ decodes' = decodes + 1
      /\ todo # <<>>
  BY Zenon DEF Flush
<1>2. request \in Request /\ Scoring /\ MemInv /\ todo \in Seq(Item)
  BY <1>1 DEF EInv, SInv, Scoring
<1>3. PICK m \in 0 .. Len(todo) :
        m # 0 /\ mem' = [s \in Sequence |-> Extended(s, SubSeq(todo, 1, m))]
  BY <1>2, FlushFacts
<1>4. PICK r \in Request : r = request
  BY <1>2
<1>5. /\ \A s \in Sequence : mem'[s] \in Seq(Token)
      /\ mem'[0] = mem[0]
      /\ \A s \in Sequence : mem'[s] = Taken(mem[s], s, SubSeq(todo, 1, m))
  BY <1>1, <1>2, <1>3, <1>4, HoldsTaken
<1>6. ASSUME NEW s \in Fields(request.key)
      PROVE  LongerBy(mem'[s], mem[s], Cardinality(Own(todo, m, s)))
  <2>1. FieldHolds(s, todo, mem[s], trees[s], TheFields[s].candidates, Base(s), nextPosition[s],
                   level, Most(request, s))
    BY <1>2 DEF Scoring
  <2>2. s \in Sequence /\ mem[s] \in Seq(Token) /\ Base(s) \in Seq(Token)
    BY <1>2, SharedFacts DEF MemInv
  <2> DEFINE path == PathFrom(Base(s), trees[s])
  <2>3. Tree(trees[s], TheFields[s].candidates) /\ Queues(todo, s, Len(mem[s]), path)
    BY <2>1, Zenon DEF FieldHolds
  <2>4. path \in Seq(Token)
    BY <2>2, <2>3, PathFromFacts DEF Tree
  <2> HIDE DEF path
  <2>5. LongerBy(Taken(mem[s], s, SubSeq(todo, 1, m)), mem[s], Cardinality(Own(todo, m, s)))
    BY <1>2, <2>2, <2>3, <2>4, TakenLength
  <2>6. mem'[s] = Taken(mem[s], s, SubSeq(todo, 1, m))
    BY <1>5, <2>2
  <2> QED  BY <2>5, <2>6, Zenon
<1>7. \A s : IsFiniteSet(Own(todo, m, s)) /\ Cardinality(Own(todo, m, s)) \in Nat
  <2> TAKE s
  <2>1. Own(todo, m, s) \subseteq 1 .. m /\ IsFiniteSet(1 .. m)
    BY <1>2, LenProperties, FS_Interval DEF Own
  <2> QED  BY <2>1, FS_Subset, FS_CardinalityType
<1>8. ASSUME NEW s \in Sequence \ {0}
      PROVE  mem[s] = mem'[s] \/ (Len(mem[0]) <= Len(mem[s]) /\ Len(mem[s]) <= Len(mem'[s]))
  <2>1. CASE s \in Fields(request.key)
    <3>1. Len(mem[0]) <= Len(mem[s]) /\ Len(mem[s]) \in Nat
      BY <1>1, <1>2, <2>1, LenProperties DEF Paid, MemInv
    <3> DEFINE n == Cardinality(Own(todo, m, s))
    <3>2. Len(mem'[s]) = Len(mem[s]) + n /\ n \in Nat
      BY <1>6, <1>7, <2>1 DEF LongerBy
    <3> HIDE DEF n
    <3> QED  BY <3>1, <3>2
  <2>2. CASE s \notin Fields(request.key)
    <3>1. Whole(Taken(mem[s], s, SubSeq(todo, 1, m)), mem[s])
      BY <1>1, <1>2, <2>2, SequenceTaken
    <3> QED  BY <1>5, <3>1, Zenon DEF Whole
  <2> QED  BY <2>1, <2>2
<1>9. PICK f \in Fields(request.key) : f \in Sequence \ {0} /\ Len(mem[0]) <= Len(mem[f])
                                        /\ Len(mem[f]) < Len(mem'[f])
  <2> DEFINE f == todo[1].field
  <2>1. 1 \in DOMAIN todo /\ 1 \in 1 .. m
    BY <1>2, <1>3, LenProperties
  <2>2. f \in Fields(request.key) /\ 1 \in Own(todo, m, f)
    BY <1>2, <2>1 DEF Scoring, Own
  <2> HIDE DEF f
  <2> DEFINE n == Cardinality(Own(todo, m, f))
  <2>3. n \in Nat /\ n # 0
    BY <1>7, <2>2, FS_EmptySet
  <2>4. Len(mem'[f]) = Len(mem[f]) + n
    BY <1>6, <2>2 DEF LongerBy
  <2>5. f \in Sequence \ {0} /\ Len(mem[0]) <= Len(mem[f]) /\ Len(mem[f]) \in Nat
    BY <1>1, <1>2, <2>2, SharedFacts, LenProperties DEF Paid, MemInv
  <2> HIDE DEF n
  <2>6. Len(mem[f]) < Len(mem'[f])
    BY <2>3, <2>4, <2>5
  <2> QED  BY <2>2, <2>5, <2>6
<1>10. Memory(mem) /\ Memory(mem')
  BY <1>2, <1>5 DEF Memory, MemInv
<1>11. /\ SumFunction(Spread(mem)) \in Int /\ SumFunction(Spread(mem')) \in Int
       /\ SumFunction(Spread(mem)) < SumFunction(Spread(mem'))
  <2> DEFINE a == mem
             b == mem'
  <2>1. /\ Memory(a) /\ Memory(b) /\ a[0] = b[0]
        /\ \A s \in Sequence \ {0} :
             a[s] = b[s] \/ (Len(a[0]) <= Len(a[s]) /\ Len(a[s]) <= Len(b[s]))
        /\ f \in Sequence \ {0} /\ Len(a[0]) <= Len(a[f]) /\ Len(a[f]) < Len(b[f])
    BY <1>5, <1>8, <1>9, <1>10
  <2> HIDE DEF a, b
  <2>2. /\ SumFunction(Spread(a)) \in Int /\ SumFunction(Spread(b)) \in Int
        /\ SumFunction(Spread(a)) < SumFunction(Spread(b))
    BY <2>1, SpreadGrows
  <2> QED  BY <2>2 DEF a, b
<1>12. decodes' <= Cells'
  <2>1. Cells' = Len(mem'[0]) + SumFunction(Spread(mem')) /\ Cells = Len(mem[0]) + SumFunction(Spread(mem))
    BY DEF Cells, Spread
  <2>2. decodes \in Nat /\ Len(mem[0]) \in Nat /\ decodes <= Cells
    BY <1>1, <1>10, CallsCounted, LenProperties DEF Memory, Sequence, Paid
  <2> QED  BY <1>1, <1>5, <1>11, <2>1, <2>2
<1>13. \A s \in Fields(request'.key) : Len(mem'[0]) <= Len(mem'[s])
  <2> SUFFICES ASSUME NEW s \in Fields(request.key) PROVE Len(mem[0]) <= Len(mem'[s])
    BY <1>1, <1>5
  <2>1. s \in Sequence \ {0} /\ Len(mem[0]) <= Len(mem[s]) /\ Len(mem[s]) \in Nat /\ Len(mem[0]) \in Nat
        /\ Len(mem'[s]) \in Nat
    BY <1>1, <1>2, <1>5, SharedFacts, LenProperties DEF Paid, MemInv, Sequence
  <2> QED  BY <1>8, <2>1
<1> QED  BY <1>1, <1>12, <1>13 DEF Paid

\* All steps.
LEMMA PaidKeeps == EInv /\ SInv /\ Paid /\ [Next]_vars => Paid'
<1> SUFFICES ASSUME EInv, SInv, Paid, [Next]_vars PROVE Paid'
  OBVIOUS
<1>0. EInv' /\ SInv'
  BY EngineKeeps, ScoringInvKeeps
<1>1. CASE Prefill
  <2>1. /\ phase = "prefill" /\ phase' \in {"prefill", "save"} /\ DecodeChunk(ThePrefix)
    BY <1>1 DEF Prefill, ThePrefix
  <2>2. ThePrefix \in Seq(Token) /\ offset < Len(ThePrefix)
    BY <2>1, TextFacts DEF EInv, Written0
  <2>3. decodes' <= Len(mem'[0])
    BY <2>1, <2>2, ChunkPaid DEF Paid
  <2> QED  BY <2>1, <2>3 DEF Paid
<1>2. CASE Dynamic
  <2>1. /\ phase = "dynamic" /\ phase' \in {"dynamic", "broadcast"} /\ DecodeChunk(TheContext)
    BY <1>2 DEF Dynamic, TheContext
  <2>2. TheContext \in Seq(Token) /\ offset < Len(TheContext)
    BY <2>1, TextFacts DEF EInv, Written0
  <2>3. decodes' <= Len(mem'[0])
    BY <2>1, <2>2, ChunkPaid DEF Paid
  <2> QED  BY <2>1, <2>3 DEF Paid
<1>3. CASE RestoreHit \/ ColdStart
  <2>1. phase \in {"restore", "cold"} /\ phase' \in {"prefill", "dynamic"} /\ decodes' = decodes
    BY <1>3 DEF RestoreHit, ColdStart, countVars
  <2>2. decodes' = 0
    BY <2>1 DEF EInv, Counted
  <2>3. Len(mem'[0]) \in Nat
    <3>1. mem'[0] \in Seq(Token)
      BY <1>0 DEF SInv, MemInv, Sequence
    <3> QED  BY <3>1, LenProperties
  <2> QED  BY <2>1, <2>2, <2>3 DEF Paid
<1>4. CASE Save \/ QueueLevel \/ Assemble \/ UNCHANGED vars \/ \E r \in Request : Reject(r)
  <2>1. UNCHANGED <<mem, request, decodes>>
    BY <1>4 DEF Save, QueueLevel, Assemble, Reject, countVars, vars
  <2>2. \/ phase' = phase
        \/ phase = "save" /\ phase' = "dynamic"
        \/ phase = "score" /\ phase' = "answer"
    BY <1>4 DEF Save, QueueLevel, Assemble, Reject, vars
  <2>3. Cells' = Cells
    BY <2>1 DEF Cells
  <2> QED  BY <2>1, <2>2, <2>3 DEF Paid
<1>5. CASE RestoreFallback \/ RestoreMiss \/ Answer \/ Fail \/ \E r \in Request : Begin(r)
  <2>1. phase' \in {"cold", "idle", "restore"}
    BY <1>5 DEF RestoreFallback, RestoreMiss, Answer, Fail, Begin, Release
  <2> QED  BY <2>1 DEF Paid
<1> QED  BY <1>1, <1>2, <1>3, <1>4, <1>5, BroadcastPaid, FlushPaid DEF Next, Serve

\* A decode makes no more llama_decode calls than the context has cells, whatever
\* the batch size, the lengths of its texts and the levels of its fields: what
\* ensure_fits admits bounds the time a request holds the engine, not only its
\* memory.
THEOREM CallsFitContext == Spec => []CallsBounded
<1>1. Init => Paid
  BY DEF Init, Paid
<1>2. EInv /\ SInv /\ Paid => CallsBounded
  <2> SUFFICES ASSUME EInv, SInv, Paid PROVE CallsBounded
    OBVIOUS
  <2>1. Cells <= ContextSize /\ ContextSize \in Nat
    BY CellsFit, EngineAssumption DEF FitsContext
  <2>2. CASE phase \in {"score", "answer"}
    <3>1. decodes <= Cells /\ decodes \in Nat /\ Cells \in Int
      BY <2>2, CellsSpread, CallsCounted DEF Paid
    <3> QED  BY <2>1, <3>1 DEF CallsBounded
  <2>3. CASE phase \in {"prefill", "save", "dynamic", "broadcast"}
    <3>1. \A s \in Sequence \ {0} : mem[s] = <<>>
      BY <2>3 DEF SInv, MemInv
    <3>2. SumFunction(Spread(mem)) \in Nat
      BY <3>1, HoldsTokens, SpreadNotNegative
    <3>3. Len(mem[0]) \in Nat /\ decodes <= Len(mem[0]) /\ decodes \in Nat
      BY <2>3, HoldsTokens, SpreadFacts, CallsCounted DEF Paid
    <3> QED  BY <2>1, <3>2, <3>3, CellsSpread DEF CallsBounded
  <2>4. CASE phase \in {"idle", "restore", "cold"}
    <3>1. decodes = 0
      BY <2>4 DEF EInv, Counted
    <3> QED  BY <2>1, <3>1 DEF CallsBounded
  <2> QED  BY <2>2, <2>3, <2>4 DEF Paid
<1> QED  BY <1>1, <1>2, PaidKeeps, EngineInvariance, ScoringInvariance, PTL DEF Spec
=============================================================================
