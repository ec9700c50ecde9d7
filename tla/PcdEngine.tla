------------------------------ MODULE PcdEngine ------------------------------
(***************************************************************************)
(* PcdEngine::decode (src/src/engine/pcd_engine.cpp) over one llama        *)
(* context: cache lookup, restore or cold prefill, dynamic context,        *)
(* broadcast, batched field suffixes, collision-tree levels, answer.       *)
(* decode holds the inference mutex from its first to its last line, so    *)
(* the engine serves one request at a time; who waits for the mutex is in  *)
(* module ModelManager.  A step is the code between two native calls that  *)
(* can fail; a failing call throws, and leaves in memory what it wrote.    *)
(*                                                                         *)
(* A token is <<kind, what, number>>: the text it came from tells it apart *)
(* and nothing else about it matters.  mem[s] is the tokens that sequence  *)
(* s of the llama context holds, by position; its outputs depend on that   *)
(* content alone, which is what llama.cpp is assumed to provide, together  *)
(* with checkpoints that either restore what was saved or are rejected.    *)
(*                                                                         *)
(* Operators named X_Y are mistaken variants of X that only show that some *)
(* property tells X from X_Y.                                              *)
(***************************************************************************)
EXTENDS CandidateTree, SequencesExt

CONSTANTS
  Key,            \* schema keys
  Context,        \* context texts
  Schema,         \* key -> [prefix, fields, bytes], lengths in tokens; a field
                  \*   is [suffix, candidates], bytes is its checkpoint's size
  DynamicLength,  \* context -> tokens of context, user suffix and "{\n"
  BatchSize,      \* runtime_.batch_size()
  ContextSize,    \* runtime_.context_size()
  MaxSequences,   \* runtime_.max_sequences()
  MaxTreeLevels,  \* max_tree_levels
  MaxEntries,     \* options.cache.max_entries
  MaxBytes,       \* options.cache.max_bytes
  NoEntry

ASSUME EngineAssumption ==
  /\ BatchSize \in Nat \ {0}
  /\ ContextSize \in Nat
  /\ MaxSequences \in Nat
  /\ MaxTreeLevels \in Nat \ {0}

VARIABLES
  recency, index, restoreFailures, totalBytes,  \* cache_, see SchemaCache
  returned,      \* the entry the lookup found (local entry)
  mem,           \* sequence -> tokens in it
  phase,         \* where decode is
  request,       \* [key, context] being served
  offset,        \* tokens decode_single_sequence has done
  status,        \* metrics.schema_cache_status
  todo,          \* tokens of this pass not yet in a decoded batch
  trees,         \* field -> CandidateTree state (states)
  nextPosition,  \* field -> position of its next token (next_position)
  level,         \* tree levels begun
  forwardPasses, \* forward_passes
  decodes,       \* llama_decode calls of this request (history)
  scoredOn       \* field -> content its last logits came from (history)

cacheVars == <<recency, index, restoreFailures, totalBytes, returned>>
countVars == <<forwardPasses, decodes>>
fieldVars == <<todo, trees, nextPosition, level, scoredOn>>
vars == <<cacheVars, mem, phase, request, offset, status, fieldVars, countVars>>

-----------------------------------------------------------------------------
\* The tokens of each text.
PrefixTokens(k)    == [i \in 1 .. Schema[k].prefix |-> <<"prefix", k, i>>]
DynamicTokens(c)   == [i \in 1 .. DynamicLength[c] |-> <<"dynamic", c, i>>]
SuffixTokens(k, f) == [i \in 1 .. Schema[k].fields[f].suffix |-> <<"suffix", f, i>>]
PathTokens(path)   == [i \in DOMAIN path |-> <<"candidate", path[i], 0>>]

Fields(k)    == DOMAIN Schema[k].fields
PrefixLen(r) == Schema[r.key].prefix
Completed(r) == PrefixLen(r) + DynamicLength[r.context]

Sequence == {0} \cup UNION {Fields(k) : k \in Key}
Cleared == [s \in Sequence |-> <<>>]

\* Checkpoints are published with the prefix they were saved from.
Entry == {[key |-> k, content |-> PrefixTokens(k)] : k \in Key}
CheckpointBytes == [e \in Entry |-> Schema[e.key].bytes]

\* compile refuses a prefix without tokens; the dynamic part ends with "{\n".
ASSUME TextAssumption ==
  /\ IsFiniteSet(Key)
  /\ NoEntry \notin Entry
  /\ \A k \in Key : Schema[k].prefix \in Nat \ {0} /\ Schema[k].bytes \in Nat
  /\ \A c \in Context : DynamicLength[c] \in Nat \ {0}
  /\ MaxEntries \in Nat /\ MaxBytes \in Nat

\* A valid schema has fields, each with choices; compile refuses a suffix
\* without tokens, and tokens are ids of the vocabulary.
ASSUME FieldsAssumption ==
  /\ NoEntry \notin Key
  /\ \A k \in Key :
       Schema[k].fields \in
         Seq([suffix : Nat \ {0}, candidates : Seq(Seq(Nat)) \ {<<>>}]) \ {<<>>}

\* min_choices (src/include/pcd/types.hpp): validation refuses fewer.
ASSUME ChoicesAssumption ==
  \A k \in Key : \A f \in DOMAIN Schema[k].fields : Len(Schema[k].fields[f].candidates) >= 2

\* No key ever counts as many failures: a disabled key has no entry to restore.
\* If it could, RestoreFallback would be stuck and EveryRequestEnds be violated.
FailureBound == 3

Cache == INSTANCE SchemaCache

Deepest(field) == Max({Len(c) : c \in ToSet(field.candidates)})

FieldNeed_SuffixOnly(field) == field.suffix

FieldNeed(field) == field.suffix + Min({Deepest(field), MaxTreeLevels})

\* ensure_fits
Fits(r) ==
  /\ Len(Schema[r.key].fields) + 1 <= MaxSequences
  /\ Completed(r)
       + SumFunction([f \in Fields(r.key) |-> FieldNeed(Schema[r.key].fields[f])])
     <= ContextSize

Request == [key : Key, context : Context]
NoRequest == [key |-> NoEntry, context |-> NoEntry]

-----------------------------------------------------------------------------
Init ==
  /\ Cache!Init
  /\ mem = Cleared
  /\ phase = "idle"
  /\ request = NoRequest
  /\ offset = 0
  /\ status = "none"
  /\ todo = <<>> /\ trees = <<>> /\ nextPosition = <<>> /\ level = 0
  /\ forwardPasses = 0 /\ decodes = 0
  /\ scoredOn = <<>>

\* What decode's locals are between two requests; the memory stays as it is.
Release ==
  /\ phase' = "idle"
  /\ request' = NoRequest
  /\ offset' = 0
  /\ status' = "none"
  /\ todo' = <<>> /\ trees' = <<>> /\ nextPosition' = <<>> /\ level' = 0
  /\ forwardPasses' = 0 /\ decodes' = 0
  /\ scoredOn' = <<>>

\* Lookup, compilation and tokenization, then the first clear_memory.
Begin(r) ==
  /\ phase = "idle"
  /\ Cache!Get(r.key)
  /\ Fits(r)
  /\ request' = r
  /\ mem' = Cleared
  /\ phase' = "restore"
  /\ UNCHANGED <<offset, status, fieldVars, countVars>>

\* The request does not fit, or a native call of compile or tokenize fails:
\* only the recency of the cached entry has changed.
Reject(r) ==
  /\ phase = "idle"
  /\ Cache!Get(r.key)
  /\ UNCHANGED <<mem, phase, request, offset, status, fieldVars, countVars>>

\* The checkpoint is restored in full and the restored position is right.
RestoreHit ==
  /\ phase = "restore"
  /\ returned # NoEntry
  /\ ~Cache!Disabled(request.key)
  /\ mem' = [mem EXCEPT ![0] = returned.content]
  /\ status' = "hit"
  /\ phase' = "dynamic"
  /\ UNCHANGED <<cacheVars, request, offset, fieldVars, countVars>>

RestoreFallback_Retrying ==
  /\ phase = "restore"
  /\ returned # NoEntry
  /\ \E n \in 0 .. Len(returned.content) :
       mem' = [mem EXCEPT ![0] = SubSeq(returned.content, 1, n)]
  /\ UNCHANGED <<cacheVars, phase, request, offset, status, fieldVars, countVars>>

\* The restore is rejected by llama.cpp, or its position is wrong; it may
\* have written any part of the checkpoint before that.
RestoreFallback ==
  /\ phase = "restore"
  /\ returned # NoEntry
  /\ Cache!RecordRestoreFailure(request.key)
  /\ \E n \in 0 .. Len(returned.content) :
       mem' = [mem EXCEPT ![0] = SubSeq(returned.content, 1, n)]
  /\ status' = "fallback"
  /\ phase' = "cold"
  /\ UNCHANGED <<request, offset, fieldVars, countVars>>

RestoreMiss ==
  /\ phase = "restore"
  /\ returned = NoEntry
  /\ status' = "miss"
  /\ phase' = "cold"
  /\ UNCHANGED <<cacheVars, mem, request, offset, fieldVars, countVars>>

MemoryAfterFallback_Kept == mem
MemoryAfterFallback == Cleared

\* The second clear_memory, before the cold prefill.
ColdStart ==
  /\ phase = "cold"
  /\ mem' = MemoryAfterFallback
  /\ phase' = "prefill"
  /\ UNCHANGED <<cacheVars, request, offset, status, fieldVars, countVars>>

\* One llama_decode of decode_single_sequence on sequence 0, in chunks of at
\* most BatchSize tokens; forward_passes grows by a formula when all are done.
Chunk(tokens) ==
  SubSeq(tokens, offset + 1, Min({offset + BatchSize, Len(tokens)}))

ChunkPasses_Floor(tokens) == Len(tokens) \div BatchSize
ChunkPasses(tokens) == (Len(tokens) + BatchSize - 1) \div BatchSize

DecodeChunk(tokens) ==
  LET done == offset + Len(Chunk(tokens))
  IN  /\ mem' = [mem EXCEPT ![0] = @ \o Chunk(tokens)]
      /\ decodes' = decodes + 1
      /\ offset' = IF done = Len(tokens) THEN 0 ELSE done
      /\ forwardPasses' = forwardPasses
                            + IF done = Len(tokens) THEN ChunkPasses(tokens) ELSE 0

Prefill ==
  /\ phase = "prefill"
  /\ DecodeChunk(PrefixTokens(request.key))
  /\ phase' = IF offset' = 0 THEN "save" ELSE phase
  /\ UNCHANGED <<cacheVars, request, status, fieldVars>>

Checkpoint == [key |-> request.key, content |-> mem[0]]

\* Publish the prefix, unless the key is disabled; put may still ignore it.
Save ==
  /\ phase = "save"
  /\ IF Cache!Disabled(request.key)
     THEN UNCHANGED cacheVars
     ELSE Cache!Put(request.key, Checkpoint)
  /\ phase' = "dynamic"
  /\ UNCHANGED <<mem, request, offset, status, fieldVars, countVars>>

Dynamic ==
  /\ phase = "dynamic"
  /\ DecodeChunk(DynamicTokens(request.context))
  /\ phase' = IF offset' = 0 THEN "broadcast" ELSE phase
  /\ UNCHANGED <<cacheVars, request, status, fieldVars>>

\* A token of a field's sequence on its way into a batch.
BatchToken(f, token, position, last) ==
  [field |-> f, token |-> token, position |-> position, logits |-> last]

SuffixBatch(r, f) ==
  LET tokens == SuffixTokens(r.key, f)
  IN  [i \in DOMAIN tokens |->
         BatchToken(f, tokens[i], Completed(r) + i - 1, i = Len(tokens))]

\* The position check (which throws), the copies to one sequence per field,
\* and the queue of every field's suffix tokens.
Broadcast ==
  /\ phase = "broadcast"
  /\ Len(mem[0]) = Completed(request)
  /\ mem' = [s \in Sequence |-> IF s \in Fields(request.key) THEN mem[0] ELSE mem[s]]
  /\ trees' = [f \in Fields(request.key) |-> Start(Schema[request.key].fields[f].candidates)]
  /\ nextPosition' = [f \in Fields(request.key) |->
                        Completed(request) + Schema[request.key].fields[f].suffix]
  /\ scoredOn' = [f \in Fields(request.key) |-> <<>>]
  /\ todo' = FlattenSeq([f \in Fields(request.key) |-> SuffixBatch(request, f)])
  /\ phase' = "score"
  /\ UNCHANGED <<cacheVars, request, offset, status, level, countVars>>

Batch == SubSeq(todo, 1, Min({BatchSize, Len(todo)}))

\* What sequence s holds once the tokens of batch are decoded.
Extended(s, batch) ==
  LET own    == {i \in DOMAIN batch : batch[i].field = s}
      nth(k) == CHOOSE i \in own : Cardinality({j \in own : j < i}) = k - 1
  IN  mem[s] \o [k \in 1 .. Cardinality(own) |-> batch[nth(k)].token]

\* The indices of the batch whose logits are read, each for its field.
Pending(batch) == {i \in DOMAIN batch : batch[i].logits}

LogitsIndex_PastLast(i) == Min({i + 1, Len(Batch)})
LogitsIndex(i) == i

\* flush: decode a batch, then read every pending field's logits at its index
\* and advance its candidates.  The logits at index i are those of the batch
\* token's sequence, as far as that token.
Flush ==
  LET batch  == Batch
      at     == [f \in {batch[i].field : i \in Pending(batch)} |->
                   LogitsIndex(CHOOSE i \in Pending(batch) : batch[i].field = f)]
      scored == DOMAIN at
  IN  /\ phase = "score"
      /\ todo # <<>>
      /\ \A f \in scored : ~Resolved(trees[f])
      /\ mem' = [s \in Sequence |-> Extended(s, batch)]
      /\ scoredOn' = [f \in DOMAIN trees |->
                        IF f \in scored
                        THEN Extended(batch[at[f]].field, SubSeq(batch, 1, at[f]))
                        ELSE scoredOn[f]]
      /\ \E next \in [scored -> UNION {Advanced(trees[f]) : f \in scored}] :
           /\ \A f \in scored : next[f] \in Advanced(trees[f])
           /\ trees' = [f \in DOMAIN trees |->
                          IF f \in scored THEN next[f] ELSE trees[f]]
      /\ todo' = SubSeq(todo, Len(batch) + 1, Len(todo))
      /\ decodes' = decodes + 1
      /\ forwardPasses' = forwardPasses + 1
      /\ UNCHANGED <<cacheVars, phase, request, offset, status, nextPosition, level>>

Unresolved == {f \in DOMAIN trees : ~Resolved(trees[f])}

LevelsLeft_OneMore == level <= MaxTreeLevels
LevelsLeft_OneFewer == level < MaxTreeLevels - 1
LevelsLeft == level < MaxTreeLevels

NextPositions_Stuck(fields) == nextPosition
NextPositions(fields) ==
  [f \in DOMAIN trees |-> IF f \in fields THEN nextPosition[f] + 1 ELSE nextPosition[f]]

LevelBatch(f) ==
  <<BatchToken(f, PathTokens(<<Last(trees[f].consumed)>>)[1], nextPosition[f], TRUE)>>

\* One pass of the tree loop: the last token of every unresolved field.
QueueLevel ==
  /\ phase = "score"
  /\ todo = <<>>
  /\ LevelsLeft
  /\ Unresolved # {}
  /\ todo' = FlattenSeq([f \in DOMAIN trees |->
                            IF f \in Unresolved THEN LevelBatch(f) ELSE <<>>])
  /\ nextPosition' = NextPositions(Unresolved)
  /\ level' = level + 1
  /\ UNCHANGED <<cacheVars, mem, phase, request, offset, status, trees, scoredOn, countVars>>

\* The loop ends, what is still open is forced, the response is assembled.
Assemble ==
  /\ phase = "score"
  /\ todo = <<>>
  /\ ~LevelsLeft \/ Unresolved = {}
  /\ trees' = [f \in DOMAIN trees |-> ForceResolve(trees[f])]
  /\ phase' = "answer"
  /\ UNCHANGED <<cacheVars, mem, request, offset, status, todo, nextPosition, level,
                 scoredOn, countVars>>

Answer == phase = "answer" /\ Release /\ UNCHANGED <<cacheVars, mem>>

\* Any native call throws: llama_decode, with some of its batch written,
\* saving the checkpoint, reading logits; or the position check fails.  The
\* lock_guard releases the engine and the memory stays as it is.
Written ==
  IF phase = "prefill" THEN Chunk(PrefixTokens(request.key))
  ELSE IF phase = "dynamic" THEN Chunk(DynamicTokens(request.context))
  ELSE <<>>

Fail ==
  /\ \/ phase \in {"prefill", "dynamic"}
     \/ phase = "save" /\ ~Cache!Disabled(request.key)
     \/ phase = "score" /\ todo # <<>>
     \/ phase = "broadcast" /\ Len(mem[0]) # Completed(request)
  /\ \/ \E n \in 0 .. Len(Written) : mem' = [mem EXCEPT ![0] = @ \o SubSeq(Written, 1, n)]
     \/ \E n \in 1 .. Len(Batch) : mem' = [s \in Sequence |-> Extended(s, SubSeq(Batch, 1, n))]
  /\ Release
  /\ UNCHANGED cacheVars

Serve ==
  \/ RestoreHit \/ RestoreFallback \/ RestoreMiss
  \/ ColdStart \/ Prefill \/ Save
  \/ Dynamic \/ Broadcast
  \/ Flush \/ QueueLevel \/ Assemble
  \/ Answer
  \/ Fail

Next ==
  \/ \E r \in Request : Begin(r) \/ Reject(r)
  \/ Serve

Spec == Init /\ [][Next]_vars
FairSpec == Spec /\ WF_vars(Serve)

-----------------------------------------------------------------------------
\* Before it is copied, sequence 0 is exactly the schema prefix and then the
\* context, on every path: a hit, a fallback after part of a checkpoint was
\* written, a miss, and whatever a decode that threw had left behind.
PrefixIsExact ==
  /\ phase \in {"save", "broadcast"} =>
       mem[0] = PrefixTokens(request.key) \o
                (IF phase = "save" THEN <<>> ELSE DynamicTokens(request.context))
  /\ phase = "dynamic" /\ offset = 0 => mem[0] = PrefixTokens(request.key)

\* The logits a field was last advanced with came from its own sequence, at
\* the end of prefix, context, its own suffix and its own path so far: a
\* cached answer is the cold answer, and no field reads another's logits.
ScoredOnOwnPath ==
  [][\A f \in DOMAIN trees' : phase = "score" /\ scoredOn'[f] # scoredOn[f] =>
       scoredOn'[f] = PrefixTokens(request.key) \o DynamicTokens(request.context)
                        \o SuffixTokens(request.key, f) \o PathTokens(trees[f].consumed)
    ]_vars

\* Every token is decoded at the position right after its sequence's last:
\* completed, next_position and the batch order stay in step with the memory.
PositionsContinue ==
  /\ phase = "prefill" => Len(mem[0]) = offset
  /\ phase = "dynamic" => Len(mem[0]) = PrefixLen(request) + offset
  /\ \A i \in DOMAIN todo :
       todo[i].position = Len(mem[todo[i].field])
                            + Cardinality({j \in 1 .. i - 1 : todo[j].field = todo[i].field})

\* The cells of the unified memory, the copies of sequence 0 shared, never
\* exceed the context: ensure_fits promised it before anything was decoded.
Cells ==
  Len(mem[0]) + SumFunction([s \in Sequence \ {0} |->
                               IF mem[s] = <<>> THEN 0 ELSE Len(mem[s]) - Len(mem[0])])
FitsContext == Cells <= ContextSize

\* The metric counts the llama_decode calls, chunked prefills included.
ForwardPassesExact == phase = "answer" => forwardPasses = decodes

\* The answer is one that decoding every field by itself could give: caching,
\* batching and the order of the passes do not show, and only a field that is
\* still open after one suffix pass and MaxTreeLevels tree passes is settled by
\* force.
Decode == INSTANCE ConstrainedDecode WITH
  ChoicesOf <- [r \in Request |-> [f \in Fields(r.key) |-> Schema[r.key].fields[f].candidates]],
  Limit <- MaxTreeLevels + 1,
  answered <- phase = "answer"
ImplementsConstrainedDecode == Decode!Spec

\* Every request is answered or fails: nothing in decode loops for ever.
EveryRequestEnds == phase # "idle" ~> phase = "idle"

=============================================================================
