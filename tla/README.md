# pcdServer: models, checks and proofs

pcdServer answers *parallel constrained decoding* requests: a JSON schema with a
few enumerated fields and a context text come in over HTTP; one language model
scores, for all fields at once, which choice is the most likely, and the server
returns the winner and the probabilities of every field.

This directory holds TLA+ models of the server, the TLC configurations that
check them, and proofs that TLAPS checks. Paths below are relative to the
repository's root.

## 1. The system

| Component | Source | State | Operations | Who calls it |
|---|---|---|---|---|
| SchemaCache | `src/engine/schema_cache.cpp` | recency list, index, restore failures, byte count | get, put, erase, record_restore_failure, clear | PcdEngine, inference mutex held |
| CandidateState | `src/engine/scorer.cpp` | live candidates, path, levels, probabilities, live mass, winner | constructor, advance, force_resolve | PcdEngine, one per field |
| PcdEngine | `src/engine/pcd_engine.cpp` | context memory, cache, inference mutex; per request: batch, positions, metrics | decode, cache_stats | ModelManager, HttpServer |
| LlamaRuntime | `src/engine/llama_runtime.cpp` | native model, context and batch; tokens by sequence and position | constructor, destructor, tokenize and other texts, clear, decode (chunks, batches), copy, save, restore, logits | PcdEngine |
| ModelManager | `src/model_manager.cpp` | active engine (shared_ptr), swap and load mutexes | select, load_path, decode, active, active_id | HttpServer handlers, main |
| HttpServer | `src/http/http_server.cpp` | listener thread, worker pool | /health, /v1/models, select, decode; start, stop | clients, main |
| ModelCatalog | `src/model_catalog.cpp` | none (reads the directory each time) | list, find | ModelManager, HttpServer |
| Request validation | `src/types.cpp` | none | parse_decode_request, to_json_response | HttpServer |
| Schema text | `src/engine/schema.cpp` | none | common_prefix, canonical_schema, split_template, field and candidate texts | PcdEngine |
| Startup, shutdown | `src/main.cpp` | stop flag | parse_args, signals, main | operating system |
| Playground page | `ui/app.js` | form, buttons, status line, problem box | decode, switch, refresh, load preset | user |
| Tetris page | `ui/tetris.js` | game, timers, buttons | turn, start, pause, reset | user |
| Benchmark, build, packaging | `src/benchmark.cpp`, `CMakeLists.txt`, `scripts/` | none | | |

How they interact:

- Every HTTP handler runs on a worker thread. It copies the active `shared_ptr`
  under the swap mutex and then uses that engine for as long as it needs, even
  when a `select` replaces it meanwhile. A `select` holds the load mutex over
  the construction of the new engine and the destruction of the old one.
- `PcdEngine::decode` and `cache_stats` hold the engine's inference mutex, so
  cache, runtime and candidate states see one thread at a time.
- A decode clears the context memory, restores the schema prefix from a cached
  checkpoint or prefills it (and publishes a checkpoint), appends the context,
  copies the sequence once per field, and decodes the fields' suffixes and then
  one token per open field and level, in batches shared by all fields.
- `select` scans the models directory, which others may change meanwhile, and
  opens the file it found by name. The last owner of a replaced engine, the
  `select` or a request that outlives it, frees the native objects.
- `main` blocks the signals, loads the startup model, starts the listener thread
  and waits; a signal stops the listener, which works off the requests it took.
- Each page runs in one browser thread. The playground may have several decodes,
  switches and refreshes under way, answered in any order. Each turn of the
  Tetris game awaits a decode and some timers, and buttons are pressed in
  between.

What is hard about it: failures of native calls at any point of a decode, with a
memory that keeps what was written; checkpoints that fail to restore; logits
that must be read from the right batch and index; the token budget; LRU and byte
accounting over long call sequences; engine swaps under running requests; three
kinds of locks; a directory that changes during its scan; constructors that fail
half way, and destructors run by whoever comes last; texts whose length is about
that of the buffer; signals at any moment of startup and shutdown; texts cut and
escaped byte by byte; logits that are not numbers; state of a page that changes
during an await, and answers that overtake one another.

What makes each part correct:

- *SchemaCache*: list and index agree, the byte count is exact, limits hold,
  evictions take the oldest and only what is needed, disabled keys stay out, and
  a get never answers with a stale entry.
- *CandidateState*: the live candidates are exactly those of the decoded path, the
  mass is conserved, what is eliminated is final, advancing ends.
- *PcdEngine*: a cached answer is the cold answer; positions and batch indices
  match the memory; the budget suffices; the metric is right; every request
  ends, and leaves a state the next one can start from.
- *ModelManager*: no destroyed engine is used, a failed load changes nothing,
  loads take effect in order, nobody waits for ever, readers never wait for loads.
- *Catalog and native objects*: a list names models of the scan and misses none that
  was there all the time, unless the system fails a call; what is allocated is freed, once, and not in use; a text
  comes back whole.
- *Request and schema text*: what validation lets through has an answer with room
  for every field and choice; the texts spell the choices and tell them apart; the
  cache key determines the prefix.
- *Startup and shutdown*: a signal always leads through `stop`, which ends, and
  nobody uses the manager after it.
- *Playground*: at rest the page shows the newest state, with its buttons enabled.
- *Tetris*: a running game has a turn that plays for the present board, and goes
  on; a move is played on the board it was chosen for.

## 2. The modules

| Module | What it is | Code |
|---|---|---|
| `SchemaCache` | the LRU cache, one action per member function | `schema_cache.cpp` |
| `SchemaCacheHistory` | the cache with two history variables: order of use, last accepted entry | |
| `LossyMap` | the cache's contract: a map that may forget | |
| `SchemaCacheProofs` | theorems about the three modules above | |
| `CandidateTree` | the control of one field's candidates, as operators on records | `scorer.cpp` |
| `CandidateState` | the same with probabilities, as a state machine | `scorer.cpp` |
| `CandidateProofs` | theorems about the two modules above | |
| `ConstrainedDecode` | what a decode promises: every field decoded on its own | |
| `PcdEngine` | `decode` step by step; instantiates SchemaCache, extends CandidateTree | `pcd_engine.cpp`, `llama_runtime.cpp` |
| `PcdEngineProofs` | theorems about PcdEngine, by way of SchemaCacheProofs | |
| `ActiveModel` | what the manager promises: one register | |
| `ModelManager` | handlers, locks and owners of engines | `model_manager.cpp`, `http_server.cpp` |
| `ModelManagerProofs` | theorems about ModelManager | |
| `ModelCatalog` | the scan of the models directory while it changes | `model_catalog.cpp` |
| `NativeText` | the two-call buffers, as operators on sequences | `llama_runtime.cpp` |
| `LlamaRuntime` | native objects from allocation to release; uses NativeText | `llama_runtime.cpp`, `pcd_engine.cpp` |
| `ModelLoading` | from file to active engine and back; composes ModelCatalog and LlamaRuntime | `model_manager.cpp` |
| `ModelLoadingProofs` | theorems about the four modules above | |
| `SchemaText` | the texts of a schema, as operators on byte sequences | `schema.cpp` |
| `DecodeRequest` | a decode request from JSON to JSON; uses SchemaText | `types.cpp`, `PcdEngine::compile`, `http_server.cpp` |
| `DecodeRequestProofs` | theorems about SchemaText and DecodeRequest | |
| `Server` | main thread, listener, worker pool, signals | `main.cpp`, `http_server.cpp` |
| `ServerProofs` | theorems about Server | |
| `Playground` | the playground page and its requests | `ui/app.js` |
| `PlaygroundProofs` | a theorem about Playground | |
| `Tetris` | the game loop of the page | `ui/tetris.js` |
| `MC*` | values of the constants for TLC | |

`PROJECT.json` gives the source lines of every definition. Operators with an
underscore (`Room_OffByOne`) are deliberate mistakes: no specification uses
them. Each stands next to the operator it gets wrong, and putting it in that
operator's place makes a property fail; that is how we know the property can.

### SchemaCache

State: `recency`, `index`, `restoreFailures` and `totalBytes` are the members of
the same names; `returned` is the last answer of `get`. An entry is immutable in
the code, hence a value. `put` is `Refused` (nothing happens) or `Store`, which
includes `remove_node` and the loop of `evict_to_fit`: it keeps the longest
front part of the list that leaves room, or nothing. The sum of bytes is written
as the size of a disjoint union (`Units`), so that neither TLC nor the proofs
need recursion. `restoreFailures` is bounded by `FailureBound`.

`SchemaCacheHistory` observes the calls. `PutEvictsOldestOnlyToFit` compares
evictions with the order of use it recorded itself, not with the cache's list.
`ImplementsLossyMap` is the refinement of `LossyMap`, with `present` the cached
keys.

### CandidateTree and CandidateState

A record holds `candidates`, `live`, `consumed`, `levels` and `winner` (0 while
open). `Advanced(s)` is the set of states `advance` may produce over all logits;
`CandidateState` adds softmax weights as integers and probabilities as rationals
with one denominator, `unit`: a level divides by the sum of its weights and by the
size of each group, so it makes the denominator that many times as large (`Split` is
a common multiple of the sizes), and nothing is rounded. A weight of zero is an
underflow of `exp`. A NaN or infinite logit makes every weight NaN:
no comparison with NaN holds, so `AdvanceUndefined` keeps the first token and a
probability of -1.0, and `finite` records that the mass is lost. A choice that is
a prefix of another wins when its tokens run out, as `advance` has it. Only the
rounding of doubles is left out.

### PcdEngine

`mem[s]` is the tokens sequence `s` holds; a token is named by the text it comes
from, so that a wrong prefix, a stale leftover or another field's suffix is
visible. What llama.cpp is assumed to do: outputs depend on the content of the
sequence up to the token; a checkpoint restores what was saved, or the restore is
rejected (and may have written part of it); `llama_decode` either writes the
batch or throws having written some of it.

A step is the code between two native calls that can fail: `Begin` (lookup,
compile, `ensure_fits`, first clear), `Reject` (any of these throws),
`RestoreHit | RestoreFallback | RestoreMiss`, `ColdStart` (second clear),
`Prefill` and `Dynamic` (one chunk each), `Save`, `Broadcast` (position check,
copies, queue of suffix tokens), `Flush` (one batch, its logits and advances),
`QueueLevel` (one pass of the tree loop up to its flush), `Assemble`, `Answer`,
and `Fail` (a native call throws). The inference mutex makes the engine serve one
request at a time, hence no interleaving here.

`ConstrainedDecode` knows no cache, memory or batch: fields advance on their own,
legally, and are settled by force only after `Limit` advances; the answer is for
all fields or none. `ImplementsConstrainedDecode` is the refinement, with the
fields' states shared and `answered` the phase after assembly. `TextAssumption`
says of the texts what the code ensures: no prefix is empty (`compile` refuses
one) and the dynamic part ends with `{` and a newline; `FieldsAssumption` that a
schema has fields, each with a suffix that has tokens and with choices.

The queue of `Broadcast` and of `QueueLevel` is one list per field (`SuffixBatch`,
`LevelBatch`), flattened in the order of the fields; `Extended` is what a batch, or
the part of it that was written, appends to a sequence. `Fits` and `FitsContext`
add up the cells of all fields with the library's `SumFunction`.

### ModelManager

A handler is a thread with a program counter; `held[t]` is its one `shared_ptr`,
`refs` the owner counts. Critical sections of the swap mutex only copy or move a
pointer, so each is one step; the load mutex and the inference mutexes are held
over several. `loads` numbers the engines; `Requests` bounds the requests of a
thread. A select may name an unknown model, its load may fail, a decode may throw:
all of these end in `reply`. `/v1/models` and a select's reply read the active id
(`named`) and then, separately, the active engine, whose `cache_stats` waits for a
decode: the two may be of different models. `MaxLoads` is derived from `Requests`
and never binds.

`ActiveModel` is the contract: a register that only later engines replace and
that a request reads, once or twice, as it is. The refinement maps `told` to what
the thread holds or has named (`Told`), so that a failed load changes nothing, an
older load never replaces a newer one, and a request never reads backwards.

### ModelCatalog, NativeText, LlamaRuntime, ModelLoading

`ModelCatalog` is `list` call by call: the iterator returns an entry with the type
it had, `file_size` asks the file system again, `weakly_canonical` once more, and
the one `error_code` of all calls is tested at the head of the loop. Between two
calls somebody adds, removes or replaces a file, `MaxChanges` times; `since`
records what bore each name during the scan. The system may fail a call for a
reason of its own, permissions or descriptors for instance, which `fault` records:
opening the directory (`OpenFails`: the early returns, or an iterator that is at
its end, and so an empty list), the calls on an entry (`EntryFails`: it is skipped,
and its error stays in `ec`), or the iterator's next step (`ScanThrows`).

`NativeText` is the protocol of a first call with a fixed buffer and a second with
the size that was asked for, for three kinds of functions of llama.cpp which are
external: they differ in what they write when the text does not fit and in
whether they count or write the final NUL.

`LlamaRuntime` is the constructor of that class, the rest of `PcdEngine`'s, and
the two destructors, one native call at a time, each of which may fail; `heap` is
what is allocated, `torn` the queries that ever came back wrong. `ModelLoading`
puts them together: one loader thread (the load mutex admits no second; the
catalog of `GET /v1/models` shares nothing with a load) and readers, which take,
use and leave the active engine. What threads do to each other's locks is the
subject of `ModelManager`, what a load does inside that of `ModelLoading`.

### SchemaText and DecodeRequest

A text is a sequence of bytes of a few kinds: plain, escaped by JSON, first or
second byte of a two-byte character, and one for the template marker. The common
prefix is the loop of `std::mismatch`, compared with the library's
`LongestCommonPrefix`. `json_escape` throws on half a character
(`EscapeThrows`), and that becomes `internal_error`.

A JSON value is a record with its kind and its text or items; `BodyAssumption` is
what the JSON library hands over: arrays are sequences, a string is a sequence of
`Byte`s, a boolean is labelled `true` or `false` (`WellFormed`). `LimitAssumption`
says that a field needs at least one choice. `DecodeRequest`
follows one request: `Refuse | Accept` (all of `parse_decode_request`),
`NoModel`, `Compile` and the four ways it fails, `DecodeFails`, `Answer` with
the objects of the response, where of two equal keys the last stays. Handlers
share nothing at this level, so one request per behaviour is enough;
`KeyDeterminesPrefix` compares it with every other request that would be
compiled. Tokenization is the model's: it may refuse any text, and the limit of
candidate tokens counts one token per byte.

### Server

The main thread's steps are the statements of `main` and of `start` and `stop`;
`install_shutdown_handler` sets `masked`, and a thread started before it would be
in `unmasked`. The HTTP library is external: clients may connect once the port is
bound, the listener accepts until the socket closes and then drains the queue of
the pool, and its `stop` does nothing to a server that does not run yet. That is
why `start` waits until it is ready: without that step `ShutdownEnds` fails.

### Playground

A step is the code between two awaits, or the server's work on a request.
Decodes, switches and refreshes are numbered as they begin. The Decode button is
disabled while its own decode runs, yet the key shortcut of the text area sends
another, and whichever ends first enables the button. The server reads the active
model for `/health` at its own moment; list and status line are written when both
requests of a refresh are answered, and a list that names no model, which the
directory may become at any time, disables the Switch button. The page is taken to be the only client that
switches models.

### Tetris

A turn is a chain of waits: `asking` (decode request), `moving` (animation),
`flashing` (full rows), `scheduled` (timer). `current[l]` records whether board
and piece are still those chain `l` chose a move for. Which move, where it lands
and how rows clear is left out; whether the next piece fits is open. A move that is
not current may reach below the last row with the piece of now: `place()` throws a
TypeError that nobody catches (`Throws`), and the chain ends with the board as it
was and `running` as it was.

## 3. The runs

| Run | Question | Bounds, and why they suffice |
|---|---|---|
| `schema_cache` | consistency, eviction, staleness | 3 keys, 2 entries, 3 bytes; entries of size 0, 1, 2 and 4: both limits bind, one put can evict 0, 1 or 2 entries or be refused; 2 failures disable |
| `candidate_state` | the tree and its mass | all lists of 1 to 3 distinct candidates out of 7 strings up to 3 tokens deep, prefixes of one another included; weights 0, 1 and 2 make ties, clear winners and underflows, and NaN comes at any level; `Split` = 6, for groups of one, two and three |
| `pcd_engine` | a whole decode, request after request | 3 schemas, 2 contexts, batch of 2, prefixes and contexts of one and more chunks; suffixes that straddle batches; a field that is forced, one with an exhausted choice; context filled exactly; a request that does not fit; checkpoints that evict each other |
| `model_manager` | use of engines, order of loads, what requests are told, locks | 3 threads, one request each (a third thread is needed for two loads and a reader), up to 4 engines |
| `decode_request` | texts, key, answer | all lists of 0 to 2 choices out of 13 values and of 3 out of 6 strings, among them quotes, backslashes and two-byte characters; names and descriptions of every valid and invalid kind, the marker included; pairs of fields |
| `server` | signals, shutdown | 3 clients and 2 workers: one is queued while both are busy; signals any number of times |
| `model_loading` | the scan, native objects, texts | 2 names and 2 changes: one name may be anything at first, and change while the other is inspected, and every call of the scan may fail; 2 engines: the second replaces the first; 2 readers: one leaves before, one after the swap; buffers of 3 and texts up to 5: shorter, equal, one longer, two longer |
| `playground` | overlapping requests of the page | 2 models, 3 decodes, 3 switches and so 4 refreshes: three of each kind overlap, and an older one may end between two newer ones |
| `tetris` | the game loop | 3 turns alive at once, animations of 1 or 2 steps; every turn that is not current may land, throw, stop or fail |

Three runs refute what a document of the repository says (`findings` in
`PROJECT.json`):

| Run | Document | Code |
|---|---|---|
| `character_prefix` | schema.hpp:41, the common *character* prefix | bytes are compared; choices such as `é` and `è` get a 500 |
| `tetris_moves` | README.md:227, the board is the context of the move | after pause and start (or reset and start) an older answer is played on another board |
| `scan_misses` | README.md:279 and model_catalog.hpp:22, every listing rescans the directory | a file that vanishes during the scan leaves its error behind, and the models after it are not listed |

Differences that reading the code shows and no run is spent on:

- *Engine.* The two failures that disable a key need not be consecutive, for a
  success never resets the count (README.md:400). `miss` is reported also when
  nothing is checkpointed, for a disabled key or a refused `put` (README.md:408).
  A field may report `max_tree_levels` + 1 levels, for the suffix pass comes
  before the bounded loop (README.md:348), and level 1 says that the winner's
  first token, not every choice's, is distinct (README.md:212). NaN logits end in
  a negative probability of the winner, or `null` in the JSON.
- *Requests.* More than 4096 candidate tokens give 422, not 400 (README.md:332);
  `[true, false]` is accepted (README.md:273). A body that is no valid UTF-8 is
  quoted in the parse error, whose own serialization throws: 500, not 400. The
  reply to a select may name the model of another (ui/openapi.json:54).
- *Catalog.* A listed name with a backslash cannot be selected, for `find` refuses
  it; a name that is no valid UTF-8 turns `GET /v1/models` into a 500. A directory
  that exists but cannot be opened is listed as an empty one (`model_catalog.cpp:31-38`):
  `GET /v1/models` answers 200 with no models, and `select` 404 `unknown_model`.
- *Pages.* A refresh that was under way enables the Switch button during a load;
  presets that arrive late overwrite what was typed. Pausing and resuming sends a
  second request for the same piece (README.md:227); a move left over from before a
  pause or a reset may throw in `place()` (`tetris.js:80`); and a piece with one legal
  placement sends a field of one choice, which validation refuses.

Deadlock is checked except where the system stops on its own: a resolved
candidate state, a manager whose threads have used up their requests, a request
that is answered, and a program that has exited.

### Fairness

- `CandidateState`: weak fairness of `Advance`; the engine calls it in a loop.
- `PcdEngine`: weak fairness of `Serve`, one thread running straight-line code.
  None for `Begin` and `Reject`: clients need not call.
- `ModelManager`: weak fairness of each thread's steps but loads, which may hang
  (`ReadersPassLoads`); `EveryRequestReplied` assumes that they end (`LoadsEnd`). A
  thread that waits for a mutex is enabled only while it is free, so under an
  endless stream of requests weak fairness would not be enough and the C++ mutex
  promises no more; requests are bounded (`Requests`), so a waiter is let in once
  the others are done. What is shown is the absence of deadlock and of waiting for
  a holder that does not release, not starvation-freedom of `std::mutex`.
- `ModelLoading`: weak fairness of the loader's steps, of the destructors and of
  readers that leave, which they do because decodes end. None for requests, new
  readers and changes of files.
- `Playground`: weak fairness of `Answers`: a request is answered or fails, and
  the code after its await runs. None for the user.
- `Server`: weak fairness of each thread and of each handler (decodes and loads
  end, see above). None for clients and signals.
- `Tetris`: weak fairness of every turn: requests are answered or fail, timers
  fire. None for the player.

## 4. The proofs

`SchemaCacheProofs.tla`, checked by TLAPS for every finite set of keys, every set
of entries, every size function and every pair of limits (`CacheAssumption`; of
the code it says that sizes and limits are naturals). Machine overflow of the
byte count upwards is not modelled: it is bounded by `max_bytes`, which fits a
`size_t`.

| Theorem | Statement |
|---|---|
| `TypeCorrect` | `Spec => []TypeOK`: in particular the byte count never wraps below zero |
| `ListAndMapAgree` | `Spec => []RecencyListsIndex` |
| `ExactBytes` | `Spec => []BytesAccounted` |
| `LimitsRespected` | `Spec => []WithinLimits` |
| `DisabledStaysOut` | `Spec => []DisabledNotCached` |
| `CacheIsLossyMap` | `HSpec => ImplementsLossyMap` |
| `EvictsOldestOnlyToFit` | `HSpec => PutEvictsOldestOnlyToFit` |

The argument. None of the invariants is inductive alone: the limits hold because
the byte count the loop tests is the exact one; subtracting the bytes of a
removed or evicted key keeps it exact only if that key is listed, once, and has
an entry; a disabled key stays out because failure and removal are one step. So
the inductive invariant `IInv` is the conjunction of all five. The lemmas are of
two kinds: lists of distinct keys (taking one out, putting one in front, cutting
the list in two: `WithoutKeyFacts`, `PushFrontFacts`, `CutFacts`) and sums of
bytes over disjoint sets (`BytesAdd`, `BytesOfOne`, `BytesSame`). `GetKeeps`,
`StoreKeeps` and `RemoveNodeKeeps` treat the calls. In `StoreKeeps` the loop ends
with room or with the empty list, where the entry fits alone because `put` did
not refuse it.

The refinement adds `HoldsLatest`: each cached entry is the last one accepted for
its key. Then every call is a step of `LossyMap` or changes nothing it has.

The order of eviction adds `Ordered`: of two keys of the list, the one further back
is recorded in `older` as used before the other. A `get` or a `put` moves its key
to the front and makes every other cached key older than it (`UsedOrder`); taking
a key out keeps the order of the rest (`WithoutKeyOrder`). A put cuts the list at
one place, so what it drops was used before everything it keeps, and the place is
the last one that leaves room.

`ServerProofs.tla` proves, for every set of clients and size of the pool:

| Theorem | Statement |
|---|---|
| `CleanExit` | `Spec => []NobodyOutlivesTheManager` |
| `OrderlyStop` | `Spec => []SignalsNeverKill` |
| `NoStopIsLost` | `Spec => []StopReachesTheListener`: what main stops is running, what it joins was told to end |

That main returns only after the join says nothing of workers by itself: the
invariant needs that requests wait or run only between the listener's first
accept and its end (`PoolIdle`), that the thread exists only from `Launch` on and
has ended once joined (`ListenerFollowsMain`), and that the mask precedes every
other thread and the socket (`MaskComesFirst`). A `stop` of a server that is not
running yet does nothing, and the join after it would wait for ever; `start` waits
until the server is ready, and `NoStopIsLost` says that this is enough.

`CandidateProofs.tla`, for every list of candidates and every set of weights
(`StateAssumption`: tokens and weights are naturals, no field is without choices,
and `Split`, the model's, is divided by every size a group may have):

| Theorem | Statement |
|---|---|
| `PathIsFollowed` | `Spec => []CandidatesFollowPath` |
| `OutIsFinal` | `Spec => EliminatedIsFinal` |
| `EveryCallDecides` | each call finishes the field or goes one level deeper, within the tokens of whoever stays live |
| `MassIsConserved` | `Spec => []MassConserved` |

The invariant `Grown` is that the live candidates are exactly those that begin with
the `levels` tokens of the path, at least two while the field is open, and that a
settled field's winner does. Weights and NaN decide only which of the outcomes of
`Advanced` comes, so it is proved of all outcomes. The winner is a `CHOOSE` of the
best of a finite set; that one exists is proved by the well-foundedness of strict
inclusion of finite sets (`BestExists`).

That no mass is lost needs more than the sum: nothing is negative, and who is live
has nothing yet (`Whole`, inductive together with `IInv`). A level that scores
(`LevelSum`) multiplies what the losers of earlier levels have by the new
denominator; the live candidates are summed by groups (`TotalsGrouped`), where the
equal parts of a group make up the share of its token (`TotalsConstant`), and the
shares of the tokens, the winner's included, make up the denominator. When the
level leaves one candidate, `finish` adds the kept mass to a share that was zero
(`SumExcept`); `force_resolve` writes the winner's share twice, and the live ones
together are what was live (`EvenSum`). `OutIsFinal` compares fractions, since the
denominator grows.

`PcdEngineProofs.tla`, for all schemas, contexts, batch and context sizes, cache
limits and sequences of native failures:

| Theorem | Statement |
|---|---|
| `PrefixStaysExact` | `Spec => []PrefixIsExact` |
| `PassesAreCounted` | `Spec => []ForwardPassesExact` |
| `EngineKeepsCache` | the cache keeps the invariant `IInv` of SchemaCacheProofs |
| `ScoringInvariance` | `Spec => []SInv`, the invariant behind the next four |
| `PositionsAlwaysContinue` | `Spec => []PositionsContinue` |
| `ContextIsNeverExceeded` | `Spec => []FitsContext` |
| `FieldsReadTheirOwnLogits` | `Spec => ScoredOnOwnPath` |
| `EngineImplementsDecode` | `Spec => ImplementsConstrainedDecode` |
| `OwnChecksNeverFail` | `Spec => []OwnChecksHold`: none of the engine's internal errors is ever thrown |
| `EveryStepIsProgress` | every step of a decode decreases `Remaining`, in a well-founded order (`BeforeWellFounded`) |
| `CallsFitContext` | `Spec => []CallsBounded`: no more native calls than cells of the context |

The assumptions are those of `PcdEngine.tla`; one of them, that a field has two
choices or more (`ChoicesAssumption`), is the `min_choices` of
`include/pcd/types.hpp:14`, which the validation enforces. It is what makes every
field open when the scoring begins.

There are two inductive invariants. `EInv` is about sequence 0 and the cache. The
theorems about the cache are instantiated for the engine's (`CP`), and its steps
shown to be calls of the cache. `EInv` adds what each phase may rely on: what
sequence 0 holds, that every cached entry is the prefix of its key, and that the
calls so far are the chunks of what is in memory, which for a whole text is the
ceiling that the metric computes. A failed restore is where it matters: the memory
may then hold anything until the second clear.

`SInv` is about the fields. The four properties concern one batch, one read of
logits, or one sum; none says where a field *is* between two batches that cut
its tokens apart. `FieldHolds` does. A field that has tokens in the queue holds a
front part of its path (prefix, context, suffix, consumed tokens), the queue holds
the rest in order, each token for its position and the last one alone with
logits, and it has consumed one token in each pass before this one. A field with
none in the queue holds its path but for the token it read last; resolved fields
are left alone. A batch may end anywhere in this (`Extended` of a front part of the
queue), and a native failure too. `MemInv` says that what the sequences hold was
counted: a field's path is never longer than `FieldNeed` allows, for the levels are
bounded by `max_tree_levels` and, since a live candidate continues the path, by the
deepest choice; in the state `idle` this holds for the request that left the memory
as it is. Hence `FitsContext`, a sum below a sum. The logits that `ScoredOnOwnPath`
speaks of are those of the last token of the path, and every advance, being one of
`Advanced`, is a step of `ConstrainedDecode`.

Three more theorems follow from these invariants. `OwnChecksNeverFail` adds that
queued tokens belong to open fields (`QueuedOpen`): a level queues only those, and a
field is advanced when its last queued token is decoded, not before.
`EveryStepIsProgress` orders states by the phases that are still ahead, then by what
is left of the text or of the tree levels, then by the queue: a failed restore goes
on to a later phase, a batch shortens the queue, and an empty queue starts the next
level or ends the phase. That the order has no infinite descent is proved, not
assumed. `CallsFitContext` pays every call with a cell: a chunk and a batch each add
at least one token that stays until the request ends, so that the calls are no more
than the tokens in memory, and these no more than `ensure_fits` let through.

`ModelManagerProofs.tla`, for any number of threads and requests:

| Theorem | Statement |
|---|---|
| `NoUseAfterFree` | `Spec => []UsedEnginesLive` |
| `SelectIsAnswered` | `Spec => []SelectFindsAnActiveModel` |
| `ManagerIsARegister` | `Spec => ImplementsActiveModel` |
| `NobodyWaitsInCircles` | `Spec => []WaitsAreShort`: who is waited for waits for nobody |

`RefsExact` says that a count is the number of owners, `OnlyWhereHeld` where in a
handler a thread owns an engine, `LoadsAlternate` that whoever holds the load
mutex has built something newer than what is active. The last makes the swap a
step of the register. For `NobodyWaitsInCircles` the converse is needed, that the
load mutex has an owner only inside `load` (`LoadOwned`), a load that throws
included; inside a critical section no handler takes another mutex.

`ModelLoadingProofs.tla`, for every directory, any number of changes, engines and
readers, every size of buffer and every length of text:

| Theorem | Statement |
|---|---|
| `ListsAreSound` | `Spec => []ListIsOfTheScan` |
| `NativesAreOwned` | `Spec => []NativesFollowOwners` |
| `TextsComeBackWhole` | `Spec => []TextsAreWhole` |

`ScanInv`: what has borne a name only grows during a scan, a listed name was a
regular file in it, and an error is left behind only by a model that came or
went or by a call that the system failed (`fault`), in which case the theorem
promises no present model: only that what is listed was there. `OwnerInv`: the heap is what the stage of each engine says, an engine that
somebody can use is built, and there is room for the load under way.

`DecodeRequestProofs.tla`, for all bodies and all bounds of the validation:

| Theorem | Statement |
|---|---|
| `AnswersAreWhole` | `Spec => []AnswerKeepsEveryEntry` |
| `OneKeyOnePrefix` | `Spec => []KeyDeterminesPrefix` |
| `PrefixIsThePrompt` | `Spec => []PrefixHoldsThePrompt` |
| `PrefixIsLongest` | `Spec => []PrefixIsLongestCommon` |
| `TextsSpellMembers` | `Spec => []TextsSpellTheMember` |
| `TextsDiffer` | `Spec => []NoTextBeginsAnother` |

The invariant `RInv` ties the handler's state to the body: what is compiled passed
the validation, what is decoded has the key and the prefix of its own fields, and an
answer is made from them. Validation makes names and labels distinct, and an object
whose keys are distinct loses nothing (`AnswersAreWhole`).

The texts are self-delimiting. `json_escape` writes each byte as a word of its own,
and none of these words begins as the closing quote does. So a quoted text can be
read back from the left, whatever follows it; so can a list of quoted texts with
commas, a field, and the whole key, which is therefore injective (`KeysDiffer`):
two requests with one key have the same fields and with them the same prefix. The
same fact keeps one candidate's text from beginning another's, and lets the marker
be counted: the prompt's own texts have none, so that a prompt with exactly one
ends at the user's. `common_prefix` is a fold; `Loops` unrolls it to the loop of
the code, whose intermediate result is the longest prefix shared by the choices
seen so far.

`PlaygroundProofs.tla` proves `PageShowsTheNewest`, `Spec => []AtRestTheNewestShows`,
for any number of requests: every switch that ends begins a refresh, so that while
none is under way the newest refresh has read, or will read, the active model
(`NewestRefreshIsTrue`); the mark of the decode that ended last is removed only by a
later one (`LastDecodeShows`). `BusyButtonsAreWaiting`, `Spec => []BusyMeansUnderWay`,
says that a button is busy, or the Switch button disabled with models to choose
from, only while some request is under way.

Lists and sums. `FlattenSeq`, `SumFunction` and `FoldLeft` are recursive functions
of the library, and the induction theorems, which take an operator, cannot be used
here. What the proofs need of these three (a list that is flattened in front, a sum
over a set with one element more, a loop unrolled) is shown by the least
counterexample instead: the lengths or sizes for which a fact fails form a set of
naturals; if it is not empty it has a least element (`Least`, from `WFMin` and
`NatLessThanWellFounded`), and one step below that the fact holds, which one
unfolding of the definition contradicts. `CandidateProofs` does so with a minimal set
(`MinimalSet`): `TotalsUnique` says that whatever grows with a set as a sum does is
the sum, and each fact about sums is one instance of it.

Only model-checked:

- liveness (fairness and ENABLED are beyond the prover): every property of a run
  that needs the fairness of the section above. For most of them a part that is
  not about fairness is proved: that steps cannot go on for ever
  (`EveryStepIsProgress` for `EveryRequestEnds`, `EveryCallDecides` for
  `EventuallyResolved`), that nobody waits in circles (`NobodyWaitsInCircles` for
  `EveryRequestReplied` and `ReadersPassLoads`), that what main waits for was told
  to end (`NoStopIsLost` for `ShutdownEnds`), and that what a button waits for is
  under way (`BusyButtonsAreWaiting` for `ButtonsComeBack`). That the steps are
  taken, and in the end lead there, stays with TLC;
- Tetris, a finite system but for its bounds: `RunningIsPlayed`, that of the chains
  alive one is scheduled or has a current move, and `PlayGoesOn`, which needs that
  and fairness: chains whose moves are not current may stop, fail or throw;
- what the three refuting runs show.

Assumed, of code that is not here: what the three kinds of functions in
`NativeText` write and return, what `mem` and checkpoints are said to do in
`PcdEngine`, and the HTTP library as `Server` has it.

## 5. What is not modelled

- Static assets, route errors and the body limit of the HTTP server. Of the
  playground, the form, the samples and the rendering; of Tetris, the placement
  search and the drawing.
- Inside llama.cpp: tokens, chat templates, the reading of a model file, logits
  and the KV cache; the HTTP library beyond what `Server` says of it; JSON text.
- File sizes and the order of a model list.
- The benchmark, a sequential loop over `decode` without state of its own; timing
  metrics, log lines, layout, packaging and CI.
- Rounding of doubles; more than one thread inside `PcdEngine`, which the inference
  mutex, held from the first to the last line of `decode`, excludes.

## 6. Plan

1. *(done)* SchemaCache with contract and proofs; CandidateState; PcdEngine with
   its contract; ModelManager; SchemaText and DecodeRequest; Server with proofs;
   Tetris.
2. *(done)* ActiveModel, the register that ModelManager implements; ModelCatalog,
   NativeText, LlamaRuntime and ModelLoading; Playground; logits that are no
   numbers in CandidateState.
3. *(done)* Proofs about the tree, the engine (prefix, positions, budget, logits
   and the refinement of its contract), the cache (with its order of eviction), the
   manager, loading, the texts and keys of a request, and the playground; the
   probabilities as exact rationals, and their sum; the engine's own checks, the
   measure and the number of its calls; who waits for whom.
4. Open: several threads that share one `PcdEngine`, so that the inference mutex is
   justified by a run and not only by its definition; the placement search of Tetris
   against a reference; route errors and the body limit.

## 7. Running

    tlc -config MCSchemaCache.cfg MCSchemaCache
    for m in SchemaCache Candidate PcdEngine ModelManager ModelLoading \
             DecodeRequest Playground Server; do tlapm ${m}Proofs.tla; done

Each configuration is run with the module named in `PROJECT.json`; every run ends
within two minutes. The proofs of PcdEngine take about five minutes, the
others one or less.
