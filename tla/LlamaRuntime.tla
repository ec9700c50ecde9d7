----------------------------- MODULE LlamaRuntime -----------------------------
(***************************************************************************)
(* The native objects of LlamaRuntime (src/src/engine/llama_runtime.cpp)   *)
(* and the constructor of PcdEngine that follows it: a model, a context    *)
(* made from it and a batch, allocated one after the other, any of which   *)
(* may fail, and freed in the opposite order.  What the context's memory   *)
(* holds is in module PcdEngine.                                           *)
(*                                                                         *)
(* An exception in LlamaRuntime's constructor runs no destructor; one in   *)
(* PcdEngine's runs that of the member runtime_.                           *)
(*                                                                         *)
(* Operators named X_Y are mistaken variants of X that only show that some *)
(* property tells X from X_Y.                                              *)
(***************************************************************************)
EXTENDS NativeText

CONSTANTS
  MaxEngines,  \* engines constructed over a behaviour (bound)
  Room,        \* the size of the first buffer of each query
  MaxText      \* the length of the longest text (bound)

ASSUME RuntimeAssumption ==
  /\ MaxEngines \in Nat \ {0}
  /\ Room \in Nat \ {0}
  /\ MaxText \in Nat
  /\ \A n \in 0 .. MaxText : Unsupported # [i \in 1 .. n |-> i]

Engine == 1 .. MaxEngines
Part == {"model", "context", "batch"}
Query == {"tokens", "piece", "chat", "metadata", "description"}

VARIABLES
  heap,   \* the native objects that exist: <<part, engine>>
  stage,  \* engine -> how far its constructor or destructor has come
  torn    \* queries that ever returned something else than they should (history)

runtimeVars == <<heap, stage, torn>>

RuntimeInit == heap = {} /\ stage = [e \in Engine |-> "unborn"] /\ torn = {}

Goto(e, next) == stage' = [stage EXCEPT ![e] = next] /\ UNCHANGED torn

Allocate(e, part, next) == heap' = heap \cup {<<part, e>>} /\ Goto(e, next)
Free(e, part, next) == heap' = heap \ {<<part, e>>} /\ Goto(e, next)

\* llama_model_load_from_file
LoadModel(e) == stage[e] = "unborn" /\ Allocate(e, "model", "model")
LoadModelFails(e) == stage[e] = "unborn" /\ Goto(e, "gone") /\ UNCHANGED heap

\* llama_init_from_model
CreateContext(e) == stage[e] = "model" /\ Allocate(e, "context", "context")

CreateContextFails_Leaking(e) == stage[e] = "model" /\ Goto(e, "gone") /\ UNCHANGED heap

\* Nobody else would free the model: the constructor does before it throws.
CreateContextFails(e) == stage[e] = "model" /\ Free(e, "model", "gone")

\* llama_batch_init
InitBatch(e) == stage[e] = "context" /\ Allocate(e, "batch", "batch")

\* The rest of PcdEngine's constructor: fingerprint, description, template.
Describe(e) == stage[e] = "batch" /\ Goto(e, "built") /\ UNCHANGED heap
DescribeThrows(e) == stage[e] = "batch" /\ Goto(e, "freeing batch") /\ UNCHANGED heap

\* ~LlamaRuntime, begun by the owner of the engine.
FreeBatch(e) == stage[e] = "freeing batch" /\ Free(e, "batch", "freeing context")
FreeContext(e) == stage[e] = "freeing context" /\ Free(e, "context", "freeing model")
FreeModel(e) == stage[e] = "freeing model" /\ Free(e, "model", "gone")

\* What a query may be about: a text of any length around Room, or none.
Texts(query) ==
  {[i \in 1 .. n |-> i] : n \in 0 .. MaxText}
    \cup (IF query \in {"chat", "metadata"} THEN {Unsupported} ELSE {})

Misread ==
  {query \in Query :
     \E text \in Texts(query) : Returned(query, text, Room) # Whole(query, text, Room)}

\* A user of engine e asks for its texts.
Ask(e) ==
  /\ stage[e] = "built"
  /\ torn' = torn \cup Misread
  /\ UNCHANGED <<heap, stage>>

ConstructStep(e) ==
  \/ LoadModel(e) \/ CreateContext(e) \/ InitBatch(e) \/ Describe(e)
  \/ LoadModelFails(e) \/ CreateContextFails(e) \/ DescribeThrows(e)

DestroyStep(e) == FreeBatch(e) \/ FreeContext(e) \/ FreeModel(e)

-----------------------------------------------------------------------------
\* An engine that was not built, or was destroyed, owns no native object, on
\* every path of failure; no context outlives the model it was made from; and
\* nothing is freed while a thread may use it.
NativesOwned(used) ==
  /\ \A e \in Engine : stage[e] \in {"unborn", "gone"} => heap \cap (Part \X {e}) = {}
  /\ \A e \in Engine : <<"context", e>> \in heap => <<"model", e>> \in heap
  /\ \A e \in used : Part \X {e} \subseteq heap

\* Every text comes back whole, whatever its length and the size of the buffer
\* first offered; a description is cut to the characters that were written.
TextsAreWhole == torn = {}
=============================================================================
