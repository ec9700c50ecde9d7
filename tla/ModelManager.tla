----------------------------- MODULE ModelManager -----------------------------
(***************************************************************************)
(* The active engine and the requests that share it: ModelManager          *)
(* (src/src/model_manager.cpp), called by the route handlers of HttpServer *)
(* (src/src/http/http_server.cpp), each on a worker thread.                *)
(*                                                                         *)
(* Engines are numbered by the order in which their construction ended;    *)
(* 0 is the null shared_ptr.  A thread has at most one shared_ptr local at *)
(* a time, held[t]; refs counts the owners of an engine, and an engine     *)
(* whose count is back to 0 is destroyed.  The critical sections of the    *)
(* swap mutex copy or move one pointer and never block, so each is one     *)
(* step; the load mutex and every engine's inference mutex are held across *)
(* steps.                                                                  *)
(*                                                                         *)
(* Operators named X_Y are mistaken variants of X that only show that some *)
(* property tells X from X_Y.                                              *)
(***************************************************************************)
EXTENDS Integers, FiniteSets

CONSTANTS
  Thread,    \* worker threads of the server
  Requests,  \* requests each thread serves (bound)
  Nobody     \* no thread

ASSUME ManagerAssumption ==
  /\ IsFiniteSet(Thread)
  /\ Requests \in Nat
  /\ Nobody \notin Thread

\* Every request constructs at most one engine; one more may exist at startup.
MaxLoads == 1 + Requests * Cardinality(Thread)
Engine == 1 .. MaxLoads

Route == {"health", "models", "select", "decode"}

VARIABLES
  engine,     \* engine_: the active engine
  loads,      \* engines constructed so far
  refs,       \* engine -> owners of its shared_ptr
  loadLock,   \* owner of load_mutex_
  inference,  \* engine -> owner of its inference_mutex_
  pc,         \* thread -> next step of its handler
  route,      \* thread -> the route it serves
  held,       \* thread -> its shared_ptr local
  named,      \* thread -> the engine whose id active_id() gave the handler
  left        \* thread -> requests still to come

vars == <<engine, loads, refs, loadLock, inference,
          pc, route, held, named, left>>

Init ==
  /\ loads \in {0, 1}
  /\ engine = loads
  /\ refs = [e \in Engine |-> IF e = engine THEN 1 ELSE 0]
  /\ loadLock = Nobody
  /\ inference = [e \in Engine |-> Nobody]
  /\ pc = [t \in Thread |-> "idle"]
  /\ route = [t \in Thread |-> "health"]
  /\ held = [t \in Thread |-> 0]
  /\ named = [t \in Thread |-> 0]
  /\ left = [t \in Thread |-> Requests]

-----------------------------------------------------------------------------
Goto(t, step) == pc' = [pc EXCEPT ![t] = step]

\* active(): copy the shared_ptr under the shared lock.
TakeActive_AfterLoads(t) ==
  /\ loadLock = Nobody
  /\ held' = [held EXCEPT ![t] = engine]
  /\ refs' = IF engine = 0 THEN refs ELSE [refs EXCEPT ![engine] = @ + 1]

TakeActive(t) ==
  /\ held' = [held EXCEPT ![t] = engine]
  /\ refs' = IF engine = 0 THEN refs ELSE [refs EXCEPT ![engine] = @ + 1]

\* A local shared_ptr goes out of scope; the last one destroys the engine.
Drop(t) ==
  /\ held' = [held EXCEPT ![t] = 0]
  /\ refs' = IF held[t] = 0 THEN refs ELSE [refs EXCEPT ![held[t]] = @ - 1]

\* A request arrives at an idle worker.
Receive(t, r) ==
  /\ pc[t] = "idle"
  /\ left[t] > 0
  /\ left' = [left EXCEPT ![t] = @ - 1]
  /\ route' = [route EXCEPT ![t] = r]
  /\ Goto(t, CASE r = "select" -> "find" [] r = "models" -> "name" [] OTHER -> "take")
  /\ UNCHANGED <<engine, loads, refs, loadLock, inference, held, named>>

\* The reply is on its way: 200, or the error of the exception that was thrown.
Reply(t) ==
  /\ pc[t] = "reply"
  /\ Goto(t, "idle")
  /\ UNCHANGED <<engine, loads, refs, loadLock, inference, route,
                 held, named, left>>

\* select: the catalog is searched before load_mutex_ is taken.
Find(t) ==
  /\ pc[t] = "find"
  /\ Goto(t, "lock") \/ Goto(t, "reply")
  /\ UNCHANGED <<engine, loads, refs, loadLock, inference, route,
                 held, named, left>>

LoadFree == loadLock = Nobody

LockLoad(t) ==
  /\ pc[t] = "lock"
  /\ LoadFree
  /\ loadLock' = t
  /\ Goto(t, "construct")
  /\ UNCHANGED <<engine, loads, refs, inference, route, held, named, left>>

\* make_shared<PcdEngine>: a new engine owned by the thread alone.  The bound
\* never binds: a request constructs at most one.
Construct(t) ==
  /\ pc[t] = "construct"
  /\ loads < MaxLoads
  /\ loads' = loads + 1
  /\ refs' = [refs EXCEPT ![loads + 1] = 1]
  /\ held' = [held EXCEPT ![t] = loads + 1]
  /\ Goto(t, "swap")
  /\ UNCHANGED <<engine, loadLock, inference, route, named, left>>

ConstructFails_Unloading(t) ==
  /\ pc[t] = "construct"
  /\ loadLock' = Nobody
  /\ engine' = 0
  /\ refs' = IF engine = 0 THEN refs ELSE [refs EXCEPT ![engine] = @ - 1]
  /\ Goto(t, "reply")
  /\ UNCHANGED <<loads, inference, route, held, named, left>>

ConstructFails_Locked(t) ==
  /\ pc[t] = "construct"
  /\ Goto(t, "reply")
  /\ UNCHANGED <<engine, loads, refs, loadLock, inference, route, held,
                 named, left>>

\* The constructor throws: the lock_guard is released, nothing else changed.
ConstructFails(t) ==
  /\ pc[t] = "construct"
  /\ loadLock' = Nobody
  /\ Goto(t, "reply")
  /\ UNCHANGED <<engine, loads, refs, inference, route, held, named, left>>

\* replace: the two moves under the exclusive lock; the thread now owns what
\* was active before.
Swap(t) ==
  /\ pc[t] = "swap"
  /\ engine' = held[t]
  /\ held' = [held EXCEPT ![t] = engine]
  /\ Goto(t, "retire")
  /\ UNCHANGED <<loads, refs, loadLock, inference, route, named, left>>

Retire_Unloading(t) ==
  /\ pc[t] = "retire"
  /\ held' = [held EXCEPT ![t] = 0]
  /\ refs' = IF held[t] = 0 THEN refs ELSE [refs EXCEPT ![held[t]] = 0]
  /\ Goto(t, "unlock")
  /\ UNCHANGED <<engine, loads, loadLock, inference, route, named, left>>

\* previous goes out of scope in replace, load_mutex_ still held.
Retire(t) ==
  /\ pc[t] = "retire"
  /\ Drop(t)
  /\ Goto(t, "unlock")
  /\ UNCHANGED <<engine, loads, loadLock, inference, route, named, left>>

UnlockLoad(t) ==
  /\ pc[t] = "unlock"
  /\ loadLock' = Nobody
  /\ Goto(t, "name")
  /\ UNCHANGED <<engine, loads, refs, inference, route, held, named, left>>

\* active_id(): active(), then the engine's id, then the copy is dropped.
Name(t) ==
  /\ pc[t] = "name"
  /\ TakeActive(t)
  /\ Goto(t, "named")
  /\ UNCHANGED <<engine, loads, loadLock, inference, route, named, left>>

Named(t) ==
  /\ pc[t] = "named"
  /\ named' = [named EXCEPT ![t] = held[t]]
  /\ Drop(t)
  /\ Goto(t, "take")
  /\ UNCHANGED <<engine, loads, loadLock, inference, route, left>>

\* active(), for the health body, the engine summary or the decode; without
\* an engine the reply follows (NoModelLoaded, or a null summary).
Take(t) ==
  /\ pc[t] = "take"
  /\ TakeActive(t)
  /\ named' = [named EXCEPT ![t] = 0]
  /\ Goto(t, IF engine = 0 THEN "reply" ELSE IF route[t] = "health" THEN "drop" ELSE "wait")
  /\ UNCHANGED <<engine, loads, loadLock, inference, route, left>>

\* decode and cache_stats hold the engine's inference mutex.
LockInference(t) ==
  /\ pc[t] = "wait"
  /\ inference[held[t]] = Nobody
  /\ inference' = [inference EXCEPT ![held[t]] = t]
  /\ Goto(t, "run")
  /\ UNCHANGED <<engine, loads, refs, loadLock, route, held, named, left>>

\* decode or cache_stats returns or throws.
UnlockInference(t) ==
  /\ pc[t] = "run"
  /\ inference' = [inference EXCEPT ![held[t]] = Nobody]
  /\ Goto(t, "drop")
  /\ UNCHANGED <<engine, loads, refs, loadLock, route, held, named, left>>

Leave(t) ==
  /\ pc[t] = "drop"
  /\ Drop(t)
  /\ Goto(t, "reply")
  /\ UNCHANGED <<engine, loads, loadLock, inference, route, named, left>>

Load(t) == Construct(t) \/ ConstructFails(t)

Step(t) ==
  \/ Find(t) \/ LockLoad(t) \/ Swap(t) \/ Retire(t) \/ UnlockLoad(t)
  \/ Name(t) \/ Named(t) \/ Take(t)
  \/ LockInference(t) \/ UnlockInference(t) \/ Leave(t) \/ Reply(t)

Next ==
  \E t \in Thread :
    \/ \E r \in Route : Receive(t, r)
    \/ Load(t)
    \/ Step(t)

Spec == Init /\ [][Next]_vars

\* Every thread that can run does run, but a load may take for ever.
FairSpec == Spec /\ \A t \in Thread : WF_vars(Step(t))

LoadsEnd == \A t \in Thread : WF_vars(Load(t))

-----------------------------------------------------------------------------
Steps == {"idle", "reply", "find", "lock", "construct", "swap", "retire", "unlock",
          "name", "named", "take", "wait", "run", "drop"}

TypeOK ==
  /\ engine \in 0 .. MaxLoads
  /\ loads \in 0 .. MaxLoads
  /\ refs \in [Engine -> Nat]
  /\ loadLock \in Thread \cup {Nobody}
  /\ inference \in [Engine -> Thread \cup {Nobody}]
  /\ pc \in [Thread -> Steps]
  /\ route \in [Thread -> Route]
  /\ held \in [Thread -> 0 .. MaxLoads]
  /\ named \in [Thread -> 0 .. MaxLoads]
  /\ left \in [Thread -> 0 .. Requests]

\* No thread runs on, waits for, or is about to activate a destroyed engine.
UsedEnginesLive ==
  /\ engine # 0 => refs[engine] > 0
  /\ \A t \in Thread : held[t] # 0 => refs[held[t]] > 0
  /\ \A e \in Engine : inference[e] # Nobody => refs[e] > 0

\* select dereferences active_id() without a check: some engine is active.
SelectFindsAnActiveModel ==
  \A t \in Thread : route[t] = "select" /\ pc[t] = "named" => held[t] # 0

\* What the request of t was last told: the engine it holds, or the one whose
\* id it has read, while it goes on to read the engine itself.
Told(t) ==
  CASE pc[t] \in {"named", "wait", "run", "drop"} -> held[t]
    [] pc[t] = "take" -> named[t]
    [] OTHER -> 0

\* The manager is a register: once a model is active there is always one,
\* whatever fails to load; loads take effect in the order in which they were
\* made; and a handler that reads twice (GET /v1/models, the reply of a select)
\* is never told of an older engine the second time.
Register == INSTANCE ActiveModel WITH active <- engine, told <- [t \in Thread |-> Told(t)]
ImplementsActiveModel == Register!Spec

\* If loads end, every request is replied to: no order of the load, the swap
\* and the inference locks leaves a handler waiting for ever.
EveryRequestReplied ==
  LoadsEnd => \A t \in Thread : pc[t] # "idle" ~> pc[t] = "idle"

\* model_manager.cpp:19, "readers keep decoding on the current engine": a
\* decode ends even while a load does not.
ReadersPassLoads ==
  \A t \in Thread : (pc[t] # "idle" /\ route[t] # "select") ~> pc[t] = "idle"
=============================================================================
