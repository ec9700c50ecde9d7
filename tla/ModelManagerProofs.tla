-------------------------- MODULE ModelManagerProofs --------------------------
(***************************************************************************)
(* For every set of worker threads and every number of requests: no thread *)
(* uses a destroyed engine, a select finds an active one, the manager      *)
(* implements the register of module ActiveModel, and who is waited for    *)
(* waits for nobody.                                                       *)
(***************************************************************************)
EXTENDS ModelManager, FiniteSetTheorems, TLAPS

\* The shared_ptrs to engine e: those of threads, and engine_ itself.
Holders(e) == {t \in Thread : held[t] = e}
Owners(e) == Holders(e) \cup (IF engine = e THEN {Nobody} ELSE {})

\* An engine's count is the number of its owners.
RefsExact == \A e \in Engine : refs[e] = Cardinality(Owners(e))

\* Engines are numbered as they come.
Numbered ==
  /\ engine <= loads
  /\ \A t \in Thread : held[t] <= loads

\* A thread has a shared_ptr, or has read an id, only where the code has one.
OnlyWhereHeld ==
  \A t \in Thread :
    /\ pc[t] \notin {"swap", "retire", "named", "wait", "run", "drop"} => held[t] = 0
    /\ pc[t] \in {"swap", "wait", "run"} => held[t] # 0
    /\ pc[t] # "take" => named[t] = 0

\* load_mutex_ admits one thread, so what it has built is newer than what is
\* active when it swaps.
LoadsAlternate ==
  \A t \in Thread :
    /\ pc[t] \in {"construct", "swap", "retire", "unlock"} => loadLock = t
    /\ pc[t] = "swap" => engine < held[t]

\* An inference mutex is held by a thread that holds the engine.
InferenceOnHeld ==
  \A e \in Engine :
    inference[e] # Nobody =>
      /\ inference[e] \in Thread
      /\ pc[inference[e]] = "run"
      /\ held[inference[e]] = e

\* After its swap a select finds an engine, for nothing unloads one.
SelectedIsActive ==
  \A t \in Thread :
    /\ pc[t] \in {"retire", "unlock"} => engine # 0
    /\ route[t] = "select" /\ pc[t] \in {"name", "named"} => engine # 0
    /\ route[t] = "select" /\ pc[t] = "named" => held[t] # 0

Control ==
  /\ TypeOK
  /\ Numbered
  /\ OnlyWhereHeld
  /\ LoadsAlternate
  /\ InferenceOnHeld
  /\ SelectedIsActive

IInv == Control /\ RefsExact
-----------------------------------------------------------------------------
(* Control: where threads are, what they hold, who owns which lock.        *)

\* The engines are finitely many.
LEMMA LoadsCountable == MaxLoads \in Nat
  BY ManagerAssumption, FS_CardinalityType DEF MaxLoads

\* Nobody has received a request yet.
LEMMA ControlInit == Init => Control
  BY ManagerAssumption, FS_CardinalityType, FS_EmptySet
  DEF Init, Control, TypeOK, Numbered, OnlyWhereHeld, LoadsAlternate, InferenceOnHeld,
      SelectedIsActive, Engine, MaxLoads, Route, Steps

\* The steps that neither take nor load an engine.
LEMMA ControlKept ==
  ASSUME Control, NEW t \in Thread,
         \/ \E r \in Route : Receive(t, r)
         \/ Reply(t) \/ Find(t) \/ LockLoad(t) \/ ConstructFails(t) \/ UnlockLoad(t)
  PROVE  Control'
<1> USE ManagerAssumption DEF Control, TypeOK, Numbered, OnlyWhereHeld, LoadsAlternate,
        InferenceOnHeld, SelectedIsActive, Goto, Steps
<1>1. ASSUME NEW r \in Route, Receive(t, r) PROVE Control'
  BY <1>1 DEF Receive, Route
<1>2. CASE Reply(t)
  BY <1>2 DEF Reply
<1>3. CASE Find(t)
  BY <1>3 DEF Find
<1>4. CASE LockLoad(t)
  BY <1>4 DEF LockLoad, LoadFree
<1>5. CASE ConstructFails(t)
  BY <1>5 DEF ConstructFails
<1>6. CASE UnlockLoad(t)
  BY <1>6 DEF UnlockLoad
<1> QED  BY <1>1, <1>2, <1>3, <1>4, <1>5, <1>6

\* The type of the counts is left to RefsExact: they are cardinalities.
LEMMA ControlOwning ==
  ASSUME Control, refs' \in [Engine -> Nat], NEW t \in Thread,
         \/ Construct(t) \/ Swap(t) \/ Retire(t) \/ Name(t) \/ Named(t) \/ Take(t)
         \/ LockInference(t) \/ UnlockInference(t) \/ Leave(t)
  PROVE  Control'
<1> USE ManagerAssumption DEF Control, TypeOK, Numbered, OnlyWhereHeld, LoadsAlternate,
        InferenceOnHeld, SelectedIsActive, Goto, Steps
<1>1. CASE Construct(t)
  BY <1>1, LoadsCountable, SMTT(30) DEF Construct, Engine
<1>2. CASE Swap(t)
  BY <1>2 DEF Swap
<1>3. CASE Retire(t)
  BY <1>3 DEF Retire, Drop
<1>4. CASE Name(t)
  BY <1>4 DEF Name, TakeActive
<1>5. CASE Named(t)
  BY <1>5 DEF Named, Drop
<1>6. CASE Take(t)
  BY <1>6 DEF Take, TakeActive
<1>7. CASE LockInference(t)
  BY <1>7, LoadsCountable, SMTT(30) DEF LockInference, Engine
<1>8. CASE UnlockInference(t)
  BY <1>8, LoadsCountable, SMTT(30) DEF UnlockInference, Engine
<1>9. CASE Leave(t)
  BY <1>9 DEF Leave, Drop
<1> QED  BY <1>1, <1>2, <1>3, <1>4, <1>5, <1>6, <1>7, <1>8, <1>9

-----------------------------------------------------------------------------
(* Counts: what each step does to the owners of each engine.               *)

\* An engine has at most one owner per thread and engine_ itself.
LEMMA OwnersFinite == \A e : IsFiniteSet(Owners(e))
<1> SUFFICES ASSUME NEW e PROVE IsFiniteSet(Owners(e))
  OBVIOUS
<1>1. IsFiniteSet(Holders(e))
  BY ManagerAssumption, FS_Subset DEF Holders
<1> QED  BY <1>1, FS_AddElement DEF Owners

\* An owner that takes the place of another leaves the count as it is.
LEMMA Exchange ==
  ASSUME NEW S, IsFiniteSet(S), NEW a \in S, NEW b, b \notin S
  PROVE  Cardinality((S \ {a}) \cup {b}) = Cardinality(S)
<1>1. IsFiniteSet(S \ {a}) /\ Cardinality(S \ {a}) = Cardinality(S) - 1
  BY FS_RemoveElement
<1>2. Cardinality((S \ {a}) \cup {b}) = Cardinality(S \ {a}) + 1
  BY <1>1, FS_AddElement
<1>3. Cardinality(S) \in Nat
  BY FS_CardinalityType
<1> QED  BY <1>1, <1>2, <1>3

\* active(): one owner more for the active engine.
LEMMA TakeCounts ==
  ASSUME Control, RefsExact, NEW t \in Thread, held[t] = 0, TakeActive(t), engine' = engine
  PROVE  RefsExact' /\ refs' \in [Engine -> Nat]
<1>1. held' = [held EXCEPT ![t] = engine]
  BY DEF TakeActive
<1>2. CASE engine = 0
  <2>1. held' = held /\ refs' = refs
    BY <1>1, <1>2 DEF TakeActive, Control, TypeOK
  <2> QED  BY <2>1 DEF RefsExact, Owners, Holders, Control, TypeOK
<1>3. CASE engine # 0
  <2>1. engine \in Engine /\ refs' = [refs EXCEPT ![engine] = @ + 1]
    BY <1>3, LoadsCountable DEF TakeActive, Control, TypeOK, Engine
  <2>2. Owners(engine)' = Owners(engine) \cup {t} /\ t \notin Owners(engine)
    BY <1>1, <1>3, ManagerAssumption DEF Owners, Holders, Control, TypeOK
  <2>3. \A e \in Engine : e # engine => Owners(e)' = Owners(e)
    BY <1>1 DEF Owners, Holders, Control, TypeOK, Engine
  <2>4. Cardinality(Owners(engine)') = Cardinality(Owners(engine)) + 1
    BY <2>2, OwnersFinite, FS_AddElement
  <2> QED  BY <2>1, <2>3, <2>4 DEF RefsExact, Control, TypeOK
<1> QED  BY <1>2, <1>3

\* A shared_ptr that goes out of scope: one owner less.
LEMMA DropCounts ==
  ASSUME Control, RefsExact, NEW t \in Thread, Drop(t), engine' = engine
  PROVE  RefsExact' /\ refs' \in [Engine -> Nat]
<1>1. held' = [held EXCEPT ![t] = 0]
  BY DEF Drop
<1>2. CASE held[t] = 0
  BY <1>1, <1>2 DEF Drop, Control, TypeOK, RefsExact, Owners, Holders, Engine
<1>3. CASE held[t] # 0
  <2> DEFINE mine == held[t]
  <2>1. mine \in Engine /\ refs' = [refs EXCEPT ![mine] = @ - 1]
    BY <1>3, LoadsCountable DEF Drop, Control, TypeOK, Engine
  <2>2. \A e \in Engine : Owners(e)' = IF e = mine THEN Owners(e) \ {t} ELSE Owners(e)
    BY <1>1, ManagerAssumption DEF Owners, Holders, Control, TypeOK, Engine
  <2>3. t \in Owners(mine)
    BY DEF Owners, Holders
  <2>4. Cardinality(Owners(mine) \ {t}) = Cardinality(Owners(mine)) - 1
    BY <2>3, OwnersFinite, FS_RemoveElement
  <2>5. Cardinality(Owners(mine) \ {t}) \in Nat
    BY OwnersFinite, FS_RemoveElement, FS_CardinalityType
  <2> QED  BY <2>1, <2>2, <2>4, <2>5 DEF RefsExact, Control, TypeOK
<1> QED  BY <1>2, <1>3

\* A new engine has one owner, the thread that built it.
LEMMA ConstructCounts ==
  ASSUME Control, RefsExact, NEW t \in Thread, Construct(t)
  PROVE  RefsExact' /\ refs' \in [Engine -> Nat]
<1>1. PICK new \in Engine : new = loads + 1
  BY LoadsCountable DEF Construct, Control, TypeOK, Engine
<1>2. /\ held' = [held EXCEPT ![t] = new] /\ held[t] = 0
      /\ refs' = [refs EXCEPT ![new] = 1] /\ engine' = engine
  BY <1>1 DEF Construct, Control, OnlyWhereHeld
<1>3. engine # new /\ \A u \in Thread : held[u] # new
  BY <1>1, LoadsCountable DEF Control, TypeOK, Numbered
<1>4. Owners(new)' = {t}
  BY <1>2, <1>3 DEF Owners, Holders, Control, TypeOK
<1>5. \A e \in Engine : e # new => Owners(e)' = Owners(e)
  BY <1>2 DEF Owners, Holders, Control, TypeOK, Engine
<1>6. Cardinality(Owners(new)') = 1
  BY <1>4, FS_Singleton
<1> QED  BY <1>2, <1>5, <1>6 DEF RefsExact, Control, TypeOK

\* The two moves of replace exchange owners: the thread gives engine_ what it
\* had and takes what engine_ had.
LEMMA SwapCounts ==
  ASSUME Control, RefsExact, NEW t \in Thread, Swap(t)
  PROVE  RefsExact' /\ refs' \in [Engine -> Nat]
<1>1. /\ engine' = held[t] /\ held' = [held EXCEPT ![t] = engine] /\ refs' = refs
      /\ held[t] # 0 /\ held[t] # engine
  BY LoadsCountable DEF Swap, Control, TypeOK, OnlyWhereHeld, LoadsAlternate
<1>2. ASSUME NEW e \in Engine PROVE Cardinality(Owners(e)') = Cardinality(Owners(e))
  <2>1. CASE e = held[t]
    <3>1. /\ Owners(e)' = (Owners(e) \ {t}) \cup {Nobody}
          /\ t \in Owners(e) /\ Nobody \notin Owners(e)
      BY <1>1, <2>1, ManagerAssumption DEF Owners, Holders, Control, TypeOK
    <3> QED  BY <3>1, OwnersFinite, Exchange
  <2>2. CASE e = engine
    <3>1. /\ Owners(e)' = (Owners(e) \ {Nobody}) \cup {t}
          /\ Nobody \in Owners(e) /\ t \notin Owners(e)
      BY <1>1, <2>2, ManagerAssumption DEF Owners, Holders, Control, TypeOK
    <3> QED  BY <3>1, OwnersFinite, Exchange
  <2>3. CASE e # held[t] /\ e # engine
    BY <1>1, <2>3 DEF Owners, Holders, Control, TypeOK
  <2> QED  BY <2>1, <2>2, <2>3
<1> QED  BY <1>1, <1>2 DEF RefsExact, Control, TypeOK

-----------------------------------------------------------------------------
\* The startup engine, if any, has engine_ as its one owner.
LEMMA InitHolds == Init => IInv
<1> SUFFICES ASSUME Init PROVE RefsExact
  BY ControlInit DEF IInv
<1>1. ASSUME NEW e \in Engine PROVE refs[e] = Cardinality(Owners(e))
  <2>1. Holders(e) = {}
    BY DEF Init, Holders, Engine
  <2>2. CASE e = engine
    <3>1. Owners(e) = {Nobody}
      BY <2>1, <2>2 DEF Owners
    <3>2. refs[e] = 1
      BY <2>2 DEF Init
    <3> QED  BY <3>1, <3>2, FS_Singleton
  <2>3. CASE e # engine
    <3>1. Owners(e) = {}
      BY <2>1, <2>3 DEF Owners
    <3>2. refs[e] = 0
      BY <2>3 DEF Init
    <3> QED  BY <3>1, <3>2, FS_EmptySet
  <2> QED  BY <2>2, <2>3
<1> QED  BY <1>1 DEF RefsExact

\* Every step of a handler keeps the invariant.
LEMMA StepKeeps ==
  ASSUME IInv, NEW t \in Thread, (\E r \in Route : Receive(t, r)) \/ Load(t) \/ Step(t)
  PROVE  IInv'
<1> USE DEF IInv
<1>1. ASSUME \/ \E r \in Route : Receive(t, r)
             \/ Reply(t) \/ Find(t) \/ LockLoad(t) \/ ConstructFails(t) \/ UnlockLoad(t)
      PROVE  IInv'
  <2>1. engine' = engine /\ held' = held /\ refs' = refs
    BY <1>1 DEF Receive, Reply, Find, LockLoad, ConstructFails, UnlockLoad
  <2> QED  BY <1>1, <2>1, ControlKept DEF RefsExact, Owners, Holders
<1>2. CASE LockInference(t) \/ UnlockInference(t)
  <2>1. engine' = engine /\ held' = held /\ refs' = refs
    BY <1>2 DEF LockInference, UnlockInference
  <2>2. refs' \in [Engine -> Nat]
    BY <2>1 DEF Control, TypeOK
  <2> QED  BY <1>2, <2>1, <2>2, ControlOwning DEF RefsExact, Owners, Holders
<1>3. CASE Construct(t)
  BY <1>3, ConstructCounts, ControlOwning
<1>4. CASE Swap(t)
  BY <1>4, SwapCounts, ControlOwning
<1>5. CASE Retire(t) \/ Named(t) \/ Leave(t)
  <2>1. Drop(t) /\ engine' = engine
    BY <1>5 DEF Retire, Named, Leave
  <2> QED  BY <1>5, <2>1, DropCounts, ControlOwning
<1>6. CASE Name(t) \/ Take(t)
  <2>1. TakeActive(t) /\ engine' = engine /\ held[t] = 0
    BY <1>6 DEF Name, Take, Control, OnlyWhereHeld
  <2> QED  BY <1>6, <2>1, TakeCounts, ControlOwning
<1> QED  BY <1>1, <1>2, <1>3, <1>4, <1>5, <1>6 DEF Load, Step

\* The invariant is inductive.
THEOREM Invariance == Spec => []IInv
<1>1. IInv /\ [Next]_vars => IInv'
  <2>1. IInv /\ UNCHANGED vars => IInv'
    BY DEF vars, IInv, Control, TypeOK, Numbered, OnlyWhereHeld, LoadsAlternate, InferenceOnHeld,
           SelectedIsActive, RefsExact, Owners, Holders
  <2> QED  BY <2>1, StepKeeps DEF Next
<1> QED  BY InitHolds, <1>1, PTL DEF Spec

\* With any number of workers and requests, no thread runs on, waits for or is
\* about to activate an engine whose last shared_ptr is gone.
THEOREM NoUseAfterFree == Spec => []UsedEnginesLive
<1>1. ASSUME IInv, NEW e \in Engine, NEW o \in Owners(e) PROVE refs[e] > 0
  <2>1. Cardinality(Owners(e)) \in Nat /\ Cardinality(Owners(e)) # 0
    BY OwnersFinite, FS_CardinalityType, FS_EmptySet
  <2> QED  BY <1>1, <2>1 DEF IInv, RefsExact
<1>2. IInv => UsedEnginesLive
  <2> SUFFICES ASSUME IInv PROVE UsedEnginesLive
    OBVIOUS
  <2>1. engine # 0 => engine \in Engine /\ Nobody \in Owners(engine)
    BY LoadsCountable DEF IInv, Control, TypeOK, Engine, Owners
  <2>2. \A t \in Thread : held[t] # 0 => held[t] \in Engine /\ t \in Owners(held[t])
    BY LoadsCountable DEF IInv, Control, TypeOK, Engine, Owners, Holders
  <2>3. \A e \in Engine : inference[e] # Nobody => inference[e] \in Owners(e)
    BY DEF IInv, Control, InferenceOnHeld, Owners, Holders
  <2> QED  BY <1>1, <2>1, <2>2, <2>3 DEF UsedEnginesLive
<1> QED  BY <1>2, Invariance, PTL

\* A select that has loaded its model finds some engine when it asks for the
\* active one, whatever other selects load or fail to load meanwhile: the
\* dereference of active_id() in http_server.cpp:149 is safe.
THEOREM SelectIsAnswered == Spec => []SelectFindsAnActiveModel
<1>1. IInv => SelectFindsAnActiveModel
  BY DEF IInv, Control, SelectedIsActive, SelectFindsAnActiveModel
<1> QED  BY <1>1, Invariance, PTL

-----------------------------------------------------------------------------
(* The manager implements the register.                                    *)

\* At startup nobody has been told anything.
LEMMA RegisterInit == Init => Register!Init
<1> SUFFICES ASSUME Init PROVE Register!Init
  OBVIOUS
<1>1. engine \in 0 .. MaxLoads
  BY InitHolds DEF IInv, Control, TypeOK
<1>2. engine \in Engine \cup {0}
  BY <1>1, LoadsCountable DEF Engine
<1>3. \A t \in Thread : Told(t) = 0
  BY DEF Init, Told
<1> QED  BY <1>2, <1>3 DEF Register!Init

\* Only active(), and the reply or the drop that ends a reading, change what a
\* thread was told.
LEMMA RegisterStep ==
  ASSUME IInv, NEW t \in Thread, (\E r \in Route : Receive(t, r)) \/ Load(t) \/ Step(t)
  PROVE  [Register!Next]_(Register!registerVars)
<1> USE DEF IInv, Control, TypeOK, Steps
<1>1. ASSUME \/ \E r \in Route : Receive(t, r)
             \/ Reply(t) \/ Find(t) \/ LockLoad(t) \/ ConstructFails(t) \/ UnlockLoad(t)
             \/ Construct(t) \/ Retire(t) \/ LockInference(t) \/ UnlockInference(t) \/ Named(t)
      PROVE  UNCHANGED Register!registerVars
  <2>1. engine' = engine
    BY <1>1 DEF Receive, Reply, Find, LockLoad, ConstructFails, UnlockLoad, Construct, Retire,
                LockInference, UnlockInference, Named
  <2>2. \A u \in Thread : Told(u)' = Told(u)
    BY <1>1 DEF Receive, Reply, Find, LockLoad, ConstructFails, UnlockLoad, Construct, Retire,
                LockInference, UnlockInference, Named, Drop, Goto, Told, OnlyWhereHeld
  <2> QED  BY <2>1, <2>2 DEF Register!registerVars
<1>2. CASE Swap(t)
  <2>1. engine' \in Engine /\ engine' > engine
    BY <1>2, LoadsCountable DEF Swap, OnlyWhereHeld, LoadsAlternate, Engine
  <2>2. \A u \in Thread : Told(u)' = Told(u)
    BY <1>2 DEF Swap, Goto, Told
  <2> QED  BY <2>1, <2>2 DEF Register!Next, Register!Install
<1>3. CASE Name(t) \/ Take(t)
  <2>1. engine' = engine
    BY <1>3 DEF Name, Take
  <2>2. \A u \in Thread : Told(u)' = IF u = t THEN engine ELSE Told(u)
    BY <1>3 DEF Name, Take, TakeActive, Goto, Told
  <2> QED  BY <2>1, <2>2 DEF Register!Next, Register!Tell
<1>4. CASE Leave(t)
  <2>1. engine' = engine
    BY <1>4 DEF Leave
  <2>2. \A u \in Thread : Told(u)' = IF u = t THEN 0 ELSE Told(u)
    BY <1>4 DEF Leave, Drop, Goto, Told
  <2> QED  BY <2>1, <2>2 DEF Register!Next, Register!Forget
<1> QED  BY <1>1, <1>2, <1>3, <1>4 DEF Load, Step

\* The active engine is a register that only later loads replace, and that
\* tells no request of an older engine after a newer one.
THEOREM ManagerIsARegister == Spec => ImplementsActiveModel
<1>1. IInv /\ [Next]_vars => [Register!Next]_(Register!registerVars)
  <2>1. UNCHANGED vars => UNCHANGED Register!registerVars
    BY DEF vars, Register!registerVars, Told
  <2> QED  BY <2>1, RegisterStep DEF Next
<1> QED  BY RegisterInit, <1>1, Invariance, PTL DEF Spec, ImplementsActiveModel, Register!Spec
-----------------------------------------------------------------------------
(* Who owns a mutex is not held up by another.                              *)

\* Thread t cannot go on before u has released a mutex.
WaitsFor(t, u) ==
  \/ pc[t] = "lock" /\ loadLock = u
  \/ pc[t] = "wait" /\ inference[held[t]] = u

\* Where a handler holds a mutex; it takes no other one there.
Inside == {"construct", "swap", "retire", "unlock", "run"}

\* Who is waited for is a thread inside its critical section and waits for nobody:
\* there is no circle of waiting threads, no chain, and no mutex left behind by a
\* handler that is done.
WaitsAreShort ==
  \A t, u \in Thread :
    WaitsFor(t, u) => pc[u] \in Inside /\ \A v \in Thread : ~WaitsFor(u, v)

\* load_mutex_ is held inside load only.
LoadOwned ==
  loadLock # Nobody => pc[loadLock] \in {"construct", "swap", "retire", "unlock"}

LEMMA LoadOwnedKept ==
  ASSUME IInv, LoadOwned, NEW t \in Thread, (\E r \in Route : Receive(t, r)) \/ Load(t) \/ Step(t)
  PROVE  LoadOwned'
<1> USE DEF IInv, Control, TypeOK, LoadsAlternate, LoadOwned, Goto
<1>1. CASE LockLoad(t) \/ UnlockLoad(t) \/ ConstructFails(t)
  BY <1>1 DEF LockLoad, UnlockLoad, ConstructFails
<1>2. CASE Construct(t) \/ Swap(t) \/ Retire(t)
  BY <1>2 DEF Construct, Swap, Retire
<1>3. CASE ~(LockLoad(t) \/ UnlockLoad(t) \/ ConstructFails(t) \/ Construct(t) \/ Swap(t) \/ Retire(t))
  <2>1. /\ loadLock' = loadLock /\ pc[t] \notin {"construct", "swap", "retire", "unlock"}
        /\ \E step : pc' = [pc EXCEPT ![t] = step]
    BY <1>3 DEF Load, Step, Receive, Find, Name, Named, Take, LockInference, UnlockInference, Leave, Reply
  <2> QED  BY <2>1
<1> QED  BY <1>1, <1>2, <1>3

\* For any number of threads, whatever they ask for and whichever loads fail.
THEOREM NobodyWaitsInCircles == Spec => []WaitsAreShort
<1>1. Init => LoadOwned
  BY DEF Init, LoadOwned
<1>2. IInv /\ LoadOwned /\ [Next]_vars => LoadOwned'
  <2>1. LoadOwned /\ UNCHANGED vars => LoadOwned'
    BY DEF vars, LoadOwned
  <2> QED  BY <2>1, LoadOwnedKept DEF Next
<1>3. IInv /\ LoadOwned => WaitsAreShort
  <2> SUFFICES ASSUME IInv, LoadOwned, NEW t \in Thread, NEW u \in Thread, WaitsFor(t, u)
               PROVE  pc[u] \in Inside /\ \A v \in Thread : ~WaitsFor(u, v)
    BY DEF WaitsAreShort
  <2>1. pc[t] = "wait" => held[t] \in Engine
    BY LoadsCountable DEF IInv, Control, TypeOK, OnlyWhereHeld, Engine
  <2>2. pc[u] \in Inside
    BY <2>1, ManagerAssumption DEF WaitsFor, IInv, Control, InferenceOnHeld, LoadOwned, Inside
  <2> QED  BY <2>2 DEF Inside, WaitsFor
<1> QED  BY <1>1, <1>2, <1>3, Invariance, PTL DEF Spec
=============================================================================
