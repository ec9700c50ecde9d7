-------------------------- MODULE ModelLoadingProofs --------------------------
(***************************************************************************)
(* For every directory, any number of changes to it, and any number of     *)
(* engines and readers: a list is of the directory that was scanned, and   *)
(* native objects exist exactly while somebody may use them.               *)
(***************************************************************************)
EXTENDS ModelLoading, FiniteSetTheorems, SequenceTheorems, TLAPS

(***************************************************************************)
(* The scan.                                                               *)
(***************************************************************************)
ScanSteps == {"idle", "next", "resolve", "measure", "done", "failed"}

ScanTypes ==
  /\ directory \in [Name -> Kind]
  /\ since \in [Name -> SUBSET Kind]
  /\ step \in ScanSteps
  /\ entry \in Name \cup {NoName}
  /\ ec \in BOOLEAN /\ fault \in BOOLEAN
  /\ seen \subseteq Name /\ models \subseteq Name

\* What bears a name has borne it.
NowIsSince == \A n \in Name : directory[n] \in since[n]

WasModel(n) == n \in GgufName /\ "file" \in since[n]

\* The list and the entry under inspection were models.
ListedWere ==
  /\ \A n \in models : WasModel(n)
  /\ step \in {"resolve", "measure"} => WasModel(entry)

\* Only a model that came or went, or a call that failed, leaves an error behind.
ErrorsHaveCause == ec => fault \/ \E n \in Name : Flickers(n)

\* A model that has been there all the time and was seen is listed, or is just
\* being inspected.
SeenAreListed ==
  \/ fault
  \/ \E n \in Name : Flickers(n)
  \/ \A n \in seen : Present(n) =>
       n \in models \/ (n = entry /\ step \in {"resolve", "measure"})

\* The scan is over when the iterator has nothing more.
DoneIsExhausted == step = "done" => ec \/ Exhausted

IdleIsClean == step = "idle" => seen = {} /\ models = {} /\ ~ec

ScanInv ==
  /\ ScanTypes
  /\ NowIsSince
  /\ ListedWere
  /\ ErrorsHaveCause
  /\ SeenAreListed
  /\ DoneIsExhausted
  /\ IdleIsClean

-----------------------------------------------------------------------------
(***************************************************************************)
(* The native objects.                                                     *)
(***************************************************************************)
Stages == {"unborn", "model", "context", "batch", "built",
           "freeing batch", "freeing context", "freeing model", "gone"}

\* The stages in which an engine owns an object of the kind.
Having(part) ==
  IF part = "model" THEN Stages \ {"unborn", "gone"}
  ELSE IF part = "context" THEN Stages \ {"unborn", "gone", "model", "freeing model"}
  ELSE {"batch", "built", "freeing batch"}

Places == {"startup", "idle", "scanning", "loading", "dropping", "retiring"}

OwnerTypes ==
  /\ stage \in [Engine -> Stages]
  /\ at \in Places
  /\ mine \in 0 .. MaxEngines
  /\ at \in {"loading", "retiring"} => mine # 0
  /\ active \in 0 .. MaxEngines
  /\ held \in [Reader -> 0 .. MaxEngines]
  /\ leaving \subseteq Reader

\* The heap holds what the stages say.
HeapFollowsStage ==
  /\ heap \subseteq Part \X Engine
  /\ \A part \in Part, e \in Engine : <<part, e>> \in heap <=> stage[e] \in Having(part)

\* Whoever may use an engine has one that is built.
UsedAreBuilt ==
  /\ active # 0 => stage[active] = "built"
  /\ at = "dropping" /\ mine # 0 => stage[mine] = "built"
  /\ \A r \in Reader \ leaving : held[r] # 0 => stage[held[r]] = "built"

\* There is room for the engine that a load is about to build.
RoomToLoad ==
  /\ at = "startup" => \A e \in Engine : stage[e] = "unborn"
  /\ at = "scanning" /\ wanted # NoName => Loads < MaxEngines
  /\ at = "scanning" \/ step = "idle"

OwnerInv == OwnerTypes /\ HeapFollowsStage /\ UsedAreBuilt /\ RoomToLoad

IInv == ScanInv /\ OwnerInv /\ TextsAreWhole
-----------------------------------------------------------------------------
(* The scan keeps its invariant, and nobody else touches it.               *)

\* Somebody changes a file: what has borne a name only grows during a scan.
LEMMA ChangeKeeps ==
  ASSUME ScanInv, NEW n \in Name, NEW kind \in Kind, Change(n, kind)
  PROVE  ScanInv'
<1>1. /\ directory' = [directory EXCEPT ![n] = kind]
      /\ since' = [since EXCEPT ![n] = IF step = "idle" THEN {kind} ELSE @ \cup {kind}]
      /\ step' = step /\ seen' = seen /\ entry' = entry /\ ec' = ec /\ models' = models
      /\ fault' = fault
  BY DEF Change, scan
<1>2. ScanTypes' /\ NowIsSince'
  BY <1>1 DEF ScanInv, ScanTypes, NowIsSince
<1>3. IdleIsClean'
  BY <1>1 DEF ScanInv, IdleIsClean
<1>4. CASE step = "idle"
  BY <1>1, <1>2, <1>3, <1>4
  DEF ScanInv, IdleIsClean, ListedWere, ErrorsHaveCause, SeenAreListed, DoneIsExhausted
<1>5. CASE step # "idle"
  <2>1. \A m \in Name : since[m] \subseteq since'[m]
    BY <1>1, <1>5 DEF ScanInv, ScanTypes
  <2>2. /\ \A m \in Name : WasModel(m) => WasModel(m)'
        /\ \A m \in Name : Flickers(m) => Flickers(m)'
        /\ \A m \in Name : Present(m)' /\ ~Flickers(m)' => Present(m) \/ since[m] = {}
        /\ Exhausted => Exhausted'
    BY <1>1, <2>1 DEF WasModel, Flickers, Present, Exhausted
  <2>3. \A m \in Name : Present(m)' => Present(m)
    BY <1>1, <2>1, <2>2 DEF ScanInv, NowIsSince, Present
  <2>4. ListedWere'
    BY <1>1, <2>2, CatalogAssumption DEF ScanInv, ScanTypes, ListedWere, WasModel
  <2>5. ErrorsHaveCause'
    BY <1>1, <2>2 DEF ScanInv, ErrorsHaveCause
  <2>6. SeenAreListed'
    BY <1>1, <2>2, <2>3 DEF ScanInv, ScanTypes, SeenAreListed
  <2>7. DoneIsExhausted'
    BY <1>1, <2>2 DEF ScanInv, DoneIsExhausted
  <2> QED  BY <1>2, <1>3, <2>4, <2>5, <2>6, <2>7 DEF ScanInv
<1> QED  BY <1>4, <1>5

\* The beginning and the end of a call; one that cannot open the directory ends
\* with an error and nothing listed.
LEMMA OpenCloseKeep ==
  ASSUME ScanInv, Open \/ OpenFails \/ Close
  PROVE  ScanInv'
<1>1. /\ directory' = directory /\ since' = Now /\ seen' = {} /\ entry' = NoName
      /\ models' = {}
      /\ \/ ec' = FALSE /\ fault' = FALSE /\ step' \in {"next", "idle"}
         \/ ec' = TRUE /\ fault' = TRUE /\ step' = "done"
  BY DEF Open, OpenFails, Close, Anew, files
<1>2. \A n \in Name : since'[n] = {directory[n]}
  BY <1>1 DEF Now
<1>3. ScanTypes' /\ NowIsSince'
  BY <1>1, <1>2 DEF ScanInv, ScanTypes, NowIsSince, Now, ScanSteps
<1> QED  BY <1>1, <1>3
  DEF ScanInv, ListedWere, ErrorsHaveCause, SeenAreListed, DoneIsExhausted, IdleIsClean

\* The calls on one entry.
LEMMA ScanStepKeeps ==
  ASSUME ScanInv, ScanStep
  PROVE  ScanInv'
<1> USE DEF ScanInv, ScanTypes, ScanSteps, NowIsSince, files
<1>1. directory' = directory /\ since' = since
  BY DEF ScanStep, Inspect, Resolve, Measure, EntryFails, Finish, ScanThrows
<1>2. /\ \A n : WasModel(n)' = WasModel(n)
      /\ \A n : Flickers(n)' = Flickers(n)
      /\ \A n : Present(n)' = Present(n)
      /\ \A n \in Name : Present(n) => directory[n] = "file"
  BY <1>1 DEF WasModel, Flickers, Present
<1> USE <1>1, <1>2 DEF ListedWere, ErrorsHaveCause, SeenAreListed, DoneIsExhausted, IdleIsClean
<1>3. ASSUME NEW n \in Name, NEW kind \in Kind, Inspect(n, kind) PROVE ScanInv'
  <2>1. /\ step = "next" /\ kind \in since[n] /\ seen' = seen \cup {n}
        /\ ec' = ec /\ models' = models /\ fault' = fault
    BY <1>3 DEF Inspect
  <2>2. CASE Eligible(n, kind)
    BY <1>3, <2>1, <2>2 DEF Inspect, Eligible, has_gguf_extension, WasModel
  <2>3. CASE ~Eligible(n, kind)
    <3>1. ~Present(n)
      BY <2>1, <2>3 DEF Present, Eligible, has_gguf_extension
    <3> QED  BY <1>3, <2>1, <2>3, <3>1 DEF Inspect
  <2> QED  BY <2>2, <2>3
<1>4. CASE Resolve
  BY <1>4 DEF Resolve
<1>5. CASE Measure
  <2>1. entry \in Name /\ WasModel(entry)
    BY <1>5, CatalogAssumption DEF Measure, WasModel
  <2>2. CASE directory[entry] \in {"absent", "folder"}
    <3>1. Flickers(entry)
      BY <2>1, <2>2 DEF Flickers, WasModel
    <3> QED  BY <1>5, <2>1, <2>2, <3>1 DEF Measure
  <2>3. CASE directory[entry] \notin {"absent", "folder"}
    BY <1>5, <2>1, <2>3 DEF Measure
  <2> QED  BY <2>2, <2>3
<1>6. CASE Finish
  BY <1>6 DEF Finish, Exhausted
<1>7. CASE ScanThrows
  BY <1>7 DEF ScanThrows
<1>8. CASE EntryFails
  BY <1>8 DEF EntryFails
<1> QED  BY <1>3, <1>4, <1>5, <1>6, <1>7, <1>8 DEF ScanStep

\* Before the first call.
LEMMA ScanInit == CatalogInit => ScanInv
<1> SUFFICES ASSUME CatalogInit PROVE ScanInv
  OBVIOUS
<1>1. /\ directory \in [Name -> Kind] /\ since = Now /\ step = "idle"
      /\ seen = {} /\ entry = NoName /\ ec = FALSE /\ models = {} /\ fault = FALSE
  BY CatalogAssumption DEF CatalogInit
<1>2. ScanTypes /\ NowIsSince
  BY <1>1 DEF ScanTypes, ScanSteps, NowIsSince, Now
<1> QED  BY <1>1, <1>2
  DEF ScanInv, ListedWere, ErrorsHaveCause, SeenAreListed, DoneIsExhausted, IdleIsClean

\* A step that leaves the catalog alone.
LEMMA ScanUntouched ==
  ASSUME ScanInv, UNCHANGED catalogVars
  PROVE  ScanInv'
  BY DEF catalogVars, files, scan, ScanInv, ScanTypes, NowIsSince, ListedWere, WasModel,
         ErrorsHaveCause, Flickers, SeenAreListed, Present, DoneIsExhausted, Exhausted, IdleIsClean

\* What of a step of the system the catalog sees.
LEMMA CatalogOfStep ==
  ASSUME Next
  PROVE  \/ \E n \in Name, kind \in Kind : Change(n, kind)
         \/ Open \/ OpenFails \/ Close \/ ScanStep
         \/ UNCHANGED catalogVars
  BY DEF Next, LoadAtStartup, Request, LoaderStep, Scan, Found, Construct, LoadEnds, Replace,
         DropPrevious, Destroy, Disturb, Disturbance, Take, Use, Leave, Left

\* The scan's invariant.
THEOREM ScanInvariance == Spec => []ScanInv
<1>1. Init => ScanInv
  BY ScanInit DEF Init
<1>2. ScanInv /\ [Next]_vars => ScanInv'
  <2>1. CASE UNCHANGED vars
    BY <2>1, ScanUntouched DEF vars
  <2> QED  BY <2>1, CatalogOfStep, ChangeKeeps, OpenCloseKeep, ScanStepKeeps, ScanUntouched
<1> QED  BY <1>1, <1>2, PTL DEF Spec

\* Whatever is added, removed or swapped while the directory is scanned, and
\* however often: a list names only files that were models of it, and misses
\* none unless another one came or went, or the system failed a call: one that
\* opens the directory (model_catalog.cpp:31-38) leaves the list empty, one about
\* an entry cuts it off.
THEOREM ListsAreSound == Spec => []ListIsOfTheScan
<1>1. ScanInv => ListIsOfTheScan
  <2> SUFFICES ASSUME ScanInv, step = "done" PROVE ListIsOfTheScan
    BY DEF ListIsOfTheScan
  <2>1. models \subseteq {n \in GgufName : "file" \in since[n]}
    BY DEF ScanInv, ListedWere, WasModel
  <2>2. ASSUME ~\E n \in Name : Flickers(n), ~fault, NEW n \in Name, Present(n) PROVE n \in models
    <3>1. n \in seen
      BY <2>2 DEF ScanInv, ErrorsHaveCause, DoneIsExhausted, Exhausted, Present
    <3> QED  BY <2>2, <3>1 DEF ScanInv, SeenAreListed
  <2> QED  BY <2>1, <2>2 DEF ListIsOfTheScan
<1> QED  BY <1>1, ScanInvariance, PTL

-----------------------------------------------------------------------------
(* Native objects and their owners.                                        *)

\* What a step of a constructor or a destructor does.
LEMMA LifeKeeps ==
  ASSUME HeapFollowsStage, stage \in [Engine -> Stages], NEW e \in Engine,
         ConstructStep(e) \/ DestroyStep(e)
  PROVE  /\ HeapFollowsStage'
         /\ \E next \in Stages : stage' = [stage EXCEPT ![e] = next]
         /\ stage[e] # "built"
         /\ DestroyStep(e) => stage[e] # "unborn" /\ stage'[e] # "unborn"
<1> DEFINE Comes(part, next) == heap' = heap \cup {<<part, e>>} /\ Goto(e, next)
           Goes(part, next) == heap' = heap \ {<<part, e>>} /\ Goto(e, next)
           Stays(next) == heap' = heap /\ Goto(e, next)
<1>1. \/ stage[e] = "unborn" /\ (Comes("model", "model") \/ Stays("gone"))
      \/ stage[e] = "model" /\ (Comes("context", "context") \/ Goes("model", "gone"))
      \/ stage[e] = "context" /\ Comes("batch", "batch")
      \/ stage[e] = "batch" /\ (Stays("built") \/ Stays("freeing batch"))
      \/ stage[e] = "freeing batch" /\ Goes("batch", "freeing context")
      \/ stage[e] = "freeing context" /\ Goes("context", "freeing model")
      \/ stage[e] = "freeing model" /\ Goes("model", "gone")
  BY DEF ConstructStep, DestroyStep, LoadModel, LoadModelFails, CreateContext, CreateContextFails,
         InitBatch, Describe, DescribeThrows, FreeBatch, FreeContext, FreeModel, Allocate, Free
<1>2. HeapFollowsStage'
  <2>1. heap' \subseteq Part \X Engine
    <3>1. \A part, next : Comes(part, next) \/ Goes(part, next) \/ Stays(next)
            => heap' \subseteq heap \cup {<<part, e>>}
      OBVIOUS
    <3>2. {<<"model", e>>, <<"context", e>>, <<"batch", e>>} \subseteq Part \X Engine
      BY DEF Part
    <3> HIDE DEF Comes, Goes, Stays
    <3>3. heap' \subseteq heap \cup {<<"model", e>>, <<"context", e>>, <<"batch", e>>}
      BY <1>1, <3>1
    <3> QED  BY <3>2, <3>3 DEF HeapFollowsStage
  <2>2. ASSUME NEW p \in Part, NEW o \in Engine, o # e
        PROVE  <<p, o>> \in heap' <=> stage'[o] \in Having(p)
    <3>1. stage'[o] = stage[o]
      BY <1>1, <2>2 DEF Goto
    <3>2. <<p, o>> \in heap' <=> <<p, o>> \in heap
      BY <1>1, <2>2
    <3> QED  BY <3>1, <3>2 DEF HeapFollowsStage
  <2>3. ASSUME NEW p \in Part
        PROVE  <<p, e>> \in heap' <=> stage'[e] \in Having(p)
    <3>1. <<p, e>> \in heap <=> stage[e] \in Having(p)
      BY DEF HeapFollowsStage
    <3>2. \A part, next : (Comes(part, next) \/ Goes(part, next) \/ Stays(next)) => stage'[e] = next
      BY DEF Goto
    <3>3. /\ \A part, next : Comes(part, next) => (<<p, e>> \in heap' <=> <<p, e>> \in heap \/ p = part)
          /\ \A part, next : Goes(part, next) => (<<p, e>> \in heap' <=> <<p, e>> \in heap /\ p # part)
          /\ \A next : Stays(next) => (<<p, e>> \in heap' <=> <<p, e>> \in heap)
      OBVIOUS
    <3> HIDE DEF Comes, Goes, Stays
    <3> DEFINE was == <<p, e>> \in heap
               is == <<p, e>> \in heap'
               from == stage[e]
               to == stage'[e]
    <3>4. \/ from = "unborn" /\ to = "model" /\ (is <=> was \/ p = "model")
          \/ from = "unborn" /\ to = "gone" /\ (is <=> was)
          \/ from = "model" /\ to = "context" /\ (is <=> was \/ p = "context")
          \/ from = "model" /\ to = "gone" /\ (is <=> was /\ p # "model")
          \/ from = "context" /\ to = "batch" /\ (is <=> was \/ p = "batch")
          \/ from = "batch" /\ to = "built" /\ (is <=> was)
          \/ from = "batch" /\ to = "freeing batch" /\ (is <=> was)
          \/ from = "freeing batch" /\ to = "freeing context" /\ (is <=> was /\ p # "batch")
          \/ from = "freeing context" /\ to = "freeing model" /\ (is <=> was /\ p # "context")
          \/ from = "freeing model" /\ to = "gone" /\ (is <=> was /\ p # "model")
      BY <1>1, <3>2, <3>3, ZenonT(60)
    <3>5. was <=> from \in Having(p)
      BY <3>1
    <3> HIDE DEF was, is, from, to
    <3>6. is <=> to \in Having(p)
      BY <3>4, <3>5 DEF Having, Stages, Part
    <3> QED  BY <3>6 DEF is, to
  <2> QED  BY <2>1, <2>2, <2>3 DEF HeapFollowsStage
<1>3. \E next \in Stages : stage' = [stage EXCEPT ![e] = next]
  BY <1>1 DEF Goto, Stages
<1>4. DestroyStep(e) => stage[e] # "unborn" /\ stage'[e] # "unborn"
  BY DEF DestroyStep, FreeBatch, FreeContext, FreeModel, Free, Goto
<1> QED  BY <1>1, <1>2, <1>3, <1>4

\* Loads counts engines that have been begun, whatever became of them.
LEMMA LoadsSame ==
  ASSUME \A e \in Engine : stage'[e] = "unborn" <=> stage[e] = "unborn"
  PROVE  Loads' = Loads
<1>1. {e \in Engine : stage'[e] # "unborn"} = {e \in Engine : stage[e] # "unborn"}
  OBVIOUS
<1> QED  BY <1>1 DEF Loads

\* At startup no engine has been begun.
LEMMA FirstLoad ==
  ASSUME OwnerInv, at = "startup"
  PROVE  Loads = 0
<1>1. {e \in Engine : stage[e] # "unborn"} = {}
  BY DEF OwnerInv, RoomToLoad
<1> QED  BY <1>1, FS_EmptySet DEF Loads

\* Engines are finitely many.
LEMMA LoadsIsNat == Loads \in Nat
<1>1. IsFiniteSet(Engine)
  BY RuntimeAssumption, FS_Interval DEF Engine
<1>2. IsFiniteSet({e \in Engine : stage[e] # "unborn"})
  BY <1>1, FS_Subset
<1> QED  BY <1>2, FS_CardinalityType DEF Loads

\* The steps that leave engines as they are.
LEMMA PointersKeep ==
  ASSUME ScanInv, OwnerInv,
         \/ LoadAtStartup \/ Request \/ Scan \/ Found \/ LoadEnds \/ Replace \/ Disturb
         \/ \E r \in Reader : Take(r) \/ Use(r) \/ Left(r)
  PROVE  OwnerInv'
<1> USE RuntimeAssumption DEF OwnerInv, OwnerTypes, Places, RoomToLoad, UsedAreBuilt
<1>1. heap' = heap /\ stage' = stage
  BY DEF LoadAtStartup, Request, Scan, Found, LoadEnds, Replace, Disturb, Take, Use, Left, Ask, runtimeVars
<1>2. HeapFollowsStage' /\ Loads' = Loads
  BY <1>1 DEF HeapFollowsStage, Loads
<1> USE <1>1, <1>2
<1>3. CASE LoadAtStartup
  BY <1>3, FirstLoad DEF LoadAtStartup, ownerVars, catalogVars, scan
<1>4. CASE Request
  BY <1>4 DEF Request, Open, OpenFails, ownerVars
<1>5. CASE Scan
  BY <1>5 DEF Scan, ScanStep, Inspect, Resolve, Measure, EntryFails, Finish, ScanThrows,
              loaderVars, ownerVars, ScanInv, ScanTypes, ScanSteps
<1>6. CASE Found
  <2>1. at = "scanning" /\ step' = "idle" /\ active' = active /\ held' = held /\ leaving' = leaving
    BY <1>6 DEF Found, Close, ownerVars
  <2>2. CASE step = "done" /\ wanted \in models
    <3>1. wanted # NoName
      BY <2>2, CatalogAssumption DEF ScanInv, ScanTypes
    <3>2. Loads + 1 \in 0 .. MaxEngines /\ Loads + 1 # 0
      BY <2>1, <3>1, LoadsIsNat
    <3> QED  BY <1>6, <2>1, <2>2, <3>2 DEF Found
  <2>3. CASE ~(step = "done" /\ wanted \in models)
    BY <1>6, <2>1, <2>3 DEF Found
  <2> QED  BY <2>2, <2>3
<1>7. CASE LoadEnds
  BY <1>7 DEF LoadEnds, ownerVars, catalogVars, scan
<1>8. CASE Replace
  BY <1>8 DEF Replace, catalogVars, scan
<1>9. CASE Disturb
  BY <1>9 DEF Disturb, Disturbance, Change, loaderVars, ownerVars, scan
<1>10. ASSUME NEW r \in Reader, Take(r) \/ Use(r) \/ Left(r) PROVE OwnerInv'
  BY <1>10 DEF Take, Use, Left, loaderVars, ownerVars, catalogVars, scan
<1> QED  BY <1>3, <1>4, <1>5, <1>6, <1>7, <1>8, <1>9, <1>10

\* The steps of constructors and destructors, and those that begin one: an
\* engine that is used is never the one that changes.
LEMMA LivesKeep ==
  ASSUME OwnerInv, Construct \/ Destroy
  PROVE  OwnerInv'
<1> USE RuntimeAssumption DEF OwnerInv, OwnerTypes, Places, RoomToLoad, UsedAreBuilt
<1>1. PICK e \in Engine : (Construct /\ e = mine /\ ConstructStep(e)) \/ DestroyStep(e)
  <2>1. Construct => mine \in Engine /\ ConstructStep(mine)
    BY DEF Construct, Engine
  <2> QED  BY <2>1 DEF Destroy
<1>2. /\ HeapFollowsStage' /\ stage[e] # "built"
      /\ DestroyStep(e) => stage[e] # "unborn" /\ stage'[e] # "unborn"
  BY <1>1, LifeKeeps
<1>3. PICK next \in Stages : stage' = [stage EXCEPT ![e] = next]
  BY <1>1, LifeKeeps
<1>4. UNCHANGED <<catalogVars, loaderVars, ownerVars>>
  BY DEF Construct, Destroy
<1>5. /\ at' = at /\ mine' = mine /\ wanted' = wanted /\ step' = step
      /\ active' = active /\ held' = held /\ leaving' = leaving
  BY <1>4 DEF catalogVars, scan, loaderVars, ownerVars
<1>6. UsedAreBuilt' /\ OwnerTypes'
  BY <1>2, <1>3, <1>5
<1>7. RoomToLoad'
  <2>1. CASE Construct /\ ConstructStep(e)
    BY <1>5, <2>1 DEF Construct
  <2>2. CASE DestroyStep(e)
    <3>1. Loads' = Loads
      BY <1>2, <1>3, <2>2, LoadsSame
    <3> QED  BY <1>2, <1>3, <1>5, <2>2, <3>1
  <2> QED  BY <1>1, <2>1, <2>2
<1> QED  BY <1>2, <1>6, <1>7

\* The destructor of an engine begins when it is nobody's any more.
LEMMA RetireKeeps ==
  ASSUME OwnerInv, NEW e \in Engine, stage[e] = "built", Goto(e, "freeing batch"), heap' = heap
  PROVE  HeapFollowsStage' /\ stage' \in [Engine -> Stages] /\ Loads' = Loads
<1>1. stage' = [stage EXCEPT ![e] = "freeing batch"] /\ stage \in [Engine -> Stages]
  BY DEF Goto, OwnerInv, OwnerTypes
<1>2. \A part \in Part : "built" \in Having(part) /\ "freeing batch" \in Having(part)
  BY DEF Having, Stages, Part
<1>3. HeapFollowsStage'
  BY <1>1, <1>2 DEF OwnerInv, HeapFollowsStage
<1>4. Loads' = Loads
  BY <1>1, LoadsSame
<1> QED  BY <1>1, <1>3, <1>4 DEF Stages

\* The loader drops the previous engine.
LEMMA DropKeeps ==
  ASSUME OwnerInv, DropPrevious
  PROVE  OwnerInv'
<1> USE RuntimeAssumption DEF OwnerInv, OwnerTypes, Places, RoomToLoad, UsedAreBuilt
<1>1. /\ at = "dropping" /\ step' = step
      /\ active' = active /\ held' = held /\ leaving' = leaving
  BY DEF DropPrevious, catalogVars, scan, ownerVars
<1>2. CASE mine = 0 \/ Shared(mine)
  <2>1. heap' = heap /\ stage' = stage /\ at' = "idle" /\ mine' = 0
    BY <1>2 DEF DropPrevious, runtimeVars
  <2> QED  BY <1>1, <2>1 DEF HeapFollowsStage
<1>3. CASE ~(mine = 0 \/ Shared(mine))
  <2>1. /\ at' = "retiring" /\ mine' = mine /\ heap' = heap /\ Goto(mine, "freeing batch")
        /\ mine \in Engine /\ stage[mine] = "built"
    <3>1. mine \in Engine
      BY <1>3 DEF Engine
    <3>2. at' = "retiring" /\ mine' = mine /\ heap' = heap /\ Goto(mine, "freeing batch")
      BY <1>3, Zenon DEF DropPrevious
    <3> QED  BY <1>1, <1>3, <3>1, <3>2
  <2>2. HeapFollowsStage' /\ stage' \in [Engine -> Stages] /\ Loads' = Loads
    BY <2>1, RetireKeeps
  <2>3. active # mine /\ \A r \in Reader \ leaving : held[r] # mine
    BY <1>3 DEF Shared
  <2>4. \A o \in Engine \ {mine} : stage'[o] = stage[o]
    BY <2>1 DEF Goto
  <2>5. UsedAreBuilt'
    <3>1. active # 0 => stage'[active] = "built"
      BY <2>3, <2>4 DEF Engine
    <3>2. ASSUME NEW o \in Reader \ leaving, held[o] # 0 PROVE stage'[held[o]] = "built"
      <4>1. held[o] \in Engine
        BY <3>2 DEF Engine
      <4> QED  BY <2>3, <2>4, <3>2, <4>1
    <3> QED  BY <1>1, <2>1, <3>1, <3>2
  <2>6. OwnerTypes'
    BY <1>1, <1>3, <2>1, <2>2
  <2>7. RoomToLoad'
    BY <1>1, <2>1
  <2> QED  BY <2>2, <2>5, <2>6, <2>7
<1> QED  BY <1>2, <1>3

\* A reader lets go.
LEMMA LeaveKeeps ==
  ASSUME OwnerInv, NEW r \in Reader, Leave(r)
  PROVE  OwnerInv'
<1> USE RuntimeAssumption DEF OwnerInv, OwnerTypes, Places, RoomToLoad, UsedAreBuilt
<1>1. /\ at' = at /\ mine' = mine /\ wanted' = wanted /\ step' = step /\ active' = active
      /\ held[r] # 0 /\ r \notin leaving
  BY DEF Leave, catalogVars, scan, loaderVars
<1>2. CASE ~Last(r)
  <2>1. heap' = heap /\ stage' = stage /\ leaving' = leaving /\ held' = [held EXCEPT ![r] = 0]
    BY <1>2 DEF Leave, runtimeVars
  <2>2. Loads' = Loads
    BY <2>1 DEF Loads
  <2> QED  BY <1>1, <2>1, <2>2 DEF HeapFollowsStage
<1>3. CASE Last(r)
  <2> DEFINE e == held[r]
  <2>1. /\ e \in Engine /\ stage[e] = "built" /\ Goto(e, "freeing batch") /\ heap' = heap
        /\ leaving' = leaving \cup {r} /\ held' = held
    <3>1. e \in Engine /\ stage[e] = "built"
      BY <1>1 DEF Engine
    <3>2. /\ Goto(e, "freeing batch") /\ heap' = heap
          /\ leaving' = leaving \cup {r} /\ held' = held
      BY <1>3, Zenon DEF Leave
    <3> QED  BY <3>1, <3>2
  <2>2. HeapFollowsStage' /\ stage' \in [Engine -> Stages] /\ Loads' = Loads
    BY <2>1, RetireKeeps
  <2>3. /\ active # e /\ mine # e
        /\ \A o \in Reader \ leaving' : held[o] # e
    BY <1>3, <2>1 DEF Last
  <2>4. \A o \in Engine \ {e} : stage'[o] = stage[o]
    BY <2>1 DEF Goto
  <2>5. stage'[e] # "unborn" /\ stage[e] # "unborn"
    BY <2>1 DEF Goto
  <2> HIDE DEF e
  <2>6. UsedAreBuilt'
    <3>1. active # 0 => stage'[active] = "built"
      BY <2>3, <2>4 DEF Engine
    <3>2. at = "dropping" /\ mine # 0 => stage'[mine] = "built"
      BY <2>3, <2>4 DEF Engine
    <3>3. ASSUME NEW o \in Reader \ leaving', held[o] # 0 PROVE stage'[held[o]] = "built"
      <4>1. o \in Reader \ leaving
        BY <2>1, <3>3
      <4>2. held[o] \in Engine
        BY <3>3 DEF Engine
      <4>3. held[o] # e
        BY <2>3, <3>3
      <4>4. stage[held[o]] = "built"
        BY <3>3, <4>1
      <4> QED  BY <2>4, <4>2, <4>3, <4>4
    <3> QED  BY <1>1, <2>1, <3>1, <3>2, <3>3
  <2> QED  BY <1>1, <2>1, <2>2, <2>5, <2>6
<1> QED  BY <1>2, <1>3

\* No engine has been begun.
LEMMA OwnerInit == Init => OwnerInv
<1> SUFFICES ASSUME Init PROVE OwnerInv
  OBVIOUS
<1>1. HeapFollowsStage
  <2>1. heap = {} /\ \A e \in Engine : stage[e] = "unborn"
    BY DEF Init, RuntimeInit
  <2>2. \A part \in Part : "unborn" \notin Having(part)
    BY DEF Having, Stages, Part
  <2> QED  BY <2>1, <2>2 DEF HeapFollowsStage
<1> QED  BY <1>1, RuntimeAssumption
  DEF Init, CatalogInit, RuntimeInit, OwnerInv, OwnerTypes, Stages, Places, UsedAreBuilt, RoomToLoad

-----------------------------------------------------------------------------
(* Texts out of llama.cpp.                                                 *)

\* The smaller of two numbers.
LEMMA MinOfTwo ==
  ASSUME NEW a \in Int, NEW b \in Int
  PROVE  Min({a, b}) = IF a <= b THEN a ELSE b
<1> DEFINE m == IF a <= b THEN a ELSE b
<1>1. m \in {a, b} /\ \A y \in {a, b} : m =< y
  OBVIOUS
<1>2. \A x \in {a, b} : (\A y \in {a, b} : x =< y) => x = m
  OBVIOUS
<1> QED  BY <1>1, <1>2 DEF Min

\* A buffer begins with what was written to it.
LEMMA FilledBegins ==
  ASSUME NEW text \in Seq(Nat), NEW size \in Nat, NEW k \in Nat, k <= size, k <= Len(text)
  PROVE  SubSeq(Filled(size, text), 1, k) = SubSeq(text, 1, k)
<1> DEFINE buffer == Filled(size, text)
           a == SubSeq(buffer, 1, k)
           b == SubSeq(text, 1, k)
<1>1. Len(text) \in Nat /\ \A i \in 1 .. Len(text) : text[i] \in Nat
  BY LenProperties, ElementOfSeq
<1>2. \A i \in 1 .. k : buffer[i] = text[i] /\ buffer[i] \in Nat
  BY <1>1 DEF Filled
<1> HIDE DEF buffer
<1>3. a \in Seq(Nat) /\ Len(a) = k /\ \A i \in 1 .. k : a[i] = buffer[i]
  <2>1. \A i \in 1 .. k : buffer[i] \in Nat
    BY <1>2
  <2> QED  BY <2>1, SubSeqProperties
<1>4. b \in Seq(Nat) /\ Len(b) = k /\ \A i \in 1 .. k : b[i] = text[i]
  <2>1. \A i \in 1 .. k : text[i] \in Nat
    BY <1>1
  <2> QED  BY <2>1, SubSeqProperties
<1> HIDE DEF a, b
<1>5. \A i \in 1 .. k : a[i] = b[i]
  BY <1>2, <1>3, <1>4
<1>6. a = b
  BY <1>3, <1>4, <1>5, SeqEqual
<1> QED  BY <1>6 DEF a, b, buffer

\* The first m characters of the first m characters.
LEMMA CutTwice ==
  ASSUME NEW text \in Seq(Nat), NEW m \in Nat, m <= Len(text)
  PROVE  /\ SubSeq(text, 1, m) \in Seq(Nat) /\ Len(SubSeq(text, 1, m)) = m
         /\ SubSeq(SubSeq(text, 1, m), 1, m) = SubSeq(text, 1, m)
<1> DEFINE cut == SubSeq(text, 1, m)
<1>1. \A i \in 1 .. m : text[i] \in Nat
  BY LenProperties, ElementOfSeq
<1>2. cut \in Seq(Nat) /\ Len(cut) = m
  BY <1>1, SubSeqProperties
<1> HIDE DEF cut
<1>3. SubSeq(cut, 1, m) = cut
  BY <1>2, SubSeqFull
<1> QED  BY <1>2, <1>3 DEF cut

\* Whatever the text and the first buffer, every query returns the whole text.
LEMMA ReturnedIsWhole ==
  ASSUME NEW text \in Seq(Nat), text # Unsupported, NEW query \in Query, NEW room \in Nat \ {0}
  PROVE  Returned(query, text, room) = Whole(query, text, room)
<1> DEFINE n == Len(text)
<1>1. n \in Nat /\ SubSeq(text, 1, n) = text
  BY LenProperties, SubSeqFull
<1>2. \A size \in Nat : n <= size => SubSeq(Filled(size, text), 1, n) = text
  BY <1>1, FilledBegins
<1>3. FirstThenExact(text, room) = text
  <2>1. CASE n > room
    <3>1. copying(text, room).n = -n /\ copying(text, n) = [n |-> n, out |-> Filled(n, text)]
      BY <1>1, <2>1 DEF copying
    <3> QED  BY <1>1, <1>2, <2>1, <3>1 DEF FirstThenExact
  <2>2. CASE n <= room
    <3>1. copying(text, room) = [n |-> n, out |-> Filled(room, text)]
      BY <1>1, <2>2 DEF copying
    <3> QED  BY <1>1, <1>2, <2>2, <3>1 DEF FirstThenExact
  <2> QED  BY <1>1, <2>1, <2>2
<1>4. render_chat(text, room) = text
  BY <1>1, <1>2 DEF render_chat, cutting
<1>5. ASSUME NEW size \in Nat, n < size
      PROVE  printing(text, size) = [n |-> n, out |-> Filled(size, text)]
  <2>1. Min({n, size - 1}) = n
    BY <1>1, <1>5, MinOfTwo
  <2> QED  BY <1>1, <2>1 DEF printing
<1>6. metadata(text, room) = text
  <2>1. printing(text, room).n = n
    BY DEF printing
  <2>2. CASE n >= room
    <3>1. metadata(text, room) = SubSeq(printing(text, n + 1).out, 1, printing(text, n + 1).n)
      BY <2>1, <2>2 DEF metadata
    <3>2. printing(text, n + 1) = [n |-> n, out |-> Filled(n + 1, text)]
      BY <1>1, <1>5
    <3> QED  BY <1>1, <1>2, <3>1, <3>2
  <2>3. CASE n < room
    <3>1. metadata(text, room) = SubSeq(printing(text, room).out, 1, printing(text, room).n)
      BY <1>1, <2>1, <2>3 DEF metadata
    <3> QED  BY <1>1, <1>2, <1>5, <2>3, <3>1
  <2> QED  BY <1>1, <2>2, <2>3
<1>7. model_description(text, room) = SubSeq(text, 1, Min({n, room - 1}))
  <2> DEFINE m == Min({n, room - 1})
             cut == SubSeq(text, 1, m)
  <2>1. m \in Nat /\ m <= n /\ m <= room
    BY <1>1, MinOfTwo
  <2>2. model_description(text, room) = SubSeq(Filled(room, cut), 1, m)
    BY DEF model_description, printing
  <2> HIDE DEF m
  <2>3. cut \in Seq(Nat) /\ Len(cut) = m /\ SubSeq(cut, 1, m) = cut
    BY <2>1, CutTwice
  <2> HIDE DEF cut
  <2>4. SubSeq(Filled(room, cut), 1, m) = SubSeq(cut, 1, m)
    BY <2>1, <2>3, FilledBegins, SMTT(30)
  <2> QED  BY <2>2, <2>3, <2>4 DEF m, cut
<1>8. CASE query \in {"tokens", "piece"}
  BY <1>3, <1>8 DEF Returned, Whole
<1>9. CASE query = "chat"
  BY <1>4, <1>9 DEF Returned, Whole
<1>10. CASE query = "metadata"
  BY <1>6, <1>10 DEF Returned, Whole
<1>11. CASE query = "description"
  BY <1>7, <1>11 DEF Returned, Whole
<1> QED  BY <1>8, <1>9, <1>10, <1>11 DEF Query

\* No query is ever misread.
LEMMA NothingMisread == Misread = {}
<1>1. ASSUME NEW query \in Query, NEW text \in Texts(query)
      PROVE  Returned(query, text, Room) = Whole(query, text, Room)
  <2>1. CASE text = Unsupported
    <3>1. query \in {"chat", "metadata"}
      BY <2>1, RuntimeAssumption DEF Texts
    <3> QED  BY <2>1, <3>1 DEF Returned, Whole, render_chat, metadata
  <2>2. CASE text # Unsupported
    <3>1. PICK n \in 0 .. MaxText : text = [i \in 1 .. n |-> i]
      BY <2>2 DEF Texts
    <3>2. text \in Seq(Nat)
      BY <3>1, RuntimeAssumption
    <3> QED  BY <2>2, <3>2, ReturnedIsWhole, RuntimeAssumption
  <2> QED  BY <2>1, <2>2
<1> QED  BY <1>1 DEF Misread

\* The invariant of scan and owners together is inductive.
THEOREM Invariance == Spec => []IInv
<1>1. Init => OwnerInv /\ TextsAreWhole
  BY OwnerInit DEF Init, RuntimeInit, TextsAreWhole
<1>2. ScanInv /\ OwnerInv /\ [Next]_vars => OwnerInv'
  <2>1. CASE UNCHANGED vars
    BY <2>1 DEF vars, catalogVars, scan, runtimeVars, loaderVars, ownerVars, OwnerInv, OwnerTypes,
                HeapFollowsStage, UsedAreBuilt, RoomToLoad, Loads
  <2> QED  BY <2>1, PointersKeep, LivesKeep, DropKeeps, LeaveKeeps DEF Next, LoaderStep
<1>3. TextsAreWhole /\ [Next]_vars => TextsAreWhole'
  <2> SUFFICES ASSUME TextsAreWhole, [Next]_vars PROVE TextsAreWhole'
    OBVIOUS
  <2>1. torn' = torn \/ torn' = torn \cup Misread
    <3>1. CASE Construct \/ Destroy
      BY <3>1 DEF Construct, Destroy, ConstructStep, DestroyStep, LoadModel, LoadModelFails,
             CreateContext, CreateContextFails, InitBatch, Describe, DescribeThrows, FreeBatch,
             FreeContext, FreeModel, Allocate, Free, Goto
    <3>2. CASE DropPrevious \/ \E r \in Reader : Leave(r)
      BY <3>2 DEF DropPrevious, Leave, Goto, runtimeVars
    <3>3. CASE \E r \in Reader : Use(r)
      BY <3>3 DEF Use, Ask
    <3>4. CASE \/ LoadAtStartup \/ Request \/ Scan \/ Found \/ LoadEnds \/ Replace \/ Disturb
               \/ \E r \in Reader : Take(r) \/ Left(r)
      BY <3>4 DEF LoadAtStartup, Request, Scan, Found, LoadEnds, Replace, Disturb, Take, Left, runtimeVars
    <3>5. CASE UNCHANGED vars
      BY <3>5 DEF vars, runtimeVars
    <3> QED  BY <3>1, <3>2, <3>3, <3>4, <3>5 DEF Next, LoaderStep
  <2> QED  BY <2>1, NothingMisread DEF TextsAreWhole
<1> QED  BY <1>1, <1>2, <1>3, ScanInvariance, PTL DEF Spec, IInv

\* For any number of engines and readers and every path of failure: an engine
\* that was not built or was destroyed owns no native object, no context
\* outlives its model, and nothing is freed that a request, the active pointer
\* or the swap may still use.
THEOREM NativesAreOwned == Spec => []NativesFollowOwners
<1>1. OwnerInv => NativesFollowOwners
  <2> SUFFICES ASSUME OwnerInv PROVE NativesFollowOwners
    OBVIOUS
  <2>1. \A e \in Engine : stage[e] \in {"unborn", "gone"} => heap \cap (Part \X {e}) = {}
    <3>1. \A part \in Part : "unborn" \notin Having(part) /\ "gone" \notin Having(part)
      BY DEF Having, Stages, Part
    <3>2. \A e \in Engine, part \in Part : stage[e] \in {"unborn", "gone"} => <<part, e>> \notin heap
      BY <3>1 DEF OwnerInv, HeapFollowsStage
    <3> QED  BY <3>2
  <2>2. \A e \in Engine : <<"context", e>> \in heap => <<"model", e>> \in heap
    BY DEF OwnerInv, HeapFollowsStage, Having, Part, Stages
  <2>3. \A e \in InUse \ {0} : e \in Engine /\ stage[e] = "built"
    BY RuntimeAssumption DEF InUse, OwnerInv, OwnerTypes, UsedAreBuilt, Engine
  <2>4. \A part \in Part : "built" \in Having(part)
    BY DEF Having, Stages, Part
  <2>5. \A e \in InUse \ {0} : Part \X {e} \subseteq heap
    BY <2>3, <2>4 DEF OwnerInv, HeapFollowsStage
  <2> QED  BY <2>1, <2>2, <2>5 DEF NativesFollowOwners, NativesOwned
<1> QED  BY <1>1, Invariance, PTL DEF IInv

\* For any size of the first buffers and any text: tokens, pieces, rendered
\* chats and metadata come back whole, a description cut to its buffer.
THEOREM TextsComeBackWhole == Spec => []TextsAreWhole
<1> QED  BY Invariance, PTL DEF IInv
=============================================================================
