----------------------------- MODULE ModelLoading -----------------------------
(***************************************************************************)
(* From a file of the models directory to the active engine and back:      *)
(* ModelManager::select and load_path (src/src/model_manager.cpp) with the *)
(* scan of module ModelCatalog and the native objects of LlamaRuntime,     *)
(* while files change and requests use engines.                            *)
(*                                                                         *)
(* One thread, the loader, lists, selects and loads; load_mutex_ lets no   *)
(* two threads load at once.  Readers are requests that hold a shared_ptr. *)
(* The last owner of an engine runs its destructor: a reader, or the       *)
(* loader when it drops `previous`.                                        *)
(***************************************************************************)
EXTENDS ModelCatalog, LlamaRuntime

CONSTANT Reader

ASSUME LoadingAssumption == IsFiniteSet(Reader)

VARIABLES
  at,      \* where the loader is
  wanted,  \* the name it selects, NoName for GET /v1/models
  mine,    \* the engine it builds or destroys, 0 if none
  active,  \* engine_: the active engine, 0 if none
  held,    \* reader -> its engine, 0 if none
  leaving  \* readers whose shared_ptr goes out of scope

loaderVars == <<at, wanted, mine>>
ownerVars == <<active, held, leaving>>
vars == <<catalogVars, runtimeVars, loaderVars, ownerVars>>

Init ==
  /\ CatalogInit
  /\ RuntimeInit
  /\ at = "startup" /\ wanted = NoName /\ mine = 0
  /\ active = 0
  /\ held = [r \in Reader |-> 0]
  /\ leaving = {}

Loads == Cardinality({e \in Engine : stage[e] # "unborn"})

\* Owners other than the loader's own shared_ptr.
Shared(e) == active = e \/ \E r \in Reader : held[r] = e /\ r \notin leaving

-----------------------------------------------------------------------------
\* main, at startup: load_path of a file that needs no catalog, or nothing.
LoadAtStartup ==
  /\ at = "startup"
  /\ \/ at' = "idle" /\ UNCHANGED <<wanted, mine>>
     \/ \E n \in Name : at' = "loading" /\ wanted' = n /\ mine' = Loads + 1
  /\ UNCHANGED <<catalogVars, runtimeVars, ownerVars>>

\* GET /v1/models, or select: find lists first.  An identifier with a slash is
\* refused before that and changes nothing.
Request ==
  /\ at = "idle"
  /\ Open \/ OpenFails
  /\ wanted' \in Name \cup {NoName}
  /\ wanted' # NoName => Loads < MaxEngines
  /\ at' = "scanning"
  /\ UNCHANGED <<mine, runtimeVars, ownerVars>>

Scan == ScanStep /\ UNCHANGED <<runtimeVars, loaderVars, ownerVars>>

\* find: the identifier is one of the list's, or UnknownModel is thrown.
Found ==
  /\ step \in {"done", "failed"}
  /\ IF step = "done" /\ wanted \in models
     THEN at' = "loading" /\ mine' = Loads + 1 /\ UNCHANGED wanted
     ELSE at' = "idle" /\ wanted' = NoName /\ UNCHANGED mine
  /\ Close
  /\ UNCHANGED <<runtimeVars, ownerVars>>

\* make_shared<PcdEngine>(path): the file is opened by its name, whatever it
\* now is.
Construct ==
  /\ at = "loading"
  /\ ConstructStep(mine)
  /\ stage'[mine] = "model" => directory[wanted] \in {"file", "inner", "outer"}
  /\ UNCHANGED <<catalogVars, loaderVars, ownerVars>>

\* The constructor threw, or the destructor has ended: load_mutex_ is released
\* and the request ends.
LoadEnds ==
  /\ at \in {"loading", "retiring"}
  /\ stage[mine] = "gone"
  /\ at' = "idle" /\ wanted' = NoName /\ mine' = 0
  /\ UNCHANGED <<catalogVars, runtimeVars, ownerVars>>

\* replace: the new engine is active; the loader owns the previous one.
Replace ==
  /\ at = "loading"
  /\ stage[mine] = "built"
  /\ active' = mine
  /\ mine' = active
  /\ at' = "dropping"
  /\ UNCHANGED <<catalogVars, runtimeVars, wanted, held, leaving>>

\* previous goes out of scope: the last owner destroys.
DropPrevious ==
  /\ at = "dropping"
  /\ IF mine = 0 \/ Shared(mine)
     THEN at' = "idle" /\ mine' = 0 /\ wanted' = NoName /\ UNCHANGED runtimeVars
     ELSE /\ at' = "retiring" /\ UNCHANGED <<mine, wanted>>
          /\ Goto(mine, "freeing batch") /\ UNCHANGED heap
  /\ UNCHANGED <<catalogVars, ownerVars>>

Destroy ==
  /\ \E e \in Engine : DestroyStep(e)
  /\ UNCHANGED <<catalogVars, loaderVars, ownerVars>>

-----------------------------------------------------------------------------
\* A request copies the shared_ptr, uses the engine, and lets it go.
Take(r) ==
  /\ held[r] = 0
  /\ active # 0
  /\ held' = [held EXCEPT ![r] = active]
  /\ UNCHANGED <<catalogVars, runtimeVars, loaderVars, active, leaving>>

Use(r) ==
  /\ held[r] # 0 /\ r \notin leaving
  /\ Ask(held[r])
  /\ UNCHANGED <<catalogVars, loaderVars, ownerVars>>

\* The loader still owns the previous engine between the swap and the drop.
Last(r) ==
  /\ active # held[r] /\ mine # held[r]
  /\ \A other \in Reader \ {r} : held[other] # held[r] \/ other \in leaving

Leave_Forgetting(r) ==
  /\ held[r] # 0 /\ r \notin leaving
  /\ held' = [held EXCEPT ![r] = 0] /\ UNCHANGED <<runtimeVars, leaving>>
  /\ UNCHANGED <<catalogVars, loaderVars, active>>

Leave(r) ==
  /\ held[r] # 0 /\ r \notin leaving
  /\ IF Last(r)
     THEN /\ leaving' = leaving \cup {r} /\ UNCHANGED held
          /\ Goto(held[r], "freeing batch") /\ UNCHANGED heap
     ELSE held' = [held EXCEPT ![r] = 0] /\ UNCHANGED <<runtimeVars, leaving>>
  /\ UNCHANGED <<catalogVars, loaderVars, active>>

Left(r) ==
  /\ r \in leaving
  /\ stage[held[r]] = "gone"
  /\ leaving' = leaving \ {r}
  /\ held' = [held EXCEPT ![r] = 0]
  /\ UNCHANGED <<catalogVars, runtimeVars, loaderVars, active>>

Disturb == Disturbance /\ UNCHANGED <<runtimeVars, loaderVars, ownerVars>>

LoaderStep == Scan \/ Found \/ Construct \/ LoadEnds \/ Replace \/ DropPrevious

Next ==
  \/ LoadAtStartup \/ Request \/ LoaderStep \/ Destroy \/ Disturb
  \/ \E r \in Reader : Take(r) \/ Use(r) \/ Leave(r) \/ Left(r)

Spec == Init /\ [][Next]_vars

\* Scans and loads end, so do requests, and destructors run to their end.
FairSpec ==
  /\ Spec
  /\ WF_vars(LoaderStep)
  /\ WF_vars(Destroy)
  /\ \A r \in Reader : WF_vars(Leave(r)) /\ WF_vars(Left(r))

-----------------------------------------------------------------------------
InUse == {active, IF at = "dropping" THEN mine ELSE 0}
           \cup {held[r] : r \in Reader \ leaving}

\* The native objects of an engine exist while anybody can use it, and no
\* failure of a load and no order of the swap and the last request leaks one.
NativesFollowOwners == NativesOwned(InUse \ {0})

\* A replaced engine is freed once its requests are over ("Retiring" an engine
\* is left to the last shared_ptr, model_manager.cpp:31).
RetiredIsFreed ==
  \A e \in Engine : (stage[e] = "built" /\ e # active) ~> (e = active \/ stage[e] = "gone")
=============================================================================
