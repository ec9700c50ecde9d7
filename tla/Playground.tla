------------------------------ MODULE Playground ------------------------------
(***************************************************************************)
(* The playground page (src/ui/app.js): decodes, model switches and        *)
(* refreshes of the model list, each an asynchronous function of the       *)
(* browser's one thread, with several requests under way at once and       *)
(* answered in any order.                                                  *)
(*                                                                         *)
(* A step is the code of the page between two awaits, or what the server   *)
(* does with a request.  Decodes, switches and refreshes are numbered in   *)
(* the order in which they begin; 0 is none.  The page is the only client  *)
(* that switches models, and a request that the server has taken over is   *)
(* answered by it.  The form, the list's entries and what a result looks   *)
(* like are left out; of the list it matters whether it names any model.   *)
(*                                                                         *)
(* Operators named X_Y are mistaken variants of X that only show that some *)
(* property tells X from X_Y.                                              *)
(***************************************************************************)
EXTENDS Integers, FiniteSets, FiniteSetsExt

CONSTANTS
  Model,        \* identifiers of the models in the directory
  NoModel,      \* no model is loaded
  Unread,       \* nothing read yet
  Unreachable,  \* "server unreachable"
  MaxDecodes, MaxSwitches  \* bounds

ASSUME PlaygroundAssumption ==
  /\ {NoModel, Unread, Unreachable} \cap Model = {}
  /\ MaxDecodes \in Nat /\ MaxSwitches \in Nat

Decode == 1 .. MaxDecodes
Switch == 1 .. MaxSwitches
Refresh == 1 .. MaxSwitches + 1   \* one when the page opens, one per switch

VARIABLES
  active,      \* the server's active model
  decodes,     \* decode -> "none", "sent", "answered" or "refused"
  lastDecode,  \* the decode that ended last (history)
  decodeBusy,  \* the Decode button is disabled, the result greyed out
  request,     \* the decode whose request is shown
  result,      \* the decode whose result is shown
  problem,     \* what the problem box shows: <<kind, number>>, or <<>>
  switches,    \* switch -> "none", "sent", "done", "refused" or "over"
  target,      \* switch -> the model asked for
  disabled,    \* the Switch button is disabled
  loading,     \* it reads "Loading..."
  refreshes,   \* refresh -> "none", "sent" or "over"
  health,      \* refresh -> the model /health has answered with
  listed,      \* the list names a model, one of which is selected
  status,      \* what the status line names
  source       \* the refresh that wrote it

decodeVars == <<decodes, lastDecode, decodeBusy, request, result>>
switchVars == <<switches, target, loading>>
refreshVars == <<refreshes, health, listed, status, source>>
vars == <<active, decodeVars, problem, switchVars, disabled, refreshVars>>

\* index.html's attributes, and the refresh at the end of app.js.
Init ==
  /\ active \in Model \cup {NoModel}
  /\ decodes = [d \in Decode |-> "none"] /\ lastDecode = 0
  /\ decodeBusy = FALSE /\ request = 0 /\ result = 0
  /\ problem = <<>>
  /\ switches = [s \in Switch |-> "none"]
  /\ target = [s \in Switch |-> NoModel]
  /\ disabled = TRUE /\ loading = FALSE
  /\ refreshes = [r \in Refresh |-> IF r = 1 THEN "sent" ELSE "none"]
  /\ health = [r \in Refresh |-> Unread]
  /\ listed = FALSE /\ status = Unread /\ source = 0

Begun(f) == {i \in DOMAIN f : f[i] # "none"}

-----------------------------------------------------------------------------
\* decode() up to the await.  The button is disabled meanwhile, the shortcut
\* of the text area is not, so any number may be under way.
Send(d) ==
  /\ d = Cardinality(Begun(decodes)) + 1
  /\ decodes' = [decodes EXCEPT ![d] = "sent"]
  /\ request' = d
  /\ problem' = <<>>
  /\ decodeBusy' = TRUE
  /\ UNCHANGED <<active, lastDecode, result, switchVars, disabled, refreshVars>>

Finally_IfAnswered(d, how) ==
  /\ decodes' = [decodes EXCEPT ![d] = how]
  /\ lastDecode' = d
  /\ decodeBusy' = (decodeBusy /\ how # "answered")

\* The finally block enables the button, whichever decode has ended.
Finally(d, how) ==
  /\ decodes' = [decodes EXCEPT ![d] = how]
  /\ lastDecode' = d
  /\ decodeBusy' = FALSE

Render(d) ==
  /\ decodes[d] = "sent"
  /\ result' = d
  /\ Finally(d, "answered")
  /\ UNCHANGED <<active, request, problem, switchVars, disabled, refreshVars>>

DecodeFails(d) ==
  /\ decodes[d] = "sent"
  /\ problem' = <<"decode", d>>
  /\ Finally(d, "refused")
  /\ UNCHANGED <<active, request, result, switchVars, disabled, refreshVars>>

\* loadPreset, when the presets arrive or the user picks one: the form is
\* filled anew and the problem box hidden.
LoadPreset ==
  /\ problem' = <<>>
  /\ UNCHANGED <<active, decodeVars, switchVars, disabled, refreshVars>>

-----------------------------------------------------------------------------
\* The Switch button, with some model of the list selected; without one the
\* handler returns at once.
Click(s, m) ==
  /\ s = Cardinality(Begun(switches)) + 1
  /\ listed /\ ~disabled
  /\ switches' = [switches EXCEPT ![s] = "sent"]
  /\ target' = [target EXCEPT ![s] = m]
  /\ disabled' = TRUE /\ loading' = TRUE
  /\ problem' = <<>>
  /\ UNCHANGED <<active, decodeVars, refreshVars>>

ServerSelects(s) ==
  /\ switches[s] = "sent"
  /\ \/ switches' = [switches EXCEPT ![s] = "done"] /\ active' = target[s]
     \/ switches' = [switches EXCEPT ![s] = "refused"] /\ UNCHANGED active
  /\ UNCHANGED <<decodeVars, problem, target, loading, disabled, refreshVars>>

RefreshAgain_IfRefused(s) ==
  refreshes' = IF switches[s] = "done" THEN refreshes
               ELSE [refreshes EXCEPT ![Cardinality(Begun(refreshes)) + 1] = "sent"]

\* refreshModels() up to its await.
RefreshAgain(s) ==
  refreshes' = [refreshes EXCEPT ![Cardinality(Begun(refreshes)) + 1] = "sent"]

\* The answer of select, with the finally block.
SwitchEnds(s) ==
  /\ switches[s] \in {"done", "refused"}
  /\ problem' = IF switches[s] = "refused" THEN <<"switch", s>> ELSE problem
  /\ switches' = [switches EXCEPT ![s] = "over"]
  /\ target' = [target EXCEPT ![s] = NoModel]
  /\ loading' = FALSE /\ disabled' = FALSE
  /\ RefreshAgain(s)
  /\ UNCHANGED <<active, decodeVars, health, listed, status, source>>

-----------------------------------------------------------------------------
ServerHealth(r) ==
  /\ refreshes[r] = "sent" /\ health[r] = Unread
  /\ health' = [health EXCEPT ![r] = active]
  /\ UNCHANGED <<active, decodeVars, problem, switchVars, disabled,
                 refreshes, listed, status, source>>

\* Both requests of a refresh are answered: list, status line and the Switch
\* button are set, the last even while a switch is loading.  The directory may
\* have been filled or emptied since; an empty list disables the button.
RefreshEnds(r) ==
  /\ refreshes[r] = "sent" /\ health[r] # Unread
  /\ refreshes' = [refreshes EXCEPT ![r] = "over"]
  /\ health' = [health EXCEPT ![r] = Unread]
  /\ listed' \in BOOLEAN /\ disabled' = ~listed'
  /\ status' = health[r] /\ source' = r
  /\ UNCHANGED <<active, decodeVars, problem, switchVars>>

\* One of them failed.
RefreshFails(r) ==
  /\ refreshes[r] = "sent"
  /\ refreshes' = [refreshes EXCEPT ![r] = "over"]
  /\ health' = [health EXCEPT ![r] = Unread]
  /\ status' = Unreachable /\ source' = r
  /\ UNCHANGED <<active, decodeVars, problem, switchVars, disabled, listed>>

Answers ==
  \/ \E d \in Decode : Render(d) \/ DecodeFails(d)
  \/ \E s \in Switch : ServerSelects(s) \/ SwitchEnds(s)
  \/ \E r \in Refresh : ServerHealth(r) \/ RefreshEnds(r) \/ RefreshFails(r)

Next ==
  \/ \E d \in Decode : Send(d)
  \/ \E s \in Switch, m \in Model : Click(s, m)
  \/ LoadPreset
  \/ Answers

Spec == Init /\ [][Next]_vars

\* Every request is answered or fails; the user need not do anything.
FairSpec == Spec /\ WF_vars(Answers)

-----------------------------------------------------------------------------
UnderWay(f) == {i \in DOMAIN f : f[i] \in {"sent", "done", "refused"}}
DecodesUnderWay == {d \in Decode : decodes[d] = "sent"}

\* Once nothing is under way the page shows the state of things, unless an
\* older request overlapped a newer one and was answered after it: the status
\* line names the server's active model (or says that it could not be asked),
\* and what is shown is the result of the request that is shown or, if that
\* failed, no problem of an earlier decode.
AtRestTheNewestShows ==
  /\ UnderWay(switches) = {} /\ UnderWay(refreshes) = {}
       /\ source = Max(Begun(refreshes))
     => status \in {active, Unreachable}
  /\ DecodesUnderWay = {} /\ lastDecode = request /\ request # 0
     => \/ decodes[request] = "answered" /\ result = request
        \/ /\ decodes[request] = "refused"
           /\ problem \in {<<"decode", request>>, <<>>} \cup ({"switch"} \X Switch)

\* A button that says it is busy comes back, whichever requests fail, overlap or
\* end first: app.js:152 and :241, both finally blocks, and the refreshes.  The
\* Switch button does so as long as there is a model to switch to.
ButtonsComeBack ==
  /\ decodeBusy ~> ~decodeBusy
  /\ loading ~> ~loading
  /\ disabled /\ listed ~> ~disabled \/ ~listed
=============================================================================
