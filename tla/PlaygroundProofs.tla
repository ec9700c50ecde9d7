-------------------------- MODULE PlaygroundProofs --------------------------
(***************************************************************************)
(* For any number of models, decodes, switches and refreshes: once nothing *)
(* is under way, the page shows the state of things, unless the newest     *)
(* request was overtaken, and no button is stuck.                          *)
(***************************************************************************)
EXTENDS Playground, TLAPS, FiniteSetTheorems

Over == {s \in Switch : switches[s] = "over"}

\* Decodes, switches and refreshes begin in the order of their numbers, and
\* each switch that ends begins a refresh.
Numbered ==
  /\ \E n \in 0 .. MaxDecodes : Begun(decodes) = 1 .. n
  /\ \E n \in 0 .. MaxSwitches : Begun(switches) = 1 .. n
  /\ Begun(refreshes) = 1 .. Cardinality(Over) + 1

\* The decode that ended last left its mark, which no other step but a decode
\* removes.
LastDecodeShows ==
  lastDecode # 0 =>
    /\ lastDecode \in Decode
    /\ decodes[lastDecode] \in {"answered", "refused"}
    /\ decodes[lastDecode] = "answered" => result = lastDecode
    /\ decodes[lastDecode] = "refused" /\ request = lastDecode =>
         problem \in {<<"decode", lastDecode>>, <<>>} \cup ({"switch"} \X Switch)

\* While no switch is under way, the newest refresh has read, or will read, the
\* model that is active: a switch would have begun a newer one.
NewestRefreshIsTrue ==
  LET newest == Cardinality(Over) + 1 IN
    UnderWay(switches) = {} =>
      /\ health[newest] \in {Unread, active}
      /\ source = newest => status \in {active, Unreachable}

PInv ==
  /\ decodes \in [Decode -> {"none", "sent", "answered", "refused"}]
  /\ switches \in [Switch -> {"none", "sent", "done", "refused", "over"}]
  /\ refreshes \in [Refresh -> {"none", "sent", "over"}]
  /\ DOMAIN health = Refresh
  /\ source \in Begun(refreshes) \cup {0}
  /\ \A r \in Refresh : refreshes[r] = "none" => health[r] = Unread
  /\ Numbered
  /\ LastDecodeShows
  /\ NewestRefreshIsTrue

-----------------------------------------------------------------------------
\* The size of an initial segment.
LEMMA SegmentSize ==
  ASSUME NEW n \in Nat
  PROVE  Cardinality(1 .. n) = n /\ IsFiniteSet(1 .. n)
  BY FS_Interval

\* The largest number of an initial segment.
LEMMA SegmentMax ==
  ASSUME NEW n \in Nat \ {0}
  PROVE  Max(1 .. n) = n
  BY DEF Max

\* How many switches are over.
LEMMA OverFacts ==
  ASSUME PInv
  PROVE  /\ IsFiniteSet(Over)
         /\ Cardinality(Over) \in 0 .. MaxSwitches
         /\ Cardinality(Over) + 1 \in Refresh
         /\ \A s \in Switch : s \notin Over => Cardinality(Over) < MaxSwitches
<1>1. MaxSwitches \in Nat /\ IsFiniteSet(Switch) /\ Cardinality(Switch) = MaxSwitches
  BY PlaygroundAssumption, SegmentSize DEF Switch
<1>2. IsFiniteSet(Over) /\ Cardinality(Over) <= MaxSwitches /\ Cardinality(Over) \in Nat
  BY <1>1, FS_Subset, FS_CardinalityType DEF Over
<1>3. ASSUME NEW s \in Switch, s \notin Over PROVE Cardinality(Over) < MaxSwitches
  <2>1. Over \subseteq Switch /\ Over # Switch
    BY <1>3 DEF Over
  <2>2. Cardinality(Over) = Cardinality(Switch) => Over = Switch
    BY <1>1, <2>1, FS_Subset
  <2> QED  BY <1>1, <1>2, <2>1, <2>2
<1> QED  BY <1>1, <1>2, <1>3 DEF Refresh

-----------------------------------------------------------------------------
\* One refresh has begun, nothing else.
LEMMA InitEstablishesPInv ==
  ASSUME Init
  PROVE  PInv
<1>1. Begun(decodes) = 1 .. 0 /\ Begun(switches) = 1 .. 0 /\ Begun(refreshes) = 1 .. 1
  BY PlaygroundAssumption DEF Init, Begun, Decode, Switch, Refresh
<1>2. Over = {} /\ Cardinality(Over) = 0
  BY FS_EmptySet DEF Init, Over
<1>3. Numbered
  <2>1. 0 \in 0 .. MaxDecodes /\ 0 \in 0 .. MaxSwitches
    BY PlaygroundAssumption
  <2>2. Cardinality(Over) + 1 = 1
    BY <1>2
  <2> QED  BY <1>1, <2>1, <2>2 DEF Numbered
<1>4. NewestRefreshIsTrue
  BY <1>2, PlaygroundAssumption DEF Init, NewestRefreshIsTrue, Refresh
<1> QED  BY <1>3, <1>4 DEF Init, PInv, LastDecodeShows

\* A decode begins: it is the next number, and not the one that ended last.
LEMMA SendKeeps ==
  ASSUME PInv, NEW d \in Decode, Send(d)
  PROVE  PInv'
<1>1. PICK n \in 0 .. MaxDecodes : Begun(decodes) = 1 .. n
  BY DEF PInv, Numbered
<1>2. d = n + 1
  BY <1>1, SegmentSize, PlaygroundAssumption DEF Send
<1>3. Begun(decodes)' = 1 .. n + 1 /\ n + 1 \in 0 .. MaxDecodes
  BY <1>1, <1>2, PlaygroundAssumption DEF PInv, Send, Begun, Decode
<1>4. Over' = Over /\ Begun(switches)' = Begun(switches)
      /\ Begun(refreshes)' = Begun(refreshes)
  BY DEF Send, switchVars, refreshVars, Over, Begun
<1>5. Numbered'
  BY <1>3, <1>4 DEF PInv, Numbered
<1>6. decodes[d] = "none"
  BY <1>1, <1>2, PlaygroundAssumption DEF PInv, Begun
<1>7. LastDecodeShows'
  BY <1>6 DEF PInv, LastDecodeShows, Send
<1>8. NewestRefreshIsTrue'
  BY <1>4 DEF PInv, NewestRefreshIsTrue, Send, switchVars, refreshVars, UnderWay
<1> QED  BY <1>4, <1>5, <1>7, <1>8 DEF PInv, Send, switchVars, refreshVars

\* A decode ends.
LEMMA DecodeEndKeeps ==
  ASSUME PInv, NEW d \in Decode, Render(d) \/ DecodeFails(d)
  PROVE  PInv'
<1>1. decodes[d] = "sent" /\ DOMAIN decodes' = DOMAIN decodes
      /\ \E how \in {"answered", "refused"} : decodes' = [decodes EXCEPT ![d] = how]
  BY DEF Render, DecodeFails, Finally
<1>2. UNCHANGED <<active, switches, refreshes, health, source, status>>
  BY DEF Render, DecodeFails, switchVars, refreshVars
<1>3. Begun(decodes)' = Begun(decodes)
  BY <1>1 DEF PInv, Begun
<1>4. Over' = Over /\ Begun(switches)' = Begun(switches)
      /\ Begun(refreshes)' = Begun(refreshes) /\ UnderWay(switches)' = UnderWay(switches)
  BY <1>2 DEF Over, Begun, UnderWay
<1>5. Numbered'
  BY <1>3, <1>4 DEF PInv, Numbered
<1>6. d # 0
  BY PlaygroundAssumption DEF Decode
<1>7. LastDecodeShows'
  BY <1>6 DEF PInv, LastDecodeShows, Render, DecodeFails, Finally
<1>8. NewestRefreshIsTrue'
  BY <1>2, <1>4 DEF PInv, NewestRefreshIsTrue
<1> QED  BY <1>1, <1>2, <1>4, <1>5, <1>7, <1>8 DEF PInv

\* A preset only hides the problem box.
LEMMA PresetKeeps ==
  ASSUME PInv, LoadPreset \/ UNCHANGED vars
  PROVE  PInv'
<1>1. UNCHANGED <<active, decodes, lastDecode, request, result, switches, refreshes,
                  health, source, status>> /\ problem' \in {problem, <<>>}
  BY DEF LoadPreset, vars, decodeVars, switchVars, refreshVars
<1>2. Over' = Over /\ Begun(switches)' = Begun(switches) /\ Begun(decodes)' = Begun(decodes)
      /\ Begun(refreshes)' = Begun(refreshes) /\ UnderWay(switches)' = UnderWay(switches)
  BY <1>1 DEF Over, Begun, UnderWay
<1>3. Numbered'
  BY <1>2 DEF PInv, Numbered
<1>4. LastDecodeShows'
  BY <1>1 DEF PInv, LastDecodeShows
<1>5. NewestRefreshIsTrue'
  BY <1>1, <1>2 DEF PInv, NewestRefreshIsTrue
<1> QED  BY <1>1, <1>2, <1>3, <1>4, <1>5 DEF PInv

-----------------------------------------------------------------------------
\* A switch begins, or the server has worked it off: it is under way.
LEMMA SwitchingKeeps ==
  ASSUME PInv, NEW s \in Switch,
         (\E m \in Model : Click(s, m)) \/ ServerSelects(s)
  PROVE  PInv'
<1>1. UNCHANGED <<decodes, lastDecode, request, result, refreshes, health, source, status>>
      /\ problem' \in {problem, <<>>}
  BY DEF Click, ServerSelects, decodeVars, refreshVars
<1>2. \E how \in {"sent", "done", "refused"} : switches' = [switches EXCEPT ![s] = how]
  BY DEF Click, ServerSelects
<1>3. PICK n \in 0 .. MaxSwitches : Begun(switches) = 1 .. n
  BY DEF PInv, Numbered
<1>4. switches[s] # "over" /\ \E k \in 0 .. MaxSwitches : Begun(switches)' = 1 .. k
  <2>1. CASE \E m \in Model : Click(s, m)
    <3>1. s = n + 1
      BY <1>3, <2>1, SegmentSize, PlaygroundAssumption DEF Click
    <3>2. switches[s] = "none"
      BY <1>3, <3>1, PlaygroundAssumption DEF PInv, Begun
    <3>3. Begun(switches)' = 1 .. n + 1 /\ n + 1 \in 0 .. MaxSwitches
      BY <1>2, <1>3, <3>1, PlaygroundAssumption DEF PInv, Begun, Switch
    <3> QED  BY <3>2, <3>3
  <2>2. CASE ServerSelects(s)
    <3>1. switches[s] = "sent"
      BY <2>2 DEF ServerSelects
    <3>2. Begun(switches)' = Begun(switches)
      BY <1>2, <3>1 DEF PInv, Begun
    <3> QED  BY <1>3, <3>1, <3>2
  <2> QED  BY <2>1, <2>2
<1>5. Over' = Over /\ Begun(refreshes)' = Begun(refreshes) /\ Begun(decodes)' = Begun(decodes)
  BY <1>1, <1>2, <1>4 DEF PInv, Over, Begun
<1>6. Numbered'
  BY <1>4, <1>5 DEF PInv, Numbered
<1>7. LastDecodeShows'
  BY <1>1 DEF PInv, LastDecodeShows
<1>8. UnderWay(switches)' # {}
  BY <1>2 DEF PInv, UnderWay
<1>9. NewestRefreshIsTrue'
  BY <1>8 DEF NewestRefreshIsTrue
<1> QED  BY <1>1, <1>2, <1>5, <1>6, <1>7, <1>9 DEF PInv

\* A switch ends and begins a refresh, the newest, which has read nothing yet.
LEMMA SwitchEndKeeps ==
  ASSUME PInv, NEW s \in Switch, SwitchEnds(s)
  PROVE  PInv'
<1> DEFINE k == Cardinality(Over)
<1>1. IsFiniteSet(Over) /\ k \in Nat /\ k < MaxSwitches /\ s \notin Over
  BY OverFacts, PlaygroundAssumption DEF SwitchEnds, Over
<1>2. Over' = Over \cup {s}
  BY DEF PInv, SwitchEnds, Over
<1>3. Cardinality(Over') = k + 1
  BY <1>1, <1>2, FS_AddElement
<1>4. Cardinality(Begun(refreshes)) = k + 1
  BY <1>1, SegmentSize DEF PInv, Numbered
<1>5. refreshes' = [refreshes EXCEPT ![k + 2] = "sent"] /\ k + 2 \in Refresh
  <2>1. Cardinality(Begun(refreshes)) + 1 = k + 2
    BY <1>1, <1>4
  <2>2. refreshes' = [refreshes EXCEPT ![k + 2] = "sent"]
    BY <2>1 DEF SwitchEnds, RefreshAgain
  <2> QED  BY <1>1, <2>2, PlaygroundAssumption DEF Refresh
<1>6. Begun(refreshes)' = 1 .. k + 2 /\ refreshes[k + 2] = "none"
  BY <1>1, <1>5 DEF PInv, Numbered, Begun
<1>7. Begun(switches)' = Begun(switches) /\ Begun(decodes)' = Begun(decodes)
  BY DEF PInv, SwitchEnds, decodeVars, Begun
<1>8. Numbered'
  <2>1. Begun(refreshes)' = 1 .. Cardinality(Over') + 1
    BY <1>1, <1>3, <1>6
  <2> QED  BY <1>7, <2>1 DEF PInv, Numbered
<1>9. LastDecodeShows'
  BY DEF PInv, LastDecodeShows, SwitchEnds, decodeVars
<1>10. NewestRefreshIsTrue'
  <2>1. health'[k + 2] = Unread
    BY <1>5, <1>6 DEF PInv, SwitchEnds
  <2>2. source' # k + 2
    BY <1>1 DEF PInv, Numbered, SwitchEnds
  <2>3. Cardinality(Over') + 1 = k + 2
    BY <1>1, <1>3
  <2> QED  BY <2>1, <2>2, <2>3 DEF NewestRefreshIsTrue
<1>11. source' \in Begun(refreshes)' \cup {0}
  BY <1>1, <1>6 DEF PInv, Numbered, SwitchEnds
<1> QED
  BY <1>5, <1>8, <1>9, <1>10, <1>11 DEF PInv, SwitchEnds, decodeVars

\* A refresh reads the active model, writes it to the status line, or fails.
LEMMA RefreshKeeps ==
  ASSUME PInv, NEW r \in Refresh, ServerHealth(r) \/ RefreshEnds(r) \/ RefreshFails(r)
  PROVE  PInv'
<1>1. UNCHANGED <<active, decodes, lastDecode, request, result, problem, switches>>
  BY DEF ServerHealth, RefreshEnds, RefreshFails, decodeVars, switchVars
<1>2. refreshes[r] = "sent" /\ refreshes' \in {refreshes, [refreshes EXCEPT ![r] = "over"]}
  BY DEF ServerHealth, RefreshEnds, RefreshFails
<1>3. Begun(refreshes)' = Begun(refreshes) /\ r \in Begun(refreshes)
  BY <1>2 DEF PInv, Begun
<1>4. Over' = Over /\ Begun(switches)' = Begun(switches) /\ Begun(decodes)' = Begun(decodes)
      /\ UnderWay(switches)' = UnderWay(switches)
  BY <1>1 DEF Over, Begun, UnderWay
<1>5. Numbered'
  BY <1>3, <1>4 DEF PInv, Numbered
<1>6. LastDecodeShows'
  BY <1>1 DEF PInv, LastDecodeShows
<1>7. NewestRefreshIsTrue'
  <2> DEFINE newest == Cardinality(Over) + 1
  <2>1. SUFFICES ASSUME UnderWay(switches) = {}
                 PROVE  /\ health'[newest] \in {Unread, active}
                        /\ source' = newest => status' \in {active, Unreachable}
    BY <1>1, <1>4 DEF NewestRefreshIsTrue
  <2>2. newest \in Refresh /\ health[newest] \in {Unread, active}
        /\ (source = newest => status \in {active, Unreachable})
    BY <2>1, OverFacts DEF PInv, NewestRefreshIsTrue
  <2> HIDE DEF newest
  <2> QED  BY <2>2 DEF PInv, ServerHealth, RefreshEnds, RefreshFails
<1>8. source' \in Begun(refreshes)' \cup {0}
  BY <1>3 DEF PInv, ServerHealth, RefreshEnds, RefreshFails
<1>9. DOMAIN health' = Refresh /\ \A i \in Refresh : refreshes'[i] = "none" => health'[i] = Unread
  BY <1>2 DEF PInv, ServerHealth, RefreshEnds, RefreshFails
<1> QED  BY <1>1, <1>2, <1>5, <1>6, <1>7, <1>8, <1>9 DEF PInv

-----------------------------------------------------------------------------
\* Every state satisfies PInv.
THEOREM PageInvariance == Spec => []PInv
<1>1. Init => PInv
  BY InitEstablishesPInv
<1>2. PInv /\ [Next]_vars => PInv'
  <2> SUFFICES ASSUME PInv, [Next]_vars PROVE PInv'
    OBVIOUS
  <2>1. CASE \E d \in Decode : Send(d) \/ Render(d) \/ DecodeFails(d)
    BY <2>1, SendKeeps, DecodeEndKeeps
  <2>2. CASE \E s \in Switch : (\E m \in Model : Click(s, m)) \/ ServerSelects(s) \/ SwitchEnds(s)
    BY <2>2, SwitchingKeeps, SwitchEndKeeps
  <2>3. CASE \E r \in Refresh : ServerHealth(r) \/ RefreshEnds(r) \/ RefreshFails(r)
    BY <2>3, RefreshKeeps
  <2>4. CASE LoadPreset \/ UNCHANGED vars
    BY <2>4, PresetKeeps
  <2> QED  BY <2>1, <2>2, <2>3, <2>4 DEF Next, Answers
<1> QED  BY <1>1, <1>2, PTL DEF Spec

\* AtRestTheNewestShows: app.js:230 (a decode's result), :127-141 (the status
\* line), :241 (each switch refreshes), for any number of overlapping requests.
THEOREM PageShowsTheNewest == Spec => []AtRestTheNewestShows
<1>1. PInv => AtRestTheNewestShows
  <2> SUFFICES ASSUME PInv PROVE AtRestTheNewestShows
    OBVIOUS
  <2>1. ASSUME UnderWay(switches) = {}, source = Max(Begun(refreshes))
        PROVE  status \in {active, Unreachable}
    <3>1. Cardinality(Over) + 1 \in Nat \ {0}
      BY OverFacts, PlaygroundAssumption
    <3>2. Max(Begun(refreshes)) = Cardinality(Over) + 1
      BY <3>1, SegmentMax DEF PInv, Numbered
    <3> QED  BY <2>1, <3>2 DEF PInv, NewestRefreshIsTrue
  <2>2. ASSUME lastDecode = request, request # 0
        PROVE  \/ decodes[request] = "answered" /\ result = request
               \/ /\ decodes[request] = "refused"
                  /\ problem \in {<<"decode", request>>, <<>>} \cup ({"switch"} \X Switch)
    BY <2>2 DEF PInv, LastDecodeShows
  <2> QED  BY <2>1, <2>2 DEF AtRestTheNewestShows
<1> QED  BY <1>1, PageInvariance, PTL
-----------------------------------------------------------------------------
(* No button is stuck.                                                      *)

\* A button that is disabled or says that it is busy stands for a request that is
\* still under way, and whose end enables it; without a model in its list the
\* Switch button is disabled anyway.
BusyMeansUnderWay ==
  /\ decodeBusy => DecodesUnderWay # {}
  /\ loading \/ (disabled /\ listed) => UnderWay(switches) # {}

\* Nothing but a request disables a button: the finally blocks of app.js:152 and
\* :241 leave none disabled when the last request is over, for any number of them.
THEOREM BusyButtonsAreWaiting == Spec => []BusyMeansUnderWay
<1>1. Init => BusyMeansUnderWay
  BY DEF Init, BusyMeansUnderWay
<1>2. PInv /\ BusyMeansUnderWay /\ [Next]_vars => BusyMeansUnderWay'
  <2> SUFFICES ASSUME PInv, BusyMeansUnderWay, [Next]_vars PROVE BusyMeansUnderWay'
    OBVIOUS
  <2> USE DEF BusyMeansUnderWay, DecodesUnderWay, UnderWay, PInv,
              decodeVars, switchVars, refreshVars
  <2>1. ASSUME NEW d \in Decode, Send(d) PROVE BusyMeansUnderWay'
    BY <2>1 DEF Send
  <2>2. ASSUME NEW d \in Decode, Render(d) \/ DecodeFails(d) PROVE BusyMeansUnderWay'
    BY <2>2 DEF Render, DecodeFails, Finally
  <2>3. ASSUME NEW s \in Switch, NEW m \in Model, Click(s, m) PROVE BusyMeansUnderWay'
    BY <2>3 DEF Click
  <2>4. ASSUME NEW s \in Switch, ServerSelects(s) PROVE BusyMeansUnderWay'
    BY <2>4 DEF ServerSelects
  <2>5. ASSUME NEW s \in Switch, SwitchEnds(s) PROVE BusyMeansUnderWay'
    BY <2>5 DEF SwitchEnds
  <2>6. ASSUME NEW r \in Refresh, ServerHealth(r) \/ RefreshFails(r)
        PROVE  BusyMeansUnderWay'
    BY <2>6 DEF ServerHealth, RefreshFails
  <2>8. ASSUME NEW r \in Refresh, RefreshEnds(r) PROVE BusyMeansUnderWay'
    <3>1. UNCHANGED <<decodes, decodeBusy, switches, loading>>
      BY <2>8 DEF RefreshEnds
    <3>2. disabled' = ~listed'
      BY <2>8 DEF RefreshEnds
    <3>3. ~(disabled' /\ listed')
      <4>1. CASE listed'
        BY ONLY <3>2, <4>1, Zenon
      <4> QED  BY ONLY <4>1, Zenon
    <3> QED  BY <3>1, <3>3
  <2>7. CASE LoadPreset \/ UNCHANGED vars
    BY <2>7 DEF LoadPreset, vars
  <2> QED  BY <2>1, <2>2, <2>3, <2>4, <2>5, <2>6, <2>7, <2>8 DEF Next, Answers
<1> QED  BY <1>1, <1>2, PageInvariance, PTL DEF Spec
=============================================================================
