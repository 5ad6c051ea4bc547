------------------------------ MODULE PoolProofs ------------------------------
(***************************************************************************)
(* Proof about Pool: for any servers, lists of members, requests and       *)
(* faults, the selector group is on REJECT or on a server that has passed  *)
(* the probe, unless somebody else has moved it.                           *)
(***************************************************************************)
EXTENDS Pool, TLAPS

-----------------------------------------------------------------------------
(* The inductive invariant.                                                *)

Fields == {"failures", "cooldown", "cursor", "wait"}
UpdateSteps ==
  {"idle", "get", "compare", "reset", "choose", "clear", "probe", "judge", "drop", "put", "back"}
Updates ==
  [step : UpdateSteps, by : {"none", "watchdog", "client"}, generation : Nat,
   selected : Servers \cup {NoServer}, expected : Servers \cup {Reject},
   actual : Servers \cup {Reject}, chosen : {u.chosen}, ok : BOOLEAN]
Cores == [up : BOOLEAN, generation : Nat, group : Servers \cup {Reject}]

PoolTyped ==
  pool \in Pools /\ undo.pool \in Pools /\ (setting.active => setting.previous \in Pools)
IsRuntime(r) == r = [f \in Fields |-> r[f]] /\ r.failures \in 0..(Threshold - 1)
RuntimeTyped == IsRuntime(runtime)
CoreTyped == core \in Cores /\ streak \in Nat /\ foreign \in BOOLEAN
UpdateTyped == u \in Updates /\ setting.active \in BOOLEAN
Typed == PoolTyped /\ RuntimeTyped /\ CoreTyped /\ UpdateTyped

(* An update and a change of the settings exclude each other.              *)
OneHolder == u.step = "idle" \/ ~setting.active

Carries == core.up /\ ~foreign /\ core.group # Reject

(* The server that carries the traffic has passed; it is the selected live *)
(* member, except after a selector request that failed.                    *)
Verified == Carries => core.group \in passed
Selected ==
  Carries /\ ~setting.active /\ u.step # "back" =>
    pool.enabled /\ core.group \in Available /\ pool.selected = core.group

(* Its failed probes are counted, but for the one not judged yet.          *)
CountedProbes ==
  Carries /\ ~setting.active =>
    /\ u.step \notin {"judge", "drop", "put", "back"} => streak <= runtime.failures
    /\ u.step = "judge" =>
         \/ streak <= runtime.failures
         \/ core.group = u.chosen /\ streak <= runtime.failures + 1

(* What an update has seen before its probe is still so, or the traffic is *)
(* on REJECT since.                                                        *)
SeenHolds ==
  /\ u.generation <= core.generation
  /\ u.step \in {"probe", "judge"} /\ Carries =>
       core.generation = u.generation /\ pool.enabled /\ pool.selected = u.selected
  /\ u.step = "judge" /\ u.ok /\ core.up /\ core.generation = u.generation => u.chosen \in passed
  /\ u.step = "put" /\ core.up => pool.enabled /\ u.chosen \in Available /\ u.chosen \in passed

PoolInv == Typed /\ OneHolder /\ Verified /\ Selected /\ CountedProbes /\ SeenHolds

-----------------------------------------------------------------------------
(* What a step may do to the core.                                         *)

Core == Verified /\ Selected /\ CountedProbes /\ SeenHolds

(* With the core down nothing is carried.                                  *)
LEMMA CoreDown ==
  ASSUME core'.up = FALSE, u'.generation <= core'.generation
  PROVE  Core'
BY DEF Core, Carries, Verified, Selected, CountedProbes, SeenHolds

(* On REJECT nothing is carried either, whatever an update is about to do. *)
LEMMA GroupClosed ==
  ASSUME core'.group = Reject, u'.generation <= core'.generation,
         u'.step \notin {"judge", "put"}
  PROVE  Core'
BY DEF Core, Carries, Verified, Selected, CountedProbes, SeenHolds

(* A load between two steps of an update leaves it outdated.               *)
LEMMA LoadedCore ==
  ASSUME PoolInv, Loads, pool' = pool, dead' = dead, u' = u, core.up \/ u.step = "idle"
  PROVE  CoreTyped' /\ Core'
<1>1. /\ core' = [up |-> TRUE, generation |-> core.generation + 1, group |-> Reject]
      /\ passed' = (IF u.step = "put" THEN {u.chosen} ELSE {}) /\ streak' = 0 /\ foreign' = FALSE
  BY DEF Loads, AfterLoad
<1>2. core \in Cores /\ core.generation \in Nat /\ u.generation \in Nat /\ u.generation <= core.generation
  BY DEF PoolInv, Typed, CoreTyped, UpdateTyped, Updates, Cores, SeenHolds
<1>3. CoreTyped'
  <2>1. core.generation + 1 \in Nat
    BY <1>2
  <2> QED
    BY <1>1, <2>1 DEF CoreTyped, Cores
<1>4. core'.generation # u.generation /\ u.generation <= core'.generation /\ core'.group = Reject
  BY <1>1, <1>2
<1>5. u.step = "put" => u.chosen \in passed'
  BY <1>1
<1>6. ~Carries'
  BY <1>4 DEF Carries
<1>7. SeenHolds'
  <2>1. u.step = "put" => pool.enabled /\ u.chosen \in Available
    BY DEF PoolInv, SeenHolds
  <2>2. Available' = Available
    BY DEF Available, Refs
  <2> QED
    BY <1>4, <1>5, <1>6, <2>1, <2>2 DEF SeenHolds
<1> QED
  BY <1>3, <1>6, <1>7 DEF Core, Verified, Selected, CountedProbes

(* What the steps of an update do to the runtime keeps its fields.         *)
LEMMA RuntimeFacts ==
  ASSUME NEW r, IsRuntime(r), NEW n \in 0..(Threshold - 1), NEW w, NEW c, NEW d
  PROVE  /\ IsRuntime([r EXCEPT !.failures = n])
         /\ [r EXCEPT !.failures = n].failures = n
         /\ IsRuntime([r EXCEPT !.wait = w])
         /\ [r EXCEPT !.wait = w].failures = r.failures
         /\ IsRuntime([r EXCEPT !.wait = w, !.cooldown = c])
         /\ [r EXCEPT !.wait = w, !.cooldown = c].failures = r.failures
         /\ IsRuntime([r EXCEPT !.failures = n, !.cooldown[d] = c])
         /\ [r EXCEPT !.failures = n, !.cooldown[d] = c].failures = n
BY DEF IsRuntime, Fields

(* Recording an attempt leaves the count of failures alone.                *)
LEMMA RecordedFacts ==
  ASSUME RuntimeTyped, NEW server, NEW selected
  PROVE  /\ IsRuntime(Recorded(server, selected))
         /\ Recorded(server, selected).failures = runtime.failures
<1> DEFINE r == Recorded(server, selected)
<1>1. \E c, w : r = [runtime EXCEPT !.cursor = c, !.wait = w]
  BY DEF Recorded
<1> HIDE DEF r
<1>2. PICK c, w : r = [runtime EXCEPT !.cursor = c, !.wait = w]
  BY <1>1
<1>3. IsRuntime(r) /\ r.failures = runtime.failures
  BY <1>2 DEF IsRuntime, RuntimeTyped, Fields
<1> QED
  BY <1>3 DEF r

(* An update goes on to a step, or ends.                                   *)
LEMMA GotoFacts ==
  ASSUME UpdateTyped, NEW s \in UpdateSteps, Goto(s), setting' = setting
  PROVE  /\ UpdateTyped' /\ u'.step = s /\ u'.by = u.by /\ u'.generation = u.generation
         /\ u'.selected = u.selected /\ u'.chosen = u.chosen /\ u'.ok = u.ok
BY DEF UpdateTyped, Updates, Goto

(* A finished update is idle.                                              *)
LEMMA DoneFacts ==
  ASSUME UpdateTyped, Done, setting' = setting
  PROVE  UpdateTyped' /\ u'.step = "idle" /\ u'.generation = 0
BY DEF UpdateTyped, Updates, UpdateSteps, Done, Idle

(* A stopped core is a core of the same generation.                        *)
LEMMA StoppedFacts ==
  ASSUME CoreTyped
  PROVE  Stopped \in Cores /\ Stopped.up = FALSE /\ Stopped.generation = core.generation
BY DEF CoreTyped, Cores, Stopped

(* The core is stopped where the selector cannot be closed.                *)
LEMMA CannotRejectStep ==
  ASSUME PoolInv, CannotReject, setting' = setting
  PROVE  CoreTyped' /\ UpdateTyped' /\ OneHolder' /\ Core'
<1>1. CoreTyped /\ UpdateTyped /\ core' = Stopped /\ Done /\ UNCHANGED <<passed, streak, foreign>>
  BY DEF PoolInv, Typed, CannotReject, Done, history
<1>2. UpdateTyped' /\ u'.step = "idle" /\ u'.generation = 0
  BY <1>1, DoneFacts
<1>3. core' \in Cores /\ core'.up = FALSE /\ core'.generation \in Nat
  BY <1>1, StoppedFacts DEF Cores
<1>4. u'.generation <= core'.generation
  BY <1>2, <1>3
<1>5. Core'
  BY <1>3, <1>4, CoreDown
<1> QED
  BY <1>1, <1>2, <1>3, <1>5 DEF CoreTyped, OneHolder

(* The selector is put on a target by a running core.                      *)
LEMMA PutsFacts ==
  ASSUME CoreTyped, NEW target \in Servers \cup {Reject}, Puts(target)
  PROVE  /\ CoreTyped' /\ core.up /\ core'.up = TRUE /\ core'.group = target
         /\ core'.generation = core.generation /\ streak' = 0 /\ foreign' = FALSE /\ passed' = passed
BY DEF CoreTyped, Cores, Puts

(* Closed by the end of an update, or on the way to the choice.            *)
LEMMA ClosedStep ==
  ASSUME PoolInv, Puts(Reject), UpdateTyped', setting' = setting, u'.step \in {"idle", "choose"},
         u'.generation \in {0, u.generation}, u.step # "idle"
  PROVE  CoreTyped' /\ OneHolder' /\ Core'
<1>1. CoreTyped /\ UpdateTyped /\ OneHolder /\ u.generation <= core.generation
  BY DEF PoolInv, Typed, SeenHolds
<1>2. /\ CoreTyped' /\ core'.group = Reject /\ core'.generation = core.generation
  BY <1>1, PutsFacts
<1>3. u'.generation <= core'.generation
  <2>1. core.generation \in Nat /\ u.generation \in Nat
    BY <1>1 DEF CoreTyped, Cores, UpdateTyped, Updates
  <2> QED
    BY <1>1, <1>2, <2>1
<1>4. Core'
  BY <1>2, <1>3, GroupClosed
<1> QED
  BY <1>1, <1>2, <1>4 DEF OneHolder

(* Steps that leave core, settings and the list of dead servers alone:     *)
(* what carries the traffic stays as it is.                                *)
LEMMA SameCore ==
  ASSUME PoolInv, UNCHANGED <<core, history>>, UNCHANGED <<pool, dead>>
  PROVE  /\ CoreTyped' /\ Verified' /\ (Carries' <=> Carries) /\ Available' = Available
BY DEF PoolInv, Typed, CoreTyped, Verified, Carries, Available, Refs, history, Cores

-----------------------------------------------------------------------------
(* The steps of an update.                                                 *)

(* A started update has the generation of the core and nothing else yet.   *)
LEMMA StartedFacts ==
  ASSUME CoreTyped, pool \in Pools, NEW by \in {"watchdog", "client"}
  PROVE  /\ Started(by, pool).step = "get" /\ Started(by, pool).generation = core.generation
         /\ Started(by, pool).by = by /\ Started(by, pool).ok = FALSE
         /\ Started(by, pool).selected = pool.selected
         /\ Started(by, pool).expected \in Servers \cup {Reject}
         /\ Started(by, pool) = [step |-> "get", by |-> by, generation |-> core.generation,
                selected |-> pool.selected, expected |-> Started(by, pool).expected,
                actual |-> Reject, chosen |-> NoServer, ok |-> FALSE]
<1> DEFINE e == IF pool.selected \in ToSet(pool.refs) \ dead THEN pool.selected ELSE Reject
<1>1. Started(by, pool) = [Idle EXCEPT !.step = "get", !.by = by, !.generation = core.generation,
                                       !.selected = pool.selected, !.expected = e]
  BY DEF Started
<1>2. e \in Servers \cup {Reject}
  <2>1. pool.refs \in Seq(Servers)
    BY PoolAssumption DEF Pools
  <2>2. ToSet(pool.refs) \subseteq Servers
    BY <2>1 DEF ToSet
  <2> QED
    BY <2>2
<1> HIDE DEF e
<1> QED
  BY <1>1, <1>2 DEF Idle

(* The beginning of an update keeps PoolInv.                               *)
LEMMA BeginStep ==
  ASSUME PoolInv, Begin
  PROVE  PoolInv'
<1>1. /\ Typed /\ PoolTyped /\ RuntimeTyped /\ CoreTyped /\ UpdateTyped /\ ApplyFree /\ pool.enabled /\ core.up
      /\ u' = Started("watchdog", pool)
      /\ UNCHANGED <<core, history>> /\ UNCHANGED <<pool, dead>> /\ UNCHANGED <<runtime, setting, undo>>
  BY DEF PoolInv, Typed, Begin, Rest
<1>2. CoreTyped' /\ Verified' /\ (Carries' <=> Carries) /\ Available' = Available
  BY <1>1, SameCore
<1>3. PoolTyped' /\ RuntimeTyped' /\ pool.selected \in Servers \cup {NoServer} /\ core.generation \in Nat
  BY <1>1 DEF PoolTyped, RuntimeTyped, Pools, CoreTyped, Cores
<1>4. UpdateTyped' /\ u'.step = "get" /\ u'.generation = core.generation
  <2>1. PICK e \in Servers \cup {Reject} :
          u' = [step |-> "get", by |-> "watchdog", generation |-> core.generation,
                selected |-> pool.selected, expected |-> e,
                actual |-> Reject, chosen |-> NoServer, ok |-> FALSE]
    BY <1>1, StartedFacts DEF PoolTyped
  <2>2. u' \in Updates'
    BY <1>3, <2>1 DEF Updates, UpdateSteps
  <2> QED
    BY <1>1, <2>1, <2>2 DEF UpdateTyped
<1>5. OneHolder'
  BY <1>1 DEF ApplyFree, OneHolder
<1>6. Selected' /\ CountedProbes'
  BY <1>1, <1>2, <1>4 DEF PoolInv, ApplyFree, Selected, CountedProbes, history
<1>7. SeenHolds'
  BY <1>1, <1>3, <1>4 DEF SeenHolds
<1> QED
  BY <1>2, <1>3, <1>4, <1>5, <1>6, <1>7 DEF PoolInv, Typed

(* A step that changes only where the update is.                           *)
LEMMA MovedOn ==
  ASSUME PoolInv, UNCHANGED <<core, history>>, UNCHANGED <<pool, dead>>, UNCHANGED <<setting, undo>>,
         UpdateTyped', RuntimeTyped', runtime'.failures = runtime.failures,
         u.step \in {"get", "compare", "choose", "clear"},
         u'.step \in {"idle", "compare", "reset", "choose", "clear"},
         u'.generation \in {0, u.generation}
  PROVE  PoolInv'
<1>1. CoreTyped' /\ Verified' /\ (Carries' <=> Carries) /\ Available' = Available
  BY SameCore
<1>2. PoolTyped' /\ OneHolder'
  BY DEF PoolInv, Typed, PoolTyped, OneHolder
<1>3. Selected' /\ CountedProbes'
  BY <1>1 DEF PoolInv, Selected, CountedProbes, history
<1>4. SeenHolds'
  <2>1. core.generation \in Nat /\ u.generation \in Nat /\ u.generation <= core.generation
    BY DEF PoolInv, Typed, CoreTyped, Cores, UpdateTyped, Updates, SeenHolds
  <2> QED
    BY <2>1 DEF SeenHolds
<1> QED
  BY <1>1, <1>2, <1>3, <1>4 DEF PoolInv, Typed

(* The selector that could not be read or closed.                          *)
LEMMA ControllerFailedStep ==
  ASSUME PoolInv, CannotReject, UNCHANGED <<pool, setting, undo>>,
         runtime' = Recorded(pool.selected, FALSE) \/ runtime' = runtime
  PROVE  PoolInv'
<1>1. Typed /\ PoolTyped /\ RuntimeTyped
  BY DEF PoolInv, Typed
<1>2. CoreTyped' /\ UpdateTyped' /\ OneHolder' /\ Core'
  BY CannotRejectStep
<1>3. PoolTyped' /\ RuntimeTyped'
  BY <1>1, RecordedFacts DEF PoolTyped, RuntimeTyped
<1> QED
  BY <1>2, <1>3 DEF PoolInv, Typed, Core

(* Reading the selector keeps PoolInv.                                     *)
LEMMA GetStep ==
  ASSUME PoolInv, Get
  PROVE  PoolInv'
<1>1. Typed /\ UpdateTyped /\ CoreTyped /\ RuntimeTyped /\ u.step = "get" /\ UNCHANGED <<dead, setting, undo>>
  BY DEF PoolInv, Typed, Get, Rest
<1>2. CASE ControllerFailed
  BY <1>1, <1>2, ControllerFailedStep DEF ControllerFailed
<1>3. CASE /\ UNCHANGED <<pool, core, runtime, history>>
           /\ u' = [u EXCEPT !.step = "compare", !.actual = core.group]
  <2>1. core.group \in Servers \cup {Reject}
    BY <1>1 DEF CoreTyped, Cores
  <2>2. UpdateTyped' /\ u'.step = "compare" /\ u'.generation = u.generation
    BY <1>1, <1>3, <2>1 DEF UpdateTyped, Updates, UpdateSteps
  <2>3. RuntimeTyped'
    BY <1>1, <1>3 DEF RuntimeTyped
  <2> QED
    BY <1>1, <1>3, <2>2, <2>3, MovedOn
<1> QED
  BY <1>2, <1>3 DEF Get

(* Comparing the selector with the expected member keeps PoolInv.          *)
LEMMA CompareStep ==
  ASSUME PoolInv, Compare
  PROVE  PoolInv'
<1>1. /\ Typed /\ UpdateTyped /\ RuntimeTyped /\ u.step = "compare" /\ UNCHANGED <<dead, setting, undo>>
      /\ UNCHANGED <<pool, core, runtime, history>> /\ (Done \/ Goto("reset") \/ Goto("choose"))
  BY DEF PoolInv, Typed, Compare, Rest
<1>2. UpdateTyped' /\ u'.step \in {"idle", "reset", "choose"} /\ u'.generation \in {0, u.generation}
  <2>1. "reset" \in UpdateSteps /\ "choose" \in UpdateSteps
    BY DEF UpdateSteps
  <2> QED
    BY <1>1, <2>1, GotoFacts, DoneFacts
<1>3. RuntimeTyped'
  BY <1>1 DEF RuntimeTyped
<1> QED
  BY <1>1, <1>2, <1>3, MovedOn

(* Putting the selector back keeps PoolInv.                                *)
LEMMA ResetStep ==
  ASSUME PoolInv, Reset
  PROVE  PoolInv'
<1>1. /\ Typed /\ PoolTyped /\ UpdateTyped /\ RuntimeTyped /\ u.step = "reset"
      /\ UNCHANGED <<dead, setting, undo>>
  BY DEF PoolInv, Typed, Reset, Rest
<1>2. CASE ControllerFailed
  BY <1>1, <1>2, ControllerFailedStep DEF ControllerFailed
<1>3. CASE /\ Puts(Reject) /\ Goto("choose")
           /\ pool' = [pool EXCEPT !.selected = IF u.actual # Reject THEN NoServer ELSE @]
           /\ runtime' = [runtime EXCEPT !.failures = 0]
  <2>1. UpdateTyped' /\ u'.step = "choose" /\ u'.generation = u.generation
    BY <1>1, <1>3, GotoFacts DEF UpdateSteps
  <2>2. CoreTyped' /\ OneHolder' /\ Core'
    BY <1>1, <1>3, <2>1, ClosedStep
  <2>3. PoolTyped'
    BY <1>1, <1>3 DEF PoolTyped, Pools
  <2>4. RuntimeTyped'
    <3>1. 0 \in 0..(Threshold - 1)
      BY PoolAssumption
    <3> QED
      BY <1>1, <1>3, <3>1, RuntimeFacts DEF RuntimeTyped
  <2> QED
    BY <2>1, <2>2, <2>3, <2>4 DEF PoolInv, Typed, Core
<1> QED
  BY <1>2, <1>3 DEF Reset

(* Choosing the member to probe keeps PoolInv.                             *)
LEMMA ChooseStep ==
  ASSUME PoolInv, Choose
  PROVE  PoolInv'
<1>1. /\ Typed /\ PoolTyped /\ CoreTyped /\ UpdateTyped /\ RuntimeTyped /\ u.step = "choose"
      /\ UNCHANGED <<dead, setting, undo>> /\ UNCHANGED <<pool, core, history>>
  BY DEF PoolInv, Typed, Choose, Rest
<1>2. CASE Done /\ UNCHANGED runtime
  <2>1. UpdateTyped' /\ u'.step = "idle" /\ u'.generation = 0 /\ RuntimeTyped'
    BY <1>1, <1>2, DoneFacts DEF RuntimeTyped
  <2> QED
    BY <1>1, <1>2, <2>1, MovedOn
<1>3. CASE Goto("clear") /\ runtime' = Recorded(NoServer, FALSE)
  <2>1. UpdateTyped' /\ u'.step = "clear" /\ u'.generation = u.generation
    BY <1>1, <1>3, GotoFacts DEF UpdateSteps
  <2>2. RuntimeTyped' /\ runtime'.failures = runtime.failures
    BY <1>1, <1>3, RecordedFacts DEF RuntimeTyped
  <2> QED
    BY <1>1, <2>1, <2>2, MovedOn
<1>4. CASE /\ pool.enabled /\ core.up /\ UNCHANGED runtime
           /\ u' = [u EXCEPT !.step = "probe", !.chosen = Choice,
                             !.generation = core.generation, !.selected = pool.selected]
  <2>1. core.generation \in Nat /\ pool.selected \in Servers \cup {NoServer}
    BY <1>1 DEF CoreTyped, Cores, PoolTyped, Pools
  <2>2. /\ UpdateTyped' /\ u'.step = "probe" /\ u'.generation = core.generation
        /\ u'.selected = pool.selected
    <3> DEFINE c == Choice
    <3>1. u' = [u EXCEPT !.step = "probe", !.chosen = c,
                         !.generation = core.generation, !.selected = pool.selected]
      BY <1>4
    <3> HIDE DEF c
    <3> QED
      BY <1>1, <2>1, <3>1 DEF UpdateTyped, Updates, UpdateSteps
  <2>3. CoreTyped' /\ Verified' /\ (Carries' <=> Carries) /\ Available' = Available
    BY <1>1, SameCore
  <2>4. PoolTyped' /\ OneHolder' /\ RuntimeTyped'
    BY <1>1, <1>4 DEF PoolInv, PoolTyped, OneHolder, RuntimeTyped
  <2>5. Selected' /\ CountedProbes'
    BY <1>1, <1>4, <2>2, <2>3 DEF PoolInv, Selected, CountedProbes, history
  <2>6. SeenHolds'
    BY <1>1, <1>4, <2>1, <2>2 DEF SeenHolds
  <2> QED
    BY <2>2, <2>3, <2>4, <2>5, <2>6 DEF PoolInv, Typed
<1> QED
  BY <1>2, <1>3, <1>4 DEF Choose

(* Wherever an update closes the selector, nothing is carried any more.    *)
LEMMA CloseStep ==
  ASSUME PoolInv, NEW step \in {"clear", "drop", "back"}, NEW after, Close(step, after)
  PROVE  PoolInv'
<1>1. /\ Typed /\ PoolTyped /\ UpdateTyped /\ RuntimeTyped /\ u.step = step
      /\ UNCHANGED <<dead, setting, undo>>
  BY DEF PoolInv, Typed, Close, Rest
<1>2. CASE CannotReject /\ UNCHANGED <<pool, runtime>>
  BY <1>1, <1>2, ControllerFailedStep
<1>3. CASE /\ Puts(Reject) /\ Done /\ pool' = [pool EXCEPT !.selected = NoServer]
           /\ runtime' = [runtime EXCEPT !.wait = after]
  <2>1. UpdateTyped' /\ u'.step = "idle" /\ u'.generation = 0
    BY <1>1, <1>3, DoneFacts
  <2>2. CoreTyped' /\ OneHolder' /\ Core'
    BY <1>1, <1>3, <2>1, ClosedStep
  <2>3. PoolTyped'
    BY <1>1, <1>3 DEF PoolTyped, Pools
  <2>4. RuntimeTyped'
    <3>1. 0 \in 0..(Threshold - 1)
      BY PoolAssumption
    <3> QED
      BY <1>1, <1>3, <3>1, RuntimeFacts DEF RuntimeTyped
  <2> QED
    BY <2>1, <2>2, <2>3, <2>4 DEF PoolInv, Typed, Core
<1>4. CASE step = "clear" /\ Done /\ UNCHANGED <<pool, core, runtime, history>>
  <2>1. UpdateTyped' /\ u'.step = "idle" /\ u'.generation = 0 /\ RuntimeTyped'
    BY <1>1, <1>4, DoneFacts DEF RuntimeTyped
  <2> QED
    BY <1>1, <1>4, <2>1, MovedOn
<1> QED
  BY <1>2, <1>3, <1>4 DEF Close

(* The probe of the member that carries the traffic is not yet counted.    *)
LEMMA ProbeStep ==
  ASSUME PoolInv, Probe
  PROVE  PoolInv'
<1>1. /\ Typed /\ PoolTyped /\ CoreTyped /\ UpdateTyped /\ RuntimeTyped /\ u.step = "probe"
      /\ UNCHANGED <<dead, setting, undo>> /\ UNCHANGED <<pool, core, runtime, foreign>>
  BY DEF PoolInv, Typed, Probe, Rest
<1>2. PICK ok \in BOOLEAN :
        /\ u' = [u EXCEPT !.step = "judge", !.ok = ok]
        /\ passed' = IF ok THEN passed \cup {u.chosen} ELSE passed
        /\ streak' = IF core.group # u.chosen THEN streak ELSE IF ok THEN 0 ELSE streak + 1
  BY DEF Probe
<1>3. /\ UpdateTyped' /\ u'.step = "judge" /\ u'.ok = ok /\ u'.generation = u.generation
      /\ u'.selected = u.selected /\ u'.chosen = u.chosen
  BY <1>1, <1>2 DEF UpdateTyped, Updates, UpdateSteps
<1>4. CoreTyped' /\ PoolTyped' /\ RuntimeTyped'
  BY <1>1, <1>2 DEF CoreTyped, PoolTyped, RuntimeTyped
<1>5. (Carries' <=> Carries) /\ Available' = Available /\ passed \subseteq passed'
  BY <1>1, <1>2 DEF Carries, Available, Refs
<1>6. Verified' /\ Selected' /\ OneHolder'
  BY <1>1, <1>3, <1>5 DEF PoolInv, Verified, Selected, OneHolder
<1>7. CountedProbes'
  <2>1. Carries /\ ~setting.active => streak <= runtime.failures
    BY <1>1 DEF PoolInv, CountedProbes
  <2>2. streak \in Nat /\ runtime.failures \in Nat
    BY <1>1, PoolAssumption DEF CoreTyped, RuntimeTyped, IsRuntime
  <2>3. streak <= runtime.failures =>
          streak' <= runtime.failures \/ (core.group = u.chosen /\ streak' <= runtime.failures + 1)
    BY <1>2, <2>2
  <2> QED
    BY <1>1, <1>3, <1>5, <2>1, <2>3 DEF CountedProbes
<1>8. SeenHolds'
  BY <1>1, <1>2, <1>3, <1>5 DEF PoolInv, SeenHolds
<1> QED
  BY <1>3, <1>4, <1>6, <1>7, <1>8 DEF PoolInv, Typed

(* The verdict is dropped when anything it rests on has changed.           *)
LEMMA JudgeStep ==
  ASSUME PoolInv, Judge
  PROVE  PoolInv'
<1>1. /\ Typed /\ PoolTyped /\ CoreTyped /\ UpdateTyped /\ RuntimeTyped /\ u.step = "judge"
      /\ UNCHANGED <<dead, setting, undo>> /\ UNCHANGED <<core, history>> /\ UNCHANGED <<pool, dead>>
  BY DEF PoolInv, Typed, Judge, Rest
<1>2. CoreTyped' /\ Verified' /\ (Carries' <=> Carries) /\ Available' = Available /\ passed' = passed /\ streak' = streak
  BY <1>1, SameCore DEF history
<1>3. PoolTyped' /\ OneHolder'
  BY <1>1 DEF PoolInv, PoolTyped, OneHolder
<1>4. /\ streak \in Nat /\ runtime.failures \in 0..(Threshold - 1) /\ Threshold \in Nat \ {0}
      /\ runtime.failures \in Nat /\ u.generation \in Nat /\ core.generation \in Nat
  BY <1>1, PoolAssumption DEF CoreTyped, Cores, RuntimeTyped, IsRuntime, UpdateTyped, Updates
<1>5. Carries =>
        /\ pool.enabled /\ core.group \in Available /\ pool.selected = core.group
        /\ core.generation = u.generation /\ pool.selected = u.selected /\ core.up
        /\ streak <= runtime.failures \/ (core.group = u.chosen /\ streak <= runtime.failures + 1)
  BY <1>1 DEF PoolInv, OneHolder, Selected, SeenHolds, CountedProbes, Carries
<1>6. CASE Outdated /\ Done /\ UNCHANGED runtime
  <2>1. UpdateTyped' /\ u'.step = "idle" /\ u'.generation = 0 /\ RuntimeTyped'
    BY <1>1, <1>6, DoneFacts DEF RuntimeTyped
  <2>2. Carries => streak <= runtime.failures
    BY <1>5, <1>6 DEF Outdated
  <2>3. Selected' /\ CountedProbes'
    BY <1>1, <1>2, <1>5, <1>6, <2>1, <2>2 DEF Selected, CountedProbes
  <2>4. SeenHolds'
    BY <1>1, <1>4, <2>1 DEF SeenHolds
  <2> QED
    BY <1>2, <1>3, <2>1, <2>3, <2>4 DEF PoolInv, Typed
<1>7. CASE ~Outdated /\ u.ok /\ Goto("put") /\ runtime' = [runtime EXCEPT !.failures = 0]
  <2>1. UpdateTyped' /\ u'.step = "put" /\ u'.generation = u.generation /\ u'.chosen = u.chosen
    BY <1>1, <1>7, GotoFacts DEF UpdateSteps
  <2>2. RuntimeTyped'
    <3>1. 0 \in 0..(Threshold - 1)
      BY <1>4
    <3> QED
      BY <1>1, <1>7, <3>1, RuntimeFacts DEF RuntimeTyped
  <2>3. Selected' /\ CountedProbes'
    BY <1>1, <1>2, <1>5, <2>1 DEF Selected, CountedProbes
  <2>4. SeenHolds'
    BY <1>1, <1>2, <1>7, <2>1 DEF PoolInv, SeenHolds, Outdated
  <2> QED
    BY <1>2, <1>3, <2>1, <2>2, <2>3, <2>4 DEF PoolInv, Typed
<1>8. CASE /\ ~Outdated /\ ~u.ok /\ u.selected = u.chosen /\ runtime.failures + 1 < Threshold /\ Done
           /\ runtime' = [Recorded(u.chosen, TRUE) EXCEPT !.failures = runtime.failures + 1]
  <2>1. UpdateTyped' /\ u'.step = "idle" /\ u'.generation = 0
    BY <1>1, <1>8, DoneFacts
  <2>2. RuntimeTyped' /\ runtime'.failures = runtime.failures + 1
    <3>1. runtime.failures + 1 \in 0..(Threshold - 1)
      BY <1>4, <1>8
    <3> QED
      BY <1>1, <1>8, <3>1, RecordedFacts, RuntimeFacts DEF RuntimeTyped
  <2>3. Carries => streak <= runtime.failures + 1
    BY <1>4, <1>5
  <2>4. Selected' /\ CountedProbes'
    BY <1>1, <1>2, <1>5, <2>1, <2>2, <2>3 DEF Selected, CountedProbes
  <2>5. SeenHolds'
    BY <1>1, <1>4, <2>1 DEF SeenHolds
  <2> QED
    BY <1>2, <1>3, <2>1, <2>2, <2>4, <2>5 DEF PoolInv, Typed
<1>9. CASE /\ ~Outdated /\ ~u.ok /\ Goto("drop")
           /\ runtime' = [Recorded(u.chosen, u.selected = u.chosen)
                            EXCEPT !.failures = 0, !.cooldown[u.chosen] = Cooldown]
  <2>1. UpdateTyped' /\ u'.step = "drop" /\ u'.generation = u.generation
    BY <1>1, <1>9, GotoFacts DEF UpdateSteps
  <2>2. RuntimeTyped'
    <3>1. 0 \in 0..(Threshold - 1)
      BY <1>4
    <3> QED
      BY <1>1, <1>9, <3>1, RecordedFacts, RuntimeFacts DEF RuntimeTyped
  <2>3. Selected' /\ CountedProbes'
    BY <1>1, <1>2, <1>5, <2>1 DEF Selected, CountedProbes
  <2>4. SeenHolds'
    BY <1>1, <2>1 DEF PoolInv, SeenHolds
  <2> QED
    BY <1>2, <1>3, <2>1, <2>2, <2>3, <2>4 DEF PoolInv, Typed
<1>10. \/ Outdated /\ Done /\ UNCHANGED runtime
       \/ ~Outdated /\ u.ok /\ Goto("put") /\ runtime' = [runtime EXCEPT !.failures = 0]
       \/ /\ ~Outdated /\ ~u.ok /\ u.selected = u.chosen /\ runtime.failures + 1 < Threshold /\ Done
          /\ runtime' = [Recorded(u.chosen, u.selected = u.chosen) EXCEPT !.failures = runtime.failures + 1]
       \/ /\ ~Outdated /\ ~u.ok /\ Goto("drop")
          /\ runtime' = [Recorded(u.chosen, u.selected = u.chosen)
                           EXCEPT !.failures = 0, !.cooldown[u.chosen] = Cooldown]
  BY DEF Judge
<1> QED
  BY <1>6, <1>7, <1>8, <1>9, <1>10

(* What is put has passed, and is a live member since nothing has changed. *)
LEMMA PutStep ==
  ASSUME PoolInv, Put
  PROVE  PoolInv'
<1>1. /\ Typed /\ PoolTyped /\ CoreTyped /\ UpdateTyped /\ RuntimeTyped /\ u.step = "put"
      /\ UNCHANGED <<dead, setting, undo>>
  BY DEF PoolInv, Typed, Put, Rest
<1>2. core.up => /\ pool.enabled /\ u.chosen \in Available /\ u.chosen \in passed
                 /\ u.chosen \in Servers
  <2>1. pool.refs \in Seq(Servers)
    BY <1>1, PoolAssumption DEF PoolTyped, Pools
  <2>2. Available \subseteq Servers
    BY <2>1 DEF Available, Refs, ToSet
  <2> QED
    BY <1>1, <2>2 DEF PoolInv, SeenHolds
<1>3. u.generation \in Nat /\ core.generation \in Nat /\ u.generation <= core.generation /\ ~setting.active
  BY <1>1 DEF PoolInv, SeenHolds, CoreTyped, Cores, UpdateTyped, Updates, OneHolder
<1>4. OneHolder'
  BY <1>1 DEF PoolInv, OneHolder
<1>5. CASE /\ Puts(u.chosen) /\ Done /\ runtime' = Recorded(u.chosen, TRUE)
           /\ pool' = [pool EXCEPT !.selected = u.chosen]
  <2>1. core.up
    BY <1>5 DEF Puts
  <2>2. /\ CoreTyped' /\ core'.group = u.chosen /\ core'.generation = core.generation
        /\ streak' = 0 /\ foreign' = FALSE /\ passed' = passed
    BY <1>1, <1>2, <1>5, <2>1, PutsFacts
  <2>3. UpdateTyped' /\ u'.step = "idle" /\ u'.generation = 0
    BY <1>1, <1>5, DoneFacts
  <2>4. RuntimeTyped' /\ runtime'.failures \in Nat
    <3>1. RuntimeTyped'
      BY <1>1, <1>5, RecordedFacts DEF RuntimeTyped
    <3>2. runtime'.failures \in 0..(Threshold - 1)
      BY <3>1 DEF RuntimeTyped, IsRuntime
    <3> QED
      BY <3>1, <3>2, PoolAssumption
  <2>5. /\ PoolTyped' /\ pool'.selected = u.chosen /\ pool'.enabled = pool.enabled
        /\ pool'.refs = pool.refs
    BY <1>1, <1>2, <1>5, <2>1 DEF PoolTyped, Pools
  <2>6. Available' = Available
    BY <1>1, <2>5 DEF Available, Refs
  <2>7. Verified' /\ Selected'
    BY <1>2, <2>1, <2>2, <2>5, <2>6 DEF Verified, Selected
  <2>8. CountedProbes'
    BY <2>2, <2>3, <2>4 DEF CountedProbes
  <2>9. SeenHolds'
    BY <1>3, <2>2, <2>3 DEF SeenHolds
  <2> QED
    BY <1>4, <2>2, <2>3, <2>4, <2>5, <2>7, <2>8, <2>9 DEF PoolInv, Typed
<1>6. CASE PutFails(u.chosen) /\ Goto("back") /\ runtime' = Recorded(u.chosen, FALSE) /\ UNCHANGED pool
  <2>1. UpdateTyped' /\ u'.step = "back" /\ u'.generation = u.generation
    BY <1>1, <1>6, GotoFacts DEF UpdateSteps
  <2>2. RuntimeTyped' /\ PoolTyped'
    BY <1>1, <1>6, RecordedFacts DEF RuntimeTyped, PoolTyped
  <2>3. /\ CoreTyped' /\ core'.generation = core.generation /\ core'.up = core.up
        /\ core.up => core'.group \in {core.group, u.chosen}
        /\ UNCHANGED <<passed, streak, foreign>>
    <3>1. CASE UNCHANGED <<core, history>>
      BY <1>1, <3>1 DEF CoreTyped, history
    <3>2. CASE core.up /\ UNCHANGED history /\ \E g \in {core.group, u.chosen} : core' = [core EXCEPT !.group = g]
      <4>1. PICK g \in {core.group, u.chosen} : core' = [core EXCEPT !.group = g]
        BY <3>2
      <4>2. g \in Servers \cup {Reject}
        BY <1>1, <1>2, <3>2, <4>1 DEF CoreTyped, Cores
      <4> QED
        BY <1>1, <3>2, <4>1, <4>2 DEF CoreTyped, Cores, history
    <3> QED
      BY <1>6, <3>1, <3>2 DEF PutFails
  <2>4. Verified'
    BY <1>2, <2>3 DEF PoolInv, Verified, Carries
  <2>5. Selected' /\ CountedProbes'
    BY <2>1 DEF Selected, CountedProbes
  <2>6. SeenHolds'
    BY <1>3, <2>1, <2>3 DEF SeenHolds
  <2> QED
    BY <1>4, <2>1, <2>2, <2>3, <2>4, <2>5, <2>6 DEF PoolInv, Typed
<1> QED
  BY <1>5, <1>6 DEF Put

-----------------------------------------------------------------------------
(* The requests, the watchdog's maintenance and the environment.           *)

(* Saving the settings of the pool keeps PoolInv.                          *)
LEMMA SaveStep ==
  ASSUME PoolInv, Save
  PROVE  PoolInv'
<1>1. /\ Typed /\ PoolTyped /\ CoreTyped /\ UpdateTyped /\ RuntimeTyped /\ u.step = "idle"
      /\ setting' = [active |-> TRUE, previous |-> pool] /\ UNCHANGED <<core, history>>
      /\ UNCHANGED <<dead, runtime, u, undo>>
  BY DEF PoolInv, Typed, Save, ApplyFree
<1>2. PoolTyped'
  <2>1. PICK enabled \in BOOLEAN, refs \in Memberships :
          pool' = [enabled |-> enabled, refs |-> refs,
                   selected |-> IF enabled /\ pool.selected \in ToSet(refs)
                                  THEN pool.selected ELSE NoServer]
    BY DEF Save
  <2>2. pool.selected \in Servers \cup {NoServer}
    BY <1>1 DEF PoolTyped, Pools
  <2>3. pool' \in Pools
    BY <2>1, <2>2 DEF Pools
  <2> QED
    BY <1>1, <2>3 DEF PoolTyped
<1>3. CoreTyped' /\ RuntimeTyped' /\ UpdateTyped'
  BY <1>1 DEF CoreTyped, RuntimeTyped, UpdateTyped, Updates, history
<1>4. Verified' /\ Selected' /\ CountedProbes' /\ OneHolder'
  BY <1>1 DEF PoolInv, Verified, Selected, CountedProbes, OneHolder, Carries, history
<1>5. SeenHolds'
  BY <1>1 DEF PoolInv, SeenHolds
<1> QED
  BY <1>2, <1>3, <1>4, <1>5 DEF PoolInv, Typed

(* Activating them, or taking them back, keeps PoolInv.                    *)
LEMMA ActivateStep ==
  ASSUME PoolInv, Activate
  PROVE  PoolInv'
<1>1. /\ Typed /\ PoolTyped /\ CoreTyped /\ UpdateTyped /\ RuntimeTyped /\ u.step = "idle" /\ setting.active
      /\ setting' = NotSetting /\ UNCHANGED <<dead, undo>>
  BY DEF PoolInv, Typed, Activate, OneHolder
<1>2. setting'.active = FALSE /\ OneHolder'
  BY <1>1 DEF NotSetting, OneHolder
<1>3. core.generation \in Nat /\ u.generation \in Nat /\ u.generation <= core.generation
  BY <1>1 DEF PoolInv, SeenHolds, CoreTyped, Cores, UpdateTyped, Updates
<1>4. ASSUME Loads
      PROVE  CoreTyped' /\ core'.group = Reject /\ core'.generation = core.generation + 1
  <2>1. /\ core' = [up |-> TRUE, generation |-> core.generation + 1, group |-> Reject]
        /\ streak' = 0 /\ foreign' = FALSE
    BY <1>4 DEF Loads, AfterLoad
  <2>2. core.generation + 1 \in Nat
    BY <1>3
  <2> QED
    BY <2>1, <2>2 DEF CoreTyped, Cores
<1>5. ASSUME ~core.up, UNCHANGED <<core, history>>
      PROVE  CoreTyped' /\ core'.up = FALSE /\ core'.generation = core.generation
  BY <1>1, <1>5 DEF CoreTyped, Cores, history
<1>6. CASE /\ UNCHANGED pool /\ runtime' = FreshRuntime
           /\ IF core.up THEN Loads ELSE UNCHANGED <<core, history>>
           /\ u' = IF core.up /\ pool.enabled
                     THEN [Started("client", pool) EXCEPT !.generation = core'.generation] ELSE Idle
  <2>1. RuntimeTyped'
    <3>1. 0 \in 0..(Threshold - 1)
      BY PoolAssumption
    <3> QED
      BY <1>6, <3>1 DEF RuntimeTyped, IsRuntime, FreshRuntime, Fields
  <2>2. CASE core.up
    <3>1. CoreTyped' /\ core'.group = Reject /\ core'.generation = core.generation + 1
      BY <1>4, <1>6, <2>2
    <3>2. UpdateTyped' /\ u'.step \in {"idle", "get"} /\ u'.generation <= core'.generation
      <4>1. CASE pool.enabled
        <5>1. PICK e \in Servers \cup {Reject} :
                Started("client", pool) =
                  [step |-> "get", by |-> "client", generation |-> core.generation,
                   selected |-> pool.selected, expected |-> e,
                   actual |-> Reject, chosen |-> NoServer, ok |-> FALSE]
          BY <1>1, StartedFacts DEF PoolTyped
        <5>2. u' = [step |-> "get", by |-> "client", generation |-> core'.generation,
                    selected |-> pool.selected, expected |-> e,
                    actual |-> Reject, chosen |-> NoServer, ok |-> FALSE]
          <6>1. u' = [Started("client", pool) EXCEPT !.generation = core'.generation]
            BY <1>6, <2>2, <4>1
          <6> DEFINE started == Started("client", pool)
          <6>2. started = [step |-> "get", by |-> "client", generation |-> core.generation,
                           selected |-> pool.selected, expected |-> e,
                           actual |-> Reject, chosen |-> NoServer, ok |-> FALSE]
            BY <5>1
          <6>3. u' = [started EXCEPT !.generation = core'.generation]
            BY <6>1
          <6> HIDE DEF started
          <6> QED
            BY <6>2, <6>3
        <5>3. core'.generation \in Nat /\ pool.selected \in Servers \cup {NoServer}
          BY <1>1, <1>3, <3>1 DEF PoolTyped, Pools
        <5>4. u' \in Updates'
          BY <5>2, <5>3 DEF Updates, UpdateSteps
        <5>5. u'.step = "get" /\ u'.generation = core'.generation
          BY <5>2
        <5>6. u'.generation <= core'.generation
          BY <5>3, <5>5
        <5> QED
          BY <1>2, <5>4, <5>5, <5>6 DEF UpdateTyped
      <4>2. CASE ~pool.enabled
        <5>1. Done
          BY <1>6, <4>2 DEF Done
        <5>2. u' \in Updates' /\ u'.step = "idle" /\ u'.generation = 0
          BY <5>1 DEF Done, Idle, Updates, UpdateSteps
        <5>3. u'.generation <= core'.generation
          BY <1>3, <3>1, <5>2
        <5> QED
          BY <1>2, <5>2, <5>3 DEF UpdateTyped
      <4> QED
        BY <4>1, <4>2
    <3>3. Core'
      BY <3>1, <3>2, GroupClosed
    <3> QED
      BY <1>1, <1>2, <1>6, <2>1, <3>1, <3>2, <3>3 DEF PoolInv, Typed, Core, PoolTyped, OneHolder, NotSetting, Pools
  <2>3. CASE ~core.up
    <3>1. CoreTyped' /\ core'.up = FALSE /\ core'.generation = core.generation
      BY <1>5, <1>6, <2>3
    <3>2. u' \in Updates' /\ u'.step = "idle" /\ u'.generation = 0
      BY <1>6, <2>3 DEF Idle, Updates, UpdateSteps
    <3>3. Core'
      <4>1. u'.generation <= core'.generation
        BY <1>3, <3>1, <3>2
      <4> QED
        BY <3>1, <4>1, CoreDown
    <3> QED
      BY <1>1, <1>2, <1>6, <2>1, <3>1, <3>2, <3>3 DEF PoolInv, Typed, Core, PoolTyped, UpdateTyped, NotSetting, Pools
  <2> QED
    BY <2>2, <2>3
<1>7. CASE /\ pool' = setting.previous /\ UNCHANGED <<runtime, u>>
           /\ IF core.up THEN Loads \/ (core' = Stopped /\ UNCHANGED history)
                         ELSE UNCHANGED <<core, history>>
  <2>1. RuntimeTyped' /\ UpdateTyped' /\ u'.step = "idle" /\ u'.generation = u.generation
    BY <1>1, <1>2, <1>7 DEF RuntimeTyped, UpdateTyped, Updates
  <2>2. CoreTyped' /\ (core'.group = Reject \/ core'.up = FALSE) /\ core'.generation \in {core.generation, core.generation + 1}
    <3>1. CASE core.up /\ Loads
      BY <1>4, <3>1
    <3>2. CASE core' = Stopped /\ UNCHANGED history
      BY <1>1, <3>2, StoppedFacts DEF CoreTyped, history
    <3>3. CASE ~core.up /\ UNCHANGED <<core, history>>
      BY <1>5, <3>3
    <3> QED
      BY <1>7, <3>1, <3>2, <3>3
  <2>3. Core'
    <3>1. u'.generation <= core'.generation
      BY <1>3, <2>1, <2>2
    <3>2. u'.step \notin {"judge", "put"}
      BY <2>1
    <3> QED
      BY <2>2, <3>1, <3>2, CoreDown, GroupClosed
  <2> QED
    BY <1>1, <1>2, <1>7, <2>1, <2>2, <2>3 DEF PoolInv, Typed, Core, PoolTyped, NotSetting, Pools
<1> QED
  BY <1>6, <1>7 DEF Activate

(* A load by any other handler.                                            *)
LEMMA OtherLoadStep ==
  ASSUME PoolInv, Reload \/ Restart \/ Maintain
  PROVE  PoolInv'
<1>1. /\ Typed /\ PoolTyped /\ CoreTyped /\ UpdateTyped /\ RuntimeTyped /\ Loads
      /\ UNCHANGED <<pool, dead, runtime, u, setting>> /\ (core.up \/ u.step = "idle")
      /\ undo' \in {undo, [pool |-> pool, dead |-> dead]}
  BY DEF PoolInv, Typed, Reload, Restart, Maintain, ApplyFree
<1>2. CoreTyped' /\ Core'
  BY <1>1, LoadedCore
<1>3. PoolTyped' /\ RuntimeTyped' /\ UpdateTyped' /\ OneHolder'
  BY <1>1 DEF PoolInv, PoolTyped, RuntimeTyped, UpdateTyped, Updates, OneHolder
<1> QED
  BY <1>2, <1>3 DEF PoolInv, Typed, Core

(* Changing the dead servers keeps PoolInv.                                *)
LEMMA ChangeDeadStep ==
  ASSUME PoolInv, ChangeDead
  PROVE  PoolInv'
<1>1. /\ Typed /\ PoolTyped /\ CoreTyped /\ UpdateTyped /\ RuntimeTyped /\ u.step = "idle"
      /\ UNCHANGED <<pool, runtime, u, setting, undo>> /\ u.generation <= core.generation
  BY DEF PoolInv, Typed, ChangeDead, ApplyFree, SeenHolds
<1>2. PoolTyped' /\ RuntimeTyped' /\ UpdateTyped' /\ OneHolder'
  BY <1>1 DEF PoolInv, PoolTyped, RuntimeTyped, UpdateTyped, Updates, OneHolder
<1>3. CASE core.up
  <2>1. /\ core' = [up |-> TRUE, generation |-> core.generation + 1, group |-> Reject]
        /\ streak' = 0 /\ foreign' = FALSE
    BY <1>3 DEF ChangeDead, Loads, AfterLoad
  <2>2. core.generation + 1 \in Nat /\ u.generation <= core.generation + 1
    BY <1>1 DEF CoreTyped, Cores, UpdateTyped, Updates
  <2>3. CoreTyped' /\ core'.group = Reject /\ u'.generation <= core'.generation
    BY <1>1, <2>1, <2>2 DEF CoreTyped, Cores
  <2>4. Core'
    BY <1>1, <2>3, GroupClosed
  <2> QED
    BY <1>2, <2>3, <2>4 DEF PoolInv, Typed, Core
<1>4. CASE ~core.up
  <2>1. UNCHANGED <<core, passed, streak, foreign>>
    BY <1>4 DEF ChangeDead, history
  <2>2. CoreTyped' /\ core'.up = FALSE /\ u'.generation <= core'.generation
    BY <1>1, <1>4, <2>1 DEF CoreTyped, Cores
  <2>3. Core'
    BY <2>2, CoreDown
  <2> QED
    BY <1>2, <2>2, <2>3 DEF PoolInv, Typed, Core
<1> QED
  BY <1>3, <1>4

(* The core goes down, with or without a new generation.                   *)
LEMMA DownStep ==
  ASSUME PoolInv, Stop \/ Undo \/ Crash
  PROVE  PoolInv'
<1>1. /\ Typed /\ PoolTyped /\ CoreTyped /\ UpdateTyped /\ RuntimeTyped /\ u.generation <= core.generation
      /\ UNCHANGED <<runtime, u, setting, undo, streak, foreign>> /\ pool' \in {pool, undo.pool}
      /\ core' \in {Stopped, [Stopped EXCEPT !.generation = @ + 1]}
  BY DEF PoolInv, Typed, Stop, Undo, Crash, SeenHolds, history
<1>2. PoolTyped' /\ RuntimeTyped' /\ UpdateTyped' /\ OneHolder'
  BY <1>1 DEF PoolInv, PoolTyped, RuntimeTyped, UpdateTyped, Updates, OneHolder
<1>3. core' \in Cores /\ core'.up = FALSE /\ core'.generation \in {core.generation, core.generation + 1}
  <2>1. Stopped \in Cores /\ Stopped.up = FALSE /\ Stopped.generation = core.generation
    BY <1>1, StoppedFacts
  <2>2. core.generation \in Nat /\ core.generation + 1 \in Nat
    BY <1>1 DEF CoreTyped, Cores
  <2> DEFINE stopped == Stopped
  <2>3. core' = stopped \/ core' = [stopped EXCEPT !.generation = core.generation + 1]
    BY <1>1, <2>1
  <2>4. stopped \in Cores /\ stopped.up = FALSE /\ stopped.generation = core.generation
    BY <2>1
  <2> HIDE DEF stopped
  <2> QED
    BY <2>2, <2>3, <2>4 DEF Cores
<1>4. u'.generation <= core'.generation
  <2>1. core.generation \in Nat /\ u.generation \in Nat
    BY <1>1 DEF CoreTyped, Cores, UpdateTyped, Updates
  <2> QED
    BY <1>1, <1>3, <2>1
<1>5. Core'
  BY <1>3, <1>4, CoreDown
<1> QED
  BY <1>1, <1>2, <1>3, <1>5 DEF PoolInv, Typed, Core, CoreTyped

(* What somebody else has put the selector on is foreign.                  *)
LEMMA MovedByOthersStep ==
  ASSUME PoolInv, MovedByOthers
  PROVE  PoolInv'
<1>1. /\ Typed /\ PoolTyped /\ CoreTyped /\ UpdateTyped /\ RuntimeTyped /\ core.up /\ streak' = 0
      /\ UNCHANGED <<pool, dead, runtime, u, setting, undo, passed>>
  BY DEF PoolInv, Typed, MovedByOthers
<1>2. PICK g \in Available \cup {Reject} : core' = [core EXCEPT !.group = g] /\ foreign' = TRUE
  BY DEF MovedByOthers
<1>3. g \in Servers \cup {Reject}
  <2>1. pool.refs \in Seq(Servers)
    BY <1>1, PoolAssumption DEF PoolTyped, Pools
  <2> QED
    BY <2>1 DEF Available, Refs, ToSet
<1>4. CoreTyped' /\ core'.generation = core.generation /\ core'.up = core.up
  BY <1>1, <1>2, <1>3 DEF CoreTyped, Cores
<1>5. PoolTyped' /\ RuntimeTyped' /\ UpdateTyped' /\ OneHolder' /\ ~Carries' /\ Available' = Available
  BY <1>1, <1>2 DEF PoolInv, PoolTyped, RuntimeTyped, UpdateTyped, Updates, OneHolder, Carries, Available, Refs
<1>6. Verified' /\ Selected' /\ CountedProbes'
  BY <1>5 DEF Verified, Selected, CountedProbes
<1>7. SeenHolds'
  BY <1>1, <1>4, <1>5 DEF PoolInv, SeenHolds
<1> QED
  BY <1>4, <1>5, <1>6, <1>7 DEF PoolInv, Typed

(* Time, and servers that begin or cease to work, keep PoolInv.            *)
LEMMA TimeStep ==
  ASSUME PoolInv, ServerChanges \/ Tick \/ UNCHANGED vars
  PROVE  PoolInv'
<1>1. /\ Typed /\ PoolTyped /\ CoreTyped /\ UpdateTyped /\ RuntimeTyped
      /\ UNCHANGED <<pool, dead, core, u, setting, undo, passed, streak, foreign>>
      /\ \/ runtime' = runtime
         \/ \E w, c : runtime' = [runtime EXCEPT !.wait = w, !.cooldown = c]
  BY DEF PoolInv, Typed, ServerChanges, Tick, vars, history
<1>2. RuntimeTyped' /\ runtime'.failures = runtime.failures
  <2>1. 0 \in 0..(Threshold - 1)
    BY PoolAssumption
  <2>2. CASE runtime' = runtime
    BY <1>1, <2>2 DEF RuntimeTyped
  <2>3. CASE \E w, c : runtime' = [runtime EXCEPT !.wait = w, !.cooldown = c]
    <3>1. PICK w, c : runtime' = [runtime EXCEPT !.wait = w, !.cooldown = c]
      BY <2>3
    <3>2. IsRuntime(runtime)
      BY <1>1 DEF RuntimeTyped
    <3>3. IsRuntime(runtime') /\ runtime'.failures = runtime.failures
      BY <3>1, <3>2 DEF IsRuntime, Fields
    <3> QED
      BY <3>3 DEF RuntimeTyped
  <2> QED
    BY <1>1, <2>2, <2>3
<1>3. PoolTyped' /\ CoreTyped' /\ UpdateTyped' /\ OneHolder' /\ (Carries' <=> Carries) /\ Available' = Available
  BY <1>1 DEF PoolInv, PoolTyped, CoreTyped, UpdateTyped, Updates, OneHolder, Carries, Available, Refs
<1>4. Verified' /\ Selected' /\ CountedProbes' /\ SeenHolds'
  BY <1>1, <1>2, <1>3 DEF PoolInv, Verified, Selected, CountedProbes, SeenHolds
<1> QED
  BY <1>2, <1>3, <1>4 DEF PoolInv, Typed

(* PoolInv holds initially.                                                *)
LEMMA PoolInit ==
  ASSUME Init
  PROVE  PoolInv
<1>1. PICK refs \in Memberships :
        pool = [enabled |-> refs # <<>>, refs |-> refs, selected |-> NoServer]
  BY DEF Init
<1>2. /\ core = [up |-> TRUE, generation |-> 0, group |-> Reject] /\ runtime = FreshRuntime /\ u = Idle
      /\ setting = NotSetting /\ undo = [pool |-> pool, dead |-> dead] /\ streak = 0 /\ foreign = FALSE
  BY DEF Init
<1>3. PoolTyped
  <2>1. (refs # <<>>) \in BOOLEAN
    BY Zenon
  <2>2. pool \in Pools
    BY <1>1, <2>1 DEF Pools
  <2> QED
    BY <1>2, <2>2 DEF PoolTyped, NotSetting
<1>4. RuntimeTyped
  BY <1>2, PoolAssumption DEF RuntimeTyped, IsRuntime, FreshRuntime, Fields
<1>5. CoreTyped
  BY <1>2 DEF CoreTyped, Cores
<1>6. UpdateTyped /\ u.step = "idle" /\ u.generation = 0 /\ ~setting.active
  <2>1. u \in Updates /\ u.step = "idle" /\ u.generation = 0
    BY <1>2 DEF Idle, Updates, UpdateSteps
  <2>2. setting.active = FALSE
    BY <1>2 DEF NotSetting
  <2> QED
    BY <2>1, <2>2 DEF UpdateTyped
<1>7. ~Carries
  BY <1>2 DEF Carries
<1>8. SeenHolds
  BY <1>2, <1>6, <1>7 DEF SeenHolds
<1> QED
  BY <1>3, <1>4, <1>5, <1>6, <1>7, <1>8 DEF PoolInv, Typed, OneHolder, Verified, Selected, CountedProbes

(* What the pool's traffic uses was seen to work: unless somebody else has *)
(* moved the selector, it is on REJECT or on a server that passed a probe  *)
(* through this core, and between updates that is the selected live member *)
(* of an enabled pool, with fewer than Threshold failed probes since.      *)
THEOREM OnlyVerifiedCarries == Spec => []CarriesOnlyVerified
<1>1. Init => PoolInv
  BY PoolInit
<1>2. PoolInv /\ [Next]_vars => PoolInv'
  <2> SUFFICES ASSUME PoolInv, [Next]_vars
               PROVE  PoolInv'
    OBVIOUS
  <2>1. ASSUME Update
        PROVE  PoolInv'
    BY <2>1, GetStep, CompareStep, ResetStep, ChooseStep, ProbeStep, JudgeStep, PutStep, CloseStep
       DEF Update
  <2> QED
    BY <2>1, BeginStep, SaveStep, ActivateStep, OtherLoadStep, ChangeDeadStep, DownStep,
       MovedByOthersStep, TimeStep DEF Next
<1>3. PoolInv => CarriesOnlyVerified
  <2> SUFFICES ASSUME PoolInv, Carries
               PROVE  /\ core.group \in passed
                      /\ ApplyFree =>
                           /\ pool.enabled /\ core.group \in Available /\ pool.selected = core.group
                           /\ streak < Threshold
    BY DEF CarriesOnlyVerified, Carries
  <2>1. core.group \in passed
    BY DEF PoolInv, Verified
  <2>2. ASSUME ApplyFree
        PROVE  /\ pool.enabled /\ core.group \in Available /\ pool.selected = core.group
               /\ streak <= runtime.failures
    BY <2>2 DEF PoolInv, Selected, CountedProbes, ApplyFree
  <2>3. streak \in Nat /\ runtime.failures \in 0..(Threshold - 1)
    BY DEF PoolInv, Typed, CoreTyped, RuntimeTyped, IsRuntime
  <2> QED
    BY <2>1, <2>2, <2>3, PoolAssumption
<1> QED
  BY <1>1, <1>2, <1>3, PTL DEF Spec

=============================================================================
