-------------------------------- MODULE Pool --------------------------------
(***************************************************************************)
(* The best-of-best pool: a selector group of Mihomo that the daemon puts  *)
(* on one member after its own HTTPS probe passed, and on REJECT           *)
(* otherwise.  An update of the selector is a sequence of controller calls *)
(* and critical sections under the apply lock, by the watchdog or by the   *)
(* request that changed the settings; the core may be stopped by an undo,  *)
(* a delete, a request or a crash between any two of them, and restarted   *)
(* by the watchdog's maintenance, which does not take the apply lock.      *)
(*                                                                         *)
(* A server stands for its routing reference and for its outbound.         *)
(* Activations of the configuration are one step: their inside is module   *)
(* Activation.  The ranking of candidates and the events shown are data.   *)
(***************************************************************************)
EXTENDS Naturals, FiniteSets, SequencesExt

CONSTANTS
  Servers,
  Memberships,   \* the lists of members a request may set
  Reject,        \* REJECT_NAME
  NoServer,
  Threshold,     \* BEST_OF_BEST_PROBE_FAILURES
  Cooldown,      \* ticks a failed member is left out (15 minutes)
  RetryAfter,    \* ticks to the next update after anything but a success (10 s) ...
  KeepFor,       \* ... and after a success (60 s)
  MaxRequests,   \* bound: requests, maintenance, changes of the servers
  MaxFaults      \* bound: failing calls, probes, activations, crashes

ASSUME PoolAssumption ==
  /\ Memberships \subseteq Seq(Servers) /\ {Reject, NoServer} \cap Servers = {}
  /\ Threshold \in Nat \ {0} /\ Cooldown \in Nat \ {0}
  /\ RetryAfter \in Nat \ {0} /\ KeepFor \in Nat \ {0}

VARIABLES
  pool,      \* state.best_of_best: enabled, refs, selected
  dead,      \* servers in Dead Servers or without a profile
  core,      \* the core: up, its generation, what the group has selected
  runtime,   \* failures, cooldown and PoolRuntime: cursor, ticks to the next attempt
  u,         \* the update of the selector in progress
  setting,   \* the request that saved new settings and has not activated them
  undo,      \* an earlier pool and dead servers on the undo stack
  works,     \* servers whose outbound would pass the probe now
  passed,    \* those that passed it since the core was loaded
  streak,    \* failed probes in a row of the member that carries the traffic
  foreign,   \* somebody else has moved the selector since
  requests, faults   \* bounds

vars == <<pool, dead, core, runtime, u, setting, undo, works, passed, streak,
          foreign, requests, faults>>
history == <<passed, streak, foreign>>
bounds == <<requests, faults>>

Refs == ToSet(pool.refs)
Available == Refs \ dead
Idle == [step |-> "idle", by |-> "none", generation |-> 0, selected |-> NoServer,
         expected |-> Reject, actual |-> Reject, chosen |-> NoServer, ok |-> FALSE]
NotSetting == [active |-> FALSE, previous |-> [enabled |-> FALSE, refs |-> <<>>, selected |-> NoServer]]
FreshRuntime == [failures |-> 0, cooldown |-> [s \in Servers |-> 0], cursor |-> 0, wait |-> 0]
ApplyFree == u.step = "idle" /\ ~setting.active

Pools == [enabled : BOOLEAN, refs : Memberships, selected : Servers \cup {NoServer}]

(* The state stays well formed; the cursor stays within the list.          *)
TypeOK ==
  /\ pool \in Pools /\ setting.previous \in Pools
  /\ (pool.selected # NoServer => pool.selected \in Refs)
  /\ dead \subseteq Servers /\ works \subseteq Servers /\ passed \subseteq Servers
  /\ core.up \in BOOLEAN /\ core.generation \in Nat /\ core.group \in Servers \cup {Reject}
  /\ runtime.failures \in 0..(Threshold - 1) /\ runtime.cursor \in 0..(Cardinality(Servers) - 1)
  /\ runtime.cooldown \in [Servers -> 0..Cooldown]
  /\ u.step \in {"idle", "get", "compare", "reset", "choose", "clear", "probe",
                 "judge", "drop", "put", "back"}

Init ==
  /\ \E refs \in Memberships :
       pool = [enabled |-> refs # <<>>, refs |-> refs, selected |-> NoServer]
  /\ dead = {} /\ works \in SUBSET Servers
  /\ core = [up |-> TRUE, generation |-> 0, group |-> Reject]
  /\ runtime = FreshRuntime /\ u = Idle /\ setting = NotSetting
  /\ undo = [pool |-> pool, dead |-> dead]
  /\ passed = {} /\ streak = 0 /\ foreign = FALSE
  /\ requests = 0 /\ faults = 0
-----------------------------------------------------------------------------
(* PoolRuntime.                                                            *)
Unadvanced(old, index, length) == old
Unwrapped(old, index, length) == index
CursorAfter(old, index, length) == index % length

Recorded(server, selected) ==
  [runtime EXCEPT
     !.cursor = IF server \in Refs
                  THEN CursorAfter(@, CHOOSE i \in DOMAIN pool.refs : pool.refs[i] = server,
                                   Len(pool.refs))
                  ELSE @,
     !.wait = IF selected THEN KeepFor ELSE RetryAfter]

Eligible(s) == s \in Available /\ runtime.cooldown[s] = 0

(* next: the first eligible member from the cursor on.                     *)
Rotated ==
  LET n == Len(pool.refs)
      order == [k \in 1..n |-> pool.refs[((runtime.cursor + k - 1) % n) + 1]]
      eligible == SelectSeq(order, Eligible)
  IN  IF eligible = <<>> THEN NoServer ELSE Head(eligible)

(* The selected member is kept while it is eligible.                       *)
Choice == IF pool.selected # NoServer /\ Eligible(pool.selected) THEN pool.selected ELSE Rotated
-----------------------------------------------------------------------------
(* The core.                                                               *)
Request == requests < MaxRequests /\ requests' = requests + 1 /\ UNCHANGED faults
Fault == faults < MaxFaults /\ faults' = faults + 1 /\ UNCHANGED requests
Works == UNCHANGED bounds

(* A loaded configuration resets the group; Mihomo itself may have kept    *)
(* the selection over a hot reload (kept).                                 *)
Kept(kept) == kept
AfterLoad(kept) == Reject

(* A load, by whatever handler; a member that an update has just seen      *)
(* pass is put by it all the same.                                         *)
Loads ==
  /\ core' = [up |-> TRUE, generation |-> core.generation + 1, group |-> AfterLoad(core.group)]
  /\ passed' = IF u.step = "put" THEN {u.chosen} ELSE {}
  /\ streak' = 0 /\ foreign' = FALSE
Stopped == [core EXCEPT !.up = FALSE, !.group = Reject]

(* Mihomo has the group on a target; only then set_best_of_best_group is   *)
(* without an error.                                                       *)
Puts(target) ==
  /\ core.up /\ core' = [core EXCEPT !.group = target]
  /\ foreign' = FALSE /\ streak' = 0 /\ UNCHANGED passed /\ Works

(* The call fails, with or without effect, or there is no core to answer.  *)
PutFails(target) ==
  \/ ~core.up /\ UNCHANGED <<core, history>> /\ Works
  \/ /\ core.up /\ Fault /\ UNCHANGED history
     /\ \E g \in {core.group, target} : core' = [core EXCEPT !.group = g]

(* A selector that cannot be closed: the core is stopped.                  *)
CannotReject ==
  /\ core' = Stopped /\ u' = Idle /\ UNCHANGED history
  /\ IF core.up THEN Fault ELSE Works

Done == u' = Idle
Goto(step) == u' = [u EXCEPT !.step = step]
-----------------------------------------------------------------------------
(* update_best_of_best_selector_locked.                                    *)
Rest == UNCHANGED <<dead, setting, undo, works>>

Started(by, p) ==
  [Idle EXCEPT !.step = "get", !.by = by, !.generation = core.generation, !.selected = p.selected,
               !.expected = IF p.selected \in ToSet(p.refs) \ dead THEN p.selected ELSE Reject]

(* The watchdog, unless an apply is in progress.                           *)
Begin ==
  /\ ApplyFree /\ runtime.wait = 0 /\ pool.enabled /\ core.up
  /\ u' = Started("watchdog", pool)
  /\ UNCHANGED <<pool, core, runtime, history, bounds>> /\ Rest

ControllerFailed == CannotReject /\ runtime' = Recorded(pool.selected, FALSE) /\ UNCHANGED pool

Get ==
  /\ u.step = "get" /\ Rest
  /\ \/ ControllerFailed
     \/ /\ core.up /\ Works /\ UNCHANGED <<pool, core, runtime, history>>
        /\ u' = [u EXCEPT !.step = "compare", !.actual = core.group]

Compare ==
  /\ u.step = "compare"
  /\ IF core.generation # u.generation \/ pool.selected # u.selected \/ ~core.up
       THEN Done
       ELSE Goto(IF u.actual # u.expected THEN "reset" ELSE "choose")
  /\ UNCHANGED <<pool, core, runtime, history, bounds>> /\ Rest

(* Not what the daemon has set: REJECT until a member passes again, and    *)
(* only a load (which left REJECT) keeps the selected member.              *)
Reset ==
  /\ u.step = "reset" /\ Rest
  /\ \/ ControllerFailed
     \/ /\ Puts(Reject) /\ Goto("choose")
        /\ pool' = [pool EXCEPT !.selected = IF u.actual # Reject THEN NoServer ELSE @]
        /\ runtime' = [runtime EXCEPT !.failures = 0]

Choose ==
  /\ u.step = "choose" /\ Rest /\ UNCHANGED <<pool, core, history, bounds>>
  /\ IF ~pool.enabled \/ ~core.up THEN Done /\ UNCHANGED runtime
     ELSE IF Choice = NoServer THEN Goto("clear") /\ runtime' = Recorded(NoServer, FALSE)
     ELSE /\ u' = [u EXCEPT !.step = "probe", !.chosen = Choice,
                            !.generation = core.generation, !.selected = pool.selected]
          /\ UNCHANGED runtime

(* REJECT, and the selection forgotten: nobody is eligible, the chosen     *)
(* member failed, or the group could not be put on it.  When nobody is     *)
(* eligible and the controller is not configured any more, nothing is done.*)
Close(step, after) ==
  /\ u.step = step /\ Rest
  /\ \/ CannotReject /\ UNCHANGED <<pool, runtime>>
     \/ step = "clear" /\ Fault /\ Done /\ UNCHANGED <<pool, core, runtime, history>>
     \/ /\ Puts(Reject) /\ Done
        /\ pool' = [pool EXCEPT !.selected = NoServer]
        /\ runtime' = [runtime EXCEPT !.wait = after]

(* The probe goes through the core, without a lock; it may fail by itself. *)
Probe ==
  /\ u.step = "probe" /\ Rest /\ UNCHANGED <<pool, core, runtime, foreign>>
  /\ \E ok \in BOOLEAN :
       /\ ok => core.up /\ u.chosen \in works
       /\ IF ~ok /\ core.up /\ u.chosen \in works THEN Fault ELSE Works
       /\ u' = [u EXCEPT !.step = "judge", !.ok = ok]
       /\ passed' = IF ok THEN passed \cup {u.chosen} ELSE passed
       /\ streak' = IF core.group # u.chosen THEN streak ELSE IF ok THEN 0 ELSE streak + 1

Outdated ==
  \/ core.generation # u.generation \/ ~core.up \/ ~pool.enabled
  \/ pool.selected # u.selected \/ u.chosen \notin Available

Judge ==
  /\ u.step = "judge" /\ Rest /\ UNCHANGED <<pool, core, history, bounds>>
  /\ LET sticky == u.selected = u.chosen
         failures == runtime.failures + 1
         record == Recorded(u.chosen, sticky)
     IN  \/ Outdated /\ Done /\ UNCHANGED runtime
         \/ ~Outdated /\ u.ok /\ Goto("put") /\ runtime' = [runtime EXCEPT !.failures = 0]
         \/ /\ ~Outdated /\ ~u.ok /\ sticky /\ failures < Threshold
            /\ Done /\ runtime' = [record EXCEPT !.failures = failures]
         \/ /\ ~Outdated /\ ~u.ok /\ (~sticky \/ failures >= Threshold)
            /\ Goto("drop")
            /\ runtime' = [record EXCEPT !.failures = 0, !.cooldown[u.chosen] = Cooldown]

Put ==
  /\ u.step = "put" /\ Rest
  /\ \/ /\ Puts(u.chosen) /\ Done
        /\ runtime' = Recorded(u.chosen, TRUE)
        /\ pool' = [pool EXCEPT !.selected = u.chosen]
     \/ /\ PutFails(u.chosen) /\ Goto("back")
        /\ runtime' = Recorded(u.chosen, FALSE) /\ UNCHANGED pool

Update ==
  \/ Get \/ Compare \/ Reset \/ Choose \/ Probe \/ Judge \/ Put
  \/ Close("clear", runtime.wait) \/ Close("drop", RetryAfter) \/ Close("back", runtime.wait)
-----------------------------------------------------------------------------
(* handle_best_of_best_set: saved and then activated, both under the apply *)
(* lock; a selected member stays selected if it stays a member.            *)
Save ==
  /\ ApplyFree /\ Request
  /\ \E enabled \in BOOLEAN, refs \in Memberships :
       /\ ToSet(refs) \subseteq (Servers \ dead) \cup Refs
       /\ pool' = [enabled |-> enabled, refs |-> refs,
                   selected |-> IF enabled /\ pool.selected \in ToSet(refs)
                                  THEN pool.selected ELSE NoServer]
  /\ setting' = [active |-> TRUE, previous |-> pool]
  /\ UNCHANGED <<dead, core, runtime, u, undo, works, history>>

(* A running core is loaded and the request updates the selector; an       *)
(* activation that fails brings back the settings and reloads, or stops.   *)
Activate ==
  /\ setting.active /\ setting' = NotSetting
  /\ UNCHANGED <<dead, undo, works>>
  /\ \/ /\ Works /\ UNCHANGED pool /\ runtime' = FreshRuntime
        /\ IF core.up THEN Loads ELSE UNCHANGED <<core, history>>
        /\ u' = IF core.up /\ pool.enabled
                  THEN [Started("client", pool) EXCEPT !.generation = core'.generation] ELSE Idle
     \/ /\ Fault /\ pool' = setting.previous /\ UNCHANGED <<runtime, u>>
        /\ IF core.up THEN Loads \/ (core' = Stopped /\ UNCHANGED history)
                      ELSE UNCHANGED <<core, history>>

(* Any other activation; it may leave an undo snapshot.                    *)
Reload ==
  /\ ApplyFree /\ Request /\ core.up /\ Loads
  /\ undo' \in {undo, [pool |-> pool, dead |-> dead]}
  /\ UNCHANGED <<pool, dead, runtime, u, setting, works>>

Restart ==
  /\ ApplyFree /\ Works /\ ~core.up /\ Loads
  /\ UNCHANGED <<pool, dead, runtime, u, setting, undo, works>>

(* Dead Servers, a refresh or an edit of profiles, with their activation.  *)
ChangeDead ==
  /\ ApplyFree /\ Request /\ dead' \in SUBSET Servers
  /\ IF core.up THEN Loads ELSE UNCHANGED <<core, history>>
  /\ UNCHANGED <<pool, runtime, u, setting, undo, works>>

(* handle_core_stop: no apply lock.                                        *)
Stop ==
  /\ Request /\ core' = [Stopped EXCEPT !.generation = @ + 1]
  /\ UNCHANGED <<pool, dead, runtime, u, setting, undo, works, history>>

(* Undo, and the deletion of the active profile: the core is stopped, and  *)
(* the generation stays; no apply lock.                                    *)
Undo ==
  /\ Request /\ core' = Stopped
  /\ \/ pool' = undo.pool /\ dead' = undo.dead
     \/ UNCHANGED <<pool, dead>>
  /\ UNCHANGED <<runtime, u, setting, undo, works, history>>

(* The watchdog's maintenance restarts the core without the apply lock,    *)
(* over an update or a change of the settings by a request.                *)
Maintain ==
  /\ core.up /\ u.by # "watchdog" /\ Request /\ Loads
  /\ UNCHANGED <<pool, dead, runtime, u, setting, undo, works>>

Crash ==
  /\ core.up /\ Fault /\ core' = Stopped
  /\ UNCHANGED <<pool, dead, runtime, u, setting, undo, works, history>>

(* Another client of the controller.                                       *)
MovedByOthers ==
  /\ core.up /\ pool.enabled /\ Request
  /\ \E g \in Available \cup {Reject} :
       core' = [core EXCEPT !.group = g] /\ foreign' = TRUE
  /\ streak' = 0
  /\ UNCHANGED <<pool, dead, runtime, u, setting, undo, works, passed>>

(* A server fails or recovers.                                             *)
ServerChanges ==
  /\ Request /\ \E s \in Servers : works' = IF s \in works THEN works \ {s} ELSE works \cup {s}
  /\ UNCHANGED <<pool, dead, core, runtime, u, setting, undo, history>>

Less(n) == IF n = 0 THEN 0 ELSE n - 1
Tick ==
  /\ runtime' = [runtime EXCEPT !.wait = Less(@), !.cooldown = [s \in Servers |-> Less(@[s])]]
  /\ runtime' # runtime
  /\ UNCHANGED <<pool, dead, core, u, setting, undo, works, history, bounds>>

Next ==
  \/ Begin \/ Update \/ Save \/ Activate \/ Reload \/ Restart \/ ChangeDead
  \/ Stop \/ Undo \/ Maintain \/ Crash \/ MovedByOthers \/ ServerChanges \/ Tick

Spec == Init /\ [][Next]_vars

(* The watchdog's thread, the request's thread and time go on.             *)
FairSpec ==
  /\ Spec
  /\ WF_vars(Begin) /\ WF_vars(Update) /\ WF_vars(Activate) /\ WF_vars(Restart) /\ WF_vars(Tick)
-----------------------------------------------------------------------------
(* Properties.                                                             *)

(* What the pool's traffic uses was seen to work: unless somebody else     *)
(* moved the selector, the group is on REJECT or on a server that passed   *)
(* the probe since this core was loaded.  Between updates it is moreover a *)
(* live member of an enabled pool, the selected one, and has not failed    *)
(* its last Threshold probes.                                              *)
CarriesOnlyVerified ==
  core.up /\ ~foreign /\ core.group # Reject =>
    /\ core.group \in passed
    /\ ApplyFree =>
         /\ pool.enabled /\ core.group \in Available /\ pool.selected = core.group
         /\ streak < Threshold

KeepsWorkingMember == pool.enabled /\ \E s \in Available : s \in works
WorkingMemberInUse == core.up /\ core.group \in works
AwaitsRetained == core.group = Reject /\ pool.selected \in Available \ works

(* A pool that keeps a member that works does not stay without one: what   *)
(* should hold of best_of_best_failures, a cooldown and next together.     *)
WorkingMemberCarries == <>[]KeepsWorkingMember => <>[]WorkingMemberInUse

(* If the pool keeps a member that works, it is found and stays in use,    *)
(* whatever failed, was stopped, undone or moved before, and although each *)
(* failed member becomes eligible again before the list has been tried;    *)
(* the one exception is a member selected before a load that does not work *)
(* after it: it is tried for ever (see WorkingMemberCarries).              *)
WorkingMemberFound ==
  <>[]KeepsWorkingMember => <>[]WorkingMemberInUse \/ <>[]AwaitsRetained
=============================================================================
