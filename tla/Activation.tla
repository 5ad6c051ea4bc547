------------------------------ MODULE Activation ------------------------------
(***************************************************************************)
(* Transactional activation of the routing configuration.                  *)
(*                                                                         *)
(* One operation at a time holds the apply lock and walks through          *)
(* activate_current_config_locked_with_mode: capture, write the candidate  *)
(* configuration, reload or restart Mihomo, observe readiness, restore the *)
(* selector, apply the firewall, acknowledge; a failing step leads to      *)
(* restore_previous_activation and, for a settings change, to the restore  *)
(* of the policy.  The state mutex (inner) is released between the steps,  *)
(* so the handlers that take only that mutex, the watchdog thread, a crash *)
(* of Mihomo and the router's own firewall flush interleave with it.  Two  *)
(* handlers (undo, geo download) and the scheduled maintenance rewrite the *)
(* configuration file without the apply lock.  One action is one critical  *)
(* section of the state mutex, or one write between two of them.           *)
(***************************************************************************)
EXTENDS Naturals

CONSTANTS
  Policies,       \* values of the routing settings other than "enabled"
  NoPolicy,       \* the policy of a firewall that is not installed
  NoConfig,       \* no configuration: file absent, nothing loaded
  StoreSelected,  \* does Mihomo remember a selection when it loads a config
  TproxySupport,  \* the answers detect_tproxy can give on this router
  MaxRequests,    \* bound on API requests
  MaxFaults       \* bound on failing calls, crashes and firewall flushes

Targets == {"proxy-active", "REJECT"}

(* The state in state.json: is a profile active, the routing settings, and *)
(* what the firewall found out, the connmark of the Keenetic policy and    *)
(* whether TPROXY works.                                                   *)
States ==
  [active : BOOLEAN, enabled : BOOLEAN, policy : Policies, mark : BOOLEAN,
   tproxy : BOOLEAN]

(* What the configuration generator makes of it when a profile is active:  *)
(* transparent inbounds only when split routing is enabled, a TPROXY one   *)
(* only when available.  Which profile it is tells no property apart.      *)
Configs == [policy : Policies, redirect : BOOLEAN, tproxy : BOOLEAN]

BuildConfig(s) ==
  [policy |-> s.policy, redirect |-> s.enabled,
   tproxy |-> s.enabled /\ s.tproxy]

(* observed: was the health of this core, with this profile, looked at     *)
(* before (failover_health_identity).                                      *)
Cores ==
  [up : BOOLEAN, loaded : Configs \cup {NoConfig}, selector : Targets,
   observed : BOOLEAN]

Firewalls ==
  {f \in [active : BOOLEAN, tproxy : BOOLEAN, policy : Policies \cup {NoPolicy}] :
      f.active <=> f.policy # NoPolicy}

Kinds == {"settings", "apply", "start", "reset", "watchdog"}
Steps == {"idle", "plan", "write", "reload", "ready", "select", "firewall", "rewrite",
          "ack", "rollback", "unwind"}

(* The holder of the apply lock with what it captured when it began.       *)
Transactions ==
  [step : Steps, kind : Kinds, second : BOOLEAN,
   prior : States,       \* the policy a settings change goes back to,
   undo : SUBSET States, \* and the undo stack
   state : States,       \* the captured state the plan was built from
   config : Configs \cup {NoConfig}, up : BOOLEAN, rejected : BOOLEAN,
   firewall : Firewalls]

WatchdogSteps ==
  {"sleep", "core", "activating", "firewall", "health", "failover", "maintain",
   "flush"}
MaxBackoff == 30                \* ticks of 10 s: 150 s, doubled

(* The watchdog thread: its snapshot, its restart backoff in ticks, and a  *)
(* count of the restarts that failed in a row (read by properties only).   *)
Watchdogs ==
  [step : WatchdogSteps, up : BOOLEAN, enabled : BOOLEAN, active : BOOLEAN,
   policy : Policies, mark : BOOLEAN, backoff : 0..MaxBackoff,
   failures : 0..MaxFaults]

Reports == {"none", "applied", "refused", "restored", "incomplete"}

VARIABLES
  mem,       \* inner.state
  disk,      \* the same fields in state.json
  dirty,     \* inner.dirty
  undo,      \* the snapshots on inner.state.undo_stack
  config,    \* the Mihomo configuration file
  core,      \* the tracked Mihomo process
  rejected,  \* inner.proxy_rejected
  firewall,  \* inner.firewall
  rules,     \* are the iptables rules in the kernel
  tx, wd,
  updating,  \* a core update has passed its running check
  report,    \* what the last activation answered
  intruded,  \* read by properties only: was the configuration file rewritten
             \* without the apply lock since an activation last began
  doubted,   \* likewise: has a selector request of the watchdog failed that
             \* Mihomo may have obeyed, since it last saw the selector
  requests, faults

settingsVars == <<mem, disk, dirty>>
routerVars == <<firewall, rules>>
sideVars == <<undo, updating, intruded, doubted>>
vars == <<mem, disk, dirty, undo, config, core, rejected, firewall, rules, tx, wd,
          updating, report, intruded, doubted, requests, faults>>

ASSUME ConstantsAssumption ==
  /\ Policies # {} /\ NoPolicy \notin Policies /\ NoConfig \notin Configs
  /\ StoreSelected \in BOOLEAN
  /\ TproxySupport \subseteq BOOLEAN /\ TproxySupport # {}
  /\ MaxRequests \in Nat /\ MaxFaults \in Nat

-----------------------------------------------------------------------------
(* Failing and working calls.                                              *)

Works == UNCHANGED faults
Fault == faults < MaxFaults /\ faults' = faults + 1
Request == requests < MaxRequests /\ requests' = requests + 1

-----------------------------------------------------------------------------
(* The Mihomo process.                                                     *)

Stopped(c) == [c EXCEPT !.up = FALSE, !.loaded = NoConfig, !.observed = FALSE]

Loaded(c, cfg) ==
  [up |-> TRUE, loaded |-> cfg, observed |-> FALSE,
   selector |-> IF StoreSelected THEN c.selector ELSE "proxy-active"]

(* A reload request may fail before or after Mihomo acted on it, and then  *)
(* does not count as another core; a restart that fails has already killed *)
(* the old process.                                                        *)
FailedLoads(c, cfg) ==
  {Stopped(c)} \cup (IF c.up /\ cfg # NoConfig
                     THEN {c, [Loaded(c, cfg) EXCEPT !.observed = c.observed]} ELSE {})

(* A missing file stops any start; otherwise a failure is a fault.         *)
CannotLoad == IF config = NoConfig THEN Works ELSE Fault

ForgottenTarget(reject) == "proxy-active"
Target(reject) == IF reject THEN "REJECT" ELSE "proxy-active"

Selected(c, target) == [c EXCEPT !.selector = target]

-----------------------------------------------------------------------------
(* The transparent firewall.                                               *)

Installed(policy, tproxy) ==
  [active |-> TRUE, tproxy |-> tproxy, policy |-> policy]

UninstalledKeepingPolicy(f) == [f EXCEPT !.active = FALSE]
Uninstalled(f) == [f EXCEPT !.active = FALSE, !.policy = NoPolicy]

StopFirewall == firewall' = Uninstalled(firewall) /\ rules' = FALSE

(* stop, then start for these settings: the kernel's TPROXY support is     *)
(* probed again, the mark is kept in the state.                            *)
StartFirewall(policy) ==
  \E tproxy \in TproxySupport :
    /\ firewall' = Installed(policy, tproxy)
    /\ rules' = TRUE
    /\ mem' = [mem EXCEPT !.mark = TRUE, !.tproxy = tproxy]

(* start fails only while the policy mark is unknown and the router does   *)
(* not tell it; the stop before it stays done.                             *)
FirewallRefused(mark) ==
  /\ ~mark
  /\ Fault
  /\ \E tproxy \in TproxySupport :
       firewall' = [Uninstalled(firewall) EXCEPT !.tproxy = tproxy]
  /\ rules' = FALSE
  /\ UNCHANGED mem

ContractChanged(s) ==
  \/ ~firewall.active \/ firewall.policy # s.policy
  \/ ~s.mark \/ s.tproxy # firewall.tproxy

-----------------------------------------------------------------------------
(* Saving state.json: an error may come before or after the rename.        *)

SaveFails(s) == Fault /\ disk' \in {disk, s}

-----------------------------------------------------------------------------
(* The apply lock.                                                         *)

FreshState ==
  [active |-> FALSE, enabled |-> FALSE, policy |-> CHOOSE p \in Policies : TRUE,
   mark |-> FALSE, tproxy |-> FALSE]

FreshFirewall == [active |-> FALSE, tproxy |-> FALSE, policy |-> NoPolicy]

NoTransaction ==
  [step |-> "idle", kind |-> "apply", second |-> FALSE, prior |-> FreshState,
   undo |-> {}, state |-> FreshState, config |-> NoConfig, up |-> FALSE,
   rejected |-> FALSE, firewall |-> FreshFirewall]

ApplyFree == tx.step = "idle"
Begun(kind, prior, stack) ==
  [NoTransaction EXCEPT !.step = "plan", !.kind = kind, !.prior = prior, !.undo = stack]
Go(step) == tx' = [tx EXCEPT !.step = step]

StartsCore(kind) == kind \in {"apply", "start", "reset", "watchdog"}
UsesFirewall(kind) == kind \in {"settings", "apply"}
ShouldRun(t) == t.up \/ StartsCore(t.kind)

NextBackoff(b) == (IF b < 1 THEN 1 ELSE IF b > 15 THEN 15 ELSE b) * 2

(* The lock is released; the watchdog learns how its restart went and      *)
(* begins its next tick.                                                   *)
Finish(ok) ==
  /\ tx' = NoTransaction
  /\ wd' = IF tx.kind # "watchdog" THEN wd
           ELSE IF ok THEN [wd EXCEPT !.step = "sleep", !.backoff = 0, !.failures = 0]
           ELSE [wd EXCEPT !.step = "sleep", !.backoff = NextBackoff(@),
                           !.failures = IF @ < MaxFaults THEN @ + 1 ELSE @]

-----------------------------------------------------------------------------
(* Handlers that begin an operation under the apply lock.                  *)

Candidate(enabled, policy) ==
  [mem EXCEPT !.enabled = enabled, !.policy = policy]

(* POST /api/routing/settings: saved at once, applied when asked to.       *)
SaveSettings(enabled, policy, apply) ==
  /\ ApplyFree /\ Request /\ Works
  /\ mem' = Candidate(enabled, policy)
  /\ disk' = mem'
  /\ tx' = IF apply THEN Begun("settings", mem, undo) ELSE tx
  /\ UNCHANGED <<sideVars, dirty, config, core, rejected, routerVars, wd, report>>

(* The save fails: memory goes back, the client gets the error.            *)
SaveSettingsFails(enabled, policy) ==
  /\ ApplyFree /\ Request
  /\ SaveFails(Candidate(enabled, policy))
  /\ UNCHANGED <<sideVars, mem, dirty, config, core, rejected, routerVars, tx, wd, report>>

(* Routing apply, core start, and core restart or cleanup (which answers   *)
(* 409 instead of waiting when the lock is held).                          *)
RequestActivation(kind) ==
  /\ ApplyFree /\ Request /\ Works
  /\ tx' = Begun(kind, FreshState, {})
  /\ UNCHANGED <<sideVars, settingsVars, config, core, rejected, routerVars, wd, report>>

-----------------------------------------------------------------------------
(* The steps of an activation.                                             *)

(* Capture the state and the runtime.                                      *)
Capture ==
  /\ tx.step = "plan" /\ Works
  /\ tx' = [tx EXCEPT !.state = mem, !.up = core.up, !.rejected = rejected,
                      !.firewall = firewall, !.step = "write"]
  /\ intruded' = FALSE
  /\ UNCHANGED <<doubted, settingsVars, undo, updating, config, core, rejected, routerVars, wd, report,
                 requests>>

(* Build and validate the plan, keep the old configuration, write the new. *)
Plan ==
  /\ tx.step = "write" /\ tx.state.active /\ Works
  /\ config' = BuildConfig(tx.state)
  /\ tx' = [tx EXCEPT !.config = config,
                      !.step = IF ShouldRun(tx) THEN "reload" ELSE "firewall"]
  /\ UNCHANGED <<settingsVars, sideVars, core, rejected, routerVars, wd, report, requests>>

(* No plan without an active profile; an invalid one, or a failing write:  *)
(* returns before anything is undone.                                      *)
PlanFails ==
  /\ tx.step = "write"
  /\ \/ ~tx.state.active /\ Works /\ UNCHANGED config
     \/ tx.state.active /\ Fault /\ config' \in {config, BuildConfig(tx.state)}
  /\ report' = "refused"
  /\ IF tx.kind = "settings" THEN Go("unwind") /\ UNCHANGED wd ELSE Finish(FALSE)
  /\ UNCHANGED <<settingsVars, sideVars, core, rejected, routerVars, requests>>

(* hot_reload_or_restart_core_locked.                                      *)
Reload ==
  /\ tx.step = "reload" /\ tx.kind # "reset"
  /\ \/ config # NoConfig /\ Works /\ core' = Loaded(core, config) /\ Go("ready")
     \/ CannotLoad /\ core' \in FailedLoads(core, config) /\ Go("rollback")
  /\ UNCHANGED <<sideVars, settingsVars, config, rejected, routerVars, wd, report, requests>>

(* restart_core_with_selector_locked: restart, readiness and selector in   *)
(* one critical section, and a stop when any of them fails.                *)
ForceRestart ==
  /\ tx.step = "reload" /\ tx.kind = "reset"
  /\ \/ /\ config # NoConfig /\ Works
        /\ core' = Selected(Loaded(core, config), Target(tx.rejected))
        /\ rejected' = tx.rejected
        /\ Go("ack")
     \/ /\ CannotLoad
        /\ core' = Stopped(core)
        /\ UNCHANGED rejected
        /\ Go("rollback")
  /\ UNCHANGED <<sideVars, settingsVars, config, routerVars, wd, report, requests>>

(* wait_for_core_readiness: stable, controller answering, sockets owned;   *)
(* otherwise the core is stopped.                                          *)
Ready ==
  /\ tx.step = "ready"
  /\ \/ core.up /\ Works /\ UNCHANGED core /\ Go("select")
     \/ /\ IF core.up THEN Fault ELSE Works
        /\ core' = Stopped(core)
        /\ Go("rollback")
  /\ UNCHANGED <<sideVars, settingsVars, config, rejected, routerVars, wd, report, requests>>

(* validate_proxy_selector and set_proxy_selector.                         *)
Select ==
  /\ tx.step = "select"
  /\ \/ /\ core.up /\ Works
        /\ core' = Selected(core, Target(tx.rejected))
        /\ rejected' = tx.rejected
        /\ Go(IF UsesFirewall(tx.kind) /\ ~tx.second THEN "firewall" ELSE "ack")
     \/ /\ IF core.up THEN Fault ELSE Works
        /\ core' \in {core} \cup (IF core.up THEN {Selected(core, Target(tx.rejected))} ELSE {})
        /\ UNCHANGED rejected
        /\ Go("rollback")
  /\ UNCHANGED <<sideVars, settingsVars, config, routerVars, wd, report, requests>>

(* The firewall of the captured settings.  When the kernel answers the     *)
(* TPROXY probe differently than the settings say, the configuration has   *)
(* to be written and loaded a second time.                                 *)
ApplyFirewall ==
  /\ tx.step = "firewall" /\ tx.state.enabled
  /\ \/ /\ ~ContractChanged(tx.state) /\ Works
        /\ Go("ack")
        /\ UNCHANGED <<settingsVars, routerVars>>
     \/ /\ ContractChanged(tx.state) /\ Works
        /\ StartFirewall(tx.state.policy)
        /\ dirty' = TRUE
        /\ tx' = [tx EXCEPT !.state.mark = TRUE, !.state.tproxy = firewall'.tproxy,
                   !.step = IF firewall'.tproxy = tx.state.tproxy THEN "ack" ELSE "rewrite"]
        /\ UNCHANGED disk
     \/ /\ ContractChanged(tx.state)
        /\ FirewallRefused(tx.state.mark)
        /\ Go("rollback")
        /\ UNCHANGED <<disk, dirty>>
  /\ UNCHANGED <<sideVars, config, core, rejected, wd, report, requests>>

ClearFirewall ==
  /\ tx.step = "firewall" /\ ~tx.state.enabled /\ Works
  /\ IF firewall.active THEN StopFirewall ELSE UNCHANGED routerVars
  /\ Go("ack")
  /\ UNCHANGED <<sideVars, settingsVars, config, core, rejected, wd, report, requests>>

Rewrite ==
  /\ tx.step = "rewrite"
  /\ \/ /\ Works
        /\ config' = BuildConfig(tx.state)
        /\ tx' = [tx EXCEPT !.second = TRUE,
                            !.step = IF ShouldRun(tx) THEN "reload" ELSE "ack"]
     \/ /\ Fault
        /\ config' \in {config, BuildConfig(tx.state)}
        /\ Go("rollback")
  /\ UNCHANGED <<sideVars, settingsVars, core, rejected, routerVars, wd, report, requests>>

(* The outcome is known; a desired GeoBase generation is committed first.  *)
Acknowledge ==
  /\ tx.step = "ack" /\ Works
  /\ report' = "applied"
  /\ Finish(TRUE)
  /\ UNCHANGED <<sideVars, settingsVars, config, core, rejected, routerVars, requests>>

AcknowledgeFails ==
  /\ tx.step = "ack" /\ UsesFirewall(tx.kind) /\ Fault
  /\ Go("rollback")
  /\ UNCHANGED <<sideVars, settingsVars, config, core, rejected, routerVars, wd, report, requests>>

-----------------------------------------------------------------------------
(* restore_previous_activation: one critical section, every part tried.    *)

(* The core goes back to its previous configuration and selection, or to   *)
(* being stopped.                                                          *)
RestoredWithoutSelector(t, c) ==
  IF t.up /\ t.config # NoConfig THEN Loaded(c, t.config) ELSE Stopped(c)
RestoredStarted(t, c) ==
  IF t.config # NoConfig THEN Selected(Loaded(c, t.config), Target(t.rejected)) ELSE Stopped(c)
RestoredCore(t, c) ==
  IF t.up /\ t.config # NoConfig
  THEN Selected(Loaded(c, t.config), Target(t.rejected))
  ELSE Stopped(c)

RestoreCore ==
  /\ Works
  /\ config' = tx.config
  /\ core' = RestoredCore(tx, core)

(* The file cannot be written or removed, or only its directory cannot be  *)
(* synchronised: the runtime is left alone.  Or the reload fails, or       *)
(* readiness or the selector request, which stop the core; or only the     *)
(* validation of the selector, which does not.                             *)
RestoreCoreFails ==
  /\ Fault
  /\ \/ {config, tx.config} # {NoConfig} /\ config' \in {config, tx.config} /\ UNCHANGED core
     \/ /\ tx.up /\ tx.config # NoConfig
        /\ config' = tx.config
        /\ core' \in FailedLoads(core, tx.config)
                      \cup {Stopped(core), Loaded(core, tx.config)}

RestoreFirewall(ok) ==
  IF firewall = tx.firewall
  THEN ok /\ UNCHANGED routerVars
  ELSE IF tx.firewall.active
  THEN /\ rules' = TRUE
       /\ \E tproxy \in TproxySupport :
            /\ firewall' = Installed(tx.firewall.policy, tproxy)
            /\ ok <=> firewall' = tx.firewall
  ELSE ok /\ StopFirewall

(* A core that was up without a file is stopped, and the request to its    *)
(* selector fails: that is not a complete restore.                         *)
Rollback ==
  /\ tx.step = "rollback"
  /\ \E coreOk, firewallOk \in BOOLEAN :
       /\ IF coreOk THEN RestoreCore ELSE RestoreCoreFails
       /\ RestoreFirewall(firewallOk)
       /\ report' = IF coreOk /\ firewallOk /\ (tx.up => tx.config # NoConfig)
                      THEN "restored" ELSE "incomplete"
  /\ rejected' = tx.rejected
  /\ IF tx.kind = "settings" THEN Go("unwind") /\ UNCHANGED wd ELSE Finish(FALSE)
  /\ UNCHANGED <<sideVars, settingsVars, requests>>

(* restore_state_after_failed_policy_change, in a later critical section:  *)
(* all of split_routing and the undo stack go back, the active profile is  *)
(* kept, a failing save is left to the watchdog.                           *)
PartlyUnwound(current, prior) == [current EXCEPT !.policy = prior.policy]
Unwound(current, prior) == [prior EXCEPT !.active = current.active]

Unwind ==
  /\ tx.step = "unwind"
  /\ mem' = Unwound(mem, tx.prior)
  /\ undo' = tx.undo
  /\ \/ Works /\ disk' = mem' /\ UNCHANGED dirty
     \/ SaveFails(mem') /\ dirty' = TRUE
  /\ Finish(FALSE)
  /\ UNCHANGED <<doubted, updating, intruded, config, core, rejected, routerVars, report, requests>>

-----------------------------------------------------------------------------
(* Handlers that take only the state mutex.                                *)

CoreStop ==
  /\ core.up /\ Request /\ Works
  /\ core' = Stopped(core)
  /\ UNCHANGED <<sideVars, settingsVars, config, rejected, routerVars, tx, wd, report>>

(* The save's error is dropped: the answer is 200 either way.              *)
FirewallStart ==
  /\ mem.enabled /\ Request
  /\ \/ /\ StartFirewall(mem.policy)
        /\ \/ Works /\ disk' = mem'
           \/ SaveFails(mem')
     \/ FirewallRefused(mem.mark) /\ UNCHANGED disk
  /\ UNCHANGED <<sideVars, dirty, config, core, rejected, tx, wd, report>>

FirewallStop ==
  /\ Request /\ Works
  /\ StopFirewall
  /\ UNCHANGED <<sideVars, settingsVars, config, core, rejected, tx, wd, report>>

(* A deleted profile leaves a snapshot of the whole state for undo; when   *)
(* it was the active one, none is active and the core is stopped.  A       *)
(* failing save is answered, not taken back.                               *)
DeleteProfile ==
  /\ Request
  /\ undo' = undo \cup {mem}
  /\ \/ UNCHANGED <<mem, core>>
     \/ mem.active /\ mem' = [mem EXCEPT !.active = FALSE] /\ core' = Stopped(core)
  /\ \/ Works /\ disk' = mem'
     \/ SaveFails(mem')
  /\ UNCHANGED <<doubted, dirty, config, rejected, routerVars, tx, wd, updating, report, intruded>>

(* POST /api/undo/restore: the whole state is replaced, the core stopped   *)
(* and the configuration file removed, whatever activation is under way.   *)
UndoRestore ==
  /\ Request
  /\ \E snapshot \in undo :
       /\ mem' = snapshot
       /\ undo' = undo \ {snapshot}
       /\ \/ Works /\ disk' = snapshot
          \/ SaveFails(snapshot)
  /\ core' = Stopped(core)
  /\ config' = NoConfig
  /\ intruded' = TRUE
  /\ UNCHANGED <<doubted, dirty, rejected, routerVars, tx, wd, updating, report>>

(* POST /api/geo/download ends with a regeneration of the file.            *)
GeoDownload ==
  /\ mem.active /\ Request /\ Works
  /\ config' = BuildConfig(mem)
  /\ intruded' = TRUE
  /\ UNCHANGED <<doubted, settingsVars, undo, core, rejected, routerVars, tx, wd, updating, report>>

(* A Mihomo update looks whether the core runs, downloads, and then holds  *)
(* the apply lock around one restart of the core on the file as it is;     *)
(* when that fails the old binary is tried.                                *)
CheckUpdate ==
  /\ core.up /\ ~updating /\ Request /\ Works
  /\ updating' = TRUE
  /\ UNCHANGED <<doubted, settingsVars, undo, config, core, rejected, routerVars, tx, wd, report,
                 intruded>>

UpdateCore ==
  /\ updating /\ ApplyFree
  /\ updating' = FALSE
  /\ \/ Works /\ UNCHANGED <<disk, core>>
     \/ /\ config # NoConfig
        /\ core' = Selected(Loaded(core, config), Target(rejected))
        /\ \/ Works /\ disk' = mem
           \/ SaveFails(mem)
     \/ CannotLoad /\ core' = Stopped(core) /\ UNCHANGED disk
  /\ UNCHANGED <<doubted, mem, dirty, undo, intruded, config, rejected, routerVars, tx, wd, report,
                 requests>>

-----------------------------------------------------------------------------
(* Operations that hold both locks from their plan to their end or their   *)
(* rollback: the switch of the active profile and the edit of its data.    *)

(* Rolled back, completely or not, from whatever the failing load left.    *)
RolledBack(candidate) ==
  \/ /\ Fault
     /\ core' = RestoredCore([up |-> core.up, config |-> config, rejected |-> rejected], core)
     /\ report' = "restored"
     /\ UNCHANGED config
  \/ /\ faults + 2 <= MaxFaults /\ faults' = faults + 2
     /\ \/ config' \in {config, candidate} \ {NoConfig}
           /\ core' \in {core} \cup FailedLoads(core, candidate)
        \/ UNCHANGED config /\ core' \in FailedLoads(core, config)
     /\ report' = "incomplete"

(* apply_active_profile_locked: any other profile becomes the active one   *)
(* and its dataplane is opened; a stopped core is started.                 *)
Activated ==
  LET state == [mem EXCEPT !.active = TRUE] IN
  \/ /\ Works
     /\ mem' = state /\ disk' = state
     /\ config' = BuildConfig(state)
     /\ core' = [Selected(Loaded(core, config'), "proxy-active") EXCEPT !.observed = TRUE]
     /\ rejected' = FALSE
     /\ report' = "applied"
  \/ /\ RolledBack(BuildConfig(state))
     /\ disk' \in {disk, mem, state}
     /\ UNCHANGED <<mem, rejected>>

SwitchProfile ==
  /\ ApplyFree /\ Request
  /\ Activated
  /\ UNCHANGED <<sideVars, dirty, routerVars, tx, wd>>

(* commit_profile_replacements for the active profile: a core that runs is *)
(* reloaded, and the daemon believes the selector it finds afterwards.     *)
EditProfile ==
  /\ ApplyFree /\ Request /\ mem.active
  /\ \/ /\ Works
        /\ config' = BuildConfig(mem)
        /\ disk' = mem
        /\ IF core.up
           THEN /\ core' = Loaded(core, config')
                /\ rejected' = (core'.selector = "REJECT")
                /\ report' = "applied"
           ELSE UNCHANGED <<core, rejected, report>>
     \/ /\ RolledBack(BuildConfig(mem))
        /\ disk' \in {disk, mem}
        /\ UNCHANGED rejected
  /\ UNCHANGED <<mem, dirty, sideVars, routerVars, tx, wd>>

-----------------------------------------------------------------------------
(* The watchdog's tick.                                                    *)

Wake ==
  /\ wd.step = "sleep" /\ Works
  /\ wd' = [wd EXCEPT !.step = "core", !.up = core.up, !.enabled = mem.enabled,
             !.active = firewall.active, !.policy = mem.policy, !.mark = mem.mark]
  /\ UNCHANGED <<sideVars, settingsVars, config, core, rejected, routerVars, tx, report, requests>>

(* Phase 1: a core found stopped is activated again, unless the thread is  *)
(* still waiting out a failure.  The rest of that tick is skipped.         *)
RestartDueWhenSplit == ~wd.up /\ wd.enabled /\ wd.backoff = 0
RestartDue == ~wd.up /\ wd.backoff = 0

CheckCore ==
  /\ wd.step = "core" /\ ~RestartDue /\ Works
  /\ wd' = [wd EXCEPT !.step = "firewall",
             !.backoff = IF wd.up \/ @ = 0 THEN @ ELSE @ - 1]
  /\ UNCHANGED <<sideVars, settingsVars, config, core, rejected, routerVars, tx, report, requests>>

RestartCore ==
  /\ wd.step = "core" /\ RestartDue /\ ApplyFree /\ Works
  /\ tx' = Begun("watchdog", FreshState, {})
  /\ wd' = [wd EXCEPT !.step = "activating"]
  /\ UNCHANGED <<sideVars, settingsVars, config, core, rejected, routerVars, report, requests>>

(* Phase 2, on the snapshot: a firewall seen inactive is started, missing  *)
(* rules of one seen active are installed again.                           *)
CheckFirewall ==
  /\ wd.step = "firewall"
  /\ \/ ~wd.enabled /\ Works /\ UNCHANGED <<mem, dirty, routerVars>>
     \/ /\ wd.enabled /\ ~wd.active
        /\ \/ Works /\ StartFirewall(wd.policy) /\ dirty' = TRUE
           \/ FirewallRefused(wd.mark) /\ UNCHANGED dirty
     \/ /\ wd.enabled /\ wd.active /\ Works
        /\ rules' = (rules \/ wd.mark \/ firewall.active)
        /\ UNCHANGED <<mem, dirty, firewall>>
  /\ wd' = [wd EXCEPT !.step = IF wd.up THEN "health" ELSE "maintain"]
  /\ UNCHANGED <<sideVars, disk, config, core, rejected, tx, report, requests>>

(* Phase 3 under the apply lock.  Another core, or another profile, than   *)
(* the one observed before is only noted, and the tick ends.               *)
NoteCore ==
  /\ ~(core.observed /\ mem.active) /\ Works
  /\ core' = [core EXCEPT !.observed = mem.active]
  /\ rejected' = (core.selector = "REJECT")
  /\ doubted' = FALSE
  /\ wd' = [wd EXCEPT !.step = "sleep"]
  /\ UNCHANGED dirty

(* Otherwise the samples may move the selector, and rejected follows it; a *)
(* profile rejected for failing may then be replaced.  A request to reject *)
(* that fails ends the tick.                                               *)
MoveSelector(target) ==
  /\ core.observed /\ mem.active
  /\ \/ /\ Works
        /\ core' = Selected(core, target) /\ rejected' = (target = "REJECT")
        /\ doubted' = FALSE
        /\ \/ wd' = [wd EXCEPT !.step = "maintain"] /\ UNCHANGED dirty
           \/ /\ core.selector # target /\ target = "REJECT"
              /\ wd' = [wd EXCEPT !.step = "failover"]
              /\ dirty' = TRUE
     \/ /\ core.selector # target /\ Fault
        /\ core' \in {core, Selected(core, target)}
        /\ rejected' = (core.selector = "REJECT")
        /\ doubted' = TRUE
        /\ wd' = [wd EXCEPT !.step = IF target = "REJECT" THEN "sleep" ELSE "maintain"]
        /\ UNCHANGED dirty

(* Nothing is decided on a failure of the controller, of a core that is    *)
(* down for instance.                                                      *)
ObserveHealth ==
  /\ wd.step = "health" /\ ApplyFree
  /\ \/ /\ Works /\ UNCHANGED <<core, rejected, dirty, doubted>>
        /\ wd' = [wd EXCEPT !.step = "maintain"]
     \/ core.up /\ (NoteCore \/ \E target \in Targets : MoveSelector(target))
  /\ UNCHANGED <<mem, disk, undo, updating, intruded, config, routerVars, tx, report, requests>>

(* attempt_verified_failover: the apply lock was released for the probes.  *)
Failover ==
  /\ wd.step = "failover"
  /\ \/ Works /\ UNCHANGED <<mem, disk, config, core, rejected, report>>
     \/ ApplyFree /\ mem.active /\ Activated
  /\ wd' = [wd EXCEPT !.step = "maintain"]
  /\ UNCHANGED <<sideVars, dirty, routerVars, tx, requests>>

(* Phase 10, when maintenance is due: without the apply lock the file is   *)
(* regenerated and a core that runs is restarted on it, with its selector, *)
(* in one critical section.                                                *)
Maintain ==
  /\ wd.step = "maintain"
  /\ \/ Works /\ UNCHANGED <<dirty, config, core, intruded>>
     \/ Works /\ dirty' = TRUE /\ UNCHANGED <<config, core, intruded>>
     \/ /\ core.up /\ mem.active
        /\ intruded' = TRUE
        /\ dirty' = TRUE
        /\ \/ /\ Works
              /\ config' = BuildConfig(mem)
              /\ core' = Selected(Loaded(core, config'), Target(rejected))
           \/ Fault /\ config' = BuildConfig(mem) /\ core' \in {core, Stopped(core)}
  /\ wd' = [wd EXCEPT !.step = "flush"]
  /\ UNCHANGED <<doubted, mem, disk, undo, updating, rejected, routerVars, tx, report, requests>>

(* The write-behind save at the end of the tick.                           *)
StaysDirty(saved) == TRUE
DirtyAfterFlush(saved) == ~saved

Flush ==
  /\ wd.step = "flush"
  /\ \/ ~dirty /\ Works /\ UNCHANGED <<disk, dirty>>
     \/ dirty /\ Works /\ disk' = mem /\ dirty' = DirtyAfterFlush(TRUE)
     \/ dirty /\ SaveFails(mem) /\ dirty' = DirtyAfterFlush(FALSE)
  /\ wd' = [wd EXCEPT !.step = "sleep"]
  /\ UNCHANGED <<sideVars, mem, config, core, rejected, routerVars, tx, report, requests>>

-----------------------------------------------------------------------------
(* The environment.                                                        *)

CoreCrash ==
  /\ core.up /\ Fault
  /\ core' = Stopped(core)
  /\ UNCHANGED <<sideVars, settingsVars, config, rejected, routerVars, tx, wd, report, requests>>

(* Keenetic's ndm flushes the tables.                                      *)
WipeRules ==
  /\ rules /\ Fault
  /\ rules' = FALSE
  /\ UNCHANGED <<sideVars, settingsVars, config, core, rejected, firewall, tx, wd, report, requests>>

IdleWatchdog ==
  [step |-> "sleep", up |-> FALSE, enabled |-> FALSE, active |-> FALSE,
   policy |-> FreshState.policy, mark |-> FALSE, backoff |-> 0, failures |-> 0]

(* The daemon dies, Mihomo with it (PDEATHSIG), and run() starts from      *)
(* state.json; the rules are still in the kernel.  A failing regeneration  *)
(* (always, without an active profile) or save is only logged.             *)
Reboot ==
  /\ Fault
  /\ config' \in {config} \cup (IF disk.active THEN {BuildConfig(disk)} ELSE {})
  /\ core' = Stopped(core)
  /\ rejected' = FALSE
  /\ IF disk.enabled
     THEN \/ /\ \E tproxy \in TproxySupport : firewall' = Installed(disk.policy, tproxy)
             /\ rules' = TRUE
             /\ mem' = [disk EXCEPT !.mark = TRUE]
             /\ disk' \in {disk, mem'}
          \/ /\ ~disk.mark
             /\ \E tproxy \in TproxySupport :
                  firewall' = [FreshFirewall EXCEPT !.tproxy = tproxy]
             /\ mem' = disk
             /\ UNCHANGED <<disk, rules>>
     ELSE firewall' = FreshFirewall /\ mem' = disk /\ UNCHANGED <<disk, rules>>
  /\ dirty' = FALSE
  /\ tx' = NoTransaction
  /\ wd' = IdleWatchdog
  /\ report' = "none"
  /\ undo' = {} /\ updating' = FALSE /\ intruded' = FALSE /\ doubted' = FALSE
  /\ UNCHANGED requests

-----------------------------------------------------------------------------

(* The daemon has started: on a fresh installation, or on a saved state    *)
(* with an active profile, which installs the firewall for split routing.  *)
Init ==
  /\ \/ mem = FreshState /\ config = NoConfig
     \/ \E enabled \in BOOLEAN :
          /\ mem = [FreshState EXCEPT !.active = TRUE, !.enabled = enabled, !.mark = enabled]
          /\ config = BuildConfig(mem)
  /\ IF mem.enabled
     THEN \E tproxy \in TproxySupport : firewall = Installed(mem.policy, tproxy)
     ELSE firewall = FreshFirewall
  /\ rules = mem.enabled
  /\ disk = mem /\ dirty = FALSE
  /\ core = [up |-> FALSE, loaded |-> NoConfig, selector |-> "proxy-active",
             observed |-> FALSE]
  /\ rejected = FALSE
  /\ tx = NoTransaction
  /\ wd = IdleWatchdog
  /\ report = "none"
  /\ undo = {} /\ updating = FALSE /\ intruded = FALSE /\ doubted = FALSE
  /\ requests = 0 /\ faults = 0

Handlers ==
  \/ \E enabled \in BOOLEAN, policy \in Policies :
       \/ \E apply \in BOOLEAN : SaveSettings(enabled, policy, apply)
       \/ SaveSettingsFails(enabled, policy)
  \/ \E kind \in {"apply", "start", "reset"} : RequestActivation(kind)
  \/ CoreStop \/ FirewallStart \/ FirewallStop
  \/ DeleteProfile \/ UndoRestore \/ GeoDownload \/ CheckUpdate \/ UpdateCore
  \/ SwitchProfile \/ EditProfile

ActivationStep ==
  \/ Capture \/ Plan \/ PlanFails \/ Reload \/ ForceRestart \/ Ready \/ Select
  \/ ApplyFirewall \/ ClearFirewall \/ Rewrite
  \/ Acknowledge \/ AcknowledgeFails \/ Rollback \/ Unwind

WatchdogStep ==
  \/ Wake \/ CheckCore \/ RestartCore \/ CheckFirewall \/ ObserveHealth \/ Failover
  \/ Maintain \/ Flush

Next ==
  \/ Handlers \/ ActivationStep \/ WatchdogStep
  \/ CoreCrash \/ WipeRules \/ Reboot

Spec == Init /\ [][Next]_vars

(* Threads are scheduled: an activation that has begun goes on, and the    *)
(* watchdog keeps ticking.                                                 *)
FairSpec == Spec /\ WF_vars(ActivationStep) /\ WF_vars(WatchdogStep)

-----------------------------------------------------------------------------
(* Properties.                                                             *)

(* The state stays well formed; in particular the firewall manager holds a *)
(* policy exactly while it is active.                                      *)
TypeOK ==
  /\ mem \in States /\ disk \in States /\ dirty \in BOOLEAN
  /\ config \in Configs \cup {NoConfig} /\ core \in Cores
  /\ undo \in SUBSET States /\ updating \in BOOLEAN /\ intruded \in BOOLEAN
  /\ doubted \in BOOLEAN
  /\ rejected \in BOOLEAN /\ firewall \in Firewalls /\ rules \in BOOLEAN
  /\ tx \in Transactions /\ wd \in Watchdogs /\ report \in Reports
  /\ requests \in 0..MaxRequests /\ faults \in 0..MaxFaults

Believed(reject) == IF reject THEN "REJECT" ELSE "proxy-active"

(* Between the selector step and the end of an activation, whatever stops, *)
(* crashes or restarts the core meanwhile, a core that runs has the        *)
(* selector the activation found (a fail-closed dataplane is still         *)
(* fail-closed), and runs the file, unless that was rewritten without the  *)
(* apply lock.                                                             *)
ActivatedCoreMatches ==
  tx.step \in {"firewall", "rewrite", "ack"} /\ core.up =>
    /\ ShouldRun(tx)
    /\ core.selector = Believed(tx.rejected)
    /\ rejected = tx.rejected
    /\ ~intruded => core.loaded = config

(* No one starts a core behind an activation that captured a stopped one;  *)
(* while it is being reloaded, watched and selected, the operation wants   *)
(* it running, and one that is up runs the configuration in the file: what *)
(* makes ActivatedCoreMatches inductive.                                   *)
LoadingCoreMatches ==
  /\ tx.step = "write" /\ core.up => tx.up
  /\ tx.step \in {"reload", "ready", "select"} =>
       /\ ShouldRun(tx)
       /\ core.up /\ tx.step # "reload" /\ ~intruded => core.loaded = config

(* Once an activation has answered "applied", or reported every part of    *)
(* its rollback restored, Mihomo's selector is what the daemon believes,   *)
(* unless a later request of the watchdog to move it failed, and a running *)
(* core has loaded the configuration that is in the file, until the next   *)
(* activation begins to write or undo, geo download or maintenance rewrite *)
(* the file.                                                               *)
AnswerHolds ==
  report \in {"applied", "restored"} /\ tx.step \in {"idle", "plan", "unwind"} /\ core.up =>
    /\ ~doubted => core.selector = Believed(rejected)
    /\ ~intruded => core.loaded = config

(* When a settings change has been rolled back completely, a core that was *)
(* stopped before is not running, whatever interleaved, and the previous   *)
(* configuration is in the file unless that was rewritten without the lock.*)
RolledBackToBefore ==
  tx.step = "unwind" /\ report = "restored" =>
    /\ core.up => tx.up
    /\ ~intruded => config = tx.config

(* From its capture on, a settings change finds the policy it captured     *)
(* still in memory, whatever the watchdog and the firewall handlers        *)
(* discover meanwhile; and it unwinds only after another answer than       *)
(* "applied".                                                              *)
PolicyInForce ==
  /\ tx.kind = "settings" /\ tx.step \notin {"idle", "plan", "unwind"} /\ ~intruded =>
       mem.policy = tx.state.policy /\ mem.enabled = tx.state.enabled
  /\ tx.step = "unwind" => tx.kind = "settings" /\ report # "applied"

IInv ==
  /\ TypeOK /\ LoadingCoreMatches /\ ActivatedCoreMatches /\ AnswerHolds
  /\ RolledBackToBefore /\ PolicyInForce

(* A settings change ends with the policy it activated in force, undo      *)
(* aside, or with all of split_routing and the undo stack as they were     *)
(* before the request, whatever watchdog, firewall handlers and undo wrote *)
(* meanwhile; the active profile is never taken back with it.              *)
PolicyChangeIsAllOrNothing ==
  [][ tx.kind = "settings" /\ tx.step # "idle" /\ tx'.step = "idle" /\ report' # "none"
      => \/ /\ report' = "applied"
            /\ ~intruded => mem'.policy = tx.state.policy /\ mem'.enabled = tx.state.enabled
         \/ /\ report' # "applied" /\ undo' = tx.undo
            /\ mem' = [tx.prior EXCEPT !.active = mem.active] ]_vars

(* While a profile is active, the watchdog brings the core back for good   *)
(* once calls stop failing and nobody stops it any more.                   *)
CoreComesBack == <>[]mem.active => <>[]core.up

(* State left dirty by a failed background or rollback save is written,    *)
(* though ticks that end early skip the flush; only a core that runs       *)
(* without an active profile holds it up.                                  *)
DirtyIsSaved == []<>(~dirty \/ (core.up /\ ~mem.active))
=============================================================================
