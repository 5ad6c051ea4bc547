--------------------------- MODULE ActivationProofs ---------------------------
(***************************************************************************)
(* What holds of Activation for all constants: the state is well typed, an *)
(* activation leaves a core matching the configuration file and the        *)
(* fail-closed decision, and a settings change is all or nothing.          *)
(***************************************************************************)
EXTENDS Activation, TLAPS

(* Some policy exists, so the defaults are well typed.                     *)
LEMMA Defaults ==
  /\ FreshState \in States
  /\ FreshFirewall \in Firewalls
  /\ NoTransaction \in Transactions
  /\ IdleWatchdog \in Watchdogs
<1>1. PICK p \in Policies : TRUE
  BY ConstantsAssumption
<1>2. FreshState \in States
  BY <1>1 DEF FreshState, States
<1>3. FreshFirewall \in Firewalls
  BY ConstantsAssumption DEF FreshFirewall, Firewalls
<1>4. NoTransaction \in Transactions
  BY <1>2, <1>3 DEF NoTransaction, Transactions, Steps, Kinds
<1>5. IdleWatchdog \in Watchdogs
  BY <1>2, ConstantsAssumption
     DEF IdleWatchdog, Watchdogs, WatchdogSteps, States, MaxBackoff
<1> QED
  BY <1>2, <1>3, <1>4, <1>5

(* The pure operators return values of their types.                        *)
LEMMA ConfigTyped ==
  ASSUME NEW s \in States
  PROVE  BuildConfig(s) \in Configs
BY DEF BuildConfig, Configs, States

(* The operators on the core return a core.                                *)
LEMMA CoreTyped ==
  ASSUME NEW c \in Cores, NEW cfg \in Configs \cup {NoConfig}, NEW target \in Targets
  PROVE  /\ Stopped(c) \in Cores
         /\ Loaded(c, cfg) \in Cores
         /\ Selected(c, target) \in Cores
         /\ FailedLoads(c, cfg) \subseteq Cores
<1>1. Stopped(c) \in Cores /\ Selected(c, target) \in Cores
  BY DEF Stopped, Selected, Cores
<1>2. Loaded(c, cfg) \in Cores
  BY DEF Loaded, Cores, Targets
<1>3. [Loaded(c, cfg) EXCEPT !.observed = c.observed] \in Cores
  BY <1>2 DEF Cores
<1> QED
  BY <1>1, <1>2, <1>3 DEF FailedLoads

(* The operators on the firewall manager return a firewall manager.        *)
LEMMA FirewallTyped ==
  ASSUME NEW f \in Firewalls, NEW p \in Policies, NEW t \in TproxySupport
  PROVE  /\ Uninstalled(f) \in Firewalls
         /\ [Uninstalled(f) EXCEPT !.tproxy = t] \in Firewalls
         /\ Installed(p, t) \in Firewalls
<1>1. t \in BOOLEAN /\ p # NoPolicy
  BY ConstantsAssumption
<1>2. Uninstalled(f) \in Firewalls /\ [Uninstalled(f) EXCEPT !.tproxy = t] \in Firewalls
  BY <1>1 DEF Uninstalled, Firewalls
<1>3. Installed(p, t) \in Firewalls
  BY <1>1 DEF Installed, Firewalls
<1> QED
  BY <1>2, <1>3

(* Starting the firewall finds out the mark and the TPROXY support, and    *)
(* touches nothing else of the settings.                                   *)
LEMMA FirewallStarted ==
  ASSUME TypeOK, NEW p \in Policies, StartFirewall(p)
  PROVE  /\ mem' \in States /\ firewall' \in Firewalls /\ rules' \in BOOLEAN
         /\ mem'.enabled = mem.enabled /\ mem'.policy = mem.policy
<1>1. PICK t \in TproxySupport :
        /\ firewall' = Installed(p, t) /\ rules' = TRUE
        /\ mem' = [mem EXCEPT !.mark = TRUE, !.tproxy = t]
  BY DEF StartFirewall
<1>2. t \in BOOLEAN
  BY ConstantsAssumption
<1>3. firewall' \in Firewalls
  BY <1>1, FirewallTyped DEF TypeOK
<1> QED
  BY <1>1, <1>2, <1>3 DEF TypeOK, States

(* A refused start of the firewall leaves the state alone and the types    *)
(* intact.                                                                 *)
LEMMA FirewallNotStarted ==
  ASSUME TypeOK, NEW mark \in BOOLEAN, FirewallRefused(mark)
  PROVE  /\ mem' = mem /\ firewall' \in Firewalls /\ rules' \in BOOLEAN
         /\ faults' \in 0..MaxFaults
<1>1. firewall' \in Firewalls
  <2>1. PICK t \in TproxySupport : firewall' = [Uninstalled(firewall) EXCEPT !.tproxy = t]
    BY DEF FirewallRefused
  <2> QED
    BY <2>1, FirewallTyped, ConstantsAssumption DEF TypeOK
<1>2. faults' \in 0..MaxFaults
  BY ConstantsAssumption DEF FirewallRefused, Fault, TypeOK
<1> QED
  BY <1>1, <1>2 DEF FirewallRefused

(* The lock's release leaves a well typed transaction and watchdog.        *)
LEMMA FinishTyped ==
  ASSUME TypeOK, NEW ok \in BOOLEAN, Finish(ok)
  PROVE  tx' \in Transactions /\ wd' \in Watchdogs
<1>1. tx' \in Transactions
  BY Defaults DEF Finish
<1>2. wd.backoff \in 0..30 /\ wd.failures \in 0..MaxFaults
  BY DEF TypeOK, Watchdogs, MaxBackoff
<1>3. NextBackoff(wd.backoff) \in 0..30
  BY <1>2 DEF NextBackoff
<1>4. CASE tx.kind # "watchdog"
  BY <1>1, <1>4 DEF Finish, TypeOK
<1>5. CASE tx.kind = "watchdog" /\ ok
  <2>1. wd' = [wd EXCEPT !.step = "sleep", !.backoff = 0, !.failures = 0]
    BY <1>5 DEF Finish
  <2>2. wd \in Watchdogs /\ 0 \in 0..MaxFaults /\ 0 \in 0..MaxBackoff
    BY ConstantsAssumption DEF TypeOK, MaxBackoff
  <2>3. wd' \in Watchdogs
    BY <2>1, <2>2 DEF Watchdogs, WatchdogSteps
  <2> QED
    BY <1>1, <2>3
<1>6. CASE tx.kind = "watchdog" /\ ~ok
  <2> DEFINE f == IF wd.failures < MaxFaults THEN wd.failures + 1 ELSE wd.failures
  <2>1. wd' = [wd EXCEPT !.step = "sleep", !.backoff = NextBackoff(wd.backoff), !.failures = f]
    BY <1>6 DEF Finish
  <2>2. f \in 0..MaxFaults
    BY <1>2, ConstantsAssumption
  <2> HIDE DEF f
  <2> QED
    BY <1>1, <1>3, <2>1, <2>2 DEF TypeOK, Watchdogs, WatchdogSteps, MaxBackoff
<1> QED
  BY <1>4, <1>5, <1>6

(* A transaction that goes on to another step is a transaction.            *)
LEMMA GoTyped ==
  ASSUME TypeOK, NEW step \in Steps, Go(step)
  PROVE  tx' \in Transactions
BY DEF Go, TypeOK, Transactions

(* A rollback under both locks, and a switch of the active profile, leave  *)
(* a well typed runtime.                                                   *)
LEMMA RolledBackTyped ==
  ASSUME TypeOK, NEW candidate \in Configs, RolledBack(candidate)
  PROVE  /\ config' \in Configs \cup {NoConfig} /\ core' \in Cores
         /\ report' \in Reports /\ faults' \in 0..MaxFaults
<1> DEFINE t == [up |-> core.up, config |-> config, rejected |-> rejected]
<1>1. core \in Cores /\ config \in Configs \cup {NoConfig} /\ Target(rejected) \in Targets
  BY DEF TypeOK, Target, Targets
<1>2. /\ Stopped(core) \in Cores /\ Loaded(core, config) \in Cores
      /\ FailedLoads(core, config) \subseteq Cores /\ FailedLoads(core, candidate) \subseteq Cores
  BY <1>1, CoreTyped
<1>3. Selected(Loaded(core, config), Target(rejected)) \in Cores
  BY <1>1, <1>2, CoreTyped
<1>4. RestoredCore(t, core) \in Cores
  BY <1>2, <1>3 DEF RestoredCore
<1>5. core' \in Cores
  BY <1>1, <1>2, <1>4 DEF RolledBack
<1>6. config' \in Configs \cup {NoConfig} /\ report' \in Reports
  BY <1>1 DEF RolledBack, Reports
<1>7. faults' \in 0..MaxFaults
  BY ConstantsAssumption DEF RolledBack, Fault, TypeOK
<1> QED
  BY <1>5, <1>6, <1>7

(* An activation in one step (switch, edit, failover, restart) keeps the   *)
(* types.                                                                  *)
LEMMA ActivatedTyped ==
  ASSUME TypeOK, Activated
  PROVE  /\ mem' \in States /\ disk' \in States
         /\ config' \in Configs \cup {NoConfig} /\ core' \in Cores
         /\ rejected' \in BOOLEAN /\ report' \in Reports /\ faults' \in 0..MaxFaults
<1> DEFINE state == [mem EXCEPT !.active = TRUE]
<1>1. state \in States
  BY DEF TypeOK, States
<1>2. BuildConfig(state) \in Configs
  BY <1>1, ConfigTyped
<1>3. CASE RolledBack(BuildConfig(state)) /\ disk' \in {disk, mem, state}
           /\ UNCHANGED <<mem, rejected>>
  BY <1>1, <1>2, <1>3, RolledBackTyped DEF TypeOK
<1>4. CASE /\ Works /\ mem' = state /\ disk' = state /\ config' = BuildConfig(state)
           /\ core' = [Selected(Loaded(core, config'), "proxy-active")
                         EXCEPT !.observed = TRUE]
           /\ rejected' = FALSE /\ report' = "applied"
  <2>1. Loaded(core, BuildConfig(state)) \in Cores /\ "proxy-active" \in Targets
    BY <1>2, CoreTyped DEF TypeOK, Targets
  <2>2. core' \in Cores
    <3>1. Selected(Loaded(core, config'), "proxy-active") \in Cores
      BY <1>2, <1>4, <2>1, CoreTyped
    <3> QED
      BY <1>4, <3>1 DEF Cores
  <2> QED
    BY <1>1, <1>2, <1>4, <2>2 DEF Works, Reports, TypeOK
<1> QED
  BY <1>3, <1>4 DEF Activated

(* Every step keeps the state well typed.                                  *)
LEMMA NextTyped == TypeOK /\ [Next]_vars => TypeOK'
<1> SUFFICES ASSUME TypeOK, [Next]_vars PROVE TypeOK'
  OBVIOUS
<1> USE ConstantsAssumption
<1> DEFINE M == mem' \in States /\ disk' \in States /\ dirty' \in BOOLEAN
           C == config' \in Configs \cup {NoConfig} /\ core' \in Cores
           F == rejected' \in BOOLEAN /\ firewall' \in Firewalls /\ rules' \in BOOLEAN
           T == tx' \in Transactions
           W == wd' \in Watchdogs
           G == undo' \in SUBSET States /\ updating' \in BOOLEAN /\ intruded' \in BOOLEAN
                /\ doubted' \in BOOLEAN
           B == report' \in Reports /\ requests' \in 0..MaxRequests /\ faults' \in 0..MaxFaults
<1>a. M /\ C /\ F /\ T /\ W /\ G /\ B => TypeOK'
  BY DEF TypeOK
<1>b. Fault => faults' \in 0..MaxFaults
  BY DEF Fault, TypeOK
<1>c. Works => faults' \in 0..MaxFaults
  BY DEF Works, TypeOK
<1>d. Request => requests' \in 0..MaxRequests
  BY DEF Request, TypeOK
<1>e. BuildConfig(mem) \in Configs
  BY ConfigTyped DEF TypeOK
<1>f. \A step \in Steps : Go(step) => T
  BY GoTyped
<1>g. \A ok \in BOOLEAN : Finish(ok) => T /\ W
  BY FinishTyped
<1>j. Target(rejected) \in Targets
  BY DEF TypeOK, Target, Targets
<1>h. Target(tx.rejected) \in Targets /\ tx.rejected \in BOOLEAN /\ tx.config \in Configs \cup {NoConfig}
      /\ tx.state \in States /\ tx.prior \in States /\ tx.firewall \in Firewalls
      /\ tx.undo \in SUBSET States
  BY DEF TypeOK, Transactions, Target, Targets
<1>1. ASSUME NEW enabled \in BOOLEAN, NEW policy \in Policies, NEW apply \in BOOLEAN,
             SaveSettings(enabled, policy, apply)
      PROVE  TypeOK'
  <2>1. M
    BY <1>1 DEF SaveSettings, Candidate, TypeOK, States
  <2>2. T
    BY <1>1, Defaults DEF SaveSettings, Begun, TypeOK, Transactions, Steps, Kinds
  <2> QED
    BY <1>1, <2>1, <2>2, <1>a, <1>c, <1>d DEF SaveSettings, TypeOK, routerVars, sideVars
<1>2. ASSUME NEW enabled \in BOOLEAN, NEW policy \in Policies,
             SaveSettingsFails(enabled, policy)
      PROVE  TypeOK'
  <2>1. Candidate(enabled, policy) \in States
    BY DEF Candidate, TypeOK, States
  <2> QED
    BY <1>2, <2>1, <1>a, <1>b, <1>d DEF SaveSettingsFails, SaveFails, TypeOK, routerVars, sideVars
<1>3. ASSUME NEW kind \in {"apply", "start", "reset"}, RequestActivation(kind)
      PROVE  TypeOK'
  <2>1. T
    BY <1>3, Defaults DEF RequestActivation, Begun, Transactions, Steps, Kinds
  <2> QED
    BY <1>3, <2>1, <1>a, <1>c, <1>d DEF RequestActivation, TypeOK, routerVars, settingsVars, sideVars
<1>4. CASE Capture
  <2>1. T
    BY <1>4 DEF Capture, TypeOK, Transactions, Cores, Steps
  <2> QED
    BY <1>4, <2>1, <1>a, <1>c DEF Capture, TypeOK, routerVars, settingsVars, sideVars
<1>4a. CASE Plan
  <2>1. T
    BY <1>4a DEF Plan, TypeOK, Transactions, Steps
  <2>2. BuildConfig(tx.state) \in Configs
    BY ConfigTyped, <1>h
  <2> QED
    BY <1>4a, <2>1, <2>2, <1>a, <1>c DEF Plan, TypeOK, routerVars, settingsVars, sideVars
<1>5. CASE PlanFails
  <2>1. T /\ W
    BY <1>5, <1>f, <1>g DEF PlanFails, Steps, TypeOK
  <2>2. BuildConfig(tx.state) \in Configs
    BY ConfigTyped, <1>h
  <2> QED
    BY <1>5, <2>1, <2>2, <1>a, <1>b, <1>c DEF PlanFails, TypeOK, routerVars, settingsVars, sideVars, Reports
<1>6. CASE Reload
  <2>1. T
    BY <1>6, <1>f DEF Reload, Steps
  <2>2. core' \in Cores
    BY <1>6, CoreTyped, <1>h DEF Reload, TypeOK
  <2> QED
    BY <1>6, <2>1, <2>2, <1>a, <1>b, <1>c DEF Reload, CannotLoad, TypeOK, routerVars, settingsVars, sideVars
<1>7. CASE ForceRestart
  <2>1. T
    BY <1>7, <1>f DEF ForceRestart, Steps
  <2>2. core' \in Cores
    <3>1. Loaded(core, config) \in Cores /\ Stopped(core) \in Cores
      BY CoreTyped, <1>h DEF TypeOK
    <3> QED
      BY <1>7, <3>1, CoreTyped, <1>h DEF ForceRestart
  <2> QED
    BY <1>7, <2>1, <2>2, <1>a, <1>b, <1>c, <1>h DEF ForceRestart, CannotLoad, TypeOK, routerVars, settingsVars, sideVars
<1>8. CASE Ready
  <2>1. T
    BY <1>8, <1>f DEF Ready, Steps
  <2>2. core' \in Cores
    BY <1>8, CoreTyped, <1>h DEF Ready, TypeOK
  <2> QED
    BY <1>8, <2>1, <2>2, <1>a, <1>b, <1>c DEF Ready, TypeOK, routerVars, settingsVars, sideVars
<1>9. CASE Select
  <2>1. T
    BY <1>9, <1>f DEF Select, Steps
  <2>2. core' \in Cores
    BY <1>9, CoreTyped, <1>h DEF Select, TypeOK
  <2> QED
    BY <1>9, <2>1, <2>2, <1>a, <1>b, <1>c, <1>h DEF Select, TypeOK, routerVars, settingsVars, sideVars
<1>10. CASE ApplyFirewall
  <2>1. CASE ~ContractChanged(tx.state) /\ Works /\ Go("ack")
             /\ UNCHANGED <<settingsVars, routerVars>>
    <3>1. T
      BY <2>1, <1>f DEF Steps
    <3> QED
      BY <1>10, <2>1, <3>1, <1>a, <1>c DEF ApplyFirewall, TypeOK, routerVars, settingsVars, sideVars
  <2>2. CASE /\ ContractChanged(tx.state) /\ Works
             /\ StartFirewall(tx.state.policy)
             /\ dirty' = TRUE
             /\ tx' = [tx EXCEPT !.state.mark = TRUE, !.state.tproxy = firewall'.tproxy,
                   !.step = IF firewall'.tproxy = tx.state.tproxy THEN "ack" ELSE "rewrite"]
             /\ UNCHANGED disk
    <3>1. tx.state.policy \in Policies
      BY <1>h DEF States
    <3>2. mem' \in States /\ firewall' \in Firewalls /\ rules' \in BOOLEAN
      BY <2>2, <3>1, FirewallStarted
    <3>3. firewall'.tproxy \in BOOLEAN
      BY <3>2 DEF Firewalls
    <3>4. T
      BY <2>2, <3>3 DEF TypeOK, Transactions, States, Steps
    <3> QED
      BY <1>10, <2>2, <3>2, <3>4, <1>a, <1>c DEF ApplyFirewall, TypeOK, sideVars
  <2>3. CASE ContractChanged(tx.state) /\ FirewallRefused(tx.state.mark)
             /\ Go("rollback") /\ UNCHANGED <<disk, dirty>>
    <3>1. tx.state.mark \in BOOLEAN
      BY <1>h DEF States
    <3>2. mem' = mem /\ firewall' \in Firewalls /\ rules' \in BOOLEAN /\ faults' \in 0..MaxFaults
      BY <2>3, <3>1, FirewallNotStarted
    <3>3. T
      BY <2>3, <1>f DEF Steps
    <3> QED
      BY <1>10, <2>3, <3>2, <3>3, <1>a DEF ApplyFirewall, TypeOK, sideVars
  <2> QED
    BY <1>10, <2>1, <2>2, <2>3 DEF ApplyFirewall
<1>11. CASE ClearFirewall
  <2>1. T
    BY <1>11, <1>f DEF ClearFirewall, Steps
  <2>2. firewall' \in Firewalls /\ rules' \in BOOLEAN
    <3>1. Uninstalled(firewall) \in Firewalls
      BY FirewallTyped DEF TypeOK
    <3> QED
      BY <1>11, <3>1 DEF ClearFirewall, StopFirewall, TypeOK, routerVars
  <2> QED
    BY <1>11, <2>1, <2>2, <1>a, <1>c DEF ClearFirewall, TypeOK, settingsVars, sideVars
<1>12. CASE Rewrite
  <2>1. BuildConfig(tx.state) \in Configs
    BY ConfigTyped, <1>h
  <2>2. T
    <3>1. CASE Go("rollback")
      BY <3>1, <1>f DEF Steps
    <3>2. CASE tx' = [tx EXCEPT !.second = TRUE,
                                !.step = IF ShouldRun(tx) THEN "reload" ELSE "ack"]
      BY <3>2 DEF TypeOK, Transactions, Steps
    <3> QED
      BY <1>12, <3>1, <3>2 DEF Rewrite
  <2> QED
    BY <1>12, <2>1, <2>2, <1>a, <1>b, <1>c DEF Rewrite, TypeOK, routerVars, settingsVars, sideVars
<1>13. CASE Acknowledge
  <2>1. T /\ W
    BY <1>13, <1>g DEF Acknowledge
  <2> QED
    BY <1>13, <2>1, <1>a, <1>c DEF Acknowledge, TypeOK, routerVars, settingsVars, sideVars, Reports
<1>14. CASE AcknowledgeFails
  <2>1. T
    BY <1>14, <1>f DEF AcknowledgeFails, Steps
  <2> QED
    BY <1>14, <2>1, <1>a, <1>b DEF AcknowledgeFails, TypeOK, routerVars, settingsVars, sideVars
<1>15. CASE Rollback
  <2>1. PICK coreOk \in BOOLEAN, firewallOk \in BOOLEAN :
          /\ IF coreOk THEN RestoreCore ELSE RestoreCoreFails
          /\ RestoreFirewall(firewallOk)
          /\ report' = IF coreOk /\ firewallOk /\ (tx.up => tx.config # NoConfig)
                         THEN "restored" ELSE "incomplete"
    BY <1>15 DEF Rollback
  <2>2. T /\ W
    BY <1>15, <1>f, <1>g DEF Rollback, Steps, TypeOK
  <2>3. C /\ faults' \in 0..MaxFaults
    <3>1. /\ Loaded(core, tx.config) \in Cores /\ Stopped(core) \in Cores
          /\ FailedLoads(core, tx.config) \subseteq Cores
      BY CoreTyped, <1>h DEF TypeOK
    <3>2. Selected(Loaded(core, tx.config), Target(tx.rejected)) \in Cores
      BY <3>1, CoreTyped, <1>h
    <3>3. CASE coreOk
      BY <2>1, <3>1, <3>2, <3>3, <1>c, <1>h DEF RestoreCore, RestoredCore
    <3>4. CASE ~coreOk
      BY <2>1, <3>1, <3>4, <1>b, <1>h DEF RestoreCoreFails, TypeOK
    <3> QED
      BY <3>3, <3>4
  <2>4. firewall' \in Firewalls /\ rules' \in BOOLEAN
    <3>1. CASE firewall = tx.firewall
      BY <2>1, <3>1 DEF RestoreFirewall, TypeOK, routerVars
    <3>2. CASE firewall # tx.firewall /\ tx.firewall.active
      <4>1. tx.firewall.policy \in Policies
        BY <3>2, <1>h DEF Firewalls
      <4> QED
        BY <2>1, <3>2, <4>1, FirewallTyped DEF RestoreFirewall, TypeOK
    <3>3. CASE firewall # tx.firewall /\ ~tx.firewall.active
      <4>1. Uninstalled(firewall) \in Firewalls
        BY FirewallTyped DEF TypeOK
      <4> QED
        BY <2>1, <3>3, <4>1 DEF RestoreFirewall, StopFirewall
    <3> QED
      BY <3>1, <3>2, <3>3
  <2> QED
    BY <1>15, <2>1, <2>2, <2>3, <2>4, <1>a, <1>h DEF Rollback, TypeOK, settingsVars, sideVars, Reports
<1>16. CASE Unwind
  <2>1. T /\ W
    BY <1>16, <1>g DEF Unwind
  <2>2. Unwound(mem, tx.prior) \in States
    BY <1>h DEF Unwound, States, TypeOK
  <2>3. M
    BY <1>16, <2>2 DEF Unwind, SaveFails, TypeOK
  <2> QED
    BY <1>16, <2>1, <2>3, <1>a, <1>b, <1>c, <1>h DEF Unwind, SaveFails, TypeOK, routerVars
<1>17. CASE CoreStop \/ CoreCrash
  <2>1. Stopped(core) \in Cores
    BY CoreTyped, <1>h DEF TypeOK
  <2> QED
    BY <1>17, <2>1, <1>a, <1>b, <1>c, <1>d DEF CoreStop, CoreCrash, TypeOK, routerVars, settingsVars, sideVars
<1>18. CASE FirewallStart
  <2>1. CASE StartFirewall(mem.policy) /\ (\/ Works /\ disk' = mem'
                                          \/ SaveFails(mem'))
    <3>1. mem.policy \in Policies
      BY DEF TypeOK, States
    <3>2. mem' \in States /\ firewall' \in Firewalls /\ rules' \in BOOLEAN
      BY <2>1, <3>1, FirewallStarted
    <3> QED
      BY <1>18, <2>1, <3>2, <1>a, <1>b, <1>c, <1>d DEF FirewallStart, SaveFails, TypeOK, sideVars
  <2>2. CASE FirewallRefused(mem.mark) /\ UNCHANGED disk
    <3>1. mem.mark \in BOOLEAN
      BY DEF TypeOK, States
    <3>2. mem' = mem /\ firewall' \in Firewalls /\ rules' \in BOOLEAN /\ faults' \in 0..MaxFaults
      BY <2>2, <3>1, FirewallNotStarted
    <3> QED
      BY <1>18, <2>2, <3>2, <1>a, <1>d DEF FirewallStart, TypeOK, sideVars
  <2> QED
    BY <1>18, <2>1, <2>2 DEF FirewallStart
<1>19. CASE FirewallStop
  <2>1. Uninstalled(firewall) \in Firewalls
    BY FirewallTyped DEF TypeOK
  <2> QED
    BY <1>19, <2>1, <1>a, <1>c, <1>d DEF FirewallStop, StopFirewall, TypeOK, settingsVars, sideVars
<1>20. CASE Wake
  <2>1. W
    BY <1>20 DEF Wake, TypeOK, Watchdogs, WatchdogSteps, Cores, States, Firewalls
  <2> QED
    BY <1>20, <2>1, <1>a, <1>c DEF Wake, TypeOK, routerVars, settingsVars, sideVars
<1>21. CASE CheckCore
  <2>1. wd.backoff \in 0..30 /\ wd.up \in BOOLEAN
    BY DEF TypeOK, Watchdogs, MaxBackoff
  <2>2. (IF wd.up \/ wd.backoff = 0 THEN wd.backoff ELSE wd.backoff - 1) \in 0..30
    BY <2>1
  <2>3. W
    BY <1>21, <2>2 DEF CheckCore, TypeOK, Watchdogs, WatchdogSteps, MaxBackoff
  <2> QED
    BY <1>21, <2>3, <1>a, <1>c DEF CheckCore, TypeOK, routerVars, settingsVars, sideVars
<1>22. CASE RestartCore
  <2>1. T /\ W
    BY <1>22, Defaults
       DEF RestartCore, Begun, TypeOK, Transactions, Steps, Kinds, Watchdogs, WatchdogSteps
  <2> QED
    BY <1>22, <2>1, <1>a, <1>c DEF RestartCore, TypeOK, routerVars, settingsVars, sideVars
<1>23. CASE CheckFirewall
  <2>1. W
    BY <1>23 DEF CheckFirewall, TypeOK, Watchdogs, WatchdogSteps
  <2>2. wd.policy \in Policies /\ wd.mark \in BOOLEAN
    BY DEF TypeOK, Watchdogs
  <2>3. CASE ~wd.enabled /\ Works /\ UNCHANGED <<mem, dirty, routerVars>>
    BY <1>23, <2>1, <2>3, <1>a, <1>c DEF CheckFirewall, TypeOK, routerVars, sideVars
  <2>4. CASE Works /\ StartFirewall(wd.policy) /\ dirty' = TRUE
    <3>1. mem' \in States /\ firewall' \in Firewalls /\ rules' \in BOOLEAN
      BY <2>4, <2>2, FirewallStarted
    <3> QED
      BY <1>23, <2>1, <2>4, <3>1, <1>a, <1>c DEF CheckFirewall, TypeOK, sideVars
  <2>5. CASE FirewallRefused(wd.mark) /\ UNCHANGED dirty
    <3>1. mem' = mem /\ firewall' \in Firewalls /\ rules' \in BOOLEAN /\ faults' \in 0..MaxFaults
      BY <2>5, <2>2, FirewallNotStarted
    <3> QED
      BY <1>23, <2>1, <2>5, <3>1, <1>a DEF CheckFirewall, TypeOK, sideVars
  <2>6. CASE /\ Works /\ rules' = (rules \/ wd.mark \/ firewall.active)
             /\ UNCHANGED <<mem, dirty, firewall>>
    <3>1. rules' \in BOOLEAN
      BY <2>6
    <3> QED
      BY <1>23, <2>1, <2>6, <3>1, <1>a, <1>c DEF CheckFirewall, TypeOK, sideVars
  <2> QED
    BY <1>23, <2>3, <2>4, <2>5, <2>6 DEF CheckFirewall
<1>24. CASE ObserveHealth
  <2>1. W
    BY <1>24 DEF ObserveHealth, NoteCore, MoveSelector, TypeOK, Watchdogs, WatchdogSteps
  <2>2. core' \in Cores /\ rejected' \in BOOLEAN /\ dirty' \in BOOLEAN /\ doubted' \in BOOLEAN
    <3>1. CASE UNCHANGED <<core, rejected, dirty, doubted>>
      BY <3>1 DEF TypeOK
    <3>2. CASE NoteCore
      BY <3>2 DEF NoteCore, TypeOK, Cores, States
    <3>3. CASE \E target \in Targets : MoveSelector(target)
      <4>1. PICK target \in Targets : MoveSelector(target)
        BY <3>3
      <4>2. core' \in {core, Selected(core, target)}
        BY <4>1 DEF MoveSelector
      <4>3. core' \in Cores
        BY <4>2, CoreTyped DEF TypeOK
      <4>4. rejected' \in BOOLEAN /\ doubted' \in BOOLEAN
        BY <4>1 DEF MoveSelector
      <4>5. dirty' \in {dirty, TRUE}
        BY <4>1 DEF MoveSelector
      <4> QED
        BY <4>3, <4>4, <4>5 DEF TypeOK
    <3> QED
      BY <1>24, <3>1, <3>2, <3>3 DEF ObserveHealth
  <2>3. faults' \in 0..MaxFaults
    BY <1>24, <1>b, <1>c DEF ObserveHealth, NoteCore, MoveSelector
  <2>4. UNCHANGED <<mem, disk, undo, updating, intruded, config, firewall, rules, tx, report, requests>>
    BY <1>24 DEF ObserveHealth, routerVars
  <2> QED
    BY <1>a, <2>1, <2>2, <2>3, <2>4 DEF TypeOK
<1>25. CASE Flush
  <2>1. W
    BY <1>25 DEF Flush, TypeOK, Watchdogs, WatchdogSteps
  <2>2. disk' \in States /\ dirty' \in BOOLEAN /\ faults' \in 0..MaxFaults
    BY <1>25, <1>b, <1>c DEF Flush, SaveFails, DirtyAfterFlush, TypeOK
  <2> QED
    BY <1>25, <2>1, <2>2, <1>a DEF Flush, TypeOK, routerVars, sideVars
<1>26. CASE WipeRules
  BY <1>26, <1>a, <1>b DEF WipeRules, TypeOK, settingsVars, sideVars
<1>27. CASE Reboot
  <2>1. T /\ W
    BY <1>27, Defaults DEF Reboot
  <2>2. BuildConfig(disk) \in Configs /\ Stopped(core) \in Cores
    BY ConfigTyped, CoreTyped, <1>h DEF TypeOK
  <2>2a. config' \in Configs \cup {NoConfig}
    BY <1>27, <2>2 DEF Reboot, TypeOK
  <2>3. disk.policy \in Policies /\ [disk EXCEPT !.mark = TRUE] \in States
    BY DEF TypeOK, States
  <2>4. \A t \in TproxySupport : [FreshFirewall EXCEPT !.tproxy = t] \in Firewalls
    BY DEF FreshFirewall, Firewalls
  <2>5. mem' \in States /\ disk' \in States /\ firewall' \in Firewalls
        /\ rules' \in BOOLEAN
    BY <1>27, <2>3, <2>4, Defaults, FirewallTyped DEF Reboot, TypeOK
  <2> QED
    BY <1>27, <2>1, <2>2, <2>2a, <2>5, <1>a, <1>b DEF Reboot, TypeOK, Reports
<1>28. CASE UNCHANGED vars
  BY <1>28 DEF vars, TypeOK
<1>29. CASE DeleteProfile
  <2>1. Stopped(core) \in Cores
    BY CoreTyped, <1>h DEF TypeOK
  <2>2. M /\ faults' \in 0..MaxFaults
    <3>1. [mem EXCEPT !.active = FALSE] \in States
      BY DEF TypeOK, States
    <3> QED
      BY <1>29, <3>1, <1>b, <1>c DEF DeleteProfile, SaveFails, TypeOK
  <2> QED
    BY <1>29, <2>1, <2>2, <1>a, <1>d DEF DeleteProfile, TypeOK, routerVars
<1>30. CASE UndoRestore
  <2>1. PICK snapshot \in undo :
          /\ mem' = snapshot /\ undo' = undo \ {snapshot}
          /\ \/ Works /\ disk' = snapshot
             \/ SaveFails(snapshot)
    BY <1>30 DEF UndoRestore
  <2>2. M /\ undo' \in SUBSET States /\ faults' \in 0..MaxFaults
    BY <1>30, <2>1, <1>b, <1>c DEF UndoRestore, SaveFails, TypeOK
  <2>3. Stopped(core) \in Cores
    BY CoreTyped, <1>h DEF TypeOK
  <2> QED
    BY <1>30, <2>2, <2>3, <1>a, <1>d DEF UndoRestore, TypeOK, routerVars
<1>31. CASE GeoDownload
  BY <1>31, <1>a, <1>c, <1>d, <1>e DEF GeoDownload, TypeOK, routerVars, settingsVars
<1>32. CASE UpdateCore
  <2>1. Loaded(core, config) \in Cores /\ Stopped(core) \in Cores
    BY CoreTyped, <1>h DEF TypeOK
  <2>2. Selected(Loaded(core, config), Target(rejected)) \in Cores
    BY <2>1, CoreTyped, <1>j DEF TypeOK
  <2> QED
    BY <1>32, <2>1, <2>2, <1>a, <1>b, <1>c
       DEF UpdateCore, CannotLoad, SaveFails, TypeOK, routerVars
<1>33. CASE Maintain
  <2>1. W
    BY <1>33 DEF Maintain, TypeOK, Watchdogs, WatchdogSteps
  <2>2. Loaded(core, BuildConfig(mem)) \in Cores /\ Stopped(core) \in Cores
    BY CoreTyped, <1>h, <1>e DEF TypeOK
  <2>3. Selected(Loaded(core, BuildConfig(mem)), Target(rejected)) \in Cores
    BY <2>2, CoreTyped, <1>e, <1>j DEF TypeOK
  <2>4. C /\ dirty' \in BOOLEAN /\ intruded' \in BOOLEAN /\ faults' \in 0..MaxFaults
    BY <1>33, <2>2, <2>3, <1>b, <1>c, <1>e DEF Maintain, TypeOK
  <2> QED
    BY <1>33, <2>1, <2>4, <1>a DEF Maintain, TypeOK, routerVars
<1>34. CASE CheckUpdate
  BY <1>34, <1>a, <1>c, <1>d DEF CheckUpdate, TypeOK, routerVars, settingsVars
<1>35. CASE SwitchProfile
  BY <1>35, ActivatedTyped, <1>a, <1>d DEF SwitchProfile, TypeOK, routerVars, sideVars
<1>36. CASE Failover
  <2>1. W
    BY <1>36 DEF Failover, TypeOK, Watchdogs, WatchdogSteps
  <2>2. CASE Works /\ UNCHANGED <<mem, disk, config, core, rejected, report>>
    BY <1>36, <2>1, <2>2, <1>a, <1>c DEF Failover, TypeOK, routerVars, sideVars
  <2>3. CASE Activated
    BY <1>36, <2>1, <2>3, ActivatedTyped, <1>a DEF Failover, TypeOK, routerVars, sideVars
  <2> QED
    BY <1>36, <2>2, <2>3 DEF Failover
<1>37. CASE EditProfile
  <2>1. CASE RolledBack(BuildConfig(mem)) /\ disk' \in {disk, mem} /\ UNCHANGED rejected
    BY <1>37, <2>1, <1>e, RolledBackTyped, <1>a, <1>d
       DEF EditProfile, TypeOK, routerVars, sideVars
  <2>2. CASE /\ Works /\ config' = BuildConfig(mem) /\ disk' = mem
             /\ IF core.up
                THEN /\ core' = Loaded(core, config')
                     /\ rejected' = (core'.selector = "REJECT")
                     /\ report' = "applied"
                ELSE UNCHANGED <<core, rejected, report>>
    <3>1. Loaded(core, BuildConfig(mem)) \in Cores
      BY CoreTyped, <1>e, <1>h DEF TypeOK
    <3>2. core' \in Cores /\ rejected' \in BOOLEAN /\ report' \in Reports
      BY <2>2, <3>1 DEF TypeOK, Reports
    <3> QED
      BY <1>37, <2>2, <3>2, <1>a, <1>c, <1>d, <1>e
         DEF EditProfile, TypeOK, routerVars, sideVars
  <2> QED
    BY <1>37, <2>1, <2>2 DEF EditProfile
<1> QED
  BY <1>1, <1>2, <1>3, <1>4, <1>4a, <1>5, <1>6, <1>7, <1>8, <1>9, <1>10, <1>11, <1>12, <1>13,
     <1>14, <1>15, <1>16, <1>17, <1>18, <1>19, <1>20, <1>21, <1>22, <1>23, <1>24, <1>25,
     <1>26, <1>27, <1>28, <1>29, <1>30, <1>31, <1>32, <1>33, <1>34, <1>35, <1>36, <1>37
     DEF Next, Handlers, ActivationStep, WatchdogStep

(* The state of the daemon, the router and the operation under way is well *)
(* formed in every reachable state.                                        *)
THEOREM TypeCorrect == Spec => []TypeOK
<1>1. Init => TypeOK
  <2> SUFFICES ASSUME Init PROVE TypeOK
    OBVIOUS
  <2>1. mem \in States /\ BuildConfig(mem) \in Configs
    <3>1. /\ FreshState \in States
          /\ \A enabled \in BOOLEAN :
               [FreshState EXCEPT !.active = TRUE, !.enabled = enabled, !.mark = enabled]
                 \in States
      BY Defaults DEF States
    <3> QED
      BY <3>1, ConfigTyped DEF Init
  <2>2. core \in Cores
    BY DEF Init, Cores, Targets
  <2>3. 0 \in 0..MaxRequests /\ 0 \in 0..MaxFaults
    BY ConstantsAssumption
  <2>4. config \in Configs \cup {NoConfig}
    BY <2>1 DEF Init
  <2>5. firewall \in Firewalls /\ rules \in BOOLEAN
    <3>1. \A tproxy \in TproxySupport : Installed(mem.policy, tproxy) \in Firewalls
      BY <2>1, FirewallTyped, Defaults DEF States
    <3>2. firewall = FreshFirewall \/ \E tproxy \in TproxySupport :
                                       firewall = Installed(mem.policy, tproxy)
      BY Zenon DEF Init
    <3>3. rules = mem.enabled
      BY Zenon DEF Init
    <3> QED
      BY <2>1, <3>1, <3>2, <3>3, Defaults DEF States
  <2> QED
    BY <2>1, <2>2, <2>3, <2>4, <2>5, Defaults DEF Init, TypeOK, Reports
<1> QED
  BY <1>1, NextTyped, PTL DEF Spec

-----------------------------------------------------------------------------
(* The core, the configuration file and the fail-closed decision.          *)

CoreInv ==
  /\ LoadingCoreMatches /\ ActivatedCoreMatches /\ AnswerHolds /\ RolledBackToBefore

(* Steps that leave alone what CoreInv reads keep it.                      *)
LEMMA CoreInvFrame ==
  ASSUME CoreInv, UNCHANGED <<config, core, rejected, tx, report, intruded, doubted>>
  PROVE  CoreInv'
BY DEF CoreInv, LoadingCoreMatches, ActivatedCoreMatches, AnswerHolds, RolledBackToBefore,
       ShouldRun, StartsCore, Believed

(* So do steps that only stop the core.                                    *)
LEMMA CoreInvStopped ==
  ASSUME TypeOK, CoreInv, core' = Stopped(core),
         UNCHANGED <<config, rejected, tx, report, intruded, doubted>>
  PROVE  CoreInv'
<1>1. ~core'.up
  BY DEF Stopped, TypeOK, Cores
<1> QED
  BY <1>1 DEF CoreInv, LoadingCoreMatches, ActivatedCoreMatches, AnswerHolds,
              RolledBackToBefore, ShouldRun, StartsCore, Believed

(* So does whoever rewrites the file without the apply lock, starting no   *)
(* core and leaving one that runs with the selector the daemon believes.   *)
LEMMA CoreInvIntruded ==
  ASSUME CoreInv, intruded', UNCHANGED <<rejected, tx, report, doubted>>,
         core'.up => core.up /\ core'.selector \in {core.selector, Believed(rejected)}
  PROVE  CoreInv'
BY DEF CoreInv, LoadingCoreMatches, ActivatedCoreMatches, AnswerHolds,
       RolledBackToBefore, ShouldRun, StartsCore, Believed

(* An operation beginning on a free lock keeps the last answer true.       *)
LEMMA CoreInvBegun ==
  ASSUME TypeOK, CoreInv, ApplyFree, tx'.step \in {"idle", "plan"},
         UNCHANGED <<config, core, rejected, report, intruded, doubted>>
  PROVE  CoreInv'
BY DEF CoreInv, LoadingCoreMatches, ActivatedCoreMatches, AnswerHolds, RolledBackToBefore,
       ApplyFree, Believed

(* The restored core has the file, the selector and the state of before.   *)
LEMMA CoreRestored ==
  ASSUME TypeOK, NEW up \in BOOLEAN, NEW reject \in BOOLEAN,
         NEW cfg \in Configs \cup {NoConfig}, NEW t,
         t.up = up, t.config = cfg, t.rejected = reject
  PROVE  RestoredCore(t, core).up =>
           /\ up /\ RestoredCore(t, core).loaded = cfg
           /\ RestoredCore(t, core).selector = Believed(reject)
BY DEF RestoredCore, Stopped, Loaded, Selected, Target, Believed, TypeOK, Cores

(* An operation that holds both locks and is rolled back, or switches the  *)
(* active profile, leaves what it answers true.                            *)
LEMMA CoreInvRolledBack ==
  ASSUME TypeOK, CoreInv, ApplyFree, NEW candidate, RolledBack(candidate),
         UNCHANGED <<rejected, tx, intruded>>
  PROVE  CoreInv'
<1> DEFINE t == [up |-> core.up, config |-> config, rejected |-> rejected]
<1>0. tx'.step = "idle"
  BY DEF ApplyFree
<1>1. CASE report' = "incomplete"
  BY <1>0, <1>1
     DEF CoreInv, LoadingCoreMatches, ActivatedCoreMatches, AnswerHolds, RolledBackToBefore
<1>2. CASE core' = RestoredCore(t, core) /\ config' = config
  <2>1. core.up \in BOOLEAN /\ config \in Configs \cup {NoConfig} /\ rejected \in BOOLEAN
    BY DEF TypeOK, Cores
  <2>2. core'.up => core'.loaded = config /\ core'.selector = Believed(rejected)
    BY <1>2, <2>1, CoreRestored
  <2> QED
    BY <1>0, <1>2, <2>2 DEF CoreInv, LoadingCoreMatches, ActivatedCoreMatches, AnswerHolds,
                            RolledBackToBefore, Believed
<1> QED
  BY <1>1, <1>2 DEF RolledBack

(* An activation in one step, taken while nobody holds the apply lock,     *)
(* keeps CoreInv.                                                          *)
LEMMA CoreInvActivated ==
  ASSUME TypeOK, CoreInv, ApplyFree, Activated, UNCHANGED <<tx, intruded>>
  PROVE  CoreInv'
<1>1. CASE RolledBack(BuildConfig([mem EXCEPT !.active = TRUE])) /\ UNCHANGED rejected
  BY <1>1, CoreInvRolledBack
<1>2. CASE /\ core' = [Selected(Loaded(core, config'), "proxy-active")
                         EXCEPT !.observed = TRUE]
           /\ rejected' = FALSE
  <2>1. core'.loaded = config' /\ core'.selector = Believed(rejected')
    BY <1>2 DEF Selected, Loaded, Believed
  <2> QED
    BY <2>1 DEF ApplyFree, CoreInv, LoadingCoreMatches, ActivatedCoreMatches, AnswerHolds,
                RolledBackToBefore, Believed
<1> QED
  BY <1>1, <1>2 DEF Activated

(* Every step keeps CoreInv.                                               *)
LEMMA CoreInvNext == TypeOK /\ CoreInv /\ [Next]_vars => CoreInv'
<1> SUFFICES ASSUME TypeOK, CoreInv, [Next]_vars PROVE CoreInv'
  OBVIOUS
<1>t. tx \in [step : Steps, kind : Kinds, second : BOOLEAN, prior : States,
              undo : SUBSET States, state : States, config : Configs \cup {NoConfig}, up : BOOLEAN,
              rejected : BOOLEAN, firewall : Firewalls]
      /\ core \in [up : BOOLEAN, loaded : Configs \cup {NoConfig}, selector : Targets,
                   observed : BOOLEAN]
  BY DEF TypeOK, Transactions, Cores
<1>g. ASSUME NEW step \in Steps, Go(step)
      PROVE  /\ tx'.step = step /\ tx'.kind = tx.kind /\ tx'.config = tx.config
             /\ tx'.up = tx.up /\ tx'.rejected = tx.rejected /\ ShouldRun(tx)' = ShouldRun(tx)
  BY <1>t, <1>g DEF Go, ShouldRun, StartsCore
<1>f. ASSUME NEW ok \in BOOLEAN, Finish(ok)
      PROVE  tx'.step = "idle"
  BY <1>f DEF Finish, NoTransaction
<1>1. ASSUME NEW enabled \in BOOLEAN, NEW policy \in Policies, NEW apply \in BOOLEAN,
             SaveSettings(enabled, policy, apply)
      PROVE  CoreInv'
  <2>1. tx'.step \in {"idle", "plan"}
    BY <1>1 DEF SaveSettings, Begun, NoTransaction, ApplyFree
  <2> QED
    BY <1>1, <2>1, CoreInvBegun DEF SaveSettings, sideVars
<1>2. ASSUME NEW enabled \in BOOLEAN, NEW policy \in Policies,
             SaveSettingsFails(enabled, policy)
      PROVE  CoreInv'
  BY <1>2, CoreInvFrame DEF SaveSettingsFails, sideVars
<1>3. ASSUME NEW kind \in {"apply", "start", "reset"}, RequestActivation(kind)
      PROVE  CoreInv'
  <2>1. tx'.step \in {"idle", "plan"}
    BY <1>3 DEF RequestActivation, Begun, NoTransaction
  <2> QED
    BY <1>3, <2>1, CoreInvBegun DEF RequestActivation, sideVars
<1>4. CASE Capture
  <2>1. tx'.step = "write" /\ (core'.up => tx'.up)
    BY <1>4, <1>t DEF Capture
  <2> QED
    BY <2>1 DEF CoreInv, LoadingCoreMatches, ActivatedCoreMatches, AnswerHolds, RolledBackToBefore
<1>4a. CASE Plan
  <2>1. /\ tx'.step = (IF ShouldRun(tx) THEN "reload" ELSE "firewall")
        /\ ShouldRun(tx)' = ShouldRun(tx) /\ core' = core
    BY <1>4a, <1>t DEF Plan, ShouldRun, StartsCore
  <2>2. core.up => ShouldRun(tx)
    BY <1>4a DEF Plan, CoreInv, LoadingCoreMatches, ShouldRun
  <2>3. CASE ShouldRun(tx)
    BY <2>1, <2>3
       DEF CoreInv, LoadingCoreMatches, ActivatedCoreMatches, AnswerHolds, RolledBackToBefore
  <2>4. CASE ~ShouldRun(tx)
    BY <2>1, <2>2, <2>4
       DEF CoreInv, LoadingCoreMatches, ActivatedCoreMatches, AnswerHolds, RolledBackToBefore
  <2> QED
    BY <2>3, <2>4
<1>5. CASE PlanFails
  <2>1. tx'.step \in {"idle", "unwind"} /\ report' = "refused"
    BY <1>5, <1>f, <1>g DEF PlanFails, Steps
  <2> QED
    BY <2>1 DEF CoreInv, LoadingCoreMatches, ActivatedCoreMatches, AnswerHolds, RolledBackToBefore
<1>6. CASE Reload
  <2>1. ShouldRun(tx)
    BY <1>6 DEF Reload, CoreInv, LoadingCoreMatches
  <2>2. CASE core' = Loaded(core, config) /\ Go("ready")
    <3>1. tx'.step = "ready" /\ ShouldRun(tx)' /\ core'.loaded = config /\ config' = config
      BY <1>6, <2>1, <2>2, <1>g DEF Reload, Steps, Loaded
    <3> QED
      BY <3>1 DEF CoreInv, LoadingCoreMatches, ActivatedCoreMatches, AnswerHolds, RolledBackToBefore
  <2>3. CASE Go("rollback")
    <3>1. tx'.step = "rollback"
      BY <2>3, <1>g DEF Steps
    <3> QED
      BY <3>1 DEF CoreInv, LoadingCoreMatches, ActivatedCoreMatches, AnswerHolds, RolledBackToBefore
  <2> QED
    BY <1>6, <2>2, <2>3 DEF Reload
<1>7. CASE ForceRestart
  <2>1. ShouldRun(tx)
    BY <1>7 DEF ForceRestart, CoreInv, LoadingCoreMatches
  <2>2. CASE /\ core' = Selected(Loaded(core, config), Target(tx.rejected))
             /\ rejected' = tx.rejected /\ Go("ack")
    <3>1. /\ tx'.step = "ack" /\ ShouldRun(tx)' /\ tx'.rejected = tx.rejected
          /\ core'.loaded = config /\ core'.selector = Target(tx.rejected) /\ config' = config
      BY <1>7, <2>1, <2>2, <1>g DEF ForceRestart, Steps, Loaded, Selected
    <3> QED
      BY <3>1, <2>2 DEF CoreInv, LoadingCoreMatches, ActivatedCoreMatches, AnswerHolds,
                        RolledBackToBefore, Target, Believed
  <2>3. CASE Go("rollback")
    <3>1. tx'.step = "rollback"
      BY <2>3, <1>g DEF Steps
    <3> QED
      BY <3>1 DEF CoreInv, LoadingCoreMatches, ActivatedCoreMatches, AnswerHolds, RolledBackToBefore
  <2> QED
    BY <1>7, <2>2, <2>3 DEF ForceRestart
<1>8. CASE Ready
  <2>1. ShouldRun(tx) /\ (core.up /\ ~intruded => core.loaded = config)
    BY <1>8 DEF Ready, CoreInv, LoadingCoreMatches
  <2>2. CASE UNCHANGED core /\ Go("select")
    <3>1. tx'.step = "select" /\ ShouldRun(tx)' /\ config' = config /\ intruded' = intruded
      BY <1>8, <2>1, <2>2, <1>g DEF Ready, Steps, sideVars
    <3> QED
      BY <3>1, <2>1, <2>2
         DEF CoreInv, LoadingCoreMatches, ActivatedCoreMatches, AnswerHolds, RolledBackToBefore
  <2>3. CASE Go("rollback")
    <3>1. tx'.step = "rollback"
      BY <2>3, <1>g DEF Steps
    <3> QED
      BY <3>1 DEF CoreInv, LoadingCoreMatches, ActivatedCoreMatches, AnswerHolds, RolledBackToBefore
  <2> QED
    BY <1>8, <2>2, <2>3 DEF Ready
<1>9. CASE Select
  <2>1. ShouldRun(tx) /\ (core.up /\ ~intruded => core.loaded = config)
    BY <1>9 DEF Select, CoreInv, LoadingCoreMatches
  <2>2. CASE /\ core.up /\ core' = Selected(core, Target(tx.rejected)) /\ rejected' = tx.rejected
             /\ Go(IF UsesFirewall(tx.kind) /\ ~tx.second THEN "firewall" ELSE "ack")
    <3>1. /\ tx'.step \in {"firewall", "ack"} /\ ShouldRun(tx)' /\ tx'.rejected = tx.rejected
          /\ core'.loaded = core.loaded /\ core'.selector = Target(tx.rejected) /\ config' = config
          /\ intruded' = intruded
      <4>1. CASE UsesFirewall(tx.kind) /\ ~tx.second
        BY <1>9, <4>1, <2>1, <2>2, <1>t, <1>g DEF Select, Steps, Selected, sideVars
      <4>2. CASE ~(UsesFirewall(tx.kind) /\ ~tx.second)
        BY <1>9, <4>2, <2>1, <2>2, <1>t, <1>g DEF Select, Steps, Selected, sideVars
      <4> QED
        BY <4>1, <4>2
    <3> QED
      BY <3>1, <2>1, <2>2 DEF CoreInv, LoadingCoreMatches, ActivatedCoreMatches, AnswerHolds,
                        RolledBackToBefore, Target, Believed
  <2>3. CASE Go("rollback")
    <3>1. tx'.step = "rollback"
      BY <2>3, <1>g DEF Steps
    <3> QED
      BY <3>1 DEF CoreInv, LoadingCoreMatches, ActivatedCoreMatches, AnswerHolds, RolledBackToBefore
  <2> QED
    BY <1>9, <2>2, <2>3 DEF Select
<1>10. CASE ApplyFirewall \/ ClearFirewall
  <2>1. /\ tx.step = "firewall" /\ UNCHANGED <<config, core, rejected, report, intruded, doubted>>
    BY <1>10 DEF ApplyFirewall, ClearFirewall, sideVars
  <2>2. /\ tx'.step \in {"ack", "rewrite", "rollback"} /\ tx'.rejected = tx.rejected
        /\ ShouldRun(tx)' = ShouldRun(tx)
    <3>1. ASSUME tx' = [tx EXCEPT !.state.mark = TRUE, !.state.tproxy = firewall'.tproxy,
                   !.step = IF firewall'.tproxy = tx.state.tproxy THEN "ack" ELSE "rewrite"]
          PROVE  /\ tx'.step \in {"ack", "rewrite"} /\ tx'.rejected = tx.rejected
                 /\ tx'.kind = tx.kind /\ tx'.up = tx.up
      BY <3>1, <1>t
    <3> QED
      BY <1>10, <3>1, <1>g DEF ApplyFirewall, ClearFirewall, Steps, ShouldRun, StartsCore
  <2> QED
    BY <2>1, <2>2 DEF CoreInv, LoadingCoreMatches, ActivatedCoreMatches, AnswerHolds,
                      RolledBackToBefore
<1>11. CASE Rewrite
  <2>1. core.up => ShouldRun(tx)
    BY <1>11 DEF Rewrite, CoreInv, ActivatedCoreMatches
  <2>2. CASE tx' = [tx EXCEPT !.second = TRUE,
                              !.step = IF ShouldRun(tx) THEN "reload" ELSE "ack"]
    <3>1. /\ tx'.step = (IF ShouldRun(tx) THEN "reload" ELSE "ack")
          /\ ShouldRun(tx)' = ShouldRun(tx) /\ core' = core
      BY <1>11, <2>2, <1>t DEF Rewrite, ShouldRun, StartsCore
    <3>2. CASE ShouldRun(tx)
      BY <3>1, <3>2 DEF CoreInv, LoadingCoreMatches, ActivatedCoreMatches, AnswerHolds,
                        RolledBackToBefore
    <3>3. CASE ~ShouldRun(tx)
      BY <2>1, <3>1, <3>3 DEF CoreInv, LoadingCoreMatches, ActivatedCoreMatches, AnswerHolds,
                              RolledBackToBefore
    <3> QED
      BY <3>2, <3>3
  <2>3. CASE Go("rollback")
    <3>1. tx'.step = "rollback"
      BY <2>3, <1>g DEF Steps
    <3> QED
      BY <3>1 DEF CoreInv, LoadingCoreMatches, ActivatedCoreMatches, AnswerHolds, RolledBackToBefore
  <2> QED
    BY <1>11, <2>2, <2>3 DEF Rewrite
<1>12. CASE Acknowledge
  <2>1. tx'.step = "idle" /\ UNCHANGED <<config, core, rejected, intruded>>
    BY <1>12, <1>f DEF Acknowledge, sideVars
  <2>2. core.up => (~intruded => core.loaded = config) /\ core.selector = Believed(rejected)
    BY <1>12 DEF Acknowledge, CoreInv, ActivatedCoreMatches
  <2> QED
    BY <2>1, <2>2 DEF CoreInv, LoadingCoreMatches, ActivatedCoreMatches, AnswerHolds,
                      RolledBackToBefore, Believed
<1>13. CASE AcknowledgeFails
  <2>1. tx'.step = "rollback"
    BY <1>13, <1>g DEF AcknowledgeFails, Steps
  <2> QED
    BY <2>1 DEF CoreInv, LoadingCoreMatches, ActivatedCoreMatches, AnswerHolds, RolledBackToBefore
<1>14. CASE Rollback
  <2>1. PICK coreOk \in BOOLEAN, firewallOk \in BOOLEAN :
          /\ IF coreOk THEN RestoreCore ELSE RestoreCoreFails
          /\ report' = IF coreOk /\ firewallOk /\ (tx.up => tx.config # NoConfig)
                         THEN "restored" ELSE "incomplete"
    BY <1>14 DEF Rollback
  <2>2. /\ tx'.step \in {"idle", "unwind"} /\ rejected' = tx.rejected
        /\ (tx'.step = "unwind" => tx'.config = tx.config /\ tx'.up = tx.up)
    BY <1>14, <1>f, <1>g DEF Rollback, Steps
  <2>3. CASE ~(coreOk /\ firewallOk)
    BY <2>1, <2>2, <2>3
       DEF CoreInv, LoadingCoreMatches, ActivatedCoreMatches, AnswerHolds, RolledBackToBefore
  <2>4. CASE coreOk /\ firewallOk
    <3>1. config' = tx.config /\ core' = RestoredCore(tx, core)
      BY <2>1, <2>4 DEF RestoreCore
    <3>2. core'.up => /\ tx.up /\ core'.loaded = tx.config
                      /\ core'.selector = Believed(tx.rejected)
      BY <3>1, <1>t, CoreRestored
    <3> QED
      BY <2>2, <3>1, <3>2 DEF CoreInv, LoadingCoreMatches, ActivatedCoreMatches, AnswerHolds,
                              RolledBackToBefore, Believed
  <2> QED
    BY <2>3, <2>4
<1>15. CASE Unwind
  <2>1. tx'.step = "idle" /\ UNCHANGED <<config, core, rejected, report, intruded, doubted>>
        /\ tx.step = "unwind"
    BY <1>15, <1>f DEF Unwind
  <2> QED
    BY <2>1 DEF CoreInv, LoadingCoreMatches, ActivatedCoreMatches, AnswerHolds,
                RolledBackToBefore, Believed
<1>16. CASE CoreStop \/ CoreCrash
  BY <1>16, CoreInvStopped DEF CoreStop, CoreCrash, sideVars
<1>17. CASE FirewallStart \/ FirewallStop \/ Wake \/ CheckCore \/ CheckFirewall \/ Flush \/ WipeRules
            \/ CheckUpdate
  BY <1>17, CoreInvFrame
     DEF FirewallStart, FirewallStop, Wake, CheckCore, CheckFirewall, Flush, WipeRules,
         CheckUpdate, sideVars
<1>18. CASE RestartCore
  <2>1. tx'.step \in {"idle", "plan"}
    BY <1>18 DEF RestartCore, Begun, NoTransaction
  <2> QED
    BY <1>18, <2>1, CoreInvBegun DEF RestartCore, sideVars
<1>19. CASE ObserveHealth
  <2>1. tx.step = "idle" /\ UNCHANGED <<config, tx, report, intruded>>
    BY <1>19 DEF ObserveHealth, ApplyFree, sideVars
  <2>2. CASE UNCHANGED <<core, rejected, doubted>>
    BY <2>1, <2>2, CoreInvFrame
  <2>3. CASE NoteCore \/ \E target \in Targets : MoveSelector(target)
    <3>1. core'.loaded = core.loaded /\ core'.up = core.up
      BY <2>3, <1>t DEF NoteCore, MoveSelector, Selected
    <3>2. ~doubted' => core'.selector = Believed(rejected')
      BY <2>3, <1>t DEF NoteCore, MoveSelector, Selected, Targets, Believed
    <3> QED
      BY <2>1, <3>1, <3>2 DEF CoreInv, LoadingCoreMatches, ActivatedCoreMatches, AnswerHolds,
                        RolledBackToBefore, Believed
  <2> QED
    BY <1>19, <2>2, <2>3 DEF ObserveHealth
<1>20. CASE Reboot
  <2>1. tx'.step = "idle" /\ report' = "none"
    BY <1>20 DEF Reboot, NoTransaction
  <2> QED
    BY <2>1 DEF CoreInv, LoadingCoreMatches, ActivatedCoreMatches, AnswerHolds, RolledBackToBefore
<1>21. CASE UNCHANGED vars
  BY <1>21, CoreInvFrame DEF vars
<1>22. CASE DeleteProfile
  <2>1. core' = core \/ core' = Stopped(core)
    BY <1>22 DEF DeleteProfile
  <2> QED
    BY <1>22, <2>1, CoreInvFrame, CoreInvStopped DEF DeleteProfile
<1>23. CASE UndoRestore
  <2>1. ~core'.up
    BY <1>23, <1>t DEF UndoRestore, Stopped
  <2> QED
    BY <1>23, <2>1, CoreInvIntruded DEF UndoRestore
<1>24. CASE GeoDownload
  BY <1>24, CoreInvIntruded DEF GeoDownload
<1>25. CASE UpdateCore
  <2>1. tx.step = "idle" /\ UNCHANGED <<config, rejected, tx, report, intruded, doubted>>
    BY <1>25 DEF UpdateCore, ApplyFree
  <2>2. CASE UNCHANGED core
    BY <2>1, <2>2, CoreInvFrame
  <2>3. CASE core' # core
    <3>1. core'.up => core'.loaded = config /\ core'.selector = Believed(rejected)
      BY <1>25, <2>3, <1>t DEF UpdateCore, Loaded, Selected, Stopped, Target, Believed
    <3> QED
    BY <2>1, <3>1
       DEF CoreInv, LoadingCoreMatches, ActivatedCoreMatches, AnswerHolds, RolledBackToBefore, Believed
  <2> QED
    BY <2>2, <2>3
<1>26. CASE Maintain
  <2>1. CASE UNCHANGED <<config, core, intruded, doubted>>
    BY <1>26, <2>1, CoreInvFrame DEF Maintain
  <2>1a. CASE core.up /\ intruded' = TRUE /\ core' = core
    BY <1>26, <2>1a, CoreInvIntruded DEF Maintain
  <2>2. CASE core.up /\ intruded' = TRUE /\ core' = Stopped(core)
    <3>1. ~core'.up
      BY <2>2, <1>t DEF Stopped
    <3> QED
      BY <1>26, <2>2, <3>1, CoreInvIntruded DEF Maintain
  <2>3. CASE /\ core.up /\ intruded' = TRUE
             /\ core' = Selected(Loaded(core, config'), Target(rejected))
    <3>1. core'.selector = Believed(rejected)
      BY <2>3 DEF Selected, Loaded, Target, Believed
    <3> QED
      BY <1>26, <2>3, <3>1, CoreInvIntruded DEF Maintain
  <2> QED
    BY <1>26, <2>1, <2>1a, <2>2, <2>3 DEF Maintain
<1>27. CASE SwitchProfile
  BY <1>27, CoreInvActivated DEF SwitchProfile, sideVars
<1>28. CASE Failover
  <2>1. CASE UNCHANGED <<mem, disk, config, core, rejected, report>>
    BY <1>28, <2>1, CoreInvFrame DEF Failover, sideVars
  <2>2. CASE ApplyFree /\ Activated
    BY <1>28, <2>2, CoreInvActivated DEF Failover, sideVars
  <2> QED
    BY <1>28, <2>1, <2>2 DEF Failover
<1>29. CASE EditProfile
  <2>1. tx'.step = "idle" /\ intruded' = intruded
    BY <1>29 DEF EditProfile, ApplyFree, sideVars
  <2>2. CASE RolledBack(BuildConfig(mem)) /\ UNCHANGED rejected
    BY <1>29, <2>2, CoreInvRolledBack DEF EditProfile, sideVars
  <2>3. CASE ~core.up /\ UNCHANGED core
    BY <2>1, <2>3
       DEF CoreInv, LoadingCoreMatches, ActivatedCoreMatches, AnswerHolds, RolledBackToBefore
  <2>4. CASE core' = Loaded(core, config') /\ rejected' = (core'.selector = "REJECT")
    <3>1. core'.loaded = config' /\ core'.selector = Believed(rejected')
      BY <2>4, <1>t DEF Loaded, Believed, Targets
    <3> QED
      BY <2>1, <3>1 DEF CoreInv, LoadingCoreMatches, ActivatedCoreMatches, AnswerHolds,
                        RolledBackToBefore, Believed
  <2> QED
    BY <1>29, <2>2, <2>3, <2>4 DEF EditProfile
<1> QED
  BY <1>1, <1>2, <1>3, <1>4, <1>4a, <1>5, <1>6, <1>7, <1>8, <1>9, <1>10, <1>11, <1>12, <1>13,
     <1>14, <1>15, <1>16, <1>17, <1>18, <1>19, <1>20, <1>21, <1>22, <1>23, <1>24, <1>25, <1>26,
     <1>27, <1>28, <1>29
     DEF Next, Handlers, ActivationStep, WatchdogStep

CoreCorrect == TypeOK /\ CoreInv

(* The three invariants about the core hold in every reachable state.      *)
LEMMA CoreAlwaysCorrect == Spec => []CoreCorrect
<1>1. Init => CoreInv
  <2>1. Init => /\ tx = NoTransaction /\ report = "none"
                /\ core = [up |-> FALSE, loaded |-> NoConfig, selector |-> "proxy-active",
                           observed |-> FALSE]
    BY Zenon DEF Init
  <2>2. Init => ~core.up /\ report = "none" /\ tx.step = "idle"
    BY <2>1 DEF NoTransaction
  <2> QED
    BY <2>2 DEF CoreInv, LoadingCoreMatches, ActivatedCoreMatches, AnswerHolds,
                RolledBackToBefore
<1>2. CoreCorrect /\ [Next]_vars => CoreCorrect'
  BY NextTyped, CoreInvNext DEF CoreCorrect
<1>3. Spec => []TypeOK
  BY TypeCorrect
<1>4. Init /\ TypeOK => CoreCorrect
  BY <1>1 DEF CoreCorrect
<1> QED
  BY <1>2, <1>3, <1>4, PTL DEF Spec

(* From its selector step to its end, an activation keeps a running core   *)
(* on the written configuration and on the fail-closed decision it found.  *)
THEOREM ActivationPreservesFailClosed == Spec => []ActivatedCoreMatches
<1>1. CoreCorrect => ActivatedCoreMatches
  BY DEF CoreCorrect, CoreInv
<1> QED
  BY <1>1, CoreAlwaysCorrect, PTL

(* What an activation answered stays true of a running core until the next *)
(* operation touches it.                                                   *)
THEOREM AnswersHold == Spec => []AnswerHolds
<1>1. CoreCorrect => AnswerHolds
  BY DEF CoreCorrect, CoreInv
<1> QED
  BY <1>1, CoreAlwaysCorrect, PTL

(* A complete rollback has the previous file and never a core that was not *)
(* running before.                                                         *)
THEOREM RollbackIsExact == Spec => []RolledBackToBefore
<1>1. CoreCorrect => RolledBackToBefore
  BY DEF CoreCorrect, CoreInv
<1> QED
  BY <1>1, CoreAlwaysCorrect, PTL

-----------------------------------------------------------------------------
(* The policy of a settings change.                                        *)

(* Steps that keep the transaction, the answer, and of the settings the    *)
(* policy and the switch.                                                  *)
LEMMA PolicyFrame ==
  ASSUME PolicyInForce, UNCHANGED <<tx, report, intruded>>,
         mem'.policy = mem.policy, mem'.enabled = mem.enabled
  PROVE  PolicyInForce'
BY DEF PolicyInForce

(* Every step of the lock holder either goes on with the policy it         *)
(* captured, or reports a failure before it unwinds.                       *)
LEMMA PolicyNext == TypeOK /\ PolicyInForce /\ [Next]_vars => PolicyInForce'
<1> SUFFICES ASSUME TypeOK, PolicyInForce, [Next]_vars PROVE PolicyInForce'
  OBVIOUS
<1>t. /\ tx \in [step : Steps, kind : Kinds, second : BOOLEAN, prior : States,
              undo : SUBSET States, state : States, config : Configs \cup {NoConfig}, up : BOOLEAN,
              rejected : BOOLEAN, firewall : Firewalls]
      /\ tx.state \in [active : BOOLEAN, enabled : BOOLEAN, policy : Policies, mark : BOOLEAN, tproxy : BOOLEAN]
      /\ mem \in [active : BOOLEAN, enabled : BOOLEAN, policy : Policies, mark : BOOLEAN, tproxy : BOOLEAN]
      /\ wd.policy \in Policies /\ wd.mark \in BOOLEAN
  BY DEF TypeOK, Transactions, States, Watchdogs
<1>g. ASSUME NEW step \in Steps, Go(step)
      PROVE  tx'.step = step /\ tx'.kind = tx.kind /\ tx'.state = tx.state
  BY <1>t, <1>g DEF Go
<1>f. ASSUME NEW ok \in BOOLEAN, Finish(ok)
      PROVE  tx'.step = "idle"
  BY <1>f DEF Finish, NoTransaction
<1>i. tx'.step \in {"idle", "plan"} => PolicyInForce'
  BY DEF PolicyInForce
<1>1. ASSUME NEW enabled \in BOOLEAN, NEW policy \in Policies, NEW apply \in BOOLEAN,
             SaveSettings(enabled, policy, apply)
      PROVE  PolicyInForce'
  BY <1>1, <1>i DEF SaveSettings, Begun, NoTransaction, ApplyFree
<1>2. ASSUME NEW enabled \in BOOLEAN, NEW policy \in Policies,
             SaveSettingsFails(enabled, policy)
      PROVE  PolicyInForce'
  BY <1>2, PolicyFrame DEF SaveSettingsFails, sideVars
<1>3. ASSUME NEW kind \in {"apply", "start", "reset"}, RequestActivation(kind)
      PROVE  PolicyInForce'
  BY <1>3, <1>i DEF RequestActivation, Begun, NoTransaction
<1>4. CASE Capture
  <2>1. tx'.step = "write" /\ tx'.state = mem /\ mem' = mem
    BY <1>4, <1>t DEF Capture, settingsVars
  <2> QED
    BY <2>1 DEF PolicyInForce
<1>5. CASE PlanFails
  <2>1. CASE tx.kind = "settings"
    BY <1>5, <2>1, <1>g DEF PlanFails, Steps, PolicyInForce
  <2>2. CASE tx.kind # "settings"
    BY <1>5, <2>2, <1>f, <1>i DEF PlanFails
  <2> QED
    BY <2>1, <2>2
<1>6. CASE Plan \/ Reload \/ ForceRestart \/ Ready \/ Select \/ ClearFirewall \/ Rewrite \/ AcknowledgeFails
  <2>0. intruded' = intruded
    BY <1>6 DEF Plan, Reload, ForceRestart, Ready, Select, ClearFirewall, Rewrite,
                AcknowledgeFails, sideVars
  <2>1. tx.step \notin {"idle", "plan", "unwind"} /\ mem' = mem
    BY <1>6 DEF Plan, Reload, ForceRestart, Ready, Select, ClearFirewall, Rewrite, AcknowledgeFails,
                settingsVars
  <2>2. tx'.step \notin {"idle", "plan", "unwind"} /\ tx'.kind = tx.kind /\ tx'.state = tx.state
    <3>1. CASE Select
      BY <1>t, <3>1 DEF Select, Go
    <3>2. CASE Rewrite
      BY <1>t, <3>2 DEF Rewrite, Go
    <3>2a. CASE Plan
      BY <1>t, <3>2a DEF Plan
    <3>3. CASE Reload \/ ForceRestart \/ Ready \/ ClearFirewall \/ AcknowledgeFails
      BY <3>3, <1>g DEF Reload, ForceRestart, Ready, ClearFirewall, AcknowledgeFails, Steps
    <3> QED
      BY <1>6, <3>1, <3>2, <3>2a, <3>3
  <2> QED
    BY <2>0, <2>1, <2>2 DEF PolicyInForce
<1>7. CASE ApplyFirewall
  <2>1. tx.step = "firewall" /\ intruded' = intruded
    BY <1>7 DEF ApplyFirewall, sideVars
  <2>2. mem'.policy = mem.policy /\ mem'.enabled = mem.enabled
    BY <1>7, <1>t, FirewallStarted DEF ApplyFirewall, settingsVars, FirewallRefused
  <2>3. /\ tx'.step \in {"ack", "rewrite", "rollback"} /\ tx'.kind = tx.kind
        /\ tx'.state.policy = tx.state.policy /\ tx'.state.enabled = tx.state.enabled
    <3>1. ASSUME tx' = [tx EXCEPT !.state.mark = TRUE, !.state.tproxy = firewall'.tproxy,
                   !.step = IF firewall'.tproxy = tx.state.tproxy THEN "ack" ELSE "rewrite"]
          PROVE  /\ tx'.step \in {"ack", "rewrite"} /\ tx'.kind = tx.kind
                 /\ tx'.state.policy = tx.state.policy /\ tx'.state.enabled = tx.state.enabled
      BY <3>1, <1>t
    <3>2. CASE Go("ack") \/ Go("rollback")
      BY <3>2, <1>g DEF Steps
    <3> QED
      BY <1>7, <3>1, <3>2 DEF ApplyFirewall
  <2> QED
    BY <2>1, <2>2, <2>3 DEF PolicyInForce
<1>8. CASE Acknowledge
  BY <1>8, <1>f, <1>i DEF Acknowledge
<1>9. CASE Rollback
  <2>1. CASE tx.kind = "settings"
    <3>1. tx'.step = "unwind" /\ tx'.kind = "settings" /\ report' # "applied"
      BY <1>9, <2>1, <1>g DEF Rollback, Steps
    <3> QED
      BY <3>1 DEF PolicyInForce
  <2>2. CASE tx.kind # "settings"
    BY <1>9, <2>2, <1>f, <1>i DEF Rollback
  <2> QED
    BY <2>1, <2>2
<1>10. CASE Unwind
  BY <1>10, <1>f, <1>i DEF Unwind
<1>11. CASE FirewallStart
  <2>1. mem'.policy = mem.policy /\ mem'.enabled = mem.enabled
    BY <1>11, <1>t, FirewallStarted DEF FirewallStart, FirewallRefused
  <2> QED
    BY <1>11, <2>1, PolicyFrame DEF FirewallStart, sideVars
<1>12. CASE CheckFirewall
  <2>1. mem'.policy = mem.policy /\ mem'.enabled = mem.enabled
    BY <1>12, <1>t, FirewallStarted DEF CheckFirewall, FirewallRefused
  <2> QED
    BY <1>12, <2>1, PolicyFrame DEF CheckFirewall, sideVars
<1>13. CASE CoreStop \/ FirewallStop \/ Wake \/ CheckCore \/ ObserveHealth \/ Flush
            \/ CoreCrash \/ WipeRules \/ CheckUpdate \/ UpdateCore
  BY <1>13, PolicyFrame DEF CoreStop, FirewallStop, Wake, CheckCore, ObserveHealth, Flush,
                            CoreCrash, WipeRules, CheckUpdate, UpdateCore, settingsVars, sideVars
<1>14. CASE RestartCore
  BY <1>14, <1>i DEF RestartCore, Begun, NoTransaction
<1>15. CASE Reboot
  BY <1>15, <1>i DEF Reboot, NoTransaction
<1>16. CASE UNCHANGED vars
  BY <1>16, PolicyFrame DEF vars
<1>17. CASE DeleteProfile
  <2>1. mem'.policy = mem.policy /\ mem'.enabled = mem.enabled
    BY <1>17, <1>t DEF DeleteProfile
  <2> QED
    BY <1>17, <2>1, PolicyFrame DEF DeleteProfile
<1>18. CASE UndoRestore \/ GeoDownload
  BY <1>18 DEF UndoRestore, GeoDownload, PolicyInForce
<1>19. CASE Maintain
  <2>1. CASE intruded'
    BY <1>19, <2>1 DEF Maintain, PolicyInForce
  <2>2. CASE intruded' = intruded
    BY <1>19, <2>2, PolicyFrame DEF Maintain
  <2> QED
    BY <1>19, <2>1, <2>2 DEF Maintain
<1>20. CASE SwitchProfile \/ EditProfile
  BY <1>20, <1>i DEF SwitchProfile, EditProfile, ApplyFree
<1>21. CASE Failover
  <2>1. CASE ApplyFree
    BY <1>21, <2>1, <1>i DEF Failover, ApplyFree
  <2>2. CASE UNCHANGED <<mem, disk, config, core, rejected, report>>
    BY <1>21, <2>2, PolicyFrame DEF Failover, sideVars
  <2> QED
    BY <1>21, <2>1, <2>2 DEF Failover
<1> QED
  BY <1>1, <1>2, <1>3, <1>4, <1>5, <1>6, <1>7, <1>8, <1>9, <1>10, <1>11, <1>12, <1>13,
     <1>14, <1>15, <1>16, <1>17, <1>18, <1>19, <1>20, <1>21
     DEF Next, Handlers, ActivationStep, WatchdogStep

PolicyCorrect == TypeOK /\ PolicyInForce

(* The captured policy is in force in every reachable state.               *)
LEMMA PolicyAlwaysCorrect == Spec => []PolicyCorrect
<1>1. Init => PolicyInForce
  <2>1. Init => tx = NoTransaction
    BY Zenon DEF Init
  <2> QED
    BY <2>1 DEF PolicyInForce, NoTransaction
<1>2. PolicyCorrect /\ [Next]_vars => PolicyCorrect'
  BY NextTyped, PolicyNext DEF PolicyCorrect
<1>3. Spec => []TypeOK
  BY TypeCorrect
<1>4. Init /\ TypeOK => PolicyCorrect
  BY <1>1 DEF PolicyCorrect
<1> QED
  BY <1>2, <1>3, <1>4, PTL DEF Spec

(* The step that ends a settings change either acknowledges it, with the   *)
(* captured policy still in force, or puts all of split_routing back.      *)
LEMMA PolicyChangeStep ==
  ASSUME PolicyCorrect, [Next]_vars, tx.kind = "settings", tx.step # "idle",
         tx'.step = "idle", report' # "none"
  PROVE  \/ /\ report' = "applied"
            /\ ~intruded => mem'.policy = tx.state.policy /\ mem'.enabled = tx.state.enabled
         \/ /\ report' # "applied" /\ undo' = tx.undo
            /\ mem' = [tx.prior EXCEPT !.active = mem.active]
<1>t. tx \in [step : Steps, kind : Kinds, second : BOOLEAN, prior : States,
             undo : SUBSET States, state : States, config : Configs \cup {NoConfig}, up : BOOLEAN,
             rejected : BOOLEAN, firewall : Firewalls]
  BY DEF PolicyCorrect, TypeOK, Transactions
<1>g. ASSUME NEW step \in Steps, Go(step)
      PROVE  tx'.step = step
  BY <1>t, <1>g DEF Go
<1>k. tx' # tx
  OBVIOUS
<1>1. CASE Acknowledge
  BY <1>1 DEF Acknowledge, PolicyCorrect, PolicyInForce, settingsVars
<1>2. CASE Unwind
  BY <1>2 DEF Unwind, Unwound, PolicyCorrect, PolicyInForce
<1>3. CASE Reboot
  BY <1>3 DEF Reboot
<1>4. CASE Handlers \/ WatchdogStep
  BY <1>4, <1>k
     DEF Handlers, SaveSettings, SaveSettingsFails, RequestActivation, ApplyFree, CoreStop,
         FirewallStart, FirewallStop, DeleteProfile, UndoRestore, GeoDownload, CheckUpdate,
         UpdateCore, SwitchProfile, EditProfile, WatchdogStep, Failover, Maintain, Wake, CheckCore, RestartCore, CheckFirewall,
         ObserveHealth, Flush
<1>5. CASE CoreCrash \/ WipeRules \/ UNCHANGED vars
  BY <1>5, <1>k DEF CoreCrash, WipeRules, vars
<1>6. CASE Capture \/ Plan \/ ApplyFirewall \/ Rewrite \/ Select
  BY <1>6, <1>t DEF Capture, Plan, ApplyFirewall, Rewrite, Select, Go
<1>7. CASE PlanFails \/ Reload \/ ForceRestart \/ Ready \/ ClearFirewall \/ AcknowledgeFails
            \/ Rollback
  BY <1>7, <1>g DEF PlanFails, Reload, ForceRestart, Ready, ClearFirewall, AcknowledgeFails,
                    Rollback, Steps
<1> QED
  BY <1>1, <1>2, <1>3, <1>4, <1>5, <1>6, <1>7 DEF Next, ActivationStep

(* A settings change that is applied ends with its policy in force, or     *)
(* with split_routing as it was, whatever interleaves.                     *)
THEOREM PolicyChangesAreAtomic == Spec => PolicyChangeIsAllOrNothing
<1>1. PolicyCorrect /\ [Next]_vars =>
        [ tx.kind = "settings" /\ tx.step # "idle" /\ tx'.step = "idle" /\ report' # "none"
          => \/ /\ report' = "applied"
                /\ ~intruded => mem'.policy = tx.state.policy /\ mem'.enabled = tx.state.enabled
             \/ /\ report' # "applied" /\ undo' = tx.undo
                /\ mem' = [tx.prior EXCEPT !.active = mem.active] ]_vars
  BY PolicyChangeStep
<1> QED
  BY <1>1, PolicyAlwaysCorrect, PTL DEF Spec, PolicyChangeIsAllOrNothing

=============================================================================
