------------------------------ MODULE ProxyHealth ------------------------------
(***************************************************************************)
(* The health of the active profile, and what the watchdog does about it.  *)
(*                                                                         *)
(* A hidden sensor group of Mihomo measures the active upstream.  A tick   *)
(* of the watchdog reads its last sample and moves the canonical selector  *)
(* to REJECT after three fresh failing samples, back after two healthy     *)
(* ones.  A rejection with auto-switch starts a failover: candidates are   *)
(* probed one by one without a lock, the first that passes is resolved by  *)
(* its link and activated.  After a benchmark, and after a refresh that    *)
(* lost the active profile, the watchdog picks a profile by its index.     *)
(*                                                                         *)
(* A profile is its raw link; its id is its index in the list, which every *)
(* handler that deletes or refreshes assigns anew.  The apply lock is held *)
(* by the watchdog over a whole observation; switch, edit, refresh and the *)
(* activations take it, stop, delete and add do not.  An activation is one *)
(* step here: its inner steps are the subject of module Activation.        *)
(***************************************************************************)
EXTENDS Naturals, Sequences, FiniteSets, SequencesExt

CONSTANTS
  Profiles,      \* raw links
  NoProfile,     \* no profile is active
  Subscribed,    \* the links a subscription may deliver
  InitialLists,  \* the profiles in state.json at first
  MaxRequests,   \* bound on API requests, benchmarks and refreshes
  MaxFaults,     \* bound on failing calls and crashes
  MaxEvents      \* bound on both together

ASSUME ProxyHealthAssumption ==
  /\ Subscribed \subseteq Profiles /\ IsFiniteSet(Subscribed) /\ NoProfile \notin Profiles
  /\ \A s \in InitialLists : s \in Seq(Profiles) /\ s # <<>> /\ IsInjective(s)
  /\ MaxRequests \in Nat /\ MaxFaults \in Nat

FailureThreshold == 3
RecoveryThreshold == 2

(* Core generations and sample times are only compared for equality, with  *)
(* what another variable holds: a value none of those holds is a new one.  *)
(* 0 is a value nothing has.                                               *)
Generations == 0..4
Samples == 0..3

VARIABLES
  list,       \* state.profiles: distinct links, the id is the position
  active,     \* state.active_profile_id, 0 for none
  proven,     \* links with a successful probe, not cooling down, not dead
  bench,      \* a benchmark runs
  core,       \* the Mihomo process, its selector and its last sample
  rejected,   \* inner.proxy_rejected
  health,     \* inner.failover_health_identity, _sample and the counters
  failing,    \* failover_rejected_profiles of the watchdog thread
  wd,         \* the watchdog thread
  evidence,   \* failing and healthy samples of what the core now runs
  requests, faults

profileVars == <<list, active, proven>>
coreVars == <<core, rejected, evidence>>
boundVars == <<requests, faults>>
vars == <<profileVars, bench, coreVars, health, failing, wd, boundVars>>

-----------------------------------------------------------------------------
(* Identities.                                                             *)

NoIdentity == [gen |-> 0, raw |-> NoProfile]
Identities == [gen : Generations, raw : Profiles] \cup {NoIdentity}

ActiveRaw == IF active = 0 THEN NoProfile ELSE list[active]

(* The running core and the link it should serve, as the watchdog compares *)
(* them.                                                                   *)
Identity ==
  IF active = 0 THEN NoIdentity ELSE [gen |-> core.gen, raw |-> list[active]]

Position(s, p) == IF p \in ToSet(s) THEN CHOOSE i \in DOMAIN s : s[i] = p ELSE 0

FreshGeneration ==
  CHOOSE g \in Generations \ {0} :
    g \notin {health.identity.gen, wd.before.gen, wd.after.gen}

FreshSample == CHOOSE t \in Samples \ {0} : t \notin {health.sample, wd.sample}

-----------------------------------------------------------------------------
(* The core.                                                               *)

NoEvidence == [failing |-> 0, healthy |-> 0]

Target(reject) == IF reject THEN "REJECT" ELSE "proxy-active"

(* What a reload or restart on a link leaves: a new generation; the        *)
(* controller may still show the history of before.                        *)
LoadedCores(raw, selector) ==
  {[core EXCEPT !.up = TRUE, !.gen = FreshGeneration, !.raw = raw, !.selector = selector,
                !.sample = t] : t \in {0, core.sample}}

Stopped == [core EXCEPT !.up = FALSE, !.selector = "proxy-active", !.sample = 0, !.ok = FALSE]

Works == UNCHANGED faults
Fault == faults < MaxFaults /\ requests + faults < MaxEvents /\ faults' = faults + 1
Request == requests < MaxRequests /\ requests + faults < MaxEvents /\ requests' = requests + 1

(* Held by the watchdog from the first look at the identity to the end of  *)
(* the selector request.                                                   *)
ApplyFree == wd.step \notin {"fetch", "reread", "decide", "reject", "recover"}

-----------------------------------------------------------------------------
(* apply_active_profile_locked: one critical section of both mutexes.      *)

Activated(id) ==
  /\ core' \in LoadedCores(list[id], "proxy-active")
  /\ active' = id
  /\ rejected' = FALSE
  /\ health' = [identity |-> [gen |-> core'.gen, raw |-> list[id]],
                sample |-> core'.sample, failures |-> 0, recoveries |-> 0]
  /\ evidence' = NoEvidence

(* The configuration is refused, or the reload fails and the rollback puts *)
(* the runtime back, or cannot and leaves the core stopped.                *)
ActivationFails ==
  /\ Fault
  /\ \/ UNCHANGED <<core, evidence>>
     \/ /\ core.up
        /\ core' \in LoadedCores(core.raw, Target(rejected))
        /\ evidence' = NoEvidence
     \/ core' = Stopped /\ evidence' = NoEvidence
  /\ UNCHANGED <<active, rejected, health>>

ActivateProfile(id) ==
  IF id \in DOMAIN list
  THEN (Activated(id) /\ Works) \/ ActivationFails
  ELSE Works /\ UNCHANGED <<active, core, rejected, health, evidence>>

(* activate_current_config: the link in memory is loaded, the selector     *)
(* keeps its side; what cannot be put back is stopped.                     *)
Reloaded ==
  /\ active # 0
  /\ \/ /\ Works
        /\ core' \in LoadedCores(list[active], Target(rejected))
        /\ evidence' = NoEvidence
     \/ Fault /\ core' = Stopped /\ evidence' = NoEvidence
  /\ UNCHANGED <<active, rejected, health>>

-----------------------------------------------------------------------------
(* API handlers.                                                           *)

(* POST /api/active-profile; a busy apply lock answers 409.                *)
SelectProfile(id) ==
  /\ Request /\ ApplyFree
  /\ ActivateProfile(id)
  /\ UNCHANGED <<list, proven, bench, failing, wd>>

(* Without the apply lock.  Deleting the active profile stops the core.    *)
ActiveUnshifted(id) == IF active = id THEN 0 ELSE active
ActiveWithout(id) ==
  CASE active = id -> 0
    [] active > id -> active - 1
    [] OTHER -> active

DeleteProfile(id) ==
  /\ Request /\ Works
  /\ list' = RemoveAt(list, id)
  /\ active' = ActiveWithout(id)
  /\ IF active = id THEN core' = Stopped /\ evidence' = NoEvidence
     ELSE UNCHANGED <<core, evidence>>
  /\ UNCHANGED <<proven, bench, rejected, health, failing, wd>>

AddProfile(p) ==
  /\ p \notin ToSet(list)
  /\ Request /\ Works
  /\ list' = Append(list, p)
  /\ UNCHANGED <<active, proven, bench, coreVars, health, failing, wd>>

(* Another link under the same id; the statistics move along.  The core is *)
(* reloaded when the profile is the active one or an enabled fixed route   *)
(* leads to it; an edit that cannot be applied or saved restores the       *)
(* runtime, whichever profile it was of.                                   *)
EditProfile(id, p) ==
  /\ p \notin ToSet(list) /\ ApplyFree
  /\ Request
  /\ \/ /\ Works
        /\ list' = [list EXCEPT ![id] = p]
        /\ proven' = IF list[id] \in proven THEN (proven \ {list[id]}) \cup {p} ELSE proven \ {p}
        /\ \/ /\ active # 0 /\ core.up
              /\ core' \in LoadedCores(list'[active], core.selector)
              /\ rejected' = (core.selector = "REJECT")
              /\ evidence' = NoEvidence
           \/ (id # active \/ ~core.up) /\ UNCHANGED coreVars
        /\ UNCHANGED <<active, health>>
     \/ ActivationFails /\ UNCHANGED <<list, proven>>
  /\ UNCHANGED <<bench, failing, wd>>

(* replace_subscription_profiles: the others keep their order, its links   *)
(* go to the end in the order of the answer, which is never empty; the     *)
(* active profile is found again by its link or lost, and the core is left *)
(* alone.                                                                  *)
Unsubscribed ==
  {s \in SetToSeqs(ToSet(list) \ Subscribed) :
     \A i, j \in DOMAIN s : i < j => Position(list, s[i]) < Position(list, s[j])}

Answers == UNION {SetToSeqs(links) : links \in SUBSET Subscribed \ {{}}}

ActiveKept(new) == IF active \in DOMAIN new THEN active ELSE 0
ActiveFound(new) == Position(new, ActiveRaw)

ReplaceProfiles ==
  \E kept \in Unsubscribed, answer \in Answers :
    /\ list' = kept \o answer
    /\ active' = ActiveFound(list')
    /\ UNCHANGED <<proven, coreVars, health>>

RefreshSubscription ==
  /\ Request /\ Works /\ ApplyFree
  /\ ReplaceProfiles
  /\ UNCHANGED <<bench, failing, wd>>

(* Routing apply, core start and every other user of                       *)
(* activate_current_config.                                                *)
Activate ==
  /\ Request /\ ApplyFree
  /\ Reloaded
  /\ UNCHANGED <<list, proven, bench, failing, wd>>

(* Without the apply lock.                                                 *)
StopCore ==
  /\ Request /\ Works
  /\ core' = [Stopped EXCEPT !.gen = FreshGeneration]
  /\ evidence' = NoEvidence
  /\ UNCHANGED <<profileVars, bench, rejected, health, failing, wd>>

StartBenchmark ==
  /\ Request /\ Works
  /\ ~bench /\ bench' = TRUE
  /\ UNCHANGED <<profileVars, coreVars, health, failing, wd>>

(* The results of a benchmark, which runs on its own thread; a cooldown    *)
(* that ends meanwhile is a profile found proven again.                    *)
FinishBenchmark ==
  /\ bench /\ bench' = FALSE /\ Works
  /\ proven' \in SUBSET ToSet(list)
  /\ UNCHANGED <<list, active, coreVars, health, failing, wd, requests>>

Handlers ==
  \/ \E id \in DOMAIN list :
       \/ SelectProfile(id) \/ DeleteProfile(id)
       \/ \E p \in Profiles : EditProfile(id, p)
  \/ \E p \in Profiles : AddProfile(p)
  \/ RefreshSubscription \/ Activate \/ StopCore \/ StartBenchmark

-----------------------------------------------------------------------------
(* The watchdog.                                                           *)

Idle ==
  [step |-> "sleep", up |-> FALSE, bench |-> FALSE, was |-> FALSE,
   before |-> NoIdentity, after |-> NoIdentity, sample |-> 0, ok |-> FALSE,
   selector |-> "proxy-active", failed |-> NoProfile, candidates |-> {},
   chosen |-> NoProfile, id |-> 0]

(* The last phase remembers whether a benchmark ran; a tick that ends      *)
(* early does not.                                                         *)
TickEnds == wd' = [Idle EXCEPT !.was = wd.bench]
TickSkipped == wd' = [Idle EXCEPT !.was = wd.was]

(* What an observation leaves behind when the next phase begins.           *)
Proceed(step) ==
  [Idle EXCEPT !.step = step, !.up = wd.up, !.bench = wd.bench, !.was = wd.was]
HealthDone == wd' = Proceed("select")

(* The snapshot a tick begins with.  A core that is down, or a benchmark,  *)
(* keeps phase 3 out.  Phase 3 takes the apply lock and reads the identity *)
(* first.                                                                  *)
Wake ==
  /\ wd.step = "sleep" /\ Works
  /\ \/ /\ core.up /\ ~bench
        /\ wd' = [wd EXCEPT !.up = TRUE, !.step = "fetch", !.before = Identity]
     \/ /\ core.up /\ bench
        /\ wd' = [wd EXCEPT !.up = TRUE, !.bench = TRUE, !.step = "select"]
     \/ /\ ~core.up
        /\ wd' = [wd EXCEPT !.bench = bench, !.step = "restart"]
  /\ UNCHANGED <<profileVars, bench, coreVars, health, failing, requests>>

(* Phase 1, unless it is still waiting out a failure.                      *)
RestartCore ==
  /\ wd.step = "restart" /\ ApplyFree
  /\ \/ Reloaded
     \/ active = 0 /\ Works /\ UNCHANGED <<active, coreVars, health>>
  /\ TickSkipped
  /\ UNCHANGED <<list, proven, bench, failing, requests>>

RestartWaits ==
  /\ wd.step = "restart" /\ Fault
  /\ wd' = [wd EXCEPT !.step = "select"]
  /\ UNCHANGED <<profileVars, bench, coreVars, health, failing, requests>>

(* Phase 3: the identity is read before and after the request to the       *)
(* controller; the state mutex is not held in between.                     *)
FetchSample ==
  /\ wd.step = "fetch" /\ core.up /\ core.sample # 0 /\ Works
  /\ wd' = [wd EXCEPT !.step = "reread", !.sample = core.sample, !.ok = core.ok,
                      !.selector = core.selector]
  /\ UNCHANGED <<profileVars, bench, coreVars, health, failing, requests>>

(* The controller is gone, answers nonsense, or has no sample yet.         *)
Inconclusive ==
  /\ wd.step = "fetch"
  /\ \/ (~core.up \/ core.sample = 0) /\ Works
     \/ Fault
  /\ HealthDone
  /\ UNCHANGED <<profileVars, bench, coreVars, health, failing, requests>>

Reread ==
  /\ wd.step = "reread" /\ Works
  /\ wd' = [wd EXCEPT !.step = "decide", !.after = Identity]
  /\ UNCHANGED <<profileVars, bench, coreVars, health, failing, requests>>

SameProfile == wd.before # NoIdentity /\ wd.before = wd.after
Comparable ==
  /\ wd.before # NoIdentity
  /\ wd.before = wd.after
  /\ health.identity = wd.before

(* Another core or profile than before: only noted, and the tick ends.     *)
NoteIdentity ==
  /\ wd.step = "decide" /\ ~Comparable /\ Works
  /\ health' = [identity |-> wd.after, sample |-> wd.sample, failures |-> 0, recoveries |-> 0]
  /\ rejected' = (wd.selector = "REJECT")
  /\ TickSkipped
  /\ UNCHANGED <<profileVars, bench, core, evidence, failing, requests>>

Fresh == wd.sample # health.sample

(* advance_proxy_health_state.  Above its threshold a counter makes no     *)
(* more difference.                                                        *)
AtMost(n, limit) == IF n > limit THEN limit ELSE n

Advanced ==
  LET closed == wd.selector = "REJECT"
      counted ==
        IF wd.ok
        THEN [failures |-> 0,
              recoveries |-> IF closed THEN AtMost(health.recoveries + 1, RecoveryThreshold) ELSE 0]
        ELSE [failures |-> AtMost(health.failures + 1, FailureThreshold), recoveries |-> 0]
  IN  IF Fresh
      THEN [identity |-> health.identity, sample |-> wd.sample,
            failures |-> counted.failures, recoveries |-> counted.recoveries]
      ELSE health

TransitionOnce(new) ==
  CASE Fresh /\ wd.ok /\ wd.selector = "REJECT"
         /\ new.recoveries = RecoveryThreshold /\ health.recoveries < RecoveryThreshold -> "recover"
    [] Fresh /\ ~wd.ok /\ wd.selector # "REJECT" /\ new.failures >= FailureThreshold -> "reject"
    [] OTHER -> "none"

Transition(new) ==
  CASE Fresh /\ wd.ok /\ wd.selector = "REJECT" /\ new.recoveries >= RecoveryThreshold -> "recover"
    [] Fresh /\ ~wd.ok /\ wd.selector # "REJECT" /\ new.failures >= FailureThreshold -> "reject"
    [] OTHER -> "none"

(* A rejection starts a failover if auto-switch is on just then.          *)
DecideHealth ==
  /\ wd.step = "decide" /\ Comparable /\ Works
  /\ health' = Advanced
  /\ rejected' = (wd.selector = "REJECT")
  /\ failing' = IF Fresh /\ wd.ok THEN {} ELSE failing
  /\ CASE Transition(Advanced) = "none" -> HealthDone
       [] Transition(Advanced) = "recover" -> wd' = Proceed("recover")
       [] Transition(Advanced) = "reject" ->
            \E failed \in {ActiveRaw, NoProfile} :
              wd' = [Proceed("reject") EXCEPT !.failed = failed]
  /\ UNCHANGED <<profileVars, bench, core, evidence, requests>>

(* The selector request, then what is recorded about it.  A request that   *)
(* fails may have been obeyed.                                             *)
EngageReject ==
  /\ wd.step = "reject"
  /\ \/ /\ core.up /\ Works
        /\ core' = [core EXCEPT !.selector = "REJECT"]
        /\ rejected' = TRUE
        /\ health' = [health EXCEPT !.failures = FailureThreshold]
        /\ proven' = proven \ {wd.failed}
        /\ IF wd.failed = NoProfile THEN HealthDone
           ELSE wd' = [wd EXCEPT !.step = "rank"]
     \/ /\ (~core.up /\ Works) \/ Fault
        /\ core' \in {core} \cup (IF core.up THEN {[core EXCEPT !.selector = "REJECT"]} ELSE {})
        /\ TickSkipped
        /\ UNCHANGED <<rejected, health, proven>>
  /\ UNCHANGED <<list, active, bench, evidence, failing, requests>>

Recover ==
  /\ wd.step = "recover"
  /\ \/ /\ core.up /\ Works
        /\ core' = [core EXCEPT !.selector = "proxy-active"]
        /\ rejected' = FALSE
        /\ health' = [health EXCEPT !.recoveries = 0]
     \/ /\ (~core.up /\ Works) \/ Fault
        /\ core' \in {core} \cup (IF core.up THEN {[core EXCEPT !.selector = "proxy-active"]} ELSE {})
        /\ UNCHANGED <<rejected, health>>
  /\ HealthDone
  /\ UNCHANGED <<profileVars, bench, evidence, failing, requests>>

(* attempt_verified_failover, with no lock held but where it says so.      *)
RankCandidates ==
  /\ wd.step = "rank" /\ Works
  /\ failing' = failing \cup {wd.failed}
  /\ wd' = [wd EXCEPT !.step = "verify", !.candidates = (ToSet(list) \cap proven) \ failing']
  /\ UNCHANGED <<profileVars, bench, coreVars, health, requests>>

(* A probe through the candidate's own protocol, and apply_bench_result.   *)
VerifyCandidate(p) ==
  /\ wd.step = "verify" /\ Works
  /\ \/ /\ wd' = [wd EXCEPT !.step = "switch", !.chosen = p,
                            !.id = Position(list, p), !.candidates = @ \ {p}]
        /\ proven' = proven \cup {p}
        /\ UNCHANGED failing
     \/ /\ wd' = [wd EXCEPT !.candidates = @ \ {p}]
        /\ proven' = proven \ {p}
        /\ failing' = failing \cup {p}
  /\ UNCHANGED <<list, active, bench, coreVars, health, requests>>

NoCandidateLeft ==
  /\ wd.step = "verify" /\ wd.candidates = {} /\ Works
  /\ HealthDone
  /\ UNCHANGED <<profileVars, bench, coreVars, health, failing, requests>>

(* Both locks: nothing is switched when the failed profile is no longer    *)
(* the active one.                                                         *)
NextCandidate == wd' = [wd EXCEPT !.step = "verify", !.chosen = NoProfile, !.id = 0]

AbortFailover ==
  /\ wd.step = "switch" /\ ActiveRaw # wd.failed /\ Works
  /\ HealthDone
  /\ UNCHANGED <<profileVars, bench, coreVars, health, failing, requests>>

RankedId == IF wd.id \in DOMAIN list THEN wd.id ELSE 0
CandidateId == Position(list, wd.chosen)

SwitchToCandidate ==
  /\ wd.step = "switch" /\ ActiveRaw = wd.failed /\ CandidateId # 0
  /\ \/ /\ Activated(CandidateId) /\ Works
        /\ HealthDone
        /\ UNCHANGED <<proven, failing>>
     \/ /\ ActivationFails
        /\ proven' = proven \ {wd.chosen}
        /\ failing' = failing \cup {wd.chosen}
        /\ NextCandidate
  /\ UNCHANGED <<list, bench, requests>>

CandidateGone ==
  /\ wd.step = "switch" /\ ActiveRaw = wd.failed /\ CandidateId = 0 /\ Works
  /\ failing' = failing \cup {wd.chosen}
  /\ NextCandidate
  /\ UNCHANGED <<profileVars, bench, coreVars, health, requests>>

(* Phase 5, after a benchmark that ended: the id of the best profile, read *)
(* in one critical section and used in a later one.                        *)
ChooseBest ==
  /\ wd.step = "select" /\ wd.was /\ ~wd.bench /\ Works
  /\ \E id \in DOMAIN list :
       /\ list[id] \in proven /\ id # active
       /\ wd' = [wd EXCEPT !.step = "activate", !.id = id, !.chosen = list[id]]
  /\ UNCHANGED <<profileVars, bench, coreVars, health, failing, requests>>

(* Phase 7, when a refresh is due: then a lost active profile is replaced  *)
(* by the best one, or by the first.                                       *)
RefreshDue ==
  /\ wd.step = "select" /\ wd.up /\ ~wd.bench
  /\ Request /\ Works
  /\ ReplaceProfiles
  /\ wd' = [wd EXCEPT !.step = "replace", !.was = FALSE]
  /\ UNCHANGED <<bench, failing>>

Replaceable ==
  IF ToSet(list) \cap proven # {} THEN {id \in DOMAIN list : list[id] \in proven}
  ELSE DOMAIN list \cap {1}

ChooseReplacement ==
  /\ wd.step = "replace" /\ active = 0 /\ Works
  /\ \E id \in Replaceable :
       wd' = [wd EXCEPT !.step = "activate", !.up = FALSE, !.id = id, !.chosen = list[id]]
  /\ UNCHANGED <<profileVars, bench, coreVars, health, failing, requests>>

(* Nothing is chosen or due, automatic selection or refresh is off.        *)
FinishTick ==
  /\ \/ wd.step = "select"
     \/ wd.step = "replace" /\ (active # 0 \/ list = <<>>)
  /\ Works
  /\ TickEnds
  /\ UNCHANGED <<profileVars, bench, coreVars, health, failing, requests>>

(* switch_active_profile, with the id found before; phase 7 follows on an  *)
(* auto-select.                                                            *)
ActivateChosen ==
  /\ wd.step = "activate"
  /\ ActivateProfile(wd.id)
  /\ IF wd.up THEN wd' = [wd EXCEPT !.step = "select", !.was = FALSE, !.id = 0, !.chosen = NoProfile]
     ELSE TickEnds
  /\ UNCHANGED <<list, proven, bench, failing, requests>>

WatchdogStep ==
  \/ Wake \/ RestartCore \/ RestartWaits
  \/ FetchSample \/ Inconclusive \/ Reread \/ NoteIdentity \/ DecideHealth
  \/ EngageReject \/ Recover
  \/ RankCandidates \/ (\E p \in wd.candidates : VerifyCandidate(p)) \/ NoCandidateLeft
  \/ AbortFailover \/ SwitchToCandidate \/ CandidateGone
  \/ ChooseBest \/ RefreshDue \/ ChooseReplacement \/ FinishTick \/ ActivateChosen

-----------------------------------------------------------------------------
(* The environment.                                                        *)

(* The sensor adds a sample.  One that the next overtakes before a tick    *)
(* reads it changes nothing for the daemon and is left out.  Evidence is   *)
(* counted up to the thresholds.                                           *)
MeasureUpstream(ok) ==
  /\ core.up /\ core.sample \in {0, health.sample, wd.sample} /\ Works
  /\ core' = [core EXCEPT !.sample = FreshSample, !.ok = ok]
  /\ evidence' = IF ok THEN [evidence EXCEPT !.healthy = AtMost(@ + 1, RecoveryThreshold)]
                 ELSE [evidence EXCEPT !.failing = AtMost(@ + 1, FailureThreshold)]
  /\ UNCHANGED <<profileVars, bench, rejected, health, failing, wd, requests>>

CoreCrash ==
  /\ core.up /\ Fault
  /\ core' = Stopped
  /\ evidence' = NoEvidence
  /\ UNCHANGED <<profileVars, bench, rejected, health, failing, wd, requests>>

(* The daemon has started the core on the active profile of state.json.    *)
NoHealth == [identity |-> NoIdentity, sample |-> 0, failures |-> 0, recoveries |-> 0]

Init ==
  /\ list \in InitialLists
  /\ active = 1
  /\ proven = ToSet(list)
  /\ bench = FALSE
  /\ core = [up |-> TRUE, gen |-> 1, raw |-> list[1], selector |-> "proxy-active",
             sample |-> 0, ok |-> FALSE]
  /\ rejected = FALSE
  /\ health = NoHealth
  /\ failing = {}
  /\ wd = Idle
  /\ evidence = NoEvidence
  /\ requests = 0 /\ faults = 0

Measures == \E ok \in BOOLEAN : MeasureUpstream(ok)

Next == Handlers \/ FinishBenchmark \/ WatchdogStep \/ Measures \/ CoreCrash

Spec == Init /\ [][Next]_vars

(* The watchdog thread keeps running, a benchmark ends, the sensor keeps   *)
(* measuring.                                                              *)
FairSpec ==
  Spec /\ WF_vars(WatchdogStep) /\ WF_vars(FinishBenchmark) /\ WF_vars(Measures)

-----------------------------------------------------------------------------
(* Properties.                                                             *)

Steps ==
  {"sleep", "restart", "fetch", "reread", "decide", "reject", "recover",
   "rank", "verify", "switch", "select", "replace", "activate"}

(* The state stays well formed: profiles are distinct, the active id is in *)
(* the list, counters stay below their thresholds.                         *)
TypeOK ==
  /\ \E S \in SUBSET Profiles : list \in SetToSeqs(S)
  /\ active \in 0..Len(list) /\ proven \subseteq Profiles
  /\ bench \in BOOLEAN /\ rejected \in BOOLEAN
  /\ core \in [up : BOOLEAN, gen : Generations, raw : Profiles,
               selector : {"proxy-active", "REJECT"}, sample : Samples, ok : BOOLEAN]
  /\ health.identity \in Identities /\ health.sample \in Samples
  /\ health.failures \in 0..FailureThreshold /\ health.recoveries \in 0..RecoveryThreshold
  /\ failing \subseteq Profiles
  /\ wd.step \in Steps /\ wd.candidates \subseteq Profiles /\ wd.id \in Nat
  /\ {wd.failed, wd.chosen} \subseteq Profiles \cup {NoProfile}
  /\ evidence \in [failing : 0..FailureThreshold, healthy : 0..RecoveryThreshold]
  /\ requests \in 0..MaxRequests /\ faults \in 0..MaxFaults

(* A core that runs while a profile is active serves that very profile,    *)
(* however often deletes and refreshes assigned the ids anew and whatever  *)
(* was switched, edited or rolled back meanwhile.                          *)
ActiveIsServed == core.up /\ active # 0 => core.raw = ActiveRaw

(* As long as the counters are about what the core runs now, each failure  *)
(* and each recovery counted is a sample of its own that this core took of *)
(* this profile: no sample counts twice, none survives a reload, a restart *)
(* or a switch.                                                            *)
CountersAreEvidence ==
  core.up /\ active # 0 /\ health.identity = Identity =>
    /\ health.failures <= evidence.failing
    /\ health.recoveries <= evidence.healthy

(* When the watchdog is about to move the selector of a running core, that *)
(* core itself has measured its profile failing three times, respectively  *)
(* healthy twice, although stops, deletes and crashes may have fallen      *)
(* between its look at the core and its decision; the counters it decides  *)
(* by are evidence at all times.                                           *)
SelectorMovesOnEvidence ==
  /\ CountersAreEvidence
  /\ wd.step = "reject" /\ core.up => evidence.failing >= FailureThreshold
  /\ wd.step = "recover" /\ core.up => evidence.healthy >= RecoveryThreshold

(* The failover replaces the profile that failed, if that is still the     *)
(* active one, by the candidate whose probe has just passed, wherever both *)
(* are in the list by then.                                                *)
FailoverReplacesTheFailed ==
  [][wd.step = "switch" /\ wd' # wd /\ health' # health =>
       ActiveRaw = wd.failed /\ ActiveRaw' = wd.chosen /\ core'.raw = wd.chosen]_vars

(* If the core stays up and every sample is healthy from some time on, the *)
(* selector is back on the active profile for good: a rejection does not   *)
(* outlive the failure, even when requests to move the selector are lost.  *)
HealthyIsServed ==
  <>[](core.up /\ core.ok /\ active # 0) => <>[](core.selector = "proxy-active")
=============================================================================
