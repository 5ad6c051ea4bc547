------------------------------ MODULE Firewall ------------------------------
(***************************************************************************)
(* The transparent firewall of the router, command by command.             *)
(*                                                                         *)
(* FirewallManager installs and removes iptables rules by running a list   *)
(* of commands, one process each, whose errors nobody looks at.  Three     *)
(* writers run such lists: the daemon under the state mutex (requests, the *)
(* activation and its rollback, the watchdog's start, the start and end of *)
(* the program), the watchdog's repair, which holds no lock, and the hook  *)
(* script that the router's ndm runs after it has rebuilt its firewall.    *)
(* Any two commands of different writers may be interleaved.  Module       *)
(* Activation knows of all this only whether there are rules.              *)
(*                                                                         *)
(* The connmark is known or not; there is one policy.  The eight bypass    *)
(* rules are one rule, the jump to the chain stands for the DNS rules too, *)
(* taking rules out and putting them in again is one command.  The list of *)
(* the mangle table is that of the nat table again, with a route: it is    *)
(* one command, the interleavings being those of the nat table.            *)
(***************************************************************************)
EXTENDS Naturals, Sequences

CONSTANTS
  Ports,          \* values of redirect_port
  DefaultPort, NoPort,
  Bypass,         \* the RETURN rules for local networks, as an entry of a chain
  TproxySupport,  \* does the router support TPROXY (detect_tproxy may miss it)
  MaxEvents       \* bound: requests, reloads, failing commands and crashes

ASSUME FirewallAssumption ==
  /\ DefaultPort \in Ports /\ {NoPort, Bypass} \cap Ports = {} /\ NoPort # Bypass
  /\ TproxySupport \in BOOLEAN

Writers == {"daemon", "watchdog", "ndm"}
Tables == {"nat", "mangle"}

VARIABLES
  settings,   \* split_routing in the state: enabled, port, known (policy_mark), tproxy
  fw,         \* inner.firewall
  kernel,     \* the nat chain, the jump to it, the port of the UDP rules
  hook,       \* the parameters in the hook script, NoPort when it is empty
  ready,      \* /tmp/hincyray_ready
  up,         \* the daemon runs
  job,        \* what the daemon does under the state mutex
  tx,         \* the activation that holds the apply lock
  wd,         \* the watchdog's tick with its copies
  ndm,        \* "idle", or "due": rules are wiped, the hook not yet run
  program,    \* the commands each writer has still to run
  spoilt,     \* read by properties only: tables whose rules writers disturbed
  leftover,   \* likewise: the daemon started switched off over rules of its last life
  events      \* bound

vars == <<settings, fw, kernel, hook, ready, up, job, tx, wd, ndm, program, spoilt,
          leftover, events>>
router == <<kernel, hook, ready>>
history == <<spoilt, leftover>>

Quietly == UNCHANGED events
Event == events < MaxEvents /\ events' = events + 1

-----------------------------------------------------------------------------
(* The kernel.                                                             *)

NoRules == [exists |-> FALSE, chain |-> <<>>, jump |-> FALSE, udp |-> NoPort]

(* install_firewall_rules, and the body of the hook script: a chain with   *)
(* the bypass rules before the interception, the jump to it and, with      *)
(* TPROXY, chain, jump and route for UDP.                                  *)
UdpRules(tproxy) == IF tproxy THEN <<"udp">> ELSE <<>>
Installation(tproxy) == <<"flush", "bypass", "intercept", "jump">> \o UdpRules(tproxy)

(* FirewallManager::start after its checks, and FirewallManager::stop.     *)
Start(tproxy) == Installation(tproxy) \o <<"hook", "ready">>
StopDeletesFirst(tproxy) ==
  <<"unhook", "delete", "unjump">> \o IF tproxy THEN <<"clear udp">> ELSE <<>>
Stop(tproxy) ==
  <<"unhook", "unjump", "delete">> \o IF tproxy THEN <<"clear udp">> ELSE <<>>

(* Rules cannot be added to a chain that is not there, nor jumps; a chain  *)
(* that is jumped to is emptied but not deleted.                           *)
Appended(k, rule) == IF k.exists THEN [k EXCEPT !.chain = Append(@, rule)] ELSE k
Deleted(k) == [k EXCEPT !.exists = k.jump, !.chain = <<>>]

(* The kernel after one command of a program for this port.                *)
Changed(k, command, port) ==
  CASE command = "flush" -> [k EXCEPT !.exists = TRUE, !.chain = <<>>]
    [] command = "bypass" -> Appended(k, Bypass)
    [] command = "intercept" -> Appended(k, port)
    [] command = "jump" -> [k EXCEPT !.jump = k.exists]
    [] command = "udp" -> [k EXCEPT !.udp = port]
    [] command = "unjump" -> [k EXCEPT !.jump = FALSE]
    [] command = "delete" -> Deleted(k)
    [] command = "clear udp" -> [k EXCEPT !.udp = NoPort]
    [] OTHER -> k

(* ... and after one that fails: what was to be put in again may have been *)
(* taken out.                                                              *)
AfterFailure(k, command) ==
  {k} \cup CASE command = "jump" -> {[k EXCEPT !.jump = FALSE]}
              [] command = "udp" -> {[k EXCEPT !.udp = NoPort]}
              [] OTHER -> {}

(* firewall_rules_exist.                                                   *)
RulesExist(tproxy) ==
  kernel.jump /\ (tproxy => kernel.udp # NoPort)

-----------------------------------------------------------------------------
(* Programs.                                                               *)

NoProgram == [run |-> <<>>, port |-> NoPort, tproxy |-> FALSE]
Program(run, port, tproxy) == [run |-> run, port |-> port, tproxy |-> tproxy]
Running(w) == program[w].run # <<>>
Alone(w) == \A other \in Writers \ {w} : ~Running(other)
Quiet == \A w \in Writers : ~Running(w)

NoJob == [kind |-> "none", by |-> "none", port |-> NoPort, known |-> FALSE,
          tproxy |-> FALSE, cleans |-> {}, alone |-> TRUE]
LockFree == job.kind = "none"

(* Does the program of w install what the firewall is and stays?           *)
Faithful(w) ==
  \/ w = "daemon"
  \/ /\ LockFree /\ fw.active
     /\ program[w].port = fw.port /\ program[w].tproxy = fw.tproxy

(* One command.  When it fails, the writer goes on.  Script and marker are *)
(* taken to be written.                                                    *)
Files == {"hook", "ready", "unhook"}
AfterCommand(w, c) ==
  IF c = "hook" /\ ready
  THEN Installation(program[w].tproxy) \o Tail(program[w].run)
  ELSE Tail(program[w].run)

RunCommand(w) ==
  /\ Running(w) /\ Head(program[w].run) # "probe"
  /\ LET c == Head(program[w].run) IN
       /\ \/ Quietly /\ kernel' = Changed(kernel, c, program[w].port)
          \/ Event /\ c \notin Files /\ kernel' \in AfterFailure(kernel, c)
       /\ hook' = CASE c = "hook" -> [port |-> program[w].port, tproxy |-> program[w].tproxy]
                    [] c = "unhook" -> [port |-> NoPort, tproxy |-> FALSE]
                    [] OTHER -> hook
       /\ ready' = CASE c = "ready" -> TRUE [] c = "unhook" -> FALSE [] OTHER -> ready
       /\ program' = [program EXCEPT ![w] =
                         IF AfterCommand(w, c) = <<>> THEN NoProgram
                         ELSE [@ EXCEPT !.run = AfterCommand(w, c)]]
  /\ LET undisturbed == Alone(w) /\ Faithful(w) /\ events' = events IN
       /\ spoilt' = IF undisturbed THEN spoilt ELSE Tables
       /\ job' = IF LockFree THEN job ELSE [job EXCEPT !.alone = @ /\ undisturbed]
  /\ UNCHANGED <<settings, fw, up, tx, wd, ndm, leftover>>

-----------------------------------------------------------------------------
(* The daemon under the state mutex.                                       *)

Asleep == [step |-> "sleep", active |-> FALSE, port |-> NoPort, known |-> FALSE,
           tproxy |-> FALSE]

Cleaned == IF fw.tproxy THEN Tables ELSE {"nat"}

BeginStop(by) ==
  /\ job' = [NoJob EXCEPT !.kind = "stop", !.by = by, !.tproxy = fw.tproxy, !.cleans = Cleaned]
  /\ program' = [program EXCEPT !["daemon"] = Program(Stop(fw.tproxy), NoPort, fw.tproxy)]

(* start, after a stop where the caller does that first.                   *)
BeginStart(by, port, known, stopFirst) ==
  LET stop == IF stopFirst THEN Stop(fw.tproxy) ELSE <<>> IN
  /\ job' = [NoJob EXCEPT !.kind = "start", !.by = by, !.port = port, !.known = known,
                          !.cleans = IF stopFirst THEN Cleaned ELSE {}]
  /\ program' = [program EXCEPT !["daemon"] = Program(Append(stop, "probe"), port, FALSE)]

(* TPROXY is probed anew.  A mark that is not known is asked from the      *)
(* router, which may not tell it, and then nothing is installed.           *)
Probe ==
  /\ Running("daemon") /\ Head(program["daemon"].run) = "probe"
  /\ \E tproxy \in {FALSE, TproxySupport} :
       /\ IF tproxy = TproxySupport THEN Quietly ELSE Event
       /\ \/ /\ job' = [job EXCEPT !.tproxy = tproxy]
             /\ program' = [program EXCEPT !["daemon"] =
                              Program(Start(tproxy), job.port, tproxy)]
          \/ /\ ~job.known
             /\ job' = [job EXCEPT !.kind = "refused", !.port = NoPort, !.tproxy = tproxy]
             /\ program' = [program EXCEPT !["daemon"] = NoProgram]
  /\ UNCHANGED <<settings, fw, router, up, tx, wd, ndm, history>>

(* A start at boot that is refused leaves what an earlier life installed,  *)
(* and one that finds no TPROXY any more its UDP rules.                    *)
Abandoned == job.kind = "refused" /\ job.by = "boot"

FinishJob ==
  /\ ~LockFree /\ ~Running("daemon")
  /\ fw' = [active |-> job.kind = "start", port |-> job.port, tproxy |-> job.tproxy]
  /\ settings' = IF job.kind # "start" \/ job.by = "rollback" THEN settings
                 ELSE IF job.by = "boot" THEN [settings EXCEPT !.known = TRUE]
                 ELSE [settings EXCEPT !.known = TRUE, !.tproxy = job.tproxy]
  /\ tx' = CASE job.by = "activation" ->
                  [tx EXCEPT !.step = IF job.kind = "refused" THEN "rollback" ELSE "ack"]
             [] job.by = "rollback" -> [tx EXCEPT !.step = "unwind"]
             [] OTHER -> tx
  /\ wd' = IF job.by \in {"watchdog", "shutdown"} THEN Asleep ELSE wd
  /\ program' = IF job.by = "shutdown" THEN [program EXCEPT !["watchdog"] = NoProgram]
                ELSE program
  /\ up' = (job.by # "shutdown")
  /\ leftover' = (Abandoned /\ (ready \/ kernel # NoRules))
  /\ spoilt' = IF leftover' THEN Tables
               ELSE IF job.by = "boot" /\ ~job.tproxy /\ kernel.udp # NoPort
               THEN spoilt \cup {"mangle"}
               ELSE IF job.alone THEN spoilt \ job.cleans ELSE spoilt
  /\ job' = NoJob
  /\ Quietly
  /\ UNCHANGED <<router, ndm>>

-----------------------------------------------------------------------------
(* Requests.                                                               *)

FreshFirewall == [active |-> FALSE, port |-> NoPort, tproxy |-> FALSE]
NoSettings == [enabled |-> FALSE, port |-> NoPort, known |-> FALSE, tproxy |-> FALSE]
NoTx == [step |-> "none", kind |-> "apply", fw |-> FreshFirewall,
         settings |-> NoSettings, state |-> NoSettings]
ApplyFree == tx.step = "none"

(* Settings saved without being applied.                                   *)
SaveSettings ==
  /\ up /\ ApplyFree /\ LockFree /\ Event
  /\ \E enabled \in BOOLEAN, port \in Ports :
       settings' = [settings EXCEPT !.enabled = enabled, !.port = port]
  /\ settings' # settings
  /\ UNCHANGED <<fw, router, up, job, tx, wd, ndm, program, history>>

(* An undo brings back settings, perhaps of a time when the mark was not   *)
(* known.  It does not take the apply lock.                                *)
Undo ==
  /\ up /\ LockFree /\ Event
  /\ settings.known
  /\ settings' = [settings EXCEPT !.known = FALSE]
  /\ UNCHANGED <<fw, router, up, job, tx, wd, ndm, program, history>>

(* An activation with the firewall, of saved or of changed settings; the   *)
(* configuration and the core come first and are left out.                 *)
Activate ==
  /\ up /\ ApplyFree /\ LockFree /\ Event
  /\ \E kind \in {"apply", "settings"} :
       /\ \/ kind = "apply" /\ UNCHANGED settings
          \/ /\ kind = "settings"
             /\ \E enabled \in BOOLEAN, port \in Ports :
                  settings' = [settings EXCEPT !.enabled = enabled, !.port = port]
       /\ tx' = [step |-> "configure", kind |-> kind, fw |-> fw, settings |-> settings,
                 state |-> settings']
  /\ UNCHANGED <<fw, router, up, job, wd, ndm, program, history>>

ContractChanged(s) ==
  \/ ~fw.active \/ fw.port # s.port \/ ~s.known \/ s.tproxy # fw.tproxy

(* The firewall of the settings the activation began with.                 *)
Configure ==
  /\ tx.step = "configure" /\ LockFree
  /\ LET s == tx.state IN
       \/ /\ s.enabled /\ ContractChanged(s)
          /\ BeginStart("activation", s.port, s.known, TRUE)
          /\ UNCHANGED tx
       \/ /\ ~s.enabled /\ fw.active
          /\ BeginStop("activation")
          /\ UNCHANGED tx
       \/ /\ IF s.enabled THEN ~ContractChanged(s) ELSE ~fw.active
          /\ tx' = [tx EXCEPT !.step = "ack"]
          /\ UNCHANGED <<job, program>>
  /\ Quietly
  /\ UNCHANGED <<settings, fw, router, up, wd, ndm, history>>

Acknowledge ==
  /\ tx.step = "ack" /\ LockFree
  /\ tx' = NoTx
  /\ Quietly
  /\ UNCHANGED <<settings, fw, router, up, job, wd, ndm, program, history>>

(* What comes before or after the firewall in the activation fails.        *)
ActivationFails ==
  /\ tx.step \in {"configure", "ack"} /\ LockFree /\ Event
  /\ tx' = [tx EXCEPT !.step = "rollback"]
  /\ UNCHANGED <<settings, fw, router, up, job, wd, ndm, program, history>>

(* The firewall part of restore_previous_activation.                       *)
Rollback ==
  /\ tx.step = "rollback" /\ LockFree
  /\ \/ /\ tx.fw = fw
        /\ tx' = [tx EXCEPT !.step = "unwind"] /\ UNCHANGED <<job, program>>
     \/ /\ tx.fw # fw /\ tx.fw.active
        /\ BeginStart("rollback", tx.fw.port, TRUE, TRUE)
        /\ UNCHANGED tx
     \/ /\ tx.fw # fw /\ ~tx.fw.active
        /\ BeginStop("rollback")
        /\ UNCHANGED tx
  /\ Quietly
  /\ UNCHANGED <<settings, fw, router, up, wd, ndm, history>>

Unwind ==
  /\ tx.step = "unwind" /\ LockFree
  /\ settings' = IF tx.kind = "settings" THEN tx.settings ELSE settings
  /\ tx' = NoTx
  /\ Quietly
  /\ UNCHANGED <<fw, router, up, job, wd, ndm, program, history>>

FirewallStart ==
  /\ up /\ LockFree /\ settings.enabled /\ Event
  /\ BeginStart("request", settings.port, settings.known, TRUE)
  /\ UNCHANGED <<settings, fw, router, up, tx, wd, ndm, history>>

FirewallStop ==
  /\ up /\ LockFree /\ Event
  /\ BeginStop("request")
  /\ UNCHANGED <<settings, fw, router, up, tx, wd, ndm, history>>

-----------------------------------------------------------------------------
(* The watchdog's phase 2, with the core running.                          *)

Wake ==
  /\ up /\ wd.step = "sleep" /\ LockFree /\ settings.enabled
  /\ wd' = [step |-> "check", active |-> fw.active, port |-> settings.port,
            known |-> settings.known, tproxy |-> FALSE]
  /\ Quietly
  /\ UNCHANGED <<settings, fw, router, up, job, tx, ndm, program, history>>

(* A firewall seen inactive is started with the settings seen.             *)
WatchdogStart ==
  /\ wd.step = "check" /\ ~wd.active /\ LockFree
  /\ BeginStart("watchdog", wd.port, wd.known, TRUE)
  /\ Quietly
  /\ UNCHANGED <<settings, fw, router, up, tx, wd, ndm, history>>

(* sh on the hook script, which ends at once when the marker is missing.    *)
RunHook(w) ==
  program' = IF ready /\ hook.port # NoPort
             THEN [program EXCEPT ![w] = Program(Installation(hook.tproxy), hook.port, hook.tproxy)]
             ELSE program

(* Of one seen active the rules are looked for.  Whether there is TPROXY   *)
(* is read under the lock, the rules without it, be there a job or not ... *)
SeeTproxy ==
  /\ wd.step = "check" /\ wd.active /\ LockFree
  /\ wd' = [wd EXCEPT !.step = "look", !.tproxy = fw.tproxy]
  /\ Quietly
  /\ UNCHANGED <<settings, fw, router, up, job, tx, ndm, program, history>>

(* ... and when some are missing the hook script is run ...                *)
RepairSeesNat ==
  /\ wd.step = "look"
  /\ IF RulesExist(FALSE)
     THEN wd' = Asleep /\ UNCHANGED program
     ELSE wd' = [wd EXCEPT !.step = "hook"] /\ RunHook("watchdog")
  /\ Quietly
  /\ UNCHANGED <<settings, fw, router, up, job, tx, ndm, history>>
Repair ==
  /\ wd.step = "look"
  /\ IF RulesExist(wd.tproxy)
     THEN wd' = Asleep /\ UNCHANGED program
     ELSE wd' = [wd EXCEPT !.step = "hook"] /\ RunHook("watchdog")
  /\ Quietly
  /\ UNCHANGED <<settings, fw, router, up, job, tx, ndm, history>>

(* ... and then the rules are installed directly, from the settings seen.  *)
RepairDirectly ==
  /\ wd.step = "hook" /\ ~Running("watchdog")
  /\ wd' = IF wd.known THEN [wd EXCEPT !.step = "direct"] ELSE Asleep
  /\ program' = IF wd.known
                THEN [program EXCEPT !["watchdog"] =
                        Program(Installation(wd.tproxy), wd.port, wd.tproxy)]
                ELSE program
  /\ Quietly
  /\ UNCHANGED <<settings, fw, router, up, job, tx, ndm, history>>

Sleep ==
  /\ wd.step = "direct" /\ ~Running("watchdog")
  /\ wd' = Asleep
  /\ Quietly
  /\ UNCHANGED <<settings, fw, router, up, job, tx, ndm, program, history>>

-----------------------------------------------------------------------------
(* ndm rebuilds the router's firewall, then runs the hook.                 *)

Reload ==
  /\ ndm = "idle" /\ ~Running("ndm")
  /\ Event
  /\ kernel' = NoRules
  /\ ndm' = "due"
  /\ spoilt' = IF ~Quiet THEN Tables ELSE IF leftover THEN spoilt ELSE {}
  /\ job' = IF LockFree THEN job ELSE [job EXCEPT !.alone = @ /\ Quiet]
  /\ UNCHANGED <<settings, fw, hook, ready, up, tx, wd, program, leftover>>

NdmHook ==
  /\ ndm = "due"
  /\ ndm' = "idle"
  /\ RunHook("ndm")
  /\ Quietly
  /\ UNCHANGED <<settings, fw, router, up, job, tx, wd, history>>

-----------------------------------------------------------------------------
(* The life of the daemon.                                                 *)

(* The watchdog is waited for, but for a second only; then it ends where   *)
(* it is.                                                                  *)
Shutdown ==
  /\ up /\ ApplyFree /\ LockFree /\ Event
  /\ BeginStop("shutdown")
  /\ UNCHANGED <<settings, fw, router, up, tx, wd, ndm, history>>

Crash ==
  /\ up /\ Event
  /\ up' = FALSE /\ fw' = FreshFirewall /\ job' = NoJob /\ tx' = NoTx /\ wd' = Asleep
  /\ program' = [program EXCEPT !["daemon"] = NoProgram, !["watchdog"] = NoProgram]
  /\ UNCHANGED <<settings, router, ndm, history>>

(* With split routing the firewall is installed over whatever is there;    *)
(* without it nothing is looked at.                                        *)
Boot ==
  /\ ~up /\ LockFree
  /\ up' = TRUE /\ fw' = FreshFirewall
  /\ IF settings.enabled
     THEN /\ BeginStart("boot", settings.port, settings.known, FALSE)
          /\ UNCHANGED history
     ELSE /\ UNCHANGED <<job, program>>
          /\ leftover' = (ready \/ kernel # NoRules)
          /\ spoilt' = IF leftover' THEN Tables ELSE spoilt
  /\ Quietly
  /\ UNCHANGED <<settings, router, tx, wd, ndm>>

-----------------------------------------------------------------------------
Init ==
  /\ settings \in [enabled : BOOLEAN, port : {DefaultPort}, known : {FALSE}, tproxy : {TRUE}]
  /\ fw = FreshFirewall
  /\ kernel = NoRules
  /\ hook = [port |-> NoPort, tproxy |-> FALSE]
  /\ ready = FALSE
  /\ up = FALSE
  /\ job = NoJob
  /\ tx = NoTx
  /\ wd = Asleep
  /\ ndm = "idle"
  /\ program = [w \in Writers |-> NoProgram]
  /\ spoilt = {} /\ leftover = FALSE
  /\ events = 0

DaemonNext ==
  Probe \/ FinishJob \/ Configure \/ Acknowledge \/ Rollback \/ Unwind \/ Boot
WatchdogNext ==
  Wake \/ WatchdogStart \/ SeeTproxy \/ Repair \/ RepairDirectly \/ Sleep
FailureNext == ActivationFails \/ Crash
RequestNext ==
  SaveSettings \/ Undo \/ Activate \/ FirewallStart \/ FirewallStop \/ Shutdown

Next ==
  \/ \E w \in Writers : RunCommand(w)
  \/ DaemonNext \/ WatchdogNext \/ RequestNext
  \/ Reload \/ NdmHook \/ FailureNext

Spec == Init /\ [][Next]_vars

(* The threads go on; ndm runs the hooks it has to run.                    *)
FairSpec ==
  /\ Spec
  /\ \A w \in Writers : WF_vars(RunCommand(w))
  /\ WF_vars(DaemonNext) /\ WF_vars(WatchdogNext) /\ WF_vars(NdmHook)

-----------------------------------------------------------------------------
(* Properties.                                                             *)

(* spoilt excuses a table in which two writers disturbed each other, a     *)
(* command failed or a repair used other settings, until it is built anew. *)
NatFollows ==
  "nat" \notin spoilt =>
    /\ kernel.exists = fw.active /\ kernel.jump = fw.active
    /\ kernel.chain = IF fw.active THEN <<Bypass, fw.port>> ELSE <<>>
MangleFollows ==
  "mangle" \notin spoilt =>
    kernel.udp = IF fw.active /\ fw.tproxy THEN fw.port ELSE NoPort
HookFollows ==
  ~leftover => /\ ready <=> fw.active
               /\ fw.active => hook = [port |-> fw.port, tproxy |-> fw.tproxy]

(* Whatever starts, stops, activations, rollbacks, reloads, repairs,       *)
(* crashes and new starts have run: when nobody is writing, an active      *)
(* firewall has its rules, the bypass rules first, an inactive one has     *)
(* none; and what ndm will install after the next reload is what the       *)
(* firewall is, even while rules are missing.  (FirewallManager)           *)
RouterFollowsFirewall ==
  (up /\ LockFree) =>
    /\ HookFollows
    /\ (Quiet /\ ndm = "idle") => NatFollows /\ MangleFollows

(* Rules that a reload, a failing command or another writer took away come *)
(* back, while the firewall stays active and split routing stays on.       *)
(* (watchdog, phase 2)                                                     *)
RulesComeBack ==
  (up /\ fw.active /\ settings.enabled /\ ~RulesExist(fw.tproxy))
    ~> (~up \/ ~fw.active \/ ~settings.enabled \/ RulesExist(fw.tproxy))
=============================================================================
