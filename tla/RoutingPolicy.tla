--------------------------- MODULE RoutingPolicy ---------------------------
(***************************************************************************)
(* The handlers that change the routing policy, one at a time under the    *)
(* apply lock: rules, one resource's route, presets, reset, settings,      *)
(* device routes, safe mode and learned exceptions. A change is saved,     *)
(* then either waits for a later apply or is activated at once; while it   *)
(* is activated the state is unlocked and a profile can be deleted. How an *)
(* activation rolls the core back is Activation's subject: here it loads   *)
(* the new configuration or leaves the old one running.                    *)
(***************************************************************************)
EXTENDS Routes

CONSTANTS
    RuleLists,      \* the lists of rules a client may send
    Splits,         \* the settings a client may leave behind
    Presets,        \* [rules, clears, mode, proxied]
    Targets,        \* the targets of a resource's or a device's route
    ResourceHosts,  \* hosts a route may be asked for
    DeviceAddresses, \* devices that may have a route
    Starts,         \* [world, rules]: where a behaviour begins
    DefaultSplit,   \* what a reset leaves
    ResetRules,
    UnsafeName,     \* the GeoSite list that is refused
    Hosts,          \* the hosts connections are made to
    RuntimeNames,   \* the sets only Mihomo knows
    MaxFixed,       \* MAX_PINNED_SERVERS
    MaxRules,       \* bounds the rules that resource routes and presets add
    MaxChanges, MaxFaults

SplitFields == {"enabled", "tproxy", "mode", "proxied", "bypassed", "match",
                "ru", "exceptions", "learned", "learning"}
WorldFields == {"present", "dead", "active", "geobase"}
IsSequence(s) == s \in Seq(ToSet(s))

\* The rules the daemon brings itself send nothing to a fixed server
\* (routing_presets, handle_routing_reset).
OwnRules == {ResetRules} \cup {preset.rules : preset \in Presets}

ASSUME RoutingPolicyAssumption ==
    /\ MaxRules \in Nat /\ MaxFixed \in Nat
    /\ MaxChanges \in Nat /\ MaxFaults \in Nat
    /\ \A rules \in RuleLists \cup OwnRules \cup {start.rules : start \in Starts} :
            IsSequence(rules) /\ \A i \in DOMAIN rules : WellFormed(rules[i])
    /\ DeviceAddresses \subseteq Addresses
    /\ \A rules \in OwnRules : \A i \in DOMAIN rules : rules[i].target \notin Servers
    /\ \A split \in Splits \cup {DefaultSplit} :
            /\ DOMAIN split = SplitFields
            /\ PortList(split.proxied) /\ PortList(split.bypassed)
    /\ \A preset \in Presets : PortList(preset.proxied)
    /\ \A start \in Starts : DOMAIN start.world = WorldFields

VARIABLES
    policy,   \* [rules, devices, split, safe], as saved
    world,    \* [present, dead, active, geobase]
    running,  \* the configuration the core runs, or <<>>
    op,       \* the change being activated
    deferred, \* a saved change has not been applied
    changes, faults

policyVars == <<policy, world, running, op, deferred, changes, faults>>

Stopped == <<>>
NoOp == [stage |-> "none"]
Idle == op.stage = "none"

PolicyInit ==
    /\ \E start \in Starts, tproxy \in BOOLEAN :
         /\ world = start.world
         /\ policy = [rules |-> start.rules, devices |-> <<>>, safe |-> FALSE,
                      split |-> [DefaultSplit EXCEPT !.tproxy = tproxy]]
    /\ running = Config(world, policy)
    /\ op = NoOp
    /\ deferred = FALSE
    /\ changes = 0
    /\ faults = 0

-----------------------------------------------------------------------------
(* Saving. *)

\* validate_router_routing_rules: rules that are not enabled are not looked at.
SafeRules(rules) ==
    \A i \in DOMAIN rules :
        rules[i].enabled =>
            /\ UnsafeName \notin rules[i].services
            /\ Runtime(UnsafeName) \notin rules[i].domains \cup {rules[i].pattern}

\* routing_rules_are_strict_deletion: what is left is a part of the old list,
\* in its order.
StrictDeletion(old, new) ==
    /\ Len(new) < Len(old)
    /\ \E at \in [DOMAIN new -> DOMAIN old] : \A i \in DOMAIN new :
         /\ new[i] = old[at[i]]
         /\ \A j \in DOMAIN new : i < j => at[i] < at[j]

Asked == changes < MaxChanges /\ changes' = changes + 1

\* An activation; `undo' is what becomes of the saved change if it fails:
\* "restore", "restore safe mode" or "keep".
Start(undo, start) ==
    op' = [stage |-> "saved", undo |-> undo, start |-> start, prev |-> policy,
           wasDeferred |-> deferred]

\* The end of a handler that saved `new': activate it now, or leave it for a
\* later apply. A save that fails leaves nothing behind.
Save(new, apply, undo) ==
    /\ policy' = new
    /\ deferred' = TRUE
    /\ IF apply THEN Start(undo, undo = "restore safe mode") ELSE UNCHANGED op
    /\ UNCHANGED <<world, running, faults>>

\* handle_routing_rules. A client that names the revision of another list than
\* the saved one is answered with 409, which changes nothing.
ReplaceRules(rules, apply) ==
    /\ Idle /\ Asked
    /\ SafeRules(rules)
    /\ LET new == [policy EXCEPT !.rules = rules]
       IN  /\ ValidTargets(world, new, MaxFixed)
           /\ Save(new, apply,
                   IF StrictDeletion(policy.rules, rules) THEN "keep" ELSE "restore")

\* upsert_resource_routing_rule: the first rule that names the resource takes
\* the target and is enabled, whatever else it matches.
Upsert(rules, host, target) ==
    LET named == {i \in DOMAIN rules : Suffix(host) \in rules[i].domains}
        first == CHOOSE i \in named : \A j \in named : i <= j
    IN  IF named # {}
        THEN [rules EXCEPT ![first] = [@ EXCEPT !.enabled = TRUE, !.target = target]]
        ELSE Append(rules, [name |-> host, enabled |-> TRUE, kind |-> "",
                pattern |-> NoPattern, target |-> target,
                domains |-> {Suffix(host)}, ips |-> {}, services |-> {},
                ports |-> {}, network |-> AnyNetwork, mode |-> "include"])

\* handle_routing_resource_route
RouteResource(host, target) ==
    /\ Idle /\ Asked
    /\ LET new == [policy EXCEPT !.rules = Upsert(policy.rules, host, target)]
       IN  /\ Len(new.rules) <= MaxRules
           /\ SafeRules(new.rules)
           /\ ValidTargets(world, new, MaxFixed)
           /\ Save(new, TRUE, "restore")

\* handle_routing_reset
ResetSplit ==
    [policy.split EXCEPT !.ru = "off", !.exceptions = {}, !.learned = {},
        !.learning = FALSE, !.match = "proxy", !.mode = "allow",
        !.proxied = DefaultSplit.proxied, !.bypassed = {}]

ResetPolicy(apply) ==
    /\ Idle /\ Asked
    /\ Save([policy EXCEPT !.rules = ResetRules, !.split = ResetSplit], apply, "restore")

\* handle_routing_preset_apply: rules are told apart by their names.
PresetRules(preset) ==
    LET kept == IF preset.clears THEN <<>> ELSE policy.rules
        fresh == {j \in DOMAIN preset.rules :
                    \A i \in DOMAIN kept : kept[i].name # preset.rules[j].name}
    IN  kept \o Kept(preset.rules, fresh)

PresetSplit(preset) ==
    [policy.split EXCEPT
        !.mode = IF preset.mode = "keep" THEN @ ELSE preset.mode,
        !.proxied = IF preset.mode = "allow" THEN preset.proxied ELSE @]

ApplyPreset(preset, apply) ==
    /\ Idle /\ Asked
    /\ SafeRules(preset.rules)
    /\ Len(PresetRules(preset)) <= MaxRules
    /\ Save([policy EXCEPT !.rules = PresetRules(preset), !.split = PresetSplit(preset)],
            apply, "restore")

\* handle_routing_settings: a final direct rule is refused without any rule.
\* What the daemon found out itself, TPROXY and exceptions, is not sent.
ChangeSettings(split, apply) ==
    /\ Idle /\ Asked
    /\ split.match = "direct" => policy.rules # <<>>
    /\ LET new == [policy EXCEPT !.split =
                        [split EXCEPT !.tproxy = policy.split.tproxy,
                                      !.learned = policy.split.learned]]
       IN  /\ ValidTargets(world, new, MaxFixed)
           /\ Save(new, apply, "restore")

\* handle_device_routes_set and _delete only save.
SetDevice(address, target, enabled) ==
    /\ Idle /\ Asked
    /\ LET route == [address |-> address, target |-> target, enabled |-> enabled]
           own == {i \in DOMAIN policy.devices : policy.devices[i].address = address}
           new == [policy EXCEPT !.devices =
                    IF own = {} THEN Append(@, route)
                    ELSE [i \in DOMAIN @ |-> IF i \in own THEN route ELSE @[i]]]
       IN  /\ ValidTargets(world, new, MaxFixed)
           /\ Save(new, FALSE, "keep")

DeleteDevice(address) ==
    /\ Idle /\ Asked
    /\ \E i \in DOMAIN policy.devices : policy.devices[i].address = address
    /\ LET others == {i \in DOMAIN policy.devices : policy.devices[i].address # address}
       IN  Save([policy EXCEPT !.devices = Kept(@, others)], FALSE, "keep")

\* handle_safe_mode_set
SetSafeMode(safe, apply) ==
    /\ Idle /\ Asked
    /\ Save([policy EXCEPT !.safe = safe], apply, "restore safe mode")

\* handle_routing_apply and handle_device_routes_apply start a stopped core.
ApplyPolicy ==
    /\ Idle /\ Asked
    /\ Start("keep", TRUE)
    /\ UNCHANGED <<policy, world, running, deferred, faults>>

\* run_auto_vpn_learning: the apply lock is only tried, and what is learned or
\* found reachable again waits for the next apply.
LearnException(host, blocked) ==
    /\ Idle /\ policy.split.learning
    /\ policy' = [policy EXCEPT !.split.learned =
                    IF blocked THEN @ \cup {Suffix(host)} ELSE @ \ {Suffix(host)}]
    /\ policy' # policy
    /\ deferred' = TRUE
    /\ UNCHANGED <<world, running, op, changes, faults>>

-----------------------------------------------------------------------------
(* Activation, with the state unlocked between its steps. *)

\* build_daemon_config looks at the targets only when it routes by them.
Buildable(w, p) == p.split.enabled => ValidTargets(w, p, MaxFixed)

\* The configuration is generated from the state as it is now; a stopped core
\* is started only when the request asks for it.
Generate ==
    /\ op.stage = "saved"
    /\ world.active # NoServer
    /\ Buildable(world, policy)
    /\ op' = [stage |-> "generated", undo |-> op.undo, prev |-> op.prev,
              wasDeferred |-> op.wasDeferred, config |-> Config(world, policy),
              runs |-> running # Stopped \/ op.start]
    /\ UNCHANGED <<policy, world, running, deferred, changes, faults>>

Load ==
    /\ op.stage = "generated"
    /\ running' = IF op.runs THEN op.config ELSE running
    /\ deferred' = FALSE
    /\ op' = NoOp
    /\ UNCHANGED <<policy, world, changes, faults>>

FailSettles ==
    /\ policy' = CASE op.undo = "restore" -> [op.prev EXCEPT !.safe = policy.safe]
                   [] op.undo = "restore safe mode" ->
                        [policy EXCEPT !.safe = op.prev.safe]
                   [] OTHER -> policy
    /\ deferred' = op.wasDeferred
    /\ op' = NoOp
    /\ UNCHANGED <<world, running, changes>>

\* restore_policy_fields, restore_safe_mode_after_failed_activation; a list of
\* rules that only lost rules stays saved and waits.
Fail ==
    /\ policy' = CASE op.undo = "restore" -> [op.prev EXCEPT !.safe = policy.safe]
                   [] op.undo = "restore safe mode" ->
                        [policy EXCEPT !.safe = op.prev.safe]
                   [] OTHER -> policy
    /\ deferred' = IF op.undo = "keep" THEN deferred ELSE op.wasDeferred
    /\ op' = NoOp
    /\ UNCHANGED <<world, running, changes>>

CannotGenerate ==
    /\ op.stage = "saved"
    /\ world.active = NoServer \/ ~Buildable(world, policy)
    /\ Fail
    /\ UNCHANGED faults

ActivationFails ==
    /\ op.stage \in {"saved", "generated"}
    /\ faults < MaxFaults
    /\ faults' = faults + 1
    /\ Fail

DeleteProfileOfDevice(server) ==
    /\ changes < MaxChanges
    /\ changes' = changes + 1
    /\ server \in world.present
    /\ \A i \in DOMAIN policy.rules :
            policy.rules[i].enabled => policy.rules[i].target # server
    /\ world' = [world EXCEPT !.present = @ \ {server},
                    !.active = IF @ = server THEN NoServer ELSE @]
    /\ running' = IF world.active = server THEN Stopped ELSE running
    /\ UNCHANGED <<policy, op, deferred, faults>>

\* handle_profile_delete takes no apply lock. It refuses a server an enabled
\* fixed route names; without its profile the active server's core stops.
DeleteProfile(server) ==
    /\ changes < MaxChanges
    /\ changes' = changes + 1
    /\ server \in world.present \ FixedServers(policy)
    /\ world' = [world EXCEPT !.present = @ \ {server},
                    !.active = IF @ = server THEN NoServer ELSE @]
    /\ running' = IF world.active = server THEN Stopped ELSE running
    /\ UNCHANGED <<policy, op, deferred, faults>>

-----------------------------------------------------------------------------
Request ==
    \/ \E rules \in RuleLists, apply \in BOOLEAN :
            ReplaceRules(rules, apply)
    \/ \E host \in ResourceHosts, target \in Targets : RouteResource(host, target)
    \/ \E apply \in BOOLEAN : ResetPolicy(apply)
    \/ \E preset \in Presets, apply \in BOOLEAN : ApplyPreset(preset, apply)
    \/ \E split \in Splits, apply \in BOOLEAN : ChangeSettings(split, apply)
    \/ \E address \in DeviceAddresses, target \in Targets, enabled \in BOOLEAN :
            SetDevice(address, target, enabled)
    \/ \E address \in DeviceAddresses : DeleteDevice(address)
    \/ \E safe, apply \in BOOLEAN : SetSafeMode(safe, apply)
    \/ ApplyPolicy

PolicyNext ==
    \/ Request
    \/ \E host \in ResourceHosts, blocked \in BOOLEAN : LearnException(host, blocked)
    \/ Generate \/ Load \/ CannotGenerate \/ ActivationFails
    \/ \E server \in Servers : DeleteProfile(server)

PolicySpec == PolicyInit /\ [][PolicyNext]_policyVars

-----------------------------------------------------------------------------
(* Properties. *)

Settled == Idle /\ ~deferred /\ running # Stopped /\ world.active # NoServer

\* Nothing waiting to be applied means that the core runs what is saved: the
\* `applied' and `requires_apply' of the answers, the rollback of a refused
\* change and the deletions that stay saved add up (hincyray.rs:14122-14239).
SettledPolicyRuns == Settled => running = Config(world, policy)

\* Rules whose pattern is read by one side only (README, disagreements).
Unambiguous(rule) ==
    /\ TraceDomains(rule) = RuleDomains(rule)
    /\ TraceAddresses(rule) = RuleAddresses(rule)

Networks == {"tcp", "udp"}
Ports == 1 .. MaxPort

\* The values of a connection that agree with what a request says of it.
Known(given, unknown, all) == IF given = unknown THEN all ELSE {given}

OwnRouted ==
    {policy.devices[i].address : i \in
        {j \in DOMAIN policy.devices : policy.devices[j].enabled}}

Connections(q) ==
    [host : Known(q.host, NoHost, Hosts \cup {NoHost}),
     address : Known(q.address, NoAddress, Addresses),
     source : Known(q.source, NoAddress, Addresses \ OwnRouted),
     port : Known(q.port, NoPort, Ports),
     sourcePort : {1, MaxPort},
     network : Known(q.network, AnyNetwork, Networks),
     runtime : SUBSET RuntimeNames]

Questions ==
    [host : Hosts \cup {NoHost}, address : Addresses \cup {NoAddress},
     source : Addresses \cup {NoAddress}, port : Ports \cup {NoPort},
     network : Networks \cup {AnyNetwork}]

\* The local explanation of a route never guesses: a target it names is where
\* Mihomo sends every connection the question may be about, with whatever is
\* in its own sets (docs/stabilization.md:31-34). It is asked of the whole
\* policy, outside safe mode; a device whose address is not given has no route
\* of its own.
TraceNeverGuesses ==
    Settled /\ policy.split.enabled /\ ~policy.safe
        /\ (\A i \in DOMAIN policy.rules : Unambiguous(policy.rules[i]))
    => \A q \in Questions :
         LET answer == Trace(world, policy, q)
         IN  answer # Requires =>
                \A c \in Connections(q) :
                    Decide(running, c) = Resolve(world, answer.target)

\* A port of a rule is warned of exactly when the generated PortMode rules
\* would send some connection to it, in the same network, another way than
\* connections they treat alike: none of them covers it in an allow list, one
\* of them takes it in a deny list (hincyray.rs:13520-13627).
ConflictsAreReal ==
    LET split == policy.split
        listed == UNION {PortEntries(split)[i].ports : i \in DOMAIN PortEntries(split)}
    IN  \A i \in DOMAIN policy.rules :
        \A p \in OfKind(policy.rules[i].ports, "dst") :
            <<i, p>> \in Conflicts(policy) <=>
                /\ policy.rules[i].enabled /\ policy.rules[i].mode # "exclude"
                /\ listed # {}
                /\ \E port \in p.lo .. p.hi :
                        InSpecs(port, listed) = (split.mode = "deny")

\* Only the undo of a failed change can leave a policy no configuration can be
\* generated from: a profile "is referenced by an enabled fixed-server route;
\* retarget it before deletion" (hincyray.rs:10355), but a change that retargets
\* it and then fails brings the route of a profile deleted meanwhile back.
PolicyStaysBuildable ==
    [][Buildable(world, policy) /\ ~Buildable(world, policy)' =>
            ~Idle /\ Idle' /\ op.prev.rules # policy.rules]_policyVars
=============================================================================
