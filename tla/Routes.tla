------------------------------- MODULE Routes -------------------------------
(***************************************************************************)
(* The routing policy as data: the rules a user saves, the Mihomo rules    *)
(* build_daemon_config generates from them, the answer the local trace     *)
(* gives for a connection, and the warnings about ports. Texts are reduced *)
(* to what matching needs: a host is its labels from the top level down, a *)
(* CIDR is the set of its addresses, a port item an interval.              *)
(***************************************************************************)
EXTENDS Integers, Positions, SequencesExt

CONSTANTS
    Servers,    \* canonical links of the servers there may be
    Addresses,  \* IP addresses, of destinations and of devices
    MaxPort,    \* the largest port number (65535 in the code)
    BlocksQuic  \* the servers whose profile cannot carry QUIC

\* The words of the other targets are not links of servers.
ASSUME RoutesAssumption ==
    /\ MaxPort \in Nat \ {0}
    /\ IsFiniteSet(Servers) /\ BlocksQuic \subseteq Servers
    /\ {"active", "direct"} \cap Servers = {} /\ "address" \notin Addresses

NoHost == <<>>          \* a connection by address; in a request: not given
NoAddress == "address"  \* in a request: not given
NoPort == 0             \* in a request: not given
AnyNetwork == "any"     \* in a rule: both; in a request: not given
NoPattern == <<>>
NoServer == "no server"

\* What only Mihomo can evaluate (GEOSITE, GEOIP, RULE-SET, regex, wildcard).
Runtime(name) == [m |-> "runtime", v |-> name]
Suffix(host) == [m |-> "suffix", v |-> host]
Cidr(addresses) == [m |-> "cidr", v |-> addresses]
SourceCidr(addresses) == [m |-> "src-cidr", v |-> addresses]

HostMatches(item, host) ==
    \/ item.m = "suffix" /\ IsPrefix(item.v, host)
    \/ item.m = "exact" /\ item.v = host
    \/ item.m = "keyword" /\ \E i \in DOMAIN host : host[i] = item.v

\* normalize_port_items: an item is an ascending range of ports, of destinations
\* or, with "src-port:", of sources; the lists of the settings take the former.
PortItem(p) ==
    p.of \in {"dst", "src"} /\ p.lo \in 1 .. MaxPort /\ p.hi \in p.lo .. MaxPort

PortList(items) ==
    IsFiniteSet(items) /\ \A p \in items : PortItem(p) /\ p.of = "dst"

\* A rule of the editor; an address item is a CIDR, of either side, or a name
\* only Mihomo knows.
RuleFields == {"name", "enabled", "kind", "pattern", "target", "domains", "ips",
               "services", "ports", "network", "mode"}

AddressItem(item) ==
    item.m = "runtime" \/ (item.m \in {"cidr", "src-cidr"} /\ item.v \subseteq Addresses)

WellFormed(rule) ==
    /\ DOMAIN rule = RuleFields
    /\ \A p \in rule.ports : PortItem(p)
    /\ \A item \in rule.ips : AddressItem(item)
    /\ rule.kind = "ip" /\ rule.pattern # NoPattern => AddressItem(rule.pattern)

InSpecs(port, specs) == \E p \in specs : port \in p.lo .. p.hi
OfKind(specs, kind) == {p \in specs : p.of = kind}

-----------------------------------------------------------------------------
(* The generated configuration. *)

\* normalize_domain_rule_items and the services; the pattern of the old rule
\* form is read only when there is nothing else to go by.
RuleDomains(rule) ==
    LET listed == rule.domains \cup {Runtime(s) : s \in rule.services}
    IN  IF listed = {} /\ rule.ips = {} /\ rule.pattern # NoPattern
            /\ rule.kind # "ip"
        THEN {rule.pattern} ELSE listed

RuleAddresses(rule) ==
    IF rule.domains = {} /\ rule.services = {} /\ rule.ips = {}
        /\ rule.pattern # NoPattern /\ rule.kind = "ip"
    THEN {rule.pattern} ELSE rule.ips

\* A rule with nothing to match is left out of the configuration.
Emitted(rule) ==
    /\ rule.enabled
    /\ \/ RuleDomains(rule) # {} \/ RuleAddresses(rule) # {}
       \/ rule.ports # {} \/ rule.network # AnyNetwork

\* resolve_target: a fixed server that is dead, or is the active one, is
\* reached through the canonical group.
Resolve(world, target) ==
    IF target \in Servers
    THEN IF target \in world.dead \/ target = world.active THEN "active"
         ELSE target
    ELSE target

\* One entry stands for the consecutive Mihomo rules of one policy rule: one
\* per domain or address, each joined with the port and network conditions.
Entry(domains, addresses, ports, except, network, to) ==
    [domains |-> domains, addresses |-> addresses, ports |-> ports,
     except |-> except, network |-> network, to |-> to]

Always(to) == Entry({}, {}, {}, FALSE, AnyNetwork, to)
OnDomains(domains, to) == [Always(to) EXCEPT !.domains = domains]
OnPorts(ports, to) == [Always(to) EXCEPT !.ports = ports]

RuleEntry(world, rule) ==
    Entry(RuleDomains(rule), RuleAddresses(rule), rule.ports,
          rule.mode = "exclude", rule.network, Resolve(world, rule.target))

RuleEntries(world, rules) ==
    LET emitted == Kept(rules, {i \in DOMAIN rules : Emitted(rules[i])})
    IN  [i \in DOMAIN emitted |-> RuleEntry(world, emitted[i])]

DeviceEntries(world, devices) ==
    LET enabled == Kept(devices, {i \in DOMAIN devices : devices[i].enabled})
    IN  [i \in DOMAIN enabled |->
            [Always(Resolve(world, enabled[i].target)) EXCEPT
                !.addresses = {SourceCidr({enabled[i].address})}]]

If(condition, entry) == IF condition THEN <<entry>> ELSE <<>>

Quic(to) == Entry({}, {}, {[of |-> "dst", lo |-> MaxPort, hi |-> MaxPort]},
                  FALSE, "udp", to)

SystemQuicBlocked(world, split) ==
    world.active \in BlocksQuic \/ ~split.tproxy

RuDomains(split) ==
    IF split.ru = "tld" THEN {Suffix(<<"ru">>)} ELSE {Runtime("category-ru")}

\* What follows the user's rules, in the order of build_mihomo_router_config.
\* Active GeoBase lists are projected only while MATCH is direct, and none in
\* safe mode.
SystemEntries(world, split, safe) ==
    LET ruled == split.ru # "off"
        based == world.geobase /\ ~safe
    IN  If(SystemQuicBlocked(world, split), Quic("reject"))
        \o If(split.learned # {}, OnDomains(split.learned, "active"))
        \o If(based /\ split.match = "direct",
              OnDomains({Runtime("geobase-active")}, "active"))
        \o If(based, OnDomains({Runtime("geobase-direct")}, "direct"))
        \o If(ruled /\ split.exceptions # {},
              OnDomains(split.exceptions, "active"))
        \o If(ruled, OnDomains(RuDomains(split), "direct"))

PortEntries(split) ==
    If(split.mode = "allow" /\ split.proxied # {},
       OnPorts(split.proxied, "active"))
    \o If(split.mode = "deny" /\ split.bypassed # {},
          OnPorts(split.bypassed, "direct"))

MatchTarget(split) == IF split.match = "direct" THEN "direct" ELSE "active"

\* Without split routing there is one rule: everything to the active server.
Config(world, policy) ==
    IF ~policy.split.enabled THEN <<Always("active")>>
    ELSE DeviceEntries(world, policy.devices)
         \o RuleEntries(world, policy.rules)
         \o SystemEntries(world, policy.split, policy.safe)
         \o PortEntries(policy.split)
         \o <<Always(MatchTarget(policy.split))>>

\* validate_routing_targets, asked before every generation and every save:
\* an enabled fixed route names a server there is, and the living ones fit
\* the budget.
FixedServers(policy) ==
    Servers \cap
    ({policy.rules[i].target : i \in
        {j \in DOMAIN policy.rules : policy.rules[j].enabled}}
     \cup {policy.devices[i].target : i \in
        {j \in DOMAIN policy.devices : policy.devices[j].enabled}})

ValidTargets(world, policy, limit) ==
    /\ FixedServers(policy) \subseteq world.present
    /\ Cardinality(FixedServers(policy) \ world.dead) <= limit

-----------------------------------------------------------------------------
(* How Mihomo decides a connection: the first rule that matches. A         *)
(* connection has a host or none, an address (resolved when it has a host) *)
(* and the names of the runtime sets it is in.                             *)

EntryMatches(entry, c) ==
    /\ \/ entry.domains = {} /\ entry.addresses = {}
       \/ \E item \in entry.domains :
            IF item.m = "runtime" THEN item.v \in c.runtime
            ELSE c.host # NoHost /\ HostMatches(item, c.host)
       \/ \E item \in entry.addresses :
            \/ item.m = "cidr" /\ c.address \in item.v
            \/ item.m = "src-cidr" /\ c.source \in item.v
            \/ item.m = "runtime" /\ item.v \in c.runtime
    /\ \A kind \in {"dst", "src"} :
         LET specs == OfKind(entry.ports, kind)
             port == IF kind = "dst" THEN c.port ELSE c.sourcePort
         IN  specs # {} => InSpecs(port, specs) # entry.except
    /\ entry.network \in {AnyNetwork, c.network}

Decide(config, c) ==
    LET first == CHOOSE i \in DOMAIN config :
                    /\ EntryMatches(config[i], c)
                    /\ \A j \in 1 .. i - 1 : ~EntryMatches(config[j], c)
    IN  config[first].to

-----------------------------------------------------------------------------
(* trace_routing_decision: the answer given without asking Mihomo. *)

TraceDomains(rule) ==
    LET listed == rule.domains \cup {Runtime(s) : s \in rule.services}
    IN  IF listed = {} /\ rule.pattern # NoPattern /\ rule.kind # "ip"
        THEN {rule.pattern} ELSE listed

TraceAddresses(rule) ==
    IF rule.ips = {} /\ rule.pattern # NoPattern /\ rule.kind = "ip"
    THEN {rule.pattern} ELSE rule.ips

DomainExact(rule, q) ==
    q.host # NoHost /\ \E item \in TraceDomains(rule) : HostMatches(item, q.host)

DomainPossible(rule, q) ==
    \E item \in TraceDomains(rule) : item.m = "runtime" \/ q.host = NoHost

AddressOf(item, q) == IF item.m = "src-cidr" THEN q.source ELSE q.address

AddressExact(rule, q) ==
    \E item \in TraceAddresses(rule) :
        item.m # "runtime" /\ AddressOf(item, q) \in item.v

AddressPossible(rule, q) ==
    \E item \in TraceAddresses(rule) :
        item.m = "runtime" \/ AddressOf(item, q) = NoAddress

PortsUnknownDst(rule, q) == rule.ports # {} /\ q.port = NoPort

PortsUnknown(rule, q) ==
    /\ rule.ports # {}
    /\ q.port = NoPort \/ OfKind(rule.ports, "src") # {}

NetworkUnknown(rule, q) == rule.network # AnyNetwork /\ q.network = AnyNetwork

PortsMatch(rule, q) ==
    rule.ports = {} \/ InSpecs(q.port, rule.ports) # (rule.mode = "exclude")

PortOnly(rule) ==
    /\ rule.domains = {} /\ rule.ips = {} /\ rule.services = {}
    /\ rule.pattern = NoPattern
    /\ rule.ports # {} \/ rule.network # AnyNetwork

\* What the trace makes of one rule: no match, a match, a match if the
\* transport is right, or one that only Mihomo can tell.
Verdict(rule, q) ==
    LET ports == PortsUnknown(rule, q)
        network == NetworkUnknown(rule, q)
    IN  IF \/ ~rule.enabled
           \/ ~ports /\ ~PortsMatch(rule, q)
           \/ ~network /\ rule.network \notin {AnyNetwork, q.network}
        THEN "no"
        ELSE IF DomainExact(rule, q) \/ AddressExact(rule, q) \/ PortOnly(rule)
        THEN IF ports \/ network THEN "unsure" ELSE "match"
        ELSE IF DomainPossible(rule, q) \/ AddressPossible(rule, q)
        THEN "candidate" ELSE "no"

Requires == [decision |-> "requires Mihomo", target |-> "none"]
Answer(decision, target) == [decision |-> decision, target |-> target]

\* Rules of the system the trace does not evaluate.
SystemUnknown(world, policy) ==
    /\ policy.split.enabled /\ ~policy.safe
    /\ \/ policy.split.ru # "off"
       \/ policy.split.learned # {}
       \/ policy.split.exceptions # {}
       \/ policy.split.mode # "all"
       \/ ~policy.split.tproxy
       \/ world.active \in BlocksQuic

\* trace_with_runtime_assets: a default answer also needs that no managed
\* GeoBase is applied.
GeoBaseUnknown(world, policy) ==
    ~policy.safe /\ policy.split.enabled /\ world.geobase

Trace(world, policy, q) ==
    LET own == {i \in DOMAIN policy.devices :
                  policy.devices[i].enabled /\ policy.devices[i].address = q.source}
        verdict == [i \in DOMAIN policy.rules |-> Verdict(policy.rules[i], q)]
        found == {i \in DOMAIN verdict : verdict[i] \in {"match", "unsure"}}
        candidates == {i \in DOMAIN verdict : verdict[i] = "candidate"}
        first == CHOOSE i \in found : \A j \in found : i <= j
    IN  IF own # {}
        THEN Answer("matched",
                policy.devices[CHOOSE i \in own : \A j \in own : i <= j].target)
        ELSE IF found # {}
        THEN IF verdict[first] = "unsure" \/ \E i \in candidates : i < first
             THEN Requires
             ELSE Answer("matched", policy.rules[first].target)
        ELSE IF \/ candidates # {}
                \/ SystemUnknown(world, policy)
                \/ GeoBaseUnknown(world, policy)
        THEN Requires
        ELSE Answer("default", MatchTarget(policy.split))

-----------------------------------------------------------------------------
(* detect_routing_conflicts: rules whose ports the global port mode treats *)
(* another way.                                                            *)

\* port_sets_overlap
Overlap(items, port) ==
    port.of = "dst" /\ \E p \in items : p.lo <= port.hi /\ port.lo <= p.hi

CoversChecked(items, port) ==
    port.of = "dst" /\ \E p \in items : p.lo <= port.lo /\ port.lo <= p.hi

\* sort_unstable: as many intervals are before one as its place says.
Before(a, b) == a[1] < b[1] \/ (a[1] = b[1] /\ a[2] < b[2])
Sorted(intervals) ==
    [k \in 1 .. Cardinality(intervals) |->
        CHOOSE a \in intervals : Cardinality({b \in intervals : Before(b, a)}) = k - 1]

\* port_set_covers: one pass over the intervals in the order of their starts,
\* `next' being the first port not covered so far.
Covers(items, port) ==
    LET sorted == Sorted({<<p.lo, p.hi>> : p \in items})
        next[k \in 0 .. Len(sorted)] ==
            IF k = 0 THEN port.lo
            ELSE IF sorted[k][1] <= next[k - 1] /\ sorted[k][2] >= next[k - 1]
            THEN sorted[k][2] + 1 ELSE next[k - 1]
    IN  port.of = "dst" /\ next[Len(sorted)] > port.hi

\* The enabled rules, by their place, and the port items they are warned of.
Conflicts(policy) ==
    LET split == policy.split
        included == {w \in (DOMAIN policy.rules) \X
                        UNION {policy.rules[i].ports : i \in DOMAIN policy.rules} :
                      /\ w[2] \in policy.rules[w[1]].ports
                      /\ policy.rules[w[1]].enabled
                      /\ policy.rules[w[1]].mode # "exclude"}
    IN  {w \in included :
            \/ /\ split.mode = "allow" /\ split.proxied # {}
               /\ ~Covers(split.proxied, w[2])
            \/ /\ split.mode = "deny" /\ split.bypassed # {}
               /\ Overlap(split.bypassed, w[2])}
=============================================================================
