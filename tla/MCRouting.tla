----------------------------- MODULE MCRouting -----------------------------
(* Small instances of RoutingPolicy: a rule of each form the editor has, the *)
(* settings the page sends, the presets of routing_presets().                *)
EXTENDS RoutingPolicy

Dst(lo, hi) == [of |-> "dst", lo |-> lo, hi |-> hi]
Src(lo, hi) == [of |-> "src", lo |-> lo, hi |-> hi]

RuHost == <<"ru", "shop">>
ComHost == <<"com", "video">>
MCHosts == {RuHost, ComHost}
MCNames == {"streaming", "category-ru", "geosite-ads"}

Rule(name, target) ==
    [name |-> <<name>>, enabled |-> TRUE, kind |-> "", pattern |-> NoPattern,
     target |-> target, domains |-> {}, ips |-> {}, services |-> {},
     ports |-> {}, network |-> AnyNetwork, mode |-> "include"]

Site == [Rule("site", "direct") EXCEPT !.domains = {Suffix(<<"com">>)}]
Stream == [Rule("stream", "s2") EXCEPT !.services = {"streaming"}]
Web == [Rule("web", "s2") EXCEPT !.network = "tcp", !.ports = {Dst(1, 2)},
            !.domains = {[m |-> "exact", v |-> ComHost]}]
NotWeb == [Rule("not web", "direct") EXCEPT !.ports = {Dst(1, 1)}, !.mode = "exclude"]
Net == [Rule("net", "direct") EXCEPT !.ips = {Cidr({"a1"})}, !.network = "udp"]
Device == [Rule("device", "reject") EXCEPT !.ips = {SourceCidr({"a2"})}]
Torrent == [Rule("torrent", "reject") EXCEPT !.ports = {Src(1, 1)},
                !.domains = {[m |-> "keyword", v |-> "video"]}]
Old == [Rule("old", "direct") EXCEPT !.kind = "domain", !.pattern = Suffix(<<"ru">>)]
OldNet == [Rule("old net", "best-of-best") EXCEPT !.kind = "ip", !.pattern = Cidr({"a2"})]
Ads == [Rule("ads", "reject") EXCEPT !.enabled = FALSE, !.services = {"geosite-ads"},
            !.domains = {Suffix(RuHost)}]
Wide == [Rule("wide", "reject") EXCEPT !.ports = {Dst(1, 3)}]
Leftover == [Rule("leftover", "direct") EXCEPT !.kind = "domain",
                !.ips = {Cidr({"a1"})}, !.pattern = Suffix(<<"ru">>)]
QuicBlock == [Rule("QUIC Block", "reject") EXCEPT !.ports = {Dst(3, 3)}, !.network = "udp"]

MCRuleLists ==
    {<<>>, <<Site>>, <<Stream, Site>>, <<Web, Site>>, <<Site, NotWeb>>, <<Net>>,
     <<Device, Site>>, <<Torrent, Site>>, <<Old>>, <<OldNet>>, <<Ads, Site>>,
     <<Wide>>, <<Leftover>>, <<QuicBlock, Stream>>}
MCResetRules == <<QuicBlock>>

Reset ==
    [enabled |-> TRUE, tproxy |-> TRUE, mode |-> "allow",
     proxied |-> {Dst(1, 1), Dst(2, 2)}, bypassed |-> {}, match |-> "proxy",
     ru |-> "off", exceptions |-> {}, learned |-> {}, learning |-> FALSE]
All == [Reset EXCEPT !.mode = "all", !.learning = TRUE]
MCSplits ==
    {All, [All EXCEPT !.match = "direct"],
     [All EXCEPT !.enabled = FALSE],
     [All EXCEPT !.ru = "tld", !.exceptions = {Suffix(RuHost)}],
     [All EXCEPT !.ru = "geosite", !.match = "direct"],
     [Reset EXCEPT !.mode = "deny", !.bypassed = {Dst(2, 3)}],
     [Reset EXCEPT !.proxied = {Dst(1, 1), Dst(2, 3)}]}

Ads1 == [Rule("Block ads", "reject") EXCEPT !.domains = {Runtime("geosite-ads")}]
Ru == [Rule("RU IPs direct", "direct") EXCEPT !.ips = {Runtime("category-ru")}]
Preset(rules, clears, mode, proxied) ==
    [rules |-> rules, clears |-> clears, mode |-> mode, proxied |-> proxied]
MCPresets ==
    {Preset(<<>>, TRUE, "all", {}), Preset(<<Ru>>, FALSE, "keep", {}),
     Preset(<<Ads1>>, FALSE, "keep", {}),
     Preset(<<>>, FALSE, "allow", {Dst(1, 1), Dst(2, 2)})}

World(dead, active, geobase) ==
    [present |-> Servers, dead |-> dead, active |-> active, geobase |-> geobase]
From(w, rules) == [world |-> w, rules |-> rules]
MCStarts ==
    {From(World({}, "s1", FALSE), MCResetRules),
     From(World({}, "s1", FALSE), <<Stream>>),
     From(World({"s2"}, "s1", TRUE), MCResetRules),
     From(World({}, "s2", FALSE), MCResetRules)}
=============================================================================
