------------------------------ MODULE Profiles ------------------------------
(***************************************************************************)
(* The list of profiles and everything that edits it: add and import,      *)
(* edit, delete (one, a group, a subscription), Dead Servers, refresh of   *)
(* subscriptions, the actions after a full benchmark, undo, and restart    *)
(* from state.json.  A profile's id is its position, so every removal      *)
(* renames the profiles behind it; the running core, the fixed routes and  *)
(* the results of a benchmark refer to profiles across such changes.       *)
(*                                                                         *)
(* A link is a share link; ServerOf is its canonical identity (several     *)
(* links may name one server).  An activation is one step: its inside is   *)
(* module Activation.  Names, favorites, statistics, order and metadata of *)
(* subscriptions are left out.                                             *)
(***************************************************************************)
EXTENDS Positions, SequencesExt

CONSTANTS
  Links,         \* share links
  ServerOf,      \* the server of a link
  Sources,       \* subscription URLs; a profile's group is one of them ...
  Ungrouped,     \* ... or this
  Delivered,     \* what a subscription may answer: sequences of links
  InitialStates, \* what may be in state.json at first
  Clients,       \* request threads (and the watchdog's refresh)
  SplitRouting,  \* whether split routing is on (off: the torrent listener too)
  NoLink,
  MaxUndo,       \* MAX_UNDO_STACK
  MaxRequests,   \* bound: requests and benchmarks
  MaxFaults      \* bound: failing saves, failing activations, crashes, restarts

Servers == {ServerOf[l] : l \in Links}
Groups == Sources \cup {Ungrouped}
Profiles == [raw: Links, group: Groups]
Persisted == [list: Seq(Profiles), active: Nat, dead: SUBSET Servers,
              pinned: SUBSET Servers, subs: SUBSET Sources]

ASSUME ProfilesAssumption ==
  /\ IsFiniteSet(Links) /\ NoLink \notin Links /\ Ungrouped \notin Sources
  /\ Delivered \in [Sources -> SUBSET Seq(Links)]
  /\ InitialStates \subseteq Persisted
  /\ MaxUndo \in Nat \ {0} /\ SplitRouting \in BOOLEAN

VARIABLES
  mem,       \* inner.state: list, active id (0: none), dead servers, servers
             \* with an enabled fixed route, subscriptions
  disk,      \* the same in state.json
  undo,      \* the snapshots of the undo stack, oldest first
  core,      \* the core: up, the link it serves, the servers it has fixed routes
             \* to, whether routes were saved that it has not been given
  thread,    \* what each request thread keeps over unlocked intervals
  bench,     \* results of the last full benchmark, as [raw, id]
  measured,  \* the links it measured: a record for ResultsKeepTheirLinks
  shown,     \* the results of the last status answer
  requests, faults   \* bounds

vars == <<mem, disk, undo, core, thread, bench, measured, shown, requests, faults>>
----------------------------------------------------------------------------
(* The list.                                                               *)
Active(m) == IF m.active = 0 THEN NoLink ELSE m.list[m.active].raw
RawsOf(list) == {list[i].raw : i \in DOMAIN list}
Present(m) == {ServerOf[l] : l \in RawsOf(m.list)}
ServerAt(m, i) == ServerOf[m.list[i].raw]

(* What a state.json must be for the daemon to run on it: every link once, *)
(* an active id in the list and the servers of fixed routes present.       *)
WellFormed(m) ==
  /\ Cardinality(RawsOf(m.list)) = Len(m.list)
  /\ m.active \in 0..Len(m.list) /\ m.pinned \subseteq Present(m)

ASSUME InitialStatesAssumption == \A m \in InitialStates : WellFormed(m)

PositionOf(list, raw) ==
  IF raw \in RawsOf(list) THEN CHOOSE i \in DOMAIN list : list[i].raw = raw ELSE 0

(* New ids for a new list; the active profile is found again by its link.  *)
Reindexed(m, list) ==
  [m EXCEPT !.list = list, !.active = PositionOf(list, Active(m))]

(* handle_profile_delete shifts the active id instead.                     *)
AlwaysShifted(m, i) ==
  [m EXCEPT !.list = RemoveAt(@, i),
            !.active = IF @ = i THEN 0 ELSE IF 1 < @ THEN @ - 1 ELSE @]

WithoutProfile(m, i) ==
  [m EXCEPT !.list = RemoveAt(@, i),
            !.active = IF @ = i THEN 0 ELSE IF i < @ THEN @ - 1 ELSE @]

AppendedAll(list, links, group) == list \o [i \in DOMAIN links |-> [raw |-> links[i], group |-> group]]

(* Links not in the list yet are appended, each once.                      *)
Unknown(list, links) ==
  {i \in DOMAIN links : links[i] \notin RawsOf(list) \cup {links[j] : j \in 1..(i - 1)}}
Appended(list, links, group) == AppendedAll(list, Kept(links, Unknown(list, links)), group)

(* A removal or edit may not take the profile of an enabled fixed route.   *)
NonePinned(m, positions) == \A i \in positions : ServerAt(m, i) \notin m.pinned
InGroup(m, g) == {i \in DOMAIN m.list : m.list[i].group = g}
WithoutGroup(list, g) == Kept(list, {i \in DOMAIN list : list[i].group # g})

(* The fixed routes the generator writes: with split routing off none; a   *)
(* dead server's falls back to the active profile, and so does one to the  *)
(* active server itself.                                                   *)
InForce(m) == IF SplitRouting THEN m.pinned ELSE {}
FixedRoutes(m) == InForce(m) \ (m.dead \cup {ServerOf[l] : l \in {Active(m)} \ {NoLink}})

(* A configuration needs an active profile and no stale server reference.  *)
CanPlan(m) == m.active # 0 /\ InForce(m) \subseteq Present(m)
Loaded(m) == [up |-> TRUE, serves |-> Active(m), fixed |-> FixedRoutes(m), stale |-> FALSE]
Down == [up |-> FALSE, serves |-> NoLink, fixed |-> {}, stale |-> FALSE]
Regenerated(m) == IF core.up THEN Loaded(m) ELSE Down

Pushed(stack, m) ==
  LET all == Append(stack, m)
  IN  IF Len(all) > MaxUndo THEN Tail(all) ELSE all

Idle == [op |-> "idle", next |-> "idle", sources |-> {}, before |-> {}, good |-> {},
         gone |-> {}, results |-> {}, due |-> {}]

(* The one thread that holds the apply lock over an unlocked interval.     *)
ApplyFree == \A c \in Clients : thread[c].op # "activating"

Results == [raw: Links, id: 1..Cardinality(Links)]

TypeOK ==
  /\ \A m \in {mem, disk} :
       /\ m \in Persisted /\ m.active \in 0..Len(m.list)
       /\ Cardinality(RawsOf(m.list)) = Len(m.list)
  /\ Len(undo) <= MaxUndo
  /\ core \in [up: BOOLEAN, serves: Links \cup {NoLink}, fixed: SUBSET Servers, stale: BOOLEAN]
  /\ \A c \in Clients :
       thread[c].op \in {"idle", "refresh", "activating", "move", "promote", "status"}
  /\ bench \subseteq Results /\ measured \subseteq Links /\ shown \subseteq Results

Init ==
  /\ mem \in InitialStates /\ disk = mem /\ undo = <<>>
  /\ core = Loaded(mem)
  /\ thread = [c \in Clients |-> Idle]
  /\ bench = {} /\ measured = {} /\ shown = {}
  /\ requests = 0 /\ faults = 0
----------------------------------------------------------------------------
Requested == requests < MaxRequests /\ requests' = requests + 1
MayFail == faults < MaxFaults /\ faults' = faults + 1
Quiet == UNCHANGED <<thread, bench, measured, shown>>

(* Memory changes whether or not state.json can be written.                *)
Commit(m) ==
  /\ mem' = m
  /\ \/ disk' = m /\ UNCHANGED faults
     \/ MayFail /\ UNCHANGED disk

(* A transaction: what cannot be saved is not done, but a save that fails  *)
(* after its rename leaves the candidate on disk.                          *)
Transact(m, stack) ==
  \/ mem' = m /\ undo' = stack /\ disk' = m /\ UNCHANGED faults
  \/ MayFail /\ disk' \in {disk, m} /\ UNCHANGED <<mem, undo>>

(* A change that holds only if the core takes it.                          *)
Apply(m, started) ==
  \/ mem' = m /\ disk' = m /\ core' = started /\ UNCHANGED faults
  \/ MayFail /\ core' \in {core, Down} /\ UNCHANGED <<mem, disk>>
----------------------------------------------------------------------------
(* Handlers that take only the state lock.                                 *)
AddProfile(l, g) ==
  /\ Requested /\ l \notin RawsOf(mem.list)
  /\ Commit([mem EXCEPT !.list = Append(@, [raw |-> l, group |-> g])])
  /\ Quiet /\ UNCHANGED <<undo, core>>

(* Import of a subscription, after it was fetched without any lock: links  *)
(* already known keep their profile, which adopts the group if it has none *)
(* (handle_import); a source that cannot be loaded is saved all the same.  *)
Adopted(list, links, u) ==
  [i \in DOMAIN list |->
     IF list[i].raw \in ToSet(links) /\ list[i].group = Ungrouped
       THEN [list[i] EXCEPT !.group = u] ELSE list[i]]

ImportSubscription(u) ==
  /\ Requested
  /\ \E links \in Delivered[u] \cup {<<>>}, adopt \in BOOLEAN :
       LET known == IF adopt THEN Adopted(mem.list, links, u) ELSE mem.list
       IN  Commit([mem EXCEPT !.list = Appended(known, links, u), !.subs = @ \cup {u}])
  /\ Quiet /\ UNCHANGED <<undo, core>>

DeleteProfile(i) ==
  /\ Requested /\ NonePinned(mem, {i})
  /\ undo' = Pushed(undo, mem)
  /\ Commit(WithoutProfile(mem, i))
  /\ core' = IF mem.active = i THEN Down ELSE core
  /\ Quiet

(* Entries whose server is no longer in the list and which are too old.    *)
PurgeGone ==
  /\ Requested
  /\ \E old \in SUBSET (mem.dead \ Present(mem)) :
       old # {} /\ Commit([mem EXCEPT !.dead = @ \ old])
  /\ Quiet /\ UNCHANGED <<undo, core>>

(* A snapshot that cannot be read back is used up all the same.            *)
UndoRestore(k) ==
  /\ Requested
  /\ undo' = RemoveAt(undo, k)
  /\ \/ Commit(undo[k]) /\ core' = Down
     \/ MayFail /\ UNCHANGED <<mem, disk, core>>
  /\ Quiet
----------------------------------------------------------------------------
(* Handlers under the apply lock.                                          *)
SelectProfile(i) ==
  /\ Requested /\ ApplyFree /\ ServerAt(mem, i) \notin mem.dead
  /\ LET m == [mem EXCEPT !.active = i] IN CanPlan(m) /\ Apply(m, Loaded(m))
  /\ Quiet /\ UNCHANGED undo

(* Routing rules pin and release servers.  They may be saved without being *)
(* applied; so are deletions the core does not take, while any other       *)
(* refused change is taken back (restore_policy_fields, the undo stack     *)
(* included).                                                              *)
SaveRoutes(pinned) ==
  /\ Requested /\ ApplyFree /\ pinned # mem.pinned /\ pinned \subseteq Present(mem)
  /\ Transact([mem EXCEPT !.pinned = pinned], Pushed(undo, mem))
  /\ core' = IF mem' = mem THEN core ELSE [core EXCEPT !.stale = core.up]
  /\ Quiet

ChangeRoutes(pinned) ==
  LET m == [mem EXCEPT !.pinned = pinned]
  IN  /\ Requested /\ ApplyFree /\ pinned # mem.pinned
      /\ pinned \subseteq Present(mem) /\ CanPlan(m)
      /\ \/ /\ Apply(m, Regenerated(m))
            /\ undo' = IF mem' = mem THEN undo ELSE Pushed(undo, mem)
         \/ /\ pinned \subseteq mem.pinned /\ MayFail
            /\ mem' = m /\ disk' = m /\ undo' = Pushed(undo, mem)
            /\ core' \in {[core EXCEPT !.stale = core.up], Down}
      /\ Quiet

(* handle_profile_update: the server's membership and routes move along.   *)
Moved(set, old, new) == IF old \in set THEN (set \ {old}) \cup {new} ELSE set
Edited(m, i, raw) ==
  [m EXCEPT !.list[i].raw = raw,
            !.dead = Moved(@, ServerAt(m, i), ServerOf[raw]),
            !.pinned = Moved(@, ServerAt(m, i), ServerOf[raw])]

MayEdit(i, raw) ==
  LET others == DOMAIN mem.list \ {i}
  IN  /\ mem.list[i].group \notin mem.subs
      /\ \A j \in others : ServerAt(mem, j) # ServerOf[raw]
      /\ ServerOf[raw] # ServerAt(mem, i) => \A j \in others : ServerAt(mem, j) # ServerAt(mem, i)

EditProfile(i, raw) ==
  /\ Requested /\ ApplyFree /\ raw # mem.list[i].raw /\ MayEdit(i, raw)
  /\ LET m == Edited(mem, i, raw)
         concerned == mem.active # 0 /\ (mem.active = i \/ ServerAt(mem, i) \in mem.pinned)
     IN  /\ concerned => CanPlan(m)
         /\ Apply(m, IF concerned THEN Regenerated(m) ELSE core)
  /\ Quiet /\ UNCHANGED undo

DeleteGroup(g) ==
  /\ Requested /\ ApplyFree
  /\ g # Ungrouped /\ InGroup(mem, g) # {} /\ NonePinned(mem, InGroup(mem, g))
  /\ LET m == [Reindexed(mem, WithoutGroup(mem.list, g)) EXCEPT !.subs = @ \ {g}]
     IN  /\ Commit(m)
         /\ core' = IF mem.active # 0 /\ m.active = 0 THEN Down ELSE core
  /\ undo' = Pushed(undo, mem) /\ Quiet

(* The core also stops if no profile was active before.                    *)
DeleteSubscription(u) ==
  /\ Requested /\ ApplyFree /\ u \in mem.subs /\ NonePinned(mem, InGroup(mem, u))
  /\ LET m == [Reindexed(mem, WithoutGroup(mem.list, u)) EXCEPT !.subs = @ \ {u}]
     IN  /\ Commit(m)
         /\ core' = IF m.active = 0 THEN Down ELSE core
  /\ undo' = Pushed(undo, mem) /\ Quiet

ClearTrash ==
  LET lost == {i \in DOMAIN mem.list : ServerAt(mem, i) \in mem.dead}
      alive == Kept(mem.list, DOMAIN mem.list \ lost)
  IN  /\ Requested /\ ApplyFree /\ mem.dead # {} /\ NonePinned(mem, lost)
      /\ Transact([Reindexed(mem, alive) EXCEPT !.dead = {}], Pushed(undo, mem))
      /\ Quiet /\ UNCHANGED core
----------------------------------------------------------------------------
(* Dead Servers: the membership is saved in one critical section and the   *)
(* configuration activated in the next, under one apply lock.              *)
NeverAffects(changed) == FALSE
AffectsCore(changed) ==
  core.up /\ mem.active # 0 /\ changed \cap InForce(mem) # {}

(* mutate_dead_server_membership for thread c, which goes on to `next`.    *)
ChangeMembership(c, dead, next) ==
  LET changed == (dead \ mem.dead) \cup (mem.dead \ dead)
      m == [mem EXCEPT !.dead = dead]
      done == [thread EXCEPT ![c] = [@ EXCEPT !.op = next, !.next = "idle"]]
  IN  \/ /\ changed = {} /\ thread' = done
         /\ UNCHANGED <<mem, disk, faults>>
      \/ /\ changed # {} /\ mem' = m /\ disk' = m
         /\ thread' = IF AffectsCore(changed)
                        THEN [thread EXCEPT ![c] = [@ EXCEPT !.op = "activating", !.next = next,
                                                             !.before = mem.dead]]
                        ELSE done
         /\ UNCHANGED faults
      \/ /\ changed # {} /\ MayFail /\ disk' \in {disk, m} /\ UNCHANGED mem
         /\ thread' = [thread EXCEPT ![c] = Idle]

ActivateMembership(c) ==
  /\ thread[c].op = "activating"
  /\ \/ /\ CanPlan(mem) /\ core' = Regenerated(mem)
        /\ thread' = [thread EXCEPT ![c] = [@ EXCEPT !.op = thread[c].next, !.next = "idle", !.before = {}]]
        /\ UNCHANGED <<mem, disk, faults>>
     \/ /\ \/ CanPlan(mem) /\ MayFail /\ core' \in {core, Down}
           \/ ~CanPlan(mem) /\ UNCHANGED <<core, faults>>
        /\ mem' = [mem EXCEPT !.dead = thread[c].before] /\ disk' = mem'
        /\ thread' = [thread EXCEPT ![c] = Idle]
  /\ UNCHANGED <<undo, bench, measured, shown, requests>>

Eligible == {s \in Present(mem) : mem.active # 0 => s # ServerAt(mem, mem.active)}

MoveToTrash(c, s) ==
  /\ Requested /\ ApplyFree /\ thread[c] = Idle /\ s \in Eligible
  /\ ChangeMembership(c, mem.dead \cup {s}, "idle")
  /\ UNCHANGED <<undo, core, bench, measured, shown>>

RestoreFromTrash(c, s) ==
  /\ Requested /\ ApplyFree /\ thread[c] = Idle /\ s \in mem.dead
  /\ ChangeMembership(c, mem.dead \ {s}, "idle")
  /\ UNCHANGED <<undo, core, bench, measured, shown>>
----------------------------------------------------------------------------
(* Refresh: the sources are read in one critical section, fetched without  *)
(* any lock, and each is replaced in a section of its own.                 *)
StartRefresh(c, sources) ==
  /\ Requested /\ thread[c] = Idle /\ sources # {} /\ sources \subseteq mem.subs
  /\ thread' = [thread EXCEPT ![c] = [Idle EXCEPT !.op = "refresh", !.sources = sources]]
  /\ UNCHANGED <<mem, disk, undo, core, bench, measured, shown, faults>>

Replaced(m, u, fresh) == Reindexed(m, Appended(WithoutGroup(m.list, u), fresh, u))

AnythingReplaces(m, u, fresh) == fresh # <<>>
MayReplace(m, u, fresh) ==
  /\ fresh # <<>>
  /\ \A i \in InGroup(m, u) :
       ServerAt(m, i) \in m.pinned => ServerAt(m, i) \in {ServerOf[l] : l \in ToSet(fresh)}

(* An answer that is empty, fails or loses a fixed route changes nothing.  *)
RefreshSource(c, u) ==
  /\ thread[c].op = "refresh" /\ u \in thread[c].sources /\ ApplyFree
  /\ \/ \E fresh \in Delivered[u] : MayReplace(mem, u, fresh) /\ Commit(Replaced(mem, u, fresh))
     \/ UNCHANGED <<mem, disk, faults>>
  /\ LET rest == thread[c].sources \ {u}
     IN  thread' = [thread EXCEPT ![c] = IF rest = {} THEN Idle ELSE [@ EXCEPT !.sources = rest]]
  /\ UNCHANGED <<undo, core, bench, measured, shown, requests>>
----------------------------------------------------------------------------
(* A full benchmark of the living profiles: one link may pass everything,  *)
(* one server not answer at all.  A cancelled job has no post-actions.     *)
RunBenchmark(c) ==
  LET tested == {i \in DOMAIN mem.list : ServerAt(mem, i) \notin mem.dead}
  IN  /\ Requested /\ thread[c] = Idle /\ tested # {}
      /\ \A d \in Clients : thread[d].op \notin {"move", "promote"} /\ thread[d].next # "promote"
      /\ bench' = {[raw |-> mem.list[i].raw, id |-> i] : i \in tested}
      /\ measured' = {mem.list[i].raw : i \in tested}
      /\ \E good \in tested \cup {0}, gone \in tested \cup {0}, op \in {"move", "idle"} :
           /\ good # 0 /\ gone # 0 => ServerAt(mem, good) # ServerAt(mem, gone)
           /\ thread' = [thread EXCEPT ![c] = IF op = "idle" THEN Idle ELSE
                [Idle EXCEPT !.op = op,
                   !.good = IF good = 0 THEN {} ELSE {ServerAt(mem, good)},
                   !.gone = IF gone = 0 THEN {} ELSE {ServerAt(mem, gone)}]]
      /\ UNCHANGED <<mem, disk, undo, core, shown, faults>>

MoveUnresponsive(c) ==
  /\ thread[c].op = "move" /\ ApplyFree
  /\ ChangeMembership(c, mem.dead \cup (thread[c].gone \cap Eligible), "promote")
  /\ UNCHANGED <<undo, core, bench, measured, shown, requests>>

(* The good ones first, within the places each group has in the list.      *)
Mates(list, i) == {j \in DOMAIN list : list[j].group = list[i].group}
PromotedFrom(list, good, i) ==
  LET first == {j \in Mates(list, i) : ServerOf[list[j].raw] \in good}
      k == Rank(Mates(list, i), i)
  IN  IF k <= Cardinality(first) THEN Nth(first, k)
      ELSE Nth(Mates(list, i) \ first, k - Cardinality(first))

Promoted(list, good) == [i \in DOMAIN list |-> list[PromotedFrom(list, good, i)]]

NewIdByServer(m, r) ==
  LET same == {i \in DOMAIN m.list : ServerAt(m, i) = ServerOf[r.raw]}
  IN  IF Cardinality(same) = 1 THEN CHOOSE i \in same : TRUE ELSE r.id

(* A result follows its link; without it, the one profile of its server.   *)
NewId(m, r) ==
  LET same == {i \in DOMAIN m.list : ServerAt(m, i) = ServerOf[r.raw]}
  IN  IF r.raw \in RawsOf(m.list) THEN PositionOf(m.list, r.raw)
      ELSE IF Cardinality(same) = 1 THEN CHOOSE i \in same : TRUE ELSE r.id

Remapped(m, results) == {[r EXCEPT !.id = NewId(m, r)] : r \in results}

PromoteSuccessful(c) ==
  LET m == Reindexed(mem, Promoted(mem.list, thread[c].good \ mem.dead))
  IN  /\ thread[c].op = "promote" /\ ApplyFree
      /\ Transact(m, undo)
      /\ bench' = Remapped(mem', bench)
      /\ thread' = [thread EXCEPT ![c] = Idle]
      /\ UNCHANGED <<core, measured, shown, requests>>

(* handle_bench_status: one critical section gives the results their ids   *)
(* of now, a second one drops those whose id names another server.  `due`  *)
(* is only a record, for ResultsKeepTheirLinks: the measured links that    *)
(* are in the list, with their places.                                     *)
Due == {[raw |-> mem.list[i].raw, id |-> i] : i \in {j \in DOMAIN mem.list : mem.list[j].raw \in measured}}

ReadStatus(c) ==
  /\ Requested /\ thread[c] = Idle /\ bench # {}
  /\ thread' = [thread EXCEPT ![c] = [Idle EXCEPT !.op = "status", !.results = Remapped(mem, bench),
                                                  !.due = Due]]
  /\ UNCHANGED <<mem, disk, undo, core, bench, measured, shown, faults>>

Current(m, results) ==
  {r \in results : r.id \in DOMAIN m.list /\ ServerAt(m, r.id) = ServerOf[r.raw]}

AnswerStatus(c) ==
  /\ thread[c].op = "status"
  /\ shown' = Current(mem, thread[c].results)
  /\ thread' = [thread EXCEPT ![c] = Idle]
  /\ UNCHANGED <<mem, disk, undo, core, bench, measured, requests, faults>>
----------------------------------------------------------------------------
(* The watchdog, Mihomo and the machine.                                   *)
RestartCore ==
  /\ ApplyFree /\ ~core.up /\ CanPlan(mem)
  /\ core' = Loaded(mem)
  /\ Quiet /\ UNCHANGED <<mem, disk, undo, requests, faults>>

CoreCrash ==
  /\ MayFail /\ core.up /\ core' = Down
  /\ Quiet /\ UNCHANGED <<mem, disk, undo, requests>>

(* load_state: what is active is not dead.                                 *)
Reconciled(m) ==
  IF m.active = 0 THEN m ELSE [m EXCEPT !.dead = @ \ {ServerAt(m, m.active)}]

Reboot ==
  /\ MayFail
  /\ mem' = Reconciled(disk) /\ disk' = mem'
  /\ undo' = <<>> /\ core' = Down
  /\ thread' = [c \in Clients |-> Idle] /\ bench' = {} /\ measured' = {} /\ shown' = {}
  /\ UNCHANGED requests

Next ==
  \/ \E l \in Links, g \in Groups : AddProfile(l, g)
  \/ \E u \in Sources : ImportSubscription(u) \/ DeleteSubscription(u)
  \/ \E i \in DOMAIN mem.list : DeleteProfile(i) \/ SelectProfile(i)
  \/ \E i \in DOMAIN mem.list, l \in Links : EditProfile(i, l)
  \/ \E k \in DOMAIN undo : UndoRestore(k)
  \/ \E pinned \in SUBSET Servers : SaveRoutes(pinned) \/ ChangeRoutes(pinned)
  \/ \E g \in Groups : DeleteGroup(g)
  \/ PurgeGone \/ ClearTrash
  \/ \E c \in Clients :
       \/ \E s \in Servers : MoveToTrash(c, s) \/ RestoreFromTrash(c, s)
       \/ ActivateMembership(c)
       \/ \E sources \in SUBSET Sources : StartRefresh(c, sources)
       \/ \E u \in Sources : RefreshSource(c, u)
       \/ RunBenchmark(c) \/ MoveUnresponsive(c) \/ PromoteSuccessful(c)
       \/ ReadStatus(c) \/ AnswerStatus(c)
  \/ RestartCore \/ CoreCrash \/ Reboot

Spec == Init /\ [][Next]_vars
----------------------------------------------------------------------------
(* Whatever is added, removed, promoted, refreshed or undone, the running  *)
(* core serves the profile that has the active id (removals give new ids;  *)
(* undo and the removal of the active profile stop the core).  Between     *)
(* transactions, and unless routes were saved without being applied, it    *)
(* also routes exactly the pinned servers that are alive to an outbound of *)
(* their own: a change of Dead Servers the core did not take is not in     *)
(* force anywhere (mutate_dead_server_membership).                         *)
CoreFollowsState ==
  core.up /\ mem.active # 0 =>
    /\ core.serves = Active(mem)
    /\ ApplyFree /\ ~core.stale => core.fixed = FixedRoutes(mem)

(* No sequence of removals, refreshes, edits, undos and restarts leaves a  *)
(* fixed route without its server: then no configuration could be          *)
(* generated and a stopped core not be started ("server ref is stale").    *)
PinnedServersPresent == mem.pinned \subseteq Present(mem) /\ disk.pinned \subseteq Present(disk)

(* However the list is promoted, cut, refreshed or edited between a         *)
(* benchmark and the two sections of a status answer: the result of a link *)
(* that was in the list at the first section is shown as that profile's    *)
(* and never as another's, its aliases (links of one server) included; it  *)
(* is not lost while the profile stands there at the second section, and   *)
(* not shown once a profile of another server does                         *)
(* (remap_completed_bench_result_ids, handle_bench_status).                *)
ResultsKeepTheirLinks ==
  [][\A c \in Clients : AnswerStatus(c) =>
       \A d \in thread[c].due :
         LET stands == d.id \in DOMAIN mem.list
         IN  /\ {r \in shown' : r.raw = d.raw} \subseteq {d}
             /\ stands /\ mem.list[d.id].raw = d.raw => d \in shown'
             /\ d \in shown' => stands /\ ServerAt(mem, d.id) = ServerOf[d.raw]]_vars

(* The positions are invisible: the list behaves as a store of links in    *)
(* which the active one changes only by choice, edit, undo or its removal, *)
(* through every renumbering, failing save, undo and restart.              *)
StoreOf(m) == [profiles |-> ToSet(m.list), active |-> Active(m)]

Store == INSTANCE ProfileStore WITH
  now <- StoreOf(mem), saved <- StoreOf(disk),
  kept <- {StoreOf(undo[k]) : k \in DOMAIN undo}, serving <- core.serves

ImplementsStore == Store!Spec

=============================================================================
