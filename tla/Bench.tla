------------------------------- MODULE Bench -------------------------------
(***************************************************************************)
(* The benchmark runtime: a client starts a job (handle_bench_start), a    *)
(* pool of worker threads takes profiles from its queue, probes them and   *)
(* records what it saw (run_bench_with_probe), a memory monitor or a stop  *)
(* cancels it, and the next job may start.  An adaptive search is a job    *)
(* that ends at `target` good servers; its candidates are ordered by what  *)
(* earlier jobs left in the statistics (order_adaptive_search_candidates). *)
(*                                                                         *)
(* What a probe finds is fixed by `able`, the truth about every server, so *)
(* that a property can compare what a job reports with it.  Every server   *)
(* has an endpoint of its own (the round robin over endpoints is then the  *)
(* identity); latency, speed and error texts are left out.  The actions on *)
(* the profile list after a full job are in module Profiles.               *)
(***************************************************************************)
EXTENDS Naturals, Positions, SequencesExt

CONSTANTS
  ProfileList,   \* the profiles, in the order of the list
  ServerOf,      \* the server (canonical identity) a profile reaches
  Worlds,        \* what the servers can do: each a set of "ping" and services
  DeadChoices,   \* which servers may be in Dead Servers
  Requests,      \* the jobs clients ask for, a subset of RequestSet
  MaxWorkers,    \* worker threads a job may be given
  Stoppers,      \* clients that call stop
  Nobody,        \* no profile
  CursorSpan,    \* bound: the search cursor is kept modulo CursorSpan
  MaxStops,      \* bound: calls of stop, and memory alarms, together
  MaxAged        \* bound: times the history of a server becomes too old

Services == <<"youtube", "telegram", "ai">>
Kinds == {"search", "quick", "full", "checks"}
(* Service checks are for the availability methods, which bring no native  *)
(* history; a native search always stops at the first failed service.      *)
ValidRequest(r) ==
  /\ r.kind = "checks" => r.availability
  /\ r.kind = "search" => (r.target \in 1..20 /\ (~r.failFast => r.availability))
  /\ r.concurrency \in 1..6
  /\ r.rejectNoPing => r.kind = "checks"

RequestSet ==
  [kind: Kinds, target: 0..20, required: 1..3, failFast: BOOLEAN,
   rejectNoPing: BOOLEAN, availability: BOOLEAN, concurrency: 1..6]

Profiles == ToSet(ProfileList)
BenchServers == {ServerOf[p] : p \in Profiles}
Workers == 1..MaxWorkers

ASSUME BenchAssumption ==
  /\ ProfileList \in Seq(Profiles) /\ IsInjective(ProfileList) /\ Nobody \notin Profiles
  /\ Requests \subseteq RequestSet /\ \A r \in Requests : ValidRequest(r)
  /\ CursorSpan \in Nat \ {0} /\ MaxStops \in Nat /\ MaxAged \in Nat
  /\ MaxWorkers \in Nat \ {0}
  /\ Worlds \subseteq [BenchServers -> SUBSET ({"ping"} \cup ToSet(Services))]
  /\ DeadChoices \subseteq SUBSET BenchServers

VARIABLES
  able,        \* the truth: what each server can do
  dead,        \* servers moved to Dead Servers
  history,     \* what the last service check of a server left
  searchCursor, \* profile_search_cursor
  job,         \* the job's public record, BenchJob
  queue,       \* its queue
  cancel,      \* its cancellation flag
  workers,     \* what each worker thread is doing
  stoppers,    \* what each stop handler is doing
  handle,      \* is the join handle of the job in BenchRuntime?
  spent        \* stops and ageings so far (bounds)

jobVars == <<job, queue, cancel>>
benchVars == <<able, dead, history, searchCursor, job, queue, cancel, workers, stoppers, handle, spent>>
----------------------------------------------------------------------------
(* Probing one profile.  A test is "ok", "fail" or "skip".                 *)
Tests == [1..3 -> {"ok", "fail", "skip"}]
Skipped == [i \in 1..3 |-> "skip"]

(* What the services would answer through server s.                        *)
Truth(s) == [i \in 1..3 |-> IF Services[i] \in able[s] THEN "ok" ELSE "fail"]

(* Services are probed in order: none beyond the required prefix, and with *)
(* fail-fast none after the first that failed.                             *)
ServiceProbes(truth, required, failFast) ==
  [i \in 1..3 |->
     IF i > required \/ (failFast /\ \E j \in 1..(i - 1) : truth[j] = "fail")
       THEN "skip" ELSE truth[i]]

(* With reject_no_ping nothing is asked of a server no ping reached.       *)
ProbesAfterPing(request, s) ==
  IF request.rejectNoPing /\ "ping" \notin able[s]
    THEN Skipped
    ELSE ServiceProbes(Truth(s), request.required, request.failFast)

(* service_resource_outcome: is the job's policy satisfied?                *)
PrefixComplete(tests, required) == \A i \in 1..required : tests[i] = "ok"
Outcome(request, ping, tests) ==
  ping /\ PrefixComplete(tests, IF request.kind = "checks" THEN request.required ELSE 3)

(* adaptive_result_is_good: counts towards the target of a search.         *)
AdaptiveGood(result, required) ==
  result.ping /\ PrefixComplete(result.tests, required)

(* The result of a search candidate, which was reached by its preflight.   *)
AdaptiveResult(request, p) ==
  LET tests == ServiceProbes(Truth(ServerOf[p]), request.required, request.failFast)
  IN  [profile |-> p, ping |-> TRUE, tests |-> tests,
       success |-> \A i \in 1..3 : tests[i] # "fail"]

(* The result of the other service methods.                                *)
ServiceResult(request, p) ==
  LET ping  == "ping" \in able[ServerOf[p]]
      tests == ProbesAfterPing(request, ServerOf[p])
  IN  [profile |-> p, ping |-> ping, tests |-> tests, success |-> Outcome(request, ping, tests)]

Results == [profile: Profiles, ping: BOOLEAN, tests: Tests, success: BOOLEAN]
NoResult == [profile |-> Nobody, ping |-> FALSE, tests |-> Skipped, success |-> FALSE]
NoHistory == [ping |-> FALSE, tests |-> Skipped]
----------------------------------------------------------------------------
(* Which profiles a job tests, and in which order.                         *)
Selected == Kept(ProfileList, {i \in DOMAIN ProfileList : ServerOf[ProfileList[i]] \notin dead})

(* The first profile of every server that is not dead.                     *)
Candidates ==
  Kept(ProfileList, {i \in DOMAIN ProfileList :
         /\ ServerOf[ProfileList[i]] \notin dead
         /\ \A j \in 1..(i - 1) : ServerOf[ProfileList[j]] # ServerOf[ProfileList[i]]})

(* How many services of the prefix the last check proved.                  *)
Tier(s) ==
  LET tests == history[s].tests
  IN  IF ~history[s].ping \/ tests[1] # "ok" THEN 0
      ELSE IF tests[2] # "ok" THEN 1
      ELSE IF tests[3] # "ok" THEN 2 ELSE 3

(* A skipped service is unknown, not a failure.                            *)
ServiceKnown(s, required) ==
  \/ Tier(s) >= required
  \/ \E i \in 1..required : history[s].tests[i] = "fail"

Lane(request, s) ==
  IF request.availability \/ ~ServiceKnown(s, request.required) THEN 2
  ELSE IF Tier(s) >= request.required THEN 1 ELSE 3

(* The unknown take turns at being first.                                  *)
RotatedLeft(s, turn) ==
  [i \in DOMAIN s |-> s[IF i + turn <= Len(s) THEN i + turn ELSE i + turn - Len(s)]]

Lanes(request) ==
  LET InLane(k) == {i \in DOMAIN Candidates : Lane(request, ServerOf[Candidates[i]]) = k}
      Proven(t) == Kept(Candidates, {i \in InLane(1) : Tier(ServerOf[Candidates[i]]) = t})
      unknown == Kept(Candidates, InLane(2))
      turn    == IF unknown = <<>> THEN 0 ELSE (searchCursor \div 4) % Len(unknown)
  IN  <<Proven(3) \o Proven(2) \o Proven(1), RotatedLeft(unknown, turn), Kept(Candidates, InLane(3))>>

NoExploration(slot) == <<1, 2, 3>>

(* One slot in four goes to a server nothing is known of.                  *)
Preference(slot) == IF (slot + searchCursor) % 4 = 3 THEN <<2, 1, 3>> ELSE <<1, 2, 3>>

(* Each slot goes to the preferred lane that has a server left.            *)
LaneOfSlot(lanes, taken, slot) ==
  LET preferred == Preference(slot)
      open      == {r \in 1..3 : taken[preferred[r]] < Len(lanes[preferred[r]])}
  IN  preferred[CHOOSE r \in open : \A q \in open : r <= q]

Merged(lanes) ==
  LET slots == Len(lanes[1]) + Len(lanes[2]) + Len(lanes[3])
      taken[n \in 0..slots] ==
        IF n = 0 THEN <<0, 0, 0>>
        ELSE LET before == taken[n - 1]
             IN  [before EXCEPT ![LaneOfSlot(lanes, before, n - 1)] = @ + 1]
      From(before, lane) == lanes[lane][before[lane] + 1]
  IN  [n \in 1..slots |-> From(taken[n - 1], LaneOfSlot(lanes, taken[n - 1], n - 1))]

OrderedCandidates(request) == Merged(Lanes(request))
----------------------------------------------------------------------------
NoRequest == [kind |-> "full", target |-> 0, required |-> 3, failFast |-> FALSE,
              rejectNoPing |-> FALSE, availability |-> FALSE, concurrency |-> 0]
NoJob == [request |-> NoRequest, running |-> FALSE, total |-> 0, threads |-> 0,
          completed |-> 0, results |-> <<>>, active |-> {}, found |-> 0,
          preflights |-> 0, rejected |-> 0, cancelRequested |-> FALSE,
          pressure |-> FALSE, finish |-> "none"]

IdleWorker == [step |-> "idle", profile |-> Nobody, result |-> NoResult]
Searching == job.request.kind = "search"
InHand == {workers[w].profile : w \in Workers} \ {Nobody}
Unused == UNCHANGED <<able, dead>>

(* BenchRuntime::is_running.                                               *)
IsRunning == job.running

(* handle_bench_stop holds the state lock from its look to its cancel.     *)
InnerFree == \A c \in Stoppers : stoppers[c] \notin {"cancel", "leave"}

BenchTypeOK ==
  /\ able \in Worlds /\ dead \in DeadChoices
  /\ \A s \in BenchServers : history[s].ping \in BOOLEAN /\ history[s].tests \in Tests
  /\ searchCursor \in 0..(CursorSpan - 1)
  /\ job.request \in Requests \cup {NoRequest} /\ job.running \in BOOLEAN
  /\ job.total \in 0..Len(ProfileList) /\ job.threads \in 0..MaxWorkers
  /\ job.completed \in 0..job.total /\ job.active \subseteq Profiles
  /\ ToSet(job.results) \subseteq Results /\ Len(job.results) <= job.completed
  /\ job.found \in Nat /\ job.preflights \in Nat /\ job.rejected \in 0..job.preflights
  /\ job.finish \in {"none", "cancelled", "target_reached", "exhausted"}
  /\ ToSet(queue) \subseteq Profiles /\ cancel \in BOOLEAN
  /\ \A w \in Workers :
       /\ workers[w].step \in {"idle", "take", "preflight", "probe", "probed", "record", "gone"}
       /\ workers[w].profile \in Profiles \cup {Nobody}
       /\ workers[w].result \in Results \cup {NoResult}
  /\ stoppers \in [Stoppers -> {"idle", "cancel", "leave", "joining"}]
  /\ handle \in BOOLEAN
  /\ spent \in [stops: 0..MaxStops, aged: 0..MaxAged]

BenchInit ==
  /\ able \in Worlds /\ dead \in DeadChoices
  /\ history = [s \in BenchServers |-> NoHistory]
  /\ searchCursor = 0
  /\ job = NoJob /\ queue = <<>> /\ cancel = FALSE
  /\ workers = [w \in Workers |-> IdleWorker]
  /\ stoppers = [c \in Stoppers |-> "idle"]
  /\ handle = FALSE
  /\ spent = [stops |-> 0, aged |-> 0]
----------------------------------------------------------------------------
(* Starting a job: one critical section, from the check that none runs to  *)
(* the handle in BenchRuntime.  Memory may allow fewer threads than asked  *)
(* for; with service checks that is refused.                               *)
Admitted(request, profiles, allowed) ==
  /\ allowed \in 1..request.concurrency
  /\ request.kind = "checks" =>
       allowed >= (IF request.concurrency < Len(profiles) THEN request.concurrency ELSE Len(profiles))

JobCountsServers(request, profiles, allowed) ==
  [NoJob EXCEPT !.request = request, !.running = TRUE, !.total = Len(Candidates),
                !.threads = IF allowed < Len(profiles) THEN allowed ELSE Len(profiles)]

NewJob(request, profiles, allowed) ==
  [NoJob EXCEPT !.request = request, !.running = TRUE, !.total = Len(profiles),
                !.threads = IF allowed < Len(profiles) THEN allowed ELSE Len(profiles)]

StartBench(request) ==
  LET profiles == IF request.kind = "search" THEN OrderedCandidates(request) ELSE Selected
  IN  /\ ~IsRunning /\ InnerFree /\ profiles # <<>>
      /\ \E allowed \in 1..MaxWorkers :
           /\ Admitted(request, profiles, allowed)
           /\ job' = NewJob(request, profiles, allowed)
      /\ workers' = [w \in Workers |-> IF w <= job'.threads THEN [IdleWorker EXCEPT !.step = "take"] ELSE IdleWorker]
      /\ queue' = profiles /\ cancel' = FALSE /\ handle' = TRUE
      /\ searchCursor' = IF request.kind = "search" THEN (searchCursor + 1) % CursorSpan ELSE searchCursor
      /\ Unused /\ UNCHANGED <<history, stoppers, spent>>
(* The cursor of a search cannot be saved, or no thread can be spawned:    *)
(* the reservation is released, and with it the record of the last job;    *)
(* the cursor is what it was.                                              *)
StartFails(request) ==
  /\ ~IsRunning /\ InnerFree
  /\ (IF request.kind = "search" THEN Candidates ELSE Selected) # <<>>
  /\ job' = NoJob /\ queue' = <<>> /\ cancel' = FALSE /\ handle' = FALSE
  /\ workers' = [w \in Workers |-> IdleWorker]
  /\ Unused /\ UNCHANGED <<history, searchCursor, stoppers, spent>>
----------------------------------------------------------------------------
(* The worker loop.                                                        *)
TakesWithoutSlot == Searching => job.found < job.request.target
MayTake == Searching => job.found + Cardinality(job.active) < job.request.target
TargetReached == Searching /\ job.found >= job.request.target

(* Admission and reservation are one critical section of the job lock.     *)
TakeProfile(w) ==
  /\ workers[w].step = "take" /\ ~cancel /\ MayTake /\ queue # <<>>
  /\ queue' = Tail(queue)
  /\ job' = [job EXCEPT !.active = @ \cup {Head(queue)}]
  /\ workers' = [workers EXCEPT ![w].profile = Head(queue),
                                ![w].step = IF Searching THEN "preflight" ELSE "probe"]
  /\ Unused /\ UNCHANGED <<history, searchCursor, cancel, stoppers, handle, spent>>

LeaveLoop(w) ==
  /\ workers[w].step = "take"
  /\ cancel \/ TargetReached \/ (MayTake /\ queue = <<>>)
  /\ workers' = [workers EXCEPT ![w].step = "gone"]
  /\ Unused /\ UNCHANGED <<history, searchCursor, jobVars, stoppers, handle, spent>>

(* A search asks through the candidate's proxy first; a candidate that     *)
(* does not answer is counted and leaves no result.                        *)
Preflight(w) ==
  LET passed == "ping" \in able[ServerOf[workers[w].profile]]
  IN  /\ workers[w].step = "preflight"
      /\ IF cancel THEN UNCHANGED job
         ELSE job' = [job EXCEPT !.preflights = @ + 1,
                                 !.rejected = IF passed THEN @ ELSE @ + 1]
      /\ workers' = [workers EXCEPT ![w].step = IF passed /\ ~cancel THEN "probe" ELSE "probed"]
      /\ Unused /\ UNCHANGED <<history, searchCursor, queue, cancel, stoppers, handle, spent>>

(* A search that is cancelled while it probes has no result; another job   *)
(* has one that reports the cancellation, and drops it below.              *)
Probe(w) ==
  /\ workers[w].step = "probe"
  /\ workers' = [workers EXCEPT ![w].step = "probed",
       ![w].result = IF cancel THEN NoResult
                     ELSE IF Searching THEN AdaptiveResult(job.request, workers[w].profile)
                     ELSE ServiceResult(job.request, workers[w].profile)]
  /\ Unused /\ UNCHANGED <<history, searchCursor, jobVars, stoppers, handle, spent>>

(* What was probed when the cancellation is seen is not counted.           *)
DropResult(w) ==
  /\ workers[w].step = "probed" /\ cancel
  /\ job' = [job EXCEPT !.active = @ \ {workers[w].profile}]
  /\ workers' = [workers EXCEPT ![w] = [IdleWorker EXCEPT !.step = "take"]]
  /\ Unused /\ UNCHANGED <<history, searchCursor, queue, cancel, stoppers, handle, spent>>

(* on_result: apply_bench_result replaces the tests of the statistics.     *)
Remembered(result) ==
  IF job.request.availability THEN NoHistory
  ELSE [ping |-> result.ping, tests |-> result.tests]

ReportResult(w) ==
  /\ workers[w].step = "probed" /\ ~cancel
  /\ \/ workers[w].result = NoResult /\ UNCHANGED history
     \/ /\ workers[w].result # NoResult /\ InnerFree
        /\ history' = [history EXCEPT ![ServerOf[workers[w].profile]] =
                         Remembered(workers[w].result)]
  /\ workers' = [workers EXCEPT ![w].step = "record"]
  /\ Unused /\ UNCHANGED <<searchCursor, jobVars, stoppers, handle, spent>>

(* Counts a good server once, however many results it has.                 *)
NewlyGood(result) ==
  /\ result # NoResult /\ Searching
  /\ AdaptiveGood(result, job.request.required)
  /\ \A i \in DOMAIN job.results :
       job.results[i].profile = result.profile =>
         ~AdaptiveGood(job.results[i], job.request.required)

RecordResult(w) ==
  LET result == workers[w].result
  IN  /\ workers[w].step = "record"
      /\ job' = [job EXCEPT
           !.active = @ \ {workers[w].profile}, !.completed = @ + 1,
           !.results = IF result = NoResult THEN @ ELSE Append(@, result),
           !.found = IF NewlyGood(result) THEN @ + 1 ELSE @]
      /\ workers' = [workers EXCEPT ![w] = [IdleWorker EXCEPT !.step = "take"]]
      /\ Unused /\ UNCHANGED <<history, searchCursor, queue, cancel, stoppers, handle, spent>>

(* The job's thread, when every worker has left.                           *)
FinishReason ==
  IF ~Searching THEN "none" ELSE IF cancel THEN "cancelled"
  ELSE IF TargetReached THEN "target_reached" ELSE "exhausted"

FinishJob ==
  /\ IsRunning /\ \A w \in Workers : workers[w].step \in {"idle", "gone"}
  /\ job' = [job EXCEPT !.running = FALSE, !.active = {}, !.finish = FinishReason]
  /\ workers' = [w \in Workers |-> IdleWorker]
  /\ stoppers' = [c \in Stoppers |-> IF stoppers[c] = "joining" THEN "idle" ELSE stoppers[c]]
  /\ Unused /\ UNCHANGED <<history, searchCursor, queue, cancel, handle, spent>>
----------------------------------------------------------------------------
(* handle_bench_stop: a look at the job, then the cancellation, both under *)
(* the state lock, but the workers need only the job's.  The handle is     *)
(* taken and joined after the lock is released.                            *)
StopLook(c) ==
  /\ stoppers[c] = "idle" /\ InnerFree /\ IsRunning /\ spent.stops < MaxStops
  /\ spent' = [spent EXCEPT !.stops = @ + 1]
  /\ stoppers' = [stoppers EXCEPT ![c] =
       IF job.completed < job.total /\ ~TargetReached THEN "cancel" ELSE "leave"]
  /\ Unused /\ UNCHANGED <<history, searchCursor, jobVars, workers, handle>>

StopAct(c) ==
  /\ stoppers[c] \in {"cancel", "leave"}
  /\ IF stoppers[c] = "cancel"
       THEN cancel' = TRUE /\ job' = [job EXCEPT !.cancelRequested = TRUE]
       ELSE UNCHANGED <<cancel, job>>
  /\ stoppers' = [stoppers EXCEPT ![c] = IF handle /\ IsRunning THEN "joining" ELSE "idle"]
  /\ handle' = FALSE
  /\ Unused /\ UNCHANGED <<history, searchCursor, queue, workers, spent>>

(* The monitor of an availability job: memory below the router's reserve.  *)
MemoryAlarm ==
  /\ IsRunning /\ job.request.availability /\ ~cancel /\ spent.stops < MaxStops
  /\ \E w \in Workers : workers[w].step \notin {"idle", "gone"}
  /\ cancel' = TRUE
  /\ job' = [job EXCEPT !.cancelRequested = TRUE, !.pressure = TRUE]
  /\ spent' = [spent EXCEPT !.stops = @ + 1]
  /\ Unused /\ UNCHANGED <<history, searchCursor, queue, workers, stoppers, handle>>

(* Six hours pass: the history of a server does not count any more.        *)
HistoryAges(s) ==
  /\ ~IsRunning /\ history[s] # NoHistory /\ spent.aged < MaxAged
  /\ history' = [history EXCEPT ![s] = NoHistory]
  /\ spent' = [spent EXCEPT !.aged = @ + 1]
  /\ Unused /\ UNCHANGED <<searchCursor, jobVars, workers, stoppers, handle>>

WorkerStep(w) ==
  \/ TakeProfile(w) \/ LeaveLoop(w) \/ Preflight(w) \/ Probe(w)
  \/ DropResult(w) \/ ReportResult(w) \/ RecordResult(w)

BenchNext ==
  \/ \E r \in Requests : StartBench(r) \/ StartFails(r)
  \/ \E w \in Workers : WorkerStep(w)
  \/ FinishJob \/ MemoryAlarm
  \/ \E c \in Stoppers : StopLook(c) \/ StopAct(c)
  \/ \E s \in BenchServers : HistoryAges(s)

(* A step that starts a job, seen from the job's record alone.             *)
JobStarts(request) ==
  /\ ~IsRunning /\ InnerFree /\ Candidates # <<>>
  /\ \E allowed \in 1..MaxWorkers :
       /\ Admitted(request, Candidates, allowed)
       /\ job' = NewJob(request, Candidates, allowed)

(* Threads run; a client that searches goes on searching.                  *)
Fairness ==
  /\ \A w \in Workers : WF_benchVars(WorkerStep(w))
  /\ WF_benchVars(FinishJob)
  /\ \A c \in Stoppers : WF_benchVars(StopAct(c))
  /\ \A r \in Requests : r.kind = "search" => SF_job(JobStarts(r))

BenchSpec == BenchInit /\ [][BenchNext]_benchVars /\ Fairness
----------------------------------------------------------------------------
Good(p) == \E i \in DOMAIN job.results :
  job.results[i].profile = p /\ AdaptiveGood(job.results[i], job.request.required)

(* However many workers probe at once, a search never finds more than its  *)
(* target, and the number it shows is the number of its good results       *)
(* (run_bench_with_probe: a slot is reserved before a candidate is taken). *)
(* A search that ends "exhausted" has missed no good server: every server  *)
(* that is not dead and can do what was asked is among the good results,   *)
(* and they are fewer than the target.  "target_reached" means as many as  *)
(* were asked for.                                                         *)
Capable(s) == /\ "ping" \in able[s]
              /\ \A i \in 1..job.request.required : Services[i] \in able[s]

SearchTellsTheTruth ==
  /\ Searching => /\ job.found <= job.request.target
                  /\ job.found = Cardinality({p \in Profiles : Good(p)})
  /\ job.finish = "exhausted" =>
       /\ job.found < job.request.target
       /\ \A s \in BenchServers \ dead : Capable(s) => \E p \in Profiles : ServerOf[p] = s /\ Good(p)
  /\ job.finish = "target_reached" => job.found = job.request.target

(* Between the queue, the workers and what is completed no profile is lost *)
(* or taken twice while the job is not cancelled, and a search asks a      *)
(* server once, whichever of its profiles is first.                        *)
CandidatesAccounted ==
  LET done  == {job.results[i].profile : i \in DOMAIN job.results}
      taken == ToSet(queue) \cup InHand \cup done
  IN  (IsRunning /\ ~cancel) =>
        /\ Len(queue) + Cardinality(InHand) + job.completed = job.total
        /\ Cardinality(taken) = Len(queue) + Cardinality(InHand) + Len(job.results)
        /\ Searching => \A p, q \in taken : ServerOf[p] = ServerOf[q] => p = q

(* A client that keeps searching gets to every server nothing is known of, *)
(* even while servers known to be good satisfy every search at once.       *)
ProbedNow(s) == \E w \in Workers : workers[w].profile # Nobody /\ ServerOf[workers[w].profile] = s

UnknownServersExplored ==
  \A s \in BenchServers : \A r \in Requests : r.kind = "search" =>
    ((s \notin dead /\ ~ServiceKnown(s, r.required)) ~> (ServiceKnown(s, r.required) \/ ProbedNow(s)))
=============================================================================
