----------------------------- MODULE DeepBench -----------------------------
(***************************************************************************)
(* The daily deep benchmark: started by the watchdog when it is due or by  *)
(* a request, cancelled by a request or the shutdown, reaped by the        *)
(* watchdog.  A tick of the watchdog acts on what it copied at its         *)
(* beginning; a start stores the thread's handle in a second critical      *)
(* section after the thread is running.                                    *)
(*                                                                         *)
(* Time is in hours since the epoch.  What a test measures, the status     *)
(* text and the settings (always enabled, on every weekday) are left out;  *)
(* so are the quick benchmarks, which only keep a deep one from starting,  *)
(* and the limit on the number of entries of the history.                  *)
(***************************************************************************)
EXTENDS Integers, FiniteSets

CONSTANTS
  Servers,            \* profiles that match the filter
  Times,              \* the hours at which something happens
  StartHour, EndHour, \* the window
  Runs,               \* names of worker threads; bounds the number of runs
  NoRun,
  MaxEvents           \* bound: starts, cancellations, shutdowns, failing calls, panics, crashes

ASSUME DeepBenchAssumption ==
  /\ Times \subseteq Nat /\ Times # {} /\ Servers # {} /\ NoRun \notin Runs
  /\ StartHour \in 0..23 /\ EndHour \in 0..23

VARIABLES
  now,       \* the time
  job,       \* inner: active, the cancellation flag and handle that are kept (as the run)
  worker,    \* threads: phase, cancelled, date, servers to test and tested
  last,      \* settings: the hour a run was started, the date one was completed
  history,   \* quality_history in memory: entries [date, server]
  disk,      \* `last' in state.json and quality-history.json
  dirty,
  wd,        \* the watchdog: step, run it starts, the snapshot of its tick
  starter,   \* the request thread of a start: step, run
  main,      \* the accepting thread: step, the run it joins at shutdown
  raced,     \* a start was not seen by a tick under way (read by properties only)
  doneOn,    \* dates on which a run was completed or cancelled (likewise)
  misread,   \* the history could not be read (likewise)
  events

vars == <<now, job, worker, last, history, disk, dirty, wd, starter, main,
          raced, doneOn, misread, events>>
----------------------------------------------------------------------------
(* The calendar, in 64-bit arithmetic that does not overflow here.         *)
DayOf(t) == t \div 24
HourOf(t) == t % 24

(* yyyymmdd_from_unix *)
DateOf(t) ==
  LET z == DayOf(t) + 719468
      era == z \div 146097
      doe == z - era * 146097
      yoe == (doe - doe \div 1460 + doe \div 36524 - doe \div 146096) \div 365
      doy == doe - (365 * yoe + yoe \div 4 - yoe \div 100)
      mp == (5 * doy + 2) \div 153
      d == doy - (153 * mp + 2) \div 5 + 1
      m == IF mp < 10 THEN mp + 3 ELSE mp - 9
      y == yoe + era * 400 + (IF m <= 2 THEN 1 ELSE 0)
  IN  y * 10000 + m * 100 + d

Dates == {DateOf(t) : t \in Times}
Entries == [date: Dates, server: Servers]

DueAgain ==
  /\ StartHour < EndHour /\ HourOf(now) \in StartHour..(EndHour - 1)
  /\ last.run # 0 => now - last.run >= 1
Due ==
  /\ StartHour < EndHour /\ HourOf(now) \in StartHour..(EndHour - 1)
  /\ last.completed # DateOf(now)
  /\ last.run # 0 => now - last.run >= 1

(* cap_quality_history *)
Capped(entries, today) == {e \in entries : e.date >= today - 30}

NoJob == [active |-> FALSE, cancel |-> NoRun, handle |-> NoRun]
Unborn == [phase |-> "unborn", cancelled |-> FALSE, date |-> 0, todo |-> {}, tested |-> {}]
Asleep == [step |-> "sleep", run |-> NoRun, deep |-> FALSE]
Flushes == [Asleep EXCEPT !.step = "flush"]
NoStart == [step |-> "idle", run |-> NoRun]
Serving == [step |-> "serving", run |-> NoRun]

Live == {r \in Runs : worker[r].phase \notin {"unborn", "ended"}}
Finished(r) == worker[r].phase = "ended"

TypeOK ==
  /\ now \in Times /\ dirty \in BOOLEAN
  /\ job \in [active: BOOLEAN, cancel: Runs \cup {NoRun}, handle: Runs \cup {NoRun}]
  /\ \A r \in Runs :
       /\ worker[r].phase \in {"unborn", "a", "b", "save", "ended"}
       /\ worker[r].todo \cup worker[r].tested \subseteq Servers
  /\ last.run \in Times \cup {0} /\ last.completed \in Dates \cup {0}
  /\ history \cup disk.history \subseteq Entries
  /\ job.handle # NoRun => worker[job.handle].phase # "unborn"
  /\ wd.step \in {"sleep", "tick", "spawn", "handle", "reap", "join", "joining", "flush"}
  /\ starter.step \in {"idle", "spawn", "handle"} /\ main.step \in {"serving", "joining"}

Init ==
  /\ now \in {t \in Times : \A u \in Times : t <= u}
  /\ job = NoJob /\ worker = [r \in Runs |-> Unborn]
  /\ last = [run |-> 0, completed |-> 0]
  /\ history = {} /\ disk = [last |-> last, history |-> {}] /\ dirty = FALSE
  /\ wd = Asleep /\ starter = NoStart /\ main = Serving
  /\ raced = FALSE /\ doneOn = {} /\ misread = FALSE
  /\ events = 0
----------------------------------------------------------------------------
Happens == events < MaxEvents /\ events' = events + 1

(* The watchdog joins a thread without giving up the lock of `inner'.      *)
InnerFree == wd.step # "joining"

(* A run is entered as active, with its flag, before its thread exists.    *)
Enter(r) ==
  /\ worker[r].phase = "unborn" /\ \A d \in {wd, starter} : d.run # r
  /\ worker' = [worker EXCEPT ![r] = Unborn]
  /\ job' = [job EXCEPT !.active = TRUE, !.cancel = r]
  /\ last' = [last EXCEPT !.run = now] /\ dirty' = TRUE

SpawnedAtHour(r) == [worker EXCEPT ![r].phase = "a", ![r].date = now]
Spawned(r) == [worker EXCEPT ![r].phase = "a", ![r].date = DateOf(now)]
Unentered == [job EXCEPT !.active = FALSE, !.cancel = NoRun]
----------------------------------------------------------------------------
(* Requests: handle_deep_bench_start, in three steps.                      *)
StartDeepBench(r) ==
  /\ Happens /\ InnerFree /\ main = Serving /\ starter.step = "idle" /\ ~job.active
  /\ Enter(r) /\ starter' = [step |-> "spawn", run |-> r]
  /\ UNCHANGED <<now, history, disk, wd, main, raced, doneOn, misread>>

StarterSpawns ==
  /\ starter.step = "spawn"
  /\ \/ /\ worker' = Spawned(starter.run) /\ starter' = [starter EXCEPT !.step = "handle"]
        /\ UNCHANGED <<job, events>>
     \/ Happens /\ InnerFree /\ job' = Unentered /\ starter' = NoStart /\ UNCHANGED worker
  /\ UNCHANGED <<now, last, history, disk, dirty, wd, main, raced, doneOn, misread>>

StarterStoresHandle ==
  /\ starter.step = "handle" /\ InnerFree /\ job' = [job EXCEPT !.handle = starter.run]
  /\ starter' = NoStart
  /\ UNCHANGED <<now, worker, last, history, disk, dirty, wd, main, raced, doneOn, misread,
                 events>>

Cancelled(r) == IF r = NoRun THEN worker ELSE [worker EXCEPT ![r].cancelled = TRUE]

CancelDeepBench ==
  /\ Happens /\ InnerFree /\ main = Serving /\ job.cancel # NoRun /\ worker' = Cancelled(job.cancel)
  /\ UNCHANGED <<now, job, last, history, disk, dirty, wd, starter, main, raced, doneOn,
                 misread>>

----------------------------------------------------------------------------
(* The worker: run_deep_bench.                                             *)
Became(r, phase) == worker' = [worker EXCEPT ![r].phase = phase]
Ends(r) == worker' = [worker EXCEPT ![r] = [Unborn EXCEPT !.phase = "ended"]]

(* Completed and cancelled runs alike are the run of their date.           *)
Completed(r) ==
  /\ last' = [last EXCEPT !.completed = worker[r].date] /\ dirty' = TRUE
  /\ doneOn' = doneOn \cup {worker[r].date}

FinishPhaseA(r) ==
  /\ worker[r].phase = "a"
  /\ \/ /\ ~worker[r].cancelled
        /\ \E passed \in SUBSET Servers :
             worker' = [worker EXCEPT ![r].phase = "b", ![r].todo = passed]
        /\ UNCHANGED <<last, dirty, doneOn, events>>
     \/ InnerFree /\ worker[r].cancelled /\ Completed(r) /\ Ends(r) /\ UNCHANGED events
     \/ InnerFree /\ Happens /\ Ends(r) /\ dirty' = TRUE /\ UNCHANGED <<last, doneOn>>
  /\ UNCHANGED <<now, job, history, disk, wd, starter, main, raced, misread>>

(* One server of phase B; cancellation and the memory gate end the phase.  *)
StepPhaseB(r) ==
  /\ worker[r].phase = "b"
  /\ \/ /\ InnerFree /\ ~worker[r].cancelled
        /\ \E s \in worker[r].todo :
             worker' = [worker EXCEPT ![r].todo = @ \ {s}, ![r].tested = @ \cup {s}]
     \/ Became(r, "save")
  /\ UNCHANGED <<now, job, last, history, disk, dirty, wd, starter, main, raced, doneOn,
                 misread, events>>

KeptInMemory == history
Loaded == IF history = {} THEN disk.history ELSE history

(* The history is read lazily, extended, capped and written, in one        *)
(* critical section; an error of the write is only noted.                  *)
SaveHistory(r) ==
  LET measured == {[date |-> worker[r].date, server |-> s] : s \in worker[r].tested}
  IN  /\ worker[r].phase = "save" /\ InnerFree
      /\ \/ /\ history' = Capped(Loaded \cup measured,
                                 worker[r].date)
            /\ disk' = [disk EXCEPT !.history = history'] /\ UNCHANGED <<misread, events>>
         \/ /\ Happens /\ UNCHANGED misread
            /\ history' = Capped(Loaded \cup measured,
                                 worker[r].date)
            /\ UNCHANGED disk
         \/ /\ Happens /\ history = {} /\ misread' = TRUE
            /\ history' = Capped(measured, worker[r].date)
            /\ disk' = [disk EXCEPT !.history = history']
      /\ Completed(r) /\ Ends(r)
      /\ UNCHANGED <<now, job, wd, starter, main, raced>>

Panic(r) ==
  /\ Happens /\ r \in Live /\ Ends(r)
  /\ UNCHANGED <<now, job, last, history, disk, dirty, wd, starter, main, raced, doneOn,
                 misread>>
----------------------------------------------------------------------------
(* The watchdog: a tick copies, decides, reaps and flushes.                *)
LaunchesAnyway(deep) == Due
Launches(deep) == Due /\ ~deep

BeginTick ==
  /\ wd.step = "sleep" /\ main = Serving
  /\ wd' = [step |-> IF Launches(job.active) THEN "tick" ELSE IF job.active THEN "reap" ELSE "flush",
            run |-> NoRun, deep |-> job.active]
  /\ UNCHANGED <<now, job, worker, last, history, disk, dirty, starter, main, raced, doneOn,
                 misread, events>>

WatchdogStarts(r) ==
  /\ wd.step = "tick"
  /\ Enter(r) /\ wd' = [wd EXCEPT !.step = "spawn", !.run = r]
  /\ raced' = (raced \/ (job.active /\ ~wd.deep))
  /\ UNCHANGED <<now, history, disk, starter, main, doneOn, misread, events>>

(* A quick benchmark is running, no profile matches or memory is short.    *)
WatchdogSkips ==
  /\ wd.step = "tick" /\ wd' = Flushes
  /\ UNCHANGED <<now, job, worker, last, history, disk, dirty, starter, main, raced, doneOn,
                 misread, events>>

WatchdogSpawns ==
  /\ wd.step = "spawn"
  /\ \/ /\ worker' = Spawned(wd.run) /\ wd' = [wd EXCEPT !.step = "handle"]
        /\ UNCHANGED <<job, events>>
     \/ /\ Happens /\ job' = Unentered /\ UNCHANGED worker
        /\ wd' = Flushes
  /\ UNCHANGED <<now, last, history, disk, dirty, starter, main, raced, doneOn, misread>>

WatchdogStoresHandle ==
  /\ wd.step = "handle" /\ job' = [job EXCEPT !.handle = wd.run]
  /\ wd' = Flushes
  /\ UNCHANGED <<now, worker, last, history, disk, dirty, starter, main, raced, doneOn, misread,
                 events>>

(* In a tick that began with an active job its thread is looked at, ...    *)
Reaps == job.handle = NoRun \/ Finished(job.handle)

LookAtHandle ==
  /\ wd.step = "reap"
  /\ wd' = [wd EXCEPT !.step = IF Reaps THEN "join" ELSE "flush"]
  /\ UNCHANGED <<now, job, worker, last, history, disk, dirty, starter, main, raced, doneOn,
                 misread, events>>

(* ... and joined in the next critical section: the handle that is there   *)
(* by then, of a thread that ends or, stored in between, of one that needs *)
(* the lock.                                                               *)
HandleTaken == [job EXCEPT !.handle = NoRun]
Reaped == NoJob
Join ==
  /\ wd.step = "join"
  /\ \/ job.handle \notin Live /\ job' = Reaped /\ wd' = Flushes
     \/ /\ job.handle \in Live /\ job' = [job EXCEPT !.handle = NoRun]
        /\ wd' = [wd EXCEPT !.step = "joining", !.run = job.handle]
  /\ raced' = (raced \/ starter.step # "idle" \/ job.handle \in Live)
  /\ UNCHANGED <<now, worker, last, history, disk, dirty, starter, main, doneOn, misread,
                 events>>

Joined ==
  /\ wd.step = "joining" /\ Finished(wd.run)
  /\ job' = Reaped /\ wd' = Flushes
  /\ UNCHANGED <<now, worker, last, history, disk, dirty, starter, main, raced, doneOn, misread,
                 events>>

Flush ==
  \/ dirty /\ disk' = [disk EXCEPT !.last = last] /\ dirty' = FALSE /\ UNCHANGED events
  \/ ~dirty /\ UNCHANGED <<disk, dirty, events>>
  \/ dirty /\ Happens /\ UNCHANGED <<disk, dirty>>

EndTick ==
  /\ wd.step = "flush" /\ wd' = Asleep /\ Flush
  /\ UNCHANGED <<now, job, worker, last, history, starter, main, raced, doneOn, misread>>
----------------------------------------------------------------------------
(* The process: shut down by cancelling and joining the run it knows, or   *)
(* killed; started again from the disk.                                    *)
Advance ==
  /\ now' \in {t \in Times : t > now}
  /\ UNCHANGED <<job, worker, last, history, disk, dirty, wd, starter, main, raced, doneOn,
                 misread, events>>

Shutdown ==
  /\ Happens /\ InnerFree /\ main = Serving
  /\ worker' = Cancelled(job.cancel)
  /\ main' = [step |-> "joining", run |-> job.handle] /\ job' = [job EXCEPT !.handle = NoRun]
  /\ UNCHANGED <<now, last, history, disk, dirty, wd, starter, raced, doneOn, misread>>

StartsFrom(settings) ==
  /\ job' = NoJob /\ worker' = [r \in Runs |-> Unborn] /\ last' = settings /\ history' = {}
  /\ dirty' = FALSE /\ wd' = Asleep /\ starter' = NoStart /\ main' = Serving
  /\ raced' = FALSE /\ doneOn' = {settings.completed} \ {0} /\ misread' = FALSE
  /\ UNCHANGED now

(* The watchdog is waited for one second only.                             *)
ShutdownEnds ==
  /\ main.step = "joining" /\ InnerFree /\ main.run \notin Live
  /\ \/ disk' = [disk EXCEPT !.last = IF dirty THEN last ELSE @] /\ UNCHANGED events
     \/ dirty /\ Happens /\ UNCHANGED disk
  /\ StartsFrom(disk'.last)

Crash == Happens /\ UNCHANGED disk /\ StartsFrom(disk.last)
----------------------------------------------------------------------------
Tick == BeginTick \/ WatchdogSpawns \/ WatchdogStoresHandle \/ LookAtHandle \/ Join \/ Joined \/ EndTick
          \/ WatchdogSkips \/ \E r \in Runs : WatchdogStarts(r)
StarterStep == StarterSpawns \/ StarterStoresHandle
WorkerStep(r) == FinishPhaseA(r) \/ StepPhaseB(r) \/ SaveHistory(r)

Next ==
  \/ \E r \in Runs : StartDeepBench(r) \/ WorkerStep(r) \/ Panic(r)
  \/ CancelDeepBench \/ StarterStep \/ Tick
  \/ Advance \/ Shutdown \/ ShutdownEnds \/ Crash

(* The threads are scheduled, and a measurement ends by its timeouts.      *)
Fairness ==
  /\ WF_vars(Tick) /\ WF_vars(StarterStep) /\ WF_vars(ShutdownEnds)
  /\ \A r \in Runs : WF_vars(WorkerStep(r))

Spec == Init /\ [][Next]_vars
FairSpec == Spec /\ Fairness
----------------------------------------------------------------------------
(* A running test can be cancelled, unless it already is, whatever the     *)
(* watchdog, requests and the shutdown do meanwhile - except when a start  *)
(* overlaps a tick that does not know it.  In particular at most one run   *)
(* is not cancelled.                                                       *)
CancelReachesRun ==
  ~raced => \A r \in Live : worker[r].cancelled \/ (job.active /\ job.cancel = r)

(* The watchdog starts no run for a date on which a run was completed or   *)
(* cancelled, be it by a request, before a restart or over midnight.       *)
OncePerDay ==
  [][(\E r \in Runs : WatchdogStarts(r)) /\ ~raced' => DateOf(now) \notin doneOn]_vars

SameMonth(date) == date \div 100 = DateOf(now) \div 100

(* A result on disk of this month stays there, through failed writes,      *)
(* cancelled runs and restarts, if the file could always be read.  (The    *)
(* cap subtracts 30 from yyyymmdd, which keeps the calendar month and not  *)
(* 30 days.)                                                               *)
HistorySurvives ==
  [][\A e \in disk.history : SameMonth(e.date)' /\ ~misread' => e \in disk'.history]_vars

(* A run that is over does not block the next: the job is cleared.         *)
ActiveClears == job.active ~> ~job.active \/ raced

(* "The function blocks the worker thread but never the watchdog."         *)
WatchdogNeverBlocked == ~(wd.step = "joining" /\ wd.run \in Live)
=============================================================================
