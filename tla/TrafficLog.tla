----------------------------- MODULE TrafficLog -----------------------------
(***************************************************************************)
(* Mihomo's log and what the watchdog learns from it: the cursor that      *)
(* reads appended lines, the rotation in place by the watchdog and by      *)
(* every start of the core, the queue of domains that failed directly, and *)
(* their probes, whose result is stored if the apply lock is free.         *)
(*                                                                         *)
(* A line has length one and, by its number, a domain; lines are complete. *)
(* The core does not log while it is down, so no line is appended between  *)
(* truncation and generation mark of a start.  The other reader of the     *)
(* log, a profile's diagnostics, has a cursor of its own.                  *)
(***************************************************************************)
EXTENDS Integers, FiniteSets, Sequences, SequencesExt

CONSTANTS
  Domains, NoDomain,   \* NoDomain: a line that is no failed direct dial
  DomainOf(_),         \* the domain in a line
  Lines,               \* bound: lines that Mihomo writes
  StartLimit,          \* length above which a start rotates (1 MiB)
  TickLimit,           \* length above which the watchdog does (8 MiB)
  ReadLimit,           \* lines read at once (1 MiB)
  MaxPending,          \* MAX_AUTO_VPN_PENDING_DOMAINS
  BatchSize,           \* candidates of one cycle (3)
  MaxExceptions,       \* MAX_AUTO_VPN_EXCEPTIONS
  MaxRequests          \* bound: stops of the core and edits of the settings

ASSUME TrafficLogAssumption ==
  /\ {Lines, StartLimit, TickLimit, ReadLimit, MaxPending, BatchSize, MaxExceptions, MaxRequests} \subseteq Nat
  /\ StartLimit <= TickLimit /\ ReadLimit > 0 /\ MaxPending > 0 /\ BatchSize > 0
  /\ NoDomain \notin Domains /\ \A n \in 1..Lines : DomainOf(n) \in Domains \cup {NoDomain}

VARIABLES
  log,         \* the file: the numbers of its lines
  generation,  \* the generation file, as a number
  written,     \* lines written so far
  core,        \* "up", "down", or a start that has "truncated" the log
  cursor,      \* MihomoLogCursor: offset, generation
  wd,          \* the watchdog: step, whether it learns, generation when it opened the file
  pending,     \* pending_auto_vpn_domains
  probe,       \* a learning cycle: batch, domains it left out, candidates
  enabled,     \* auto_vpn_learning_enabled
  exceptions,  \* auto_vpn_exceptions
  recent,      \* domains whose last check is less than a day ago
  handled,     \* lines the cursor read or stepped over (read by properties only)
  unmarked,    \* a rotation did not record its generation (likewise)
  outrun,      \* the log was rotated under a read (likewise)
  requests

vars == <<log, generation, written, core, cursor, wd, pending, probe, enabled, exceptions, recent,
          handled, unmarked, outrun, requests>>
files == <<log, generation, written, core, unmarked>>
learning == <<pending, probe, enabled, exceptions, recent>>
----------------------------------------------------------------------------
Asleep == [step |-> "sleep", learns |-> FALSE, seen |-> 0]
NoProbe == [batch |-> <<>>, left |-> {}, candidates |-> {}]

(* read_new_text: a shorter file and a new generation begin a new log.     *)
ByLength == IF Len(log) < cursor.offset THEN 0 ELSE cursor.offset
NextOffset ==
  IF cursor.generation # generation \/ Len(log) < cursor.offset THEN 0 ELSE cursor.offset

(* The front of the queue gives way to a new domain.                       *)
Queued(queue, domain) ==
  IF domain = NoDomain \/ domain \in ToSet(queue) THEN queue
  ELSE (IF Len(queue) >= MaxPending THEN Tail(queue) ELSE queue) \o <<domain>>

(* The queue after the domains of some lines, one line after the other.    *)
QueuedAll(lines) ==
  LET after[n \in 0..Len(lines)] ==
        IF n = 0 THEN pending ELSE Queued(after[n - 1], DomainOf(lines[n]))
  IN  after[Len(lines)]

(* dedup_limited_domains *)
Limited(domains) ==
  IF Len(domains) <= MaxExceptions THEN domains
  ELSE SubSeq(domains, Len(domains) - MaxExceptions + 1, Len(domains))

TypeOK ==
  /\ log \in Seq(1..Lines) /\ generation \in Nat /\ written \in 0..Lines
  /\ core \in {"up", "down", "truncated"} /\ cursor \in [offset: Nat, generation: 0..generation]
  /\ wd.step \in {"sleep", "tick", "looked", "measured", "learn", "probing", "rotate", "mark"}
  /\ pending \in Seq(Domains) /\ Len(pending) <= MaxPending /\ IsInjective(pending)
  /\ exceptions \in Seq(Domains) /\ Len(exceptions) <= MaxExceptions /\ IsInjective(exceptions)
  /\ recent \subseteq Domains /\ probe.candidates \subseteq Domains
  /\ Cardinality(probe.candidates) <= BatchSize

Init ==
  /\ log = <<>> /\ generation = 0 /\ written = 0 /\ core = "down"
  /\ cursor = [offset |-> 0, generation |-> 0] /\ wd = Asleep
  /\ pending = <<>> /\ probe = NoProbe
  /\ enabled = TRUE /\ exceptions = <<>> /\ recent = {}
  /\ handled = {} /\ unmarked = FALSE /\ outrun = FALSE /\ requests = 0
----------------------------------------------------------------------------
(* Mihomo, and whoever starts and stops it.                                *)
Append1 ==
  /\ core = "up" /\ written < Lines /\ written' = written + 1 /\ log' = Append(log, written + 1)
  /\ UNCHANGED <<generation, core, cursor, wd, learning, handled, unmarked, outrun, requests>>

(* rotate_log_in_place: truncated, then the generation written, or not.    *)
Marks ==
  \/ generation' = generation + 1 /\ UNCHANGED unmarked
  \/ unmarked' = TRUE /\ UNCHANGED generation

StartCore ==
  /\ core = "down"
  /\ IF Len(log) > StartLimit THEN log' = <<>> /\ core' = "truncated"
                              ELSE core' = "up" /\ UNCHANGED log
  /\ UNCHANGED <<generation, written, cursor, wd, learning, handled, unmarked, outrun, requests>>

StartGoesOn ==
  /\ core = "truncated" /\ Marks /\ core' = "up"
  /\ UNCHANGED <<log, written, cursor, wd, learning, handled, outrun, requests>>

StopCore ==
  /\ core = "up" /\ core' = "down" /\ requests < MaxRequests /\ requests' = requests + 1
  /\ UNCHANGED <<log, generation, written, cursor, wd, learning, handled, unmarked, outrun>>
----------------------------------------------------------------------------
(* The settings, edited under the apply lock; a day passes.                *)
EditSettings ==
  /\ requests < MaxRequests /\ requests' = requests + 1
  /\ \/ enabled' = ~enabled /\ UNCHANGED exceptions
     \/ /\ \E d \in Domains : exceptions' = Limited(SelectSeq(exceptions, LAMBDA e : e # d) \o <<d>>)
        /\ UNCHANGED enabled
     \/ exceptions # <<>> /\ exceptions' = <<>> /\ UNCHANGED enabled
  /\ UNCHANGED <<files, cursor, wd, pending, probe, recent, handled, outrun>>

CheckExpires ==
  /\ \E d \in recent : recent' = recent \ {d}
  /\ UNCHANGED <<files, cursor, wd, pending, probe, enabled, exceptions, handled, outrun, requests>>
----------------------------------------------------------------------------
(* The watchdog: reads or skips the log, ...                               *)
BeginTick ==
  /\ wd.step = "sleep"
  /\ wd' = [step |-> "tick", learns |-> core = "up" /\ enabled, seen |-> 0]
  /\ UNCHANGED <<files, cursor, learning, handled, outrun, requests>>

Look ==
  /\ wd.step = "tick" /\ wd.learns
  /\ cursor' = [offset |-> NextOffset, generation |-> generation]
  /\ wd' = [wd EXCEPT !.step = "looked", !.seen = generation]
  /\ UNCHANGED <<files, learning, handled, outrun, requests>>

NewLines ==
  SubSeq(log, cursor.offset + 1,
         IF cursor.offset + ReadLimit < Len(log) THEN cursor.offset + ReadLimit ELSE Len(log))

Read ==
  /\ wd.step = "looked" /\ wd' = [wd EXCEPT !.step = "learn"]
  /\ cursor' = [cursor EXCEPT !.offset = @ + Len(NewLines)]
  /\ handled' = handled \cup ToSet(NewLines)
  /\ pending' = QueuedAll(NewLines)
  /\ outrun' = (outrun \/ wd.seen # generation)
  /\ UNCHANGED <<files, probe, enabled, exceptions, recent, requests>>

ReadFails ==
  /\ wd.step = "tick" /\ wd.learns /\ wd' = [wd EXCEPT !.step = "learn"]
  /\ UNCHANGED <<files, cursor, learning, handled, outrun, requests>>

(* start_at_end takes the length of the log, then its generation.          *)
Measure ==
  /\ wd.step = "tick" /\ ~wd.learns
  /\ pending' = <<>> /\ cursor' = [cursor EXCEPT !.offset = Len(log)]
  /\ handled' = handled \cup ToSet(log) /\ wd' = [wd EXCEPT !.step = "measured", !.seen = generation]
  /\ UNCHANGED <<files, probe, enabled, exceptions, recent, outrun, requests>>

SkipToEnd ==
  /\ wd.step = "measured" /\ cursor' = [cursor EXCEPT !.generation = generation]
  /\ outrun' = (outrun \/ wd.seen # generation) /\ wd' = [wd EXCEPT !.step = "rotate"]
  /\ UNCHANGED <<files, learning, handled, requests>>
----------------------------------------------------------------------------
(* ... probes the oldest pending domains every third tick, with domains of *)
(* the connection log and exceptions to be checked again, without a lock,  *)
Batch == SubSeq(pending, 1, IF Len(pending) < BatchSize THEN Len(pending) ELSE BatchSize)

BeginLearning ==
  /\ wd.step = "learn" /\ wd' = [wd EXCEPT !.step = "probing"]
  /\ IF ~enabled THEN probe' = [batch |-> Batch, left |-> ToSet(Batch), candidates |-> {}]
     ELSE LET fresh == ToSet(Batch) \ (ToSet(exceptions) \cup recent)
          IN  \E others \in SUBSET (Domains \ recent) :
                /\ Cardinality(fresh \cup others) <= BatchSize
                /\ probe' = [batch |-> Batch, left |-> ToSet(Batch) \ fresh,
                             candidates |-> fresh \cup others]
  /\ UNCHANGED <<files, cursor, pending, enabled, exceptions, recent, handled, outrun, requests>>

(* Not this tick, or no controller to probe with.                          *)
NoLearning ==
  /\ wd.step = "learn" /\ wd' = [wd EXCEPT !.step = "rotate"]
  /\ UNCHANGED <<files, cursor, learning, handled, outrun, requests>>

Drained == SubSeq(pending, Len(probe.batch) + 1, Len(pending))

Undrained == pending

(* ... stores the verdicts if nobody applies a policy, and only then takes *)
(* the batch from the queue.                                               *)
Learn ==
  /\ wd.step = "probing"
  /\ \/ probe.candidates = {} /\ UNCHANGED <<exceptions, recent>>
     \/ probe.candidates # {} /\ ~enabled /\ UNCHANGED <<exceptions, recent>>
     \/ /\ probe.candidates # {} /\ enabled
        /\ recent' = recent \cup probe.candidates
        /\ \E direct \in SUBSET probe.candidates : \E proxied \in SUBSET (probe.candidates \ direct) :
             LET kept == SelectSeq(exceptions, LAMBDA e : e \notin direct)
             IN  exceptions' = Limited(kept \o SetToSeq(proxied \ ToSet(kept)))
  /\ pending' = Drained /\ probe' = NoProbe /\ wd' = [wd EXCEPT !.step = "rotate"]
  /\ UNCHANGED <<files, cursor, enabled, handled, outrun, requests>>

LearnFails ==
  /\ wd.step = "probing" /\ probe' = NoProbe /\ wd' = [wd EXCEPT !.step = "rotate"]
  /\ pending' = Undrained
  /\ UNCHANGED <<files, cursor, enabled, exceptions, recent, handled, outrun, requests>>
----------------------------------------------------------------------------
(* Every sixth tick ends with a rotation.                                  *)
Rotate ==
  /\ wd.step = "rotate" /\ Len(log) > TickLimit
  /\ log' = <<>> /\ wd' = [wd EXCEPT !.step = "mark"]
  /\ UNCHANGED <<generation, written, core, cursor, learning, handled, unmarked, outrun, requests>>

MarkRotation ==
  /\ wd.step = "mark" /\ Marks /\ wd' = Asleep
  /\ UNCHANGED <<log, written, core, cursor, learning, handled, outrun, requests>>

EndTick ==
  /\ wd.step = "rotate" /\ wd' = Asleep
  /\ UNCHANGED <<files, cursor, learning, handled, outrun, requests>>
----------------------------------------------------------------------------
Next ==
  \/ Append1 \/ StartCore \/ StartGoesOn \/ StopCore \/ EditSettings \/ CheckExpires
  \/ BeginTick \/ Look \/ Read \/ ReadFails \/ Measure \/ SkipToEnd
  \/ BeginLearning \/ NoLearning \/ Learn \/ LearnFails
  \/ Rotate \/ MarkRotation \/ EndTick

Spec == Init /\ [][Next]_vars
----------------------------------------------------------------------------
(* The cursor is exact: the lines in the file before the place where the   *)
(* next read begins were read or stepped over, those after it were not, no *)
(* matter who rotated the log, and how often, since the last read.  A      *)
(* rotation whose generation was not recorded may hide lines but repeats   *)
(* none; nothing is promised when a rotation falls between the two looks   *)
(* of one read, or while the watchdog itself is about to record one.       *)
CursorIsExact ==
  ~outrun /\ wd.step \notin {"looked", "measured", "mark"} =>
    \A i \in DOMAIN log :
      /\ i > NextOffset => log[i] \notin handled
      /\ i <= NextOffset /\ ~unmarked => log[i] \in handled

(* A domain taken from the queue after a learning cycle was checked within *)
(* a day or was left out with reason when the cycle chose its candidates,  *)
(* unless learning was switched off meanwhile; a cycle that could not      *)
(* store its verdicts takes none.                                          *)
DrainedAreDecided ==
  [][wd.step = "probing" /\ wd'.step # "probing" /\ enabled =>
       \A d \in ToSet(pending) \ ToSet(pending') : d \in probe.left \cup recent']_vars
=============================================================================
