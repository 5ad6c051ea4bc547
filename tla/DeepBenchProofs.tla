---------------------------- MODULE DeepBenchProofs ----------------------------
(***************************************************************************)
(* What holds of the daily deep benchmark for every set of servers, hours  *)
(* and runs: a running test can be cancelled, the watchdog runs once a     *)
(* day, and results of the month stay on disk.  The two last rest on the   *)
(* calendar: dates are in the order of the hours and in the days of a      *)
(* month, over every leap year.                                            *)
(***************************************************************************)
EXTENDS DeepBench, TLAPS

-----------------------------------------------------------------------------
(* The calendar: eras of 400 years of 365 or 366 days that begin in March. *)

EraOf(z) == z \div 146097
DayOfEra(z) == z - EraOf(z) * 146097
YearOfEra(doe) == (doe - doe \div 1460 + doe \div 36524 - doe \div 146096) \div 365
DayOfYear(doe, yoe) == doe - (365 * yoe + yoe \div 4 - yoe \div 100)
MonthFromMarch(doy) == (5 * doy + 2) \div 153
DayOfMonth(doy, mp) == doy - (153 * mp + 2) \div 5 + 1

Date(year, mp, d) ==
  IF mp < 10 THEN year * 10000 + (mp + 3) * 100 + d ELSE (year + 1) * 10000 + (mp - 9) * 100 + d

(* Eras count from 0, and an era has 146097 days.                          *)
LEMMA EraParts ==
  ASSUME NEW z \in Nat
  PROVE  EraOf(z) \in Nat /\ DayOfEra(z) \in Nat /\ DayOfEra(z) <= 146096
BY SMT DEF EraOf, DayOfEra

DayNumber(e, a) == a + 146097 * e
YearNumber(e, x) == x + e * 400

(* Days and years counted over eras are integers.                          *)
LEMMA NumbersTyped ==
  ASSUME NEW e \in Int, NEW a \in Int
  PROVE  DayNumber(e, a) \in Int /\ YearNumber(e, a) \in Int
BY SMT DEF DayNumber, YearNumber

(* A later day is in a later era, or later in the same one.                *)
LEMMA DayNumberOrder ==
  ASSUME NEW e \in Int, NEW a \in Int, 0 <= a, a <= 146096,
         NEW f \in Int, NEW b \in Int, 0 <= b, b <= 146096, DayNumber(e, a) <= DayNumber(f, b)
  PROVE  e < f \/ (e = f /\ a <= b)
<1>1. DayNumber(e, a) \in Int /\ DayNumber(f, b) \in Int
  BY NumbersTyped, SMT
<1>2. CASE e > f
  BY <1>2, SMT DEF DayNumber
<1>3. CASE e = f
  BY <1>3, SMT DEF DayNumber
<1> QED
  BY <1>1, <1>2, <1>3, SMT

(* Years are ordered by era, then by their place in it.                    *)
LEMMA YearNumberOrder ==
  ASSUME NEW e \in Int, NEW x \in Int, 0 <= x, x <= 399,
         NEW f \in Int, NEW y \in Int, 0 <= y, y <= 399, e < f \/ (e = f /\ x < y)
  PROVE  YearNumber(e, x) \in Int /\ YearNumber(f, y) \in Int /\ YearNumber(e, x) < YearNumber(f, y)
<1>1. CASE e < f
  BY <1>1, SMT DEF YearNumber
<1>2. CASE e = f /\ x < y
  BY <1>2, SMT DEF YearNumber
<1>3. YearNumber(e, x) \in Int /\ YearNumber(f, y) \in Int
  BY NumbersTyped, SMT
<1> QED
  BY <1>1, <1>2, <1>3, SMT

(* Era and day of era are monotone in the day.                             *)
LEMMA EraOrder ==
  ASSUME NEW z \in Nat, NEW w \in Nat, z <= w
  PROVE  EraOf(z) < EraOf(w) \/ (EraOf(z) = EraOf(w) /\ DayOfEra(z) <= DayOfEra(w))
<1>1. /\ EraOf(z) \in Nat /\ DayOfEra(z) \in Nat /\ DayOfEra(z) <= 146096
      /\ EraOf(w) \in Nat /\ DayOfEra(w) \in Nat /\ DayOfEra(w) <= 146096
  BY EraParts
<1>2. z = DayNumber(EraOf(z), DayOfEra(z)) /\ w = DayNumber(EraOf(w), DayOfEra(w))
  BY <1>1, SMT DEF DayOfEra, DayNumber
<1> QED
  BY <1>1, <1>2, DayNumberOrder, SMT

(* The correction of the year for leap days never leaves the era nor the   *)
(* year.                                                                   *)
LEMMA YearParts ==
  ASSUME NEW doe \in Nat, doe <= 146096
  PROVE  /\ YearOfEra(doe) \in 0..399
         /\ DayOfYear(doe, YearOfEra(doe)) \in 0..365
<1> DEFINE yoe == YearOfEra(doe)
           doy == DayOfYear(doe, yoe)
<1>1. yoe \in 0..399
  BY SMTT(60) DEF YearOfEra
<1>2. yoe = (doe - doe \div 1460 + doe \div 36524 - doe \div 146096) \div 365
  BY DEF YearOfEra
<1> HIDE DEF yoe
<1>3. doy \in Int /\ doy = doe - (365 * yoe + yoe \div 4 - yoe \div 100)
  BY <1>1 DEF DayOfYear
<1> HIDE DEF doy
<1>4. doy >= 0
  BY <1>1, <1>2, <1>3, SMTT(200)
<1>5. doy <= 365
  BY <1>1, <1>2, <1>3, SMTT(200)
<1> QED
  BY <1>1, <1>3, <1>4, <1>5 DEF yoe, doy

(* The year of the era is monotone in the day of the era.                  *)
LEMMA YearOrder ==
  ASSUME NEW a \in Nat, NEW b \in Nat, a <= b, b <= 146096
  PROVE  YearOfEra(a) <= YearOfEra(b)
BY SMTT(200) DEF YearOfEra

(* A day of the year has a month and a day between 1 and 31.               *)
LEMMA MonthParts ==
  ASSUME NEW doy \in 0..365
  PROVE  /\ MonthFromMarch(doy) \in 0..11
         /\ DayOfMonth(doy, MonthFromMarch(doy)) \in 1..31
BY SMTT(60) DEF MonthFromMarch, DayOfMonth

(* Month and day of the month are monotone in the day of the year.         *)
LEMMA MonthOrder ==
  ASSUME NEW a \in 0..365, NEW b \in 0..365, a <= b
  PROVE  \/ MonthFromMarch(a) < MonthFromMarch(b)
         \/ /\ MonthFromMarch(a) = MonthFromMarch(b)
            /\ DayOfMonth(a, MonthFromMarch(a)) <= DayOfMonth(b, MonthFromMarch(b))
<1>1. MonthFromMarch(a) <= MonthFromMarch(b)
  BY SMT DEF MonthFromMarch
<1>2. MonthFromMarch(a) \in 0..11 /\ MonthFromMarch(b) \in 0..11
  BY MonthParts
<1> QED
  BY <1>1, <1>2, SMT DEF DayOfMonth

(* Dates as numbers yyyymmdd are in the order of year, month and day.      *)
LEMMA DateOrder ==
  ASSUME NEW y \in Nat, NEW m \in 0..11, NEW d \in 1..31,
         NEW z \in Nat, NEW n \in 0..11, NEW e \in 1..31,
         y < z \/ (y = z /\ (m < n \/ (m = n /\ d <= e)))
  PROVE  Date(y, m, d) <= Date(z, n, e)
BY SMT DEF Date

(* A date yyyymmdd is a positive number from which dividing by 100 takes   *)
(* the day.                                                                *)
LEMMA DateTyped ==
  ASSUME NEW y \in Nat, NEW m \in 0..11, NEW d \in 1..31
  PROVE  /\ Date(y, m, d) \in Nat /\ Date(y, m, d) # 0
         /\ 100 * (Date(y, m, d) \div 100) < Date(y, m, d)
         /\ Date(y, m, d) <= 100 * (Date(y, m, d) \div 100) + 31
BY SMT DEF Date

(* yyyymmdd_from_unix, by its parts.                                       *)
DatesDay(t) == DayOf(t) + 719468
Year(t) == YearNumber(EraOf(DatesDay(t)), YearOfEra(DayOfEra(DatesDay(t))))
YearDay(t) == DayOfYear(DayOfEra(DatesDay(t)), YearOfEra(DayOfEra(DatesDay(t))))
Month(t) == MonthFromMarch(YearDay(t))
MonthDay(t) == DayOfMonth(YearDay(t), Month(t))

(* The parts of a date computed from a time are in their ranges.           *)
LEMMA TimeParts ==
  ASSUME NEW t \in Nat
  PROVE  /\ DatesDay(t) \in Nat /\ Year(t) \in Nat /\ YearDay(t) \in 0..365
         /\ Month(t) \in 0..11 /\ MonthDay(t) \in 1..31
<1>1. DatesDay(t) \in Nat
  BY DEF DatesDay, DayOf
<1>2. /\ EraOf(DatesDay(t)) \in Nat /\ DayOfEra(DatesDay(t)) \in Nat
      /\ DayOfEra(DatesDay(t)) <= 146096
  BY <1>1, EraParts
<1>3. YearOfEra(DayOfEra(DatesDay(t))) \in 0..399 /\ YearDay(t) \in 0..365
  BY <1>2, YearParts DEF YearDay
<1>4. Year(t) \in Nat
  BY <1>2, <1>3, SMT DEF Year, YearNumber
<1>5. Month(t) \in 0..11 /\ MonthDay(t) \in 1..31
  BY <1>3, MonthParts DEF Month, MonthDay
<1> QED
  BY <1>1, <1>3, <1>4, <1>5

(* The date of a time is one of Dates.                                     *)
LEMMA DateOfIsDate ==
  ASSUME NEW t \in Nat
  PROVE  DateOf(t) = Date(Year(t), Month(t), MonthDay(t))
<1>1. Year(t) \in Nat /\ Month(t) \in 0..11 /\ MonthDay(t) \in 1..31
  BY TimeParts
<1> DEFINE m == IF Month(t) < 10 THEN Month(t) + 3 ELSE Month(t) - 9
<1>2. DateOf(t) = (Year(t) + (IF m <= 2 THEN 1 ELSE 0)) * 10000 + m * 100 + MonthDay(t)
  BY SMT DEF DateOf, Year, YearNumber, YearDay, Month, MonthDay, DatesDay, EraOf, DayOfEra, YearOfEra, DayOfYear,
         MonthFromMarch, DayOfMonth
<1> QED
  BY <1>1, <1>2, SMT DEF Date

(* Dates are well formed: the last two digits are a day of a month.        *)
LEMMA DateOfTyped ==
  ASSUME NEW t \in Nat
  PROVE  /\ DateOf(t) \in Nat /\ DateOf(t) # 0
         /\ 100 * (DateOf(t) \div 100) < DateOf(t)
         /\ DateOf(t) <= 100 * (DateOf(t) \div 100) + 31
<1> DEFINE y == Year(t)
           m == Month(t)
           d == MonthDay(t)
<1>1. y \in Nat /\ m \in 0..11 /\ d \in 1..31 /\ DateOf(t) = Date(y, m, d)
  BY TimeParts, DateOfIsDate
<1> HIDE DEF y, m, d
<1>2. /\ Date(y, m, d) \in Nat /\ Date(y, m, d) # 0
      /\ 100 * (Date(y, m, d) \div 100) < Date(y, m, d)
      /\ Date(y, m, d) <= 100 * (Date(y, m, d) \div 100) + 31
  BY <1>1, DateTyped
<1> QED
  BY <1>1, <1>2

(* The year, with the day in it, of a later time is no earlier.            *)
LEMMA YearDayOrder ==
  ASSUME NEW t \in Nat, NEW u \in Nat, t <= u
  PROVE  Year(t) < Year(u) \/ (Year(t) = Year(u) /\ YearDay(t) <= YearDay(u))
<1> DEFINE z == DatesDay(t)
           w == DatesDay(u)
           e == EraOf(z)
           f == EraOf(w)
           a == DayOfEra(z)
           b == DayOfEra(w)
           x == YearOfEra(a)
           y == YearOfEra(b)
<1>1. z \in Nat /\ w \in Nat /\ z <= w
  BY SMT DEF DatesDay, DayOf
<1>2. Year(t) = YearNumber(e, x) /\ Year(u) = YearNumber(f, y)
  BY DEF Year
<1>3. YearDay(t) = DayOfYear(a, x) /\ YearDay(u) = DayOfYear(b, y)
  BY DEF YearDay
<1> HIDE DEF z, w
<1>4. e < f \/ (e = f /\ a <= b)
  BY <1>1, EraOrder
<1>5. e \in Nat /\ a \in Nat /\ a <= 146096 /\ f \in Nat /\ b \in Nat /\ b <= 146096
  BY <1>1, EraParts
<1> HIDE DEF e, f, a, b
<1>6. x \in 0..399 /\ y \in 0..399 /\ (a <= b => x <= y)
  BY <1>5, YearParts, YearOrder
<1> HIDE DEF x, y
<1>7. e \in Int /\ f \in Int /\ x \in Int /\ y \in Int /\ 0 <= x /\ x <= 399 /\ 0 <= y /\ y <= 399
  BY <1>5, <1>6, SMT
<1>8. CASE e < f
  <2>1. YearNumber(e, x) < YearNumber(f, y)
    BY <1>7, <1>8, YearNumberOrder, SMT
  <2> QED
    BY <1>2, <2>1, Zenon
<1>9. CASE e = f /\ a <= b /\ x < y
  <2>1. YearNumber(e, x) < YearNumber(f, y)
    BY <1>7, <1>9, YearNumberOrder, SMT
  <2> QED
    BY <1>2, <2>1, Zenon
<1>10. CASE e = f /\ a <= b /\ x = y
  <2>1. DayOfYear(a, x) <= DayOfYear(b, x)
    BY <1>5, <1>6, <1>10, SMT DEF DayOfYear
  <2> QED
    BY <1>2, <1>3, <1>10, <2>1
<1> QED
  BY <1>4, <1>6, <1>8, <1>9, <1>10, SMT

(* Dates never run backwards.                                              *)
THEOREM DateOfMonotone ==
  ASSUME NEW t \in Nat, NEW u \in Nat, t <= u
  PROVE  DateOf(t) <= DateOf(u)
<1> DEFINE a == YearDay(t)
           b == YearDay(u)
           m == Month(t)
           n == Month(u)
           d == MonthDay(t)
           e == MonthDay(u)
           y == Year(t)
           z == Year(u)
<1>1. /\ y \in Nat /\ a \in 0..365 /\ m \in 0..11 /\ d \in 1..31
      /\ z \in Nat /\ b \in 0..365 /\ n \in 0..11 /\ e \in 1..31
  BY TimeParts
<1>2. y < z \/ (y = z /\ a <= b)
  BY YearDayOrder
<1>3. /\ m = MonthFromMarch(a) /\ d = DayOfMonth(a, m)
      /\ n = MonthFromMarch(b) /\ e = DayOfMonth(b, n)
  BY DEF Month, MonthDay
<1>4. DateOf(t) = Date(y, m, d) /\ DateOf(u) = Date(z, n, e)
  BY DateOfIsDate
<1> HIDE DEF a, b, m, n, d, e, y, z
<1>5. ASSUME a <= b
      PROVE  m < n \/ (m = n /\ d <= e)
  <2>1. \/ MonthFromMarch(a) < MonthFromMarch(b)
        \/ /\ MonthFromMarch(a) = MonthFromMarch(b)
           /\ DayOfMonth(a, MonthFromMarch(a)) <= DayOfMonth(b, MonthFromMarch(b))
    BY <1>1, <1>5, MonthOrder
  <2> QED
    BY <1>1, <1>3, <2>1, SMT
<1>6. Date(y, m, d) <= Date(z, n, e)
  BY <1>1, <1>2, <1>5, DateOrder
<1> QED
  BY <1>4, <1>6

-----------------------------------------------------------------------------
(* Type correctness.                                                       *)

SomeRun == Runs \cup {NoRun}
Phases == {"unborn", "a", "b", "save", "ended"}
Workers ==
  [phase : Phases, cancelled : BOOLEAN, date : Dates \cup {0}, todo : SUBSET Servers,
   tested : SUBSET Servers]
Jobs == [active : BOOLEAN, cancel : SomeRun, handle : SomeRun]
Lasts == [run : Times \cup {0}, completed : Dates \cup {0}]
WatchdogSteps == {"sleep", "tick", "spawn", "handle", "reap", "join", "joining", "flush"}

TypedRuns ==
  /\ job \in Jobs /\ worker \in [Runs -> Workers]
  /\ wd \in [step : WatchdogSteps, run : SomeRun, deep : BOOLEAN]
  /\ starter \in [step : {"idle", "spawn", "handle"}, run : SomeRun]
  /\ main \in [step : {"serving", "joining"}, run : SomeRun]

TypedSettings ==
  /\ now \in Times /\ dirty \in BOOLEAN
  /\ last \in Lasts /\ disk \in [last : Lasts, history : SUBSET Entries]
  /\ history \subseteq Entries

Typed == TypedRuns /\ TypedSettings

(* A thread that runs was spawned, and its date is that of an hour.        *)
Spawning(d) == d.step \in {"spawn", "handle"}
Stages ==
  /\ \A d \in {wd, starter} : Spawning(d) =>
       /\ d.run \in Runs
       /\ d.step = "spawn" <=> worker[d.run].phase = "unborn"
  /\ Spawning(wd) /\ Spawning(starter) => wd.run # starter.run
  /\ job.handle # NoRun => worker[job.handle].phase # "unborn"
  /\ \A r \in Live : worker[r].date # 0

(* The initial and resting records have their types.                       *)
LEMMA ConstantsTyped ==
  /\ NoJob \in Jobs /\ Unborn \in Workers
  /\ Asleep \in [step : WatchdogSteps, run : SomeRun, deep : BOOLEAN]
  /\ Flushes \in [step : WatchdogSteps, run : SomeRun, deep : BOOLEAN]
  /\ Flushes.step = "flush" /\ Asleep.step = "sleep" /\ Unborn.phase = "unborn"
  /\ NoStart \in [step : {"idle", "spawn", "handle"}, run : SomeRun]
  /\ Serving \in [step : {"serving", "joining"}, run : SomeRun]
  /\ NoStart.step = "idle" /\ Serving.step = "serving"
BY DEF NoJob, Unborn, Asleep, Flushes, NoStart, Serving, Jobs, Workers, SomeRun, Phases, WatchdogSteps

(* A time has a date, which is not 0.                                      *)
LEMMA NowTyped ==
  ASSUME NEW t \in Times
  PROVE  t \in Nat /\ DateOf(t) \in Dates /\ DateOf(t) \in Nat /\ DateOf(t) # 0
<1>1. t \in Nat
  BY DeepBenchAssumption
<1> QED
  BY <1>1, DateOfTyped DEF Dates

(* Dates are positive numbers.                                             *)
LEMMA DatesTyped ==
  Dates \subseteq Nat \ {0}
BY NowTyped DEF Dates

(* The steps that fill one field of a worker.                              *)
LEMMA WorkerTyped ==
  ASSUME worker \in [Runs -> Workers], NEW r \in Runs, now \in Times
  PROVE  /\ [worker EXCEPT ![r] = Unborn] \in [Runs -> Workers]
         /\ Spawned(r) \in [Runs -> Workers]
         /\ Cancelled(r) \in [Runs -> Workers]
         /\ [worker EXCEPT ![r] = [Unborn EXCEPT !.phase = "ended"]] \in [Runs -> Workers]
         /\ \A phase \in Phases : [worker EXCEPT ![r].phase = phase] \in [Runs -> Workers]
<1>1. worker[r] \in Workers /\ Unborn \in Workers
  BY ConstantsTyped
<1>2. DateOf(now) \in Dates
  BY NowTyped
<1>3. [worker[r] EXCEPT !.phase = "a", !.date = DateOf(now)] \in Workers
  BY <1>1, <1>2 DEF Workers, Phases
<1>4. [worker[r] EXCEPT !.cancelled = TRUE] \in Workers
  BY <1>1 DEF Workers
<1>5. [Unborn EXCEPT !.phase = "ended"] \in Workers
  BY <1>1 DEF Workers, Phases
<1>6. \A phase \in Phases : [worker[r] EXCEPT !.phase = phase] \in Workers
  BY <1>1 DEF Workers
<1>7. \A w \in Workers : [worker EXCEPT ![r] = w] \in [Runs -> Workers]
  OBVIOUS
<1>8. Spawned(r) = [worker EXCEPT ![r] = [worker[r] EXCEPT !.phase = "a", !.date = DateOf(now)]]
  BY DEF Spawned
<1>9. Cancelled(r) \in [Runs -> Workers]
  <2>1. CASE r = NoRun
    BY <2>1 DEF Cancelled
  <2>2. CASE r # NoRun
    <3>1. Cancelled(r) = [worker EXCEPT ![r] = [worker[r] EXCEPT !.cancelled = TRUE]]
      BY <2>2 DEF Cancelled
    <3> QED
      BY <1>4, <1>7, <3>1
  <2> QED
    BY <2>1, <2>2
<1>10. ASSUME NEW phase \in Phases
       PROVE  [worker EXCEPT ![r].phase = phase] \in [Runs -> Workers]
  <2>1. [worker EXCEPT ![r].phase = phase] = [worker EXCEPT ![r] = [worker[r] EXCEPT !.phase = phase]]
    OBVIOUS
  <2> QED
    BY <1>6, <1>7, <2>1
<1> QED
  BY <1>1, <1>3, <1>5, <1>7, <1>8, <1>9, <1>10

(* The steps that fill one field of the job.                               *)
LEMMA JobTyped ==
  ASSUME job \in Jobs, NEW r \in SomeRun
  PROVE  /\ [job EXCEPT !.active = TRUE, !.cancel = r] \in Jobs
         /\ [job EXCEPT !.handle = r] \in Jobs
         /\ Unentered \in Jobs
BY DEF Jobs, Unentered, SomeRun

WatchdogRecords == [step : WatchdogSteps, run : SomeRun, deep : BOOLEAN]
StarterRecords == [step : {"idle", "spawn", "handle"}, run : SomeRun]

(* Moving on a watchdog or starter record keeps its type.                  *)
LEMMA StepsTyped ==
  /\ \A d \in WatchdogRecords, step \in WatchdogSteps : [d EXCEPT !.step = step] \in WatchdogRecords
  /\ \A d \in WatchdogRecords, step \in WatchdogSteps, r \in SomeRun :
       [d EXCEPT !.step = step, !.run = r] \in WatchdogRecords
  /\ \A d \in StarterRecords : [d EXCEPT !.step = "handle"] \in StarterRecords
BY DEF WatchdogRecords, StarterRecords, WatchdogSteps

(* A spawned run is a worker.                                              *)
LEMMA SpawnTyped ==
  ASSUME worker \in [Runs -> Workers], NEW r, now \in Times
  PROVE  Spawned(r) \in [Runs -> Workers]
<1>1. CASE r \in Runs
  BY <1>1, WorkerTyped
<1>2. CASE r \notin Runs
  <2>1. Spawned(r) = worker
    BY <1>2 DEF Spawned
  <2> QED
    BY <2>1
<1> QED
  BY <1>1, <1>2

(* Requests and the runs they start.                                       *)
LEMMA RequestsTyped ==
  ASSUME TypedRuns, now \in Times,
         (\E r \in Runs : StartDeepBench(r)) \/ StarterStep \/ CancelDeepBench \/ Shutdown
  PROVE  TypedRuns'
<1>1. ASSUME NEW r \in Runs, StartDeepBench(r)
      PROVE  TypedRuns'
  <2>1. /\ worker' = [worker EXCEPT ![r] = Unborn] /\ UNCHANGED <<wd, main>>
        /\ job' = [job EXCEPT !.active = TRUE, !.cancel = r]
        /\ starter' = [step |-> "spawn", run |-> r]
    BY <1>1 DEF StartDeepBench, Enter
  <2> QED
    BY <2>1, WorkerTyped, JobTyped DEF TypedRuns, SomeRun
<1>2. CASE StarterSpawns
  <2>1. CASE worker' = Spawned(starter.run) /\ starter' = [starter EXCEPT !.step = "handle"] /\ job' = job
    <3>1. worker' \in [Runs -> Workers]
      BY <2>1, SpawnTyped DEF TypedRuns
    <3>2. starter' \in StarterRecords
      BY <2>1, StepsTyped DEF TypedRuns, StarterRecords
    <3>3. UNCHANGED <<wd, main>>
      BY <1>2 DEF StarterSpawns
    <3> QED
      BY <2>1, <3>1, <3>2, <3>3 DEF TypedRuns, StarterRecords
  <2>2. CASE job' = Unentered /\ starter' = NoStart /\ worker' = worker
    <3>1. UNCHANGED <<wd, main>> /\ NoRun \in SomeRun
      BY <1>2 DEF StarterSpawns, SomeRun
    <3> QED
      BY <2>2, <3>1, JobTyped, ConstantsTyped DEF TypedRuns
  <2> QED
    BY <1>2, <2>1, <2>2 DEF StarterSpawns
<1>3. CASE StarterStoresHandle
  BY <1>3, JobTyped, ConstantsTyped DEF StarterStoresHandle, TypedRuns
<1>4. CASE CancelDeepBench
  <2>1. job.cancel \in Runs /\ worker' = Cancelled(job.cancel) /\ UNCHANGED <<job, wd, starter, main>>
    BY <1>4 DEF CancelDeepBench, TypedRuns, Jobs, SomeRun
  <2> QED
    BY <2>1, WorkerTyped DEF TypedRuns
<1>5. CASE Shutdown
  <2>1. /\ worker' = Cancelled(job.cancel) /\ UNCHANGED <<wd, starter>>
        /\ main' = [step |-> "joining", run |-> job.handle] /\ job' = [job EXCEPT !.handle = NoRun]
    BY <1>5 DEF Shutdown
  <2>2. worker' \in [Runs -> Workers]
    BY <2>1, WorkerTyped DEF Cancelled, TypedRuns, Jobs, SomeRun
  <2>3. job.handle \in SomeRun /\ NoRun \in SomeRun
    BY DEF TypedRuns, Jobs, SomeRun
  <2> QED
    BY <2>1, <2>2, <2>3, JobTyped DEF TypedRuns
<1> QED
  BY <1>1, <1>2, <1>3, <1>4, <1>5 DEF StarterStep

(* The worker thread's steps are steps of its own record.                  *)
LEMMA WorkersTyped ==
  ASSUME TypedRuns, now \in Times, NEW r \in Runs, WorkerStep(r) \/ Panic(r)
  PROVE  TypedRuns'
<1>1. UNCHANGED <<job, wd, starter, main>>
  BY DEF WorkerStep, FinishPhaseA, StepPhaseB, SaveHistory, Panic
<1>2. worker \in [Runs -> Workers] /\ worker[r] \in Workers
  BY DEF TypedRuns
<1>3. ASSUME NEW w \in Workers, worker' = [worker EXCEPT ![r] = w]
      PROVE  TypedRuns'
  BY <1>1, <1>2, <1>3 DEF TypedRuns
<1>4. CASE Ends(r)
  BY <1>1, <1>2, <1>4, WorkerTyped DEF Ends, TypedRuns
<1>5. CASE FinishPhaseA(r)
  <2>1. ASSUME NEW passed \in SUBSET Servers,
               worker' = [worker EXCEPT ![r].phase = "b", ![r].todo = passed]
        PROVE  TypedRuns'
    <3>1. [worker[r] EXCEPT !.phase = "b", !.todo = passed] \in Workers
      BY <1>2 DEF Workers, Phases
    <3>2. worker' = [worker EXCEPT ![r] = [worker[r] EXCEPT !.phase = "b", !.todo = passed]]
      BY <2>1
    <3> QED
      BY <1>3, <3>1, <3>2
  <2> QED
    BY <1>4, <1>5, <2>1 DEF FinishPhaseA
<1>6. CASE StepPhaseB(r)
  <2>1. ASSUME NEW t \in worker[r].todo,
               worker' = [worker EXCEPT ![r].todo = @ \ {t}, ![r].tested = @ \cup {t}]
        PROVE  TypedRuns'
    <3> DEFINE todo == worker[r].todo \ {t}
               tested == worker[r].tested \cup {t}
    <3>1. todo \in SUBSET Servers /\ tested \in SUBSET Servers
      BY <1>2 DEF Workers
    <3>2. worker' = [worker EXCEPT ![r] = [worker[r] EXCEPT !.todo = todo, !.tested = tested]]
      BY <2>1
    <3> HIDE DEF todo, tested
    <3>3. [worker[r] EXCEPT !.todo = todo, !.tested = tested] \in Workers
      BY <1>2, <3>1 DEF Workers
    <3> QED
      BY <1>3, <3>2, <3>3
  <2>2. CASE Became(r, "save")
    BY <1>1, <1>2, <2>2, WorkerTyped DEF Became, Phases, TypedRuns
  <2> QED
    BY <1>6, <2>1, <2>2 DEF StepPhaseB
<1> QED
  BY <1>4, <1>5, <1>6 DEF WorkerStep, SaveHistory, Panic

(* The watchdog's phases keep the types of the runs.                       *)
LEMMA TickTyped ==
  ASSUME TypedRuns, now \in Times, Tick
  PROVE  TypedRuns'
<1>1. UNCHANGED <<starter, main>>
  BY Zenon DEF Tick, BeginTick, WatchdogSpawns, WatchdogStoresHandle, LookAtHandle, Join, Joined, EndTick,
            WatchdogSkips, WatchdogStarts
<1>2. wd \in WatchdogRecords /\ Flushes \in WatchdogRecords /\ Asleep \in WatchdogRecords
  BY ConstantsTyped DEF TypedRuns, WatchdogRecords
<1>3. NoRun \in SomeRun /\ job.handle \in SomeRun /\ wd.run \in SomeRun
  BY DEF TypedRuns, Jobs, SomeRun
<1>4. ASSUME wd' \in WatchdogRecords, job' \in Jobs, worker' \in [Runs -> Workers]
      PROVE  TypedRuns'
  BY <1>1, <1>4 DEF TypedRuns, WatchdogRecords
<1>5. CASE BeginTick
  <2> DEFINE step == IF Launches(job.active) THEN "tick" ELSE IF job.active THEN "reap" ELSE "flush"
             active == job.active
  <2>1. wd' = [step |-> step, run |-> NoRun, deep |-> active] /\ UNCHANGED <<job, worker>>
    BY <1>5 DEF BeginTick
  <2>2. step \in WatchdogSteps /\ active \in BOOLEAN
    BY DEF WatchdogSteps, TypedRuns, Jobs
  <2> HIDE DEF step, active
  <2> QED
    BY <1>3, <1>4, <2>1, <2>2 DEF WatchdogRecords, TypedRuns
<1>6. ASSUME NEW r \in Runs, WatchdogStarts(r)
      PROVE  TypedRuns'
  <2>1. /\ worker' = [worker EXCEPT ![r] = Unborn]
        /\ job' = [job EXCEPT !.active = TRUE, !.cancel = r]
        /\ wd' = [wd EXCEPT !.step = "spawn", !.run = r]
    BY <1>6 DEF WatchdogStarts, Enter
  <2>2. wd' \in WatchdogRecords
    BY <1>2, <2>1, StepsTyped DEF WatchdogSteps, SomeRun
  <2> QED
    BY <1>4, <2>1, <2>2, WorkerTyped, JobTyped DEF TypedRuns, SomeRun
<1>7. CASE WatchdogSkips
  BY <1>2, <1>4, <1>7 DEF WatchdogSkips, TypedRuns
<1>8. CASE WatchdogSpawns
  <2>1. worker' \in {worker, Spawned(wd.run)} /\ job' \in {job, Unentered}
        /\ wd' \in {Flushes, [wd EXCEPT !.step = "handle"]}
    BY <1>8 DEF WatchdogSpawns
  <2>2. wd' \in WatchdogRecords
    BY <1>2, <2>1, StepsTyped DEF WatchdogSteps
  <2>3. Unentered \in Jobs
    BY <1>3, JobTyped DEF TypedRuns
  <2> QED
    BY <1>4, <2>1, <2>2, <2>3, SpawnTyped DEF TypedRuns
<1>9. CASE WatchdogStoresHandle
  BY <1>2, <1>3, <1>4, <1>9, JobTyped DEF WatchdogStoresHandle, TypedRuns
<1>10. CASE LookAtHandle
  <2>1. wd' \in WatchdogRecords
    BY <1>2, <1>10, StepsTyped DEF LookAtHandle, WatchdogSteps
  <2> QED
    BY <1>4, <1>10, <2>1 DEF LookAtHandle, TypedRuns
<1>11. CASE Join
  <2>1. job' \in {Reaped, [job EXCEPT !.handle = NoRun]} /\ worker' = worker
        /\ wd' \in {Flushes, [wd EXCEPT !.step = "joining", !.run = job.handle]}
    BY <1>11 DEF Join
  <2>2. wd' \in WatchdogRecords
    BY <1>2, <1>3, <2>1, StepsTyped DEF WatchdogSteps
  <2>3. Reaped \in Jobs /\ [job EXCEPT !.handle = NoRun] \in Jobs
    BY <1>3, ConstantsTyped, JobTyped DEF Reaped, TypedRuns
  <2> QED
    BY <1>4, <2>1, <2>2, <2>3 DEF TypedRuns
<1>12. CASE Joined
  BY <1>2, <1>4, <1>12, ConstantsTyped DEF Joined, Reaped, TypedRuns
<1>13. CASE EndTick
  BY <1>2, <1>4, <1>13 DEF EndTick, TypedRuns
<1> QED
  BY <1>5, <1>6, <1>7, <1>8, <1>9, <1>10, <1>11, <1>12, <1>13 DEF Tick

(* The process starts with no run at all.                                  *)
LEMMA StartTyped ==
  ASSUME NEW settings, StartsFrom(settings)
  PROVE  TypedRuns'
<1>1. worker' \in [Runs -> Workers]
  BY ConstantsTyped DEF StartsFrom
<1> QED
  BY <1>1, ConstantsTyped DEF StartsFrom, TypedRuns

-----------------------------------------------------------------------------
(* Settings, history and disk.                                             *)

(* New marks of the last run keep their type.                              *)
LEMMA LastTyped ==
  ASSUME last \in Lasts
  PROVE  /\ now \in Times => [last EXCEPT !.run = now] \in Lasts
         /\ \A d \in Dates \cup {0} : [last EXCEPT !.completed = d] \in Lasts
BY DEF Lasts

(* Writing marks or history to the file keeps its type.                    *)
LEMMA DiskTyped ==
  ASSUME disk \in [last : Lasts, history : SUBSET Entries], last \in Lasts
  PROVE  /\ [disk EXCEPT !.last = last] \in [last : Lasts, history : SUBSET Entries]
         /\ \A h \in SUBSET Entries :
              [disk EXCEPT !.history = h] \in [last : Lasts, history : SUBSET Entries]
OBVIOUS

(* What a run has measured are entries of its date.                        *)
LEMMA SavedTyped ==
  ASSUME TypedRuns, TypedSettings, Stages, NEW r \in Runs, SaveHistory(r)
  PROVE  history' \subseteq Entries /\ disk' \in [last : Lasts, history : SUBSET Entries]
<1> DEFINE measured == {[date |-> worker[r].date, server |-> t] : t \in worker[r].tested}
<1>1. r \in Live /\ worker[r] \in Workers
  BY DEF SaveHistory, Live, TypedRuns
<1>2. worker[r].date \in Dates /\ worker[r].tested \subseteq Servers
  BY <1>1 DEF Stages, Workers
<1>3. measured \subseteq Entries
  BY <1>2 DEF Entries
<1>4. Loaded \subseteq Entries
  BY DEF Loaded, TypedSettings
<1>5. history' \subseteq Loaded \cup measured
  BY DEF SaveHistory, Capped
<1> HIDE DEF measured
<1>6. history' \in SUBSET Entries
  BY <1>3, <1>4, <1>5
<1>7. disk' \in {disk, [disk EXCEPT !.history = history']}
  BY DEF SaveHistory
<1> QED
  BY <1>6, <1>7, DiskTyped DEF TypedSettings

(* A restart takes the settings from the disk, which were written.         *)
LEMMA RestartTyped ==
  ASSUME TypedRuns, TypedSettings, ShutdownEnds \/ Crash
  PROVE  TypedRuns' /\ TypedSettings'
<1>1. disk' \in {disk, [disk EXCEPT !.last = IF dirty THEN last ELSE @]}
  BY DEF ShutdownEnds, Crash
<1>2. disk' \in {disk, [disk EXCEPT !.last = last]}
  BY <1>1 DEF TypedSettings
<1>3. disk' \in [last : Lasts, history : SUBSET Entries]
  BY <1>2, DiskTyped DEF TypedSettings
<1>4. StartsFrom(disk'.last)
  BY DEF ShutdownEnds, Crash
<1>5. TypedRuns'
  BY <1>4, StartTyped
<1>6. TypedSettings'
  BY <1>3, <1>4 DEF StartsFrom, TypedSettings
<1> QED
  BY <1>5, <1>6

(* Every step keeps the types.                                             *)
LEMMA TypedNext ==
  ASSUME Typed, Stages, Next
  PROVE  Typed'
<1>1. TypedRuns /\ TypedSettings /\ now \in Times
  BY DEF Typed, TypedSettings
<1>2. CASE ShutdownEnds \/ Crash
  BY <1>1, <1>2, RestartTyped DEF Typed
<1>3. TypedRuns' \/ ShutdownEnds \/ Crash
  <2>1. CASE Advance
    BY <1>1, <2>1 DEF Advance, TypedRuns
  <2> QED
    BY <1>1, <2>1, RequestsTyped, WorkersTyped, TickTyped, Zenon DEF Next
<1>4. TypedSettings' \/ ShutdownEnds \/ Crash
  <2>1. CASE UNCHANGED <<now, last, history, disk, dirty>>
    BY <1>1, <2>1 DEF TypedSettings
  <2>2. ASSUME NEW r \in Runs, Enter(r), UNCHANGED <<now, history, disk>>
        PROVE  TypedSettings'
    BY <1>1, <2>2, LastTyped DEF Enter, TypedSettings
  <2>3. ASSUME NEW r \in Runs, Completed(r)
        PROVE  last' \in Lasts /\ dirty' \in BOOLEAN
    <3>1. worker[r].date \in Dates \cup {0}
      BY <1>1 DEF TypedRuns, Workers
    <3> QED
      BY <1>1, <2>3, <3>1, LastTyped DEF Completed, TypedSettings
  <2>4. ASSUME NEW r \in Runs, FinishPhaseA(r)
        PROVE  TypedSettings'
    <3>1. UNCHANGED <<now, history, disk>>
      BY <2>4 DEF FinishPhaseA
    <3>2. Completed(r) \/ (last' = last /\ dirty' \in {dirty, TRUE})
      BY <2>4 DEF FinishPhaseA
    <3> QED
      BY <1>1, <2>3, <3>1, <3>2 DEF TypedSettings
  <2>5. ASSUME NEW r \in Runs, SaveHistory(r)
        PROVE  TypedSettings'
    <3>1. UNCHANGED now /\ Completed(r)
      BY <2>5 DEF SaveHistory
    <3> QED
      BY <1>1, <2>3, <2>5, <3>1, SavedTyped DEF TypedSettings
  <2>6. CASE EndTick
    <3>1. disk' \in {disk, [disk EXCEPT !.last = last]} /\ dirty' \in {dirty, FALSE}
      BY <2>6 DEF EndTick, Flush
    <3>2. UNCHANGED <<now, last, history>>
      BY <2>6 DEF EndTick
    <3> QED
      BY <1>1, <3>1, <3>2, DiskTyped DEF TypedSettings
  <2>7. CASE Advance
    BY <1>1, <2>7 DEF Advance, TypedSettings
  <2>8. ASSUME NEW r \in Runs
        PROVE  StartDeepBench(r) \/ WatchdogStarts(r) => TypedSettings'
    BY <2>2 DEF StartDeepBench, WatchdogStarts
  <2>9. StarterStep \/ CancelDeepBench \/ Shutdown => UNCHANGED <<now, last, history, disk, dirty>>
    BY Zenon DEF StarterStep, StarterSpawns, StarterStoresHandle, CancelDeepBench, Shutdown
  <2>10. \A r \in Runs : StepPhaseB(r) \/ Panic(r) => UNCHANGED <<now, last, history, disk, dirty>>
    BY Zenon DEF StepPhaseB, Panic
  <2>11. Tick => EndTick \/ (\E r \in Runs : WatchdogStarts(r))
                  \/ UNCHANGED <<now, last, history, disk, dirty>>
    BY Zenon DEF Tick, BeginTick, WatchdogSpawns, WatchdogStoresHandle, LookAtHandle, Join, Joined, WatchdogSkips
  <2> QED
    BY <2>1, <2>4, <2>5, <2>6, <2>7, <2>8, <2>9, <2>10, <2>11, Zenon DEF Next, WorkerStep
<1> QED
  BY <1>2, <1>3, <1>4 DEF Typed

-----------------------------------------------------------------------------
(* Who runs, and who can cancel it.                                        *)

(* The handle of an active job is that of its run, unless it is not yet    *)
(* stored, or the shutdown has taken it and cancelled the run.             *)
HandleOfRun ==
  /\ ~job.active => job.handle = NoRun
  /\ job.active => job.handle \in {NoRun, job.cancel}
  /\ job.active /\ job.handle = NoRun =>
       \/ Spawning(starter) \/ Spawning(wd)
       \/ main.step = "joining" /\ (job.cancel \in Live => worker[job.cancel].cancelled)

(* As long as every start was seen by the tick under way: at most the      *)
(* job's run lives, none while one is only entered or the job is inactive, *)
(* save a cancelled one that outlives the job in a shutdown.               *)
OneRun ==
  /\ job.active => Live \subseteq {job.cancel}
  /\ ~job.active /\ (main.step = "serving" \/ wd.step = "tick") => Live = {}
  /\ starter.step = "spawn" \/ wd.step = "spawn" => Live = {}
  /\ Spawning(starter) => job.active /\ job.cancel = starter.run
  /\ Spawning(wd) => job.active /\ job.cancel = wd.run
  /\ wd.step # "joining"
  /\ \A r, q \in Live : r = q
  /\ \A r \in Live : worker[r].cancelled \/ (job.active /\ job.cancel = r)

TickSawNone == wd.step = "tick" => ~wd.deep

RunInv == TickSawNone /\ (~raced => OneRun /\ HandleOfRun)

(* Nothing is dated in the future.                                         *)
NoFutureDates ==
  /\ last.completed <= DateOf(now) /\ disk.last.completed <= DateOf(now)
  /\ \A r \in Live : worker[r].date <= DateOf(now)
  /\ \A e \in history \cup disk.history : e.date <= DateOf(now)

(* Runs are completed in the order of their dates, and the watchdog's      *)
(* decision to start one stays right until it starts it.                   *)
CompletedInOrder ==
  /\ \A r \in Live : last.completed <= worker[r].date
  /\ \A d \in doneOn : d \in Nat /\ d <= last.completed
  /\ wd.step = "tick" /\ (~job.active \/ starter.step = "spawn") => DateOf(now) \notin doneOn

DateInv == NoFutureDates /\ (~raced => CompletedInOrder)

(* The history in memory, once loaded, has this month's part of the disk's.*)
MemoryHasDisk ==
  ~misread => history = {} \/ \A e \in disk.history : SameMonth(e.date) => e \in history

DeepInv == Typed /\ Stages /\ RunInv /\ DateInv /\ MemoryHasDisk

RunVars == <<job, wd, starter, main, raced>>

(* Threads go on: none is spawned, none is forgotten to be cancelled.      *)
GoOn ==
  \A q \in Runs :
    /\ (worker'[q].phase = "unborn") <=> (worker[q].phase = "unborn")
    /\ q \in Live' =>
         /\ q \in Live /\ worker'[q].date = worker[q].date
         /\ worker[q].cancelled => worker'[q].cancelled

(* A run that goes on, its start and handle untouched, keeps Stages and    *)
(* RunInv.                                                                 *)
LEMMA GoOnInvariant ==
  ASSUME Typed, Stages, RunInv, GoOn, UNCHANGED RunVars
  PROVE  Stages' /\ RunInv'
<1>1. job.handle \in SomeRun /\ job.cancel \in SomeRun
  BY DEF Typed, TypedRuns, Jobs
<1>2. Live' \subseteq Live
  BY DEF GoOn, Live
<1>3. Stages'
  BY <1>1, <1>2 DEF Stages, GoOn, Spawning, RunVars, SomeRun, Live
<1>4. RunInv'
  BY <1>1, <1>2 DEF RunInv, TickSawNone, OneRun, HandleOfRun, GoOn, Spawning, RunVars, Live
<1> QED
  BY <1>3, <1>4

(* A field of one worker, and only that, is filled.                        *)
LEMMA OneWorker ==
  ASSUME worker \in [Runs -> Workers], NEW r \in Runs, NEW w, worker' = [worker EXCEPT ![r] = w]
  PROVE  worker'[r] = w /\ \A q \in Runs : q # r => worker'[q] = worker[q]
OBVIOUS

(* A step of a run's thread touches nothing but that run.                  *)
LEMMA WorkersGoOn ==
  ASSUME Typed, NEW r \in Runs, WorkerStep(r) \/ Panic(r)
  PROVE  GoOn /\ r \in Live /\ UNCHANGED RunVars
<1>1. worker \in [Runs -> Workers] /\ worker[r] \in Workers
  BY DEF Typed, TypedRuns
<1>2. UNCHANGED RunVars
  BY Zenon DEF WorkerStep, FinishPhaseA, StepPhaseB, SaveHistory, Panic, RunVars
<1>3. r \in Live
  BY DEF WorkerStep, FinishPhaseA, StepPhaseB, SaveHistory, Panic, Live
<1>4. worker[r].phase # "unborn"
  BY <1>3 DEF Live
<1>5. ASSUME NEW w, worker' = [worker EXCEPT ![r] = w], w.phase # "unborn",
             w.phase = "ended" \/ (w.date = worker[r].date /\ w.cancelled = worker[r].cancelled)
      PROVE  GoOn
  <2>1. worker'[r] = w /\ \A q \in Runs : q # r => worker'[q] = worker[q]
    BY <1>1, <1>5, OneWorker
  <2> QED
    BY <1>3, <1>4, <1>5, <2>1 DEF GoOn, Live
<1>6. ASSUME Ends(r)
      PROVE  GoOn
  <2> DEFINE w == [Unborn EXCEPT !.phase = "ended"]
  <2>1. w.phase = "ended"
    BY DEF Unborn
  <2>2. worker' = [worker EXCEPT ![r] = w]
    BY <1>6 DEF Ends
  <2> HIDE DEF w
  <2> QED
    BY <1>5, <2>1, <2>2
<1>7. ASSUME FinishPhaseA(r)
      PROVE  GoOn
  <2>1. ASSUME NEW passed, worker' = [worker EXCEPT ![r].phase = "b", ![r].todo = passed]
        PROVE  GoOn
    <3> DEFINE w == [worker[r] EXCEPT !.phase = "b", !.todo = passed]
    <3>1. w.phase = "b" /\ w.date = worker[r].date /\ w.cancelled = worker[r].cancelled
      BY <1>1 DEF Workers
    <3>2. worker' = [worker EXCEPT ![r] = w]
      BY <2>1
    <3> HIDE DEF w
    <3> QED
      BY <1>5, <3>1, <3>2
  <2>2. Ends(r) \/ \E passed \in SUBSET Servers :
                   worker' = [worker EXCEPT ![r].phase = "b", ![r].todo = passed]
    BY <1>7, Zenon DEF FinishPhaseA
  <2> QED
    BY <1>6, <2>1, <2>2
<1>8. ASSUME StepPhaseB(r)
      PROVE  GoOn
  <2>1. ASSUME NEW t,
               worker' = [worker EXCEPT ![r].todo = @ \ {t}, ![r].tested = @ \cup {t}]
        PROVE  GoOn
    <3> DEFINE w == [worker[r] EXCEPT !.todo = worker[r].todo \ {t},
                                      !.tested = worker[r].tested \cup {t}]
    <3>1. w.phase = worker[r].phase /\ w.date = worker[r].date /\ w.cancelled = worker[r].cancelled
      BY <1>1 DEF Workers
    <3>2. worker' = [worker EXCEPT ![r] = w]
      BY <2>1
    <3> HIDE DEF w
    <3> QED
      BY <1>4, <1>5, <3>1, <3>2
  <2>2. ASSUME Became(r, "save")
        PROVE  GoOn
    <3> DEFINE w == [worker[r] EXCEPT !.phase = "save"]
    <3>1. w.phase = "save" /\ w.date = worker[r].date /\ w.cancelled = worker[r].cancelled
      BY <1>1 DEF Workers
    <3>2. worker' = [worker EXCEPT ![r] = w]
      BY <2>2 DEF Became
    <3> HIDE DEF w
    <3> QED
      BY <1>5, <3>1, <3>2
  <2>3. Became(r, "save") \/ \E t \in worker[r].todo :
          worker' = [worker EXCEPT ![r].todo = @ \ {t}, ![r].tested = @ \cup {t}]
    BY <1>8, Zenon DEF StepPhaseB
  <2> QED
    BY <2>1, <2>2, <2>3
<1>9. GoOn
  BY <1>6, <1>7, <1>8 DEF WorkerStep, SaveHistory, Panic
<1> QED
  BY <1>2, <1>3, <1>9

(* A cancellation reaches the flag that is kept, and only that.            *)
LEMMA CancelledFields ==
  ASSUME Typed, worker' = Cancelled(job.cancel)
  PROVE  /\ \A q \in Runs : /\ worker'[q].phase = worker[q].phase
                            /\ worker'[q].date = worker[q].date
                            /\ worker[q].cancelled => worker'[q].cancelled
         /\ job.cancel # NoRun => worker'[job.cancel].cancelled
<1>1. worker \in [Runs -> Workers]
  BY DEF Typed, TypedRuns
<1>2. CASE job.cancel = NoRun
  BY <1>2 DEF Cancelled
<1>3. CASE job.cancel # NoRun
  <2> DEFINE r == job.cancel
             w == [worker[r] EXCEPT !.cancelled = TRUE]
  <2>1. r \in Runs /\ worker' = [worker EXCEPT ![r] = w]
    BY <1>1, <1>3 DEF Cancelled, Typed, TypedRuns, Jobs, SomeRun
  <2>2. w.phase = worker[r].phase /\ w.date = worker[r].date /\ w.cancelled
    BY <1>1, <2>1 DEF Workers
  <2> HIDE DEF r, w
  <2>3. worker'[r] = w /\ \A q \in Runs : q # r => worker'[q] = worker[q]
    BY <1>1, <2>1, OneWorker
  <2>4. \A q \in Runs :
          /\ worker'[q].phase = worker[q].phase
          /\ worker'[q].date = worker[q].date
          /\ worker[q].cancelled => worker'[q].cancelled
    BY <2>2, <2>3
  <2>5. worker'[r].cancelled
    BY <2>2, <2>3
  <2> QED
    BY <2>4, <2>5 DEF r
<1> QED
  BY <1>2, <1>3

(* Cancelling only raises the flag of the run the job names.               *)
LEMMA CancelGoesOn ==
  ASSUME Typed, CancelDeepBench
  PROVE  GoOn /\ UNCHANGED RunVars
<1>1. worker' = Cancelled(job.cancel) /\ UNCHANGED RunVars
  BY DEF CancelDeepBench, RunVars
<1> QED
  BY <1>1, CancelledFields DEF GoOn, Live


(* The watchdog's steps that leave the job alone.                          *)
LEMMA LooksSafe ==
  ASSUME Typed, Stages, RunInv, BeginTick \/ WatchdogSkips \/ LookAtHandle \/ EndTick
  PROVE  Stages' /\ RunInv'
<1>1. UNCHANGED <<job, worker, starter, main, raced>>
  BY Zenon DEF BeginTick, WatchdogSkips, LookAtHandle, EndTick
<1>2. ~Spawning(wd)
  BY DEF BeginTick, WatchdogSkips, LookAtHandle, EndTick, Spawning
<1>3. wd'.step \notin {"spawn", "handle", "joining"}
  <2>1. CASE BeginTick
    BY <2>1 DEF BeginTick
  <2>2. CASE WatchdogSkips \/ EndTick
    BY <2>2, ConstantsTyped DEF WatchdogSkips, EndTick
  <2>3. CASE LookAtHandle
    BY <2>3 DEF LookAtHandle, Typed, TypedRuns
  <2> QED
    BY <2>1, <2>2, <2>3
<1>4. wd'.step = "tick" => ~wd'.deep /\ main.step = "serving"
  <2>1. CASE BeginTick
    <3>1. main.step = "serving"
      BY <2>1, ConstantsTyped DEF BeginTick
    <3>2. wd'.step = "tick" => Launches(job.active)
      BY <2>1 DEF BeginTick
    <3>3. Launches(job.active) => ~job.active
      BY Zenon DEF Launches
    <3>4. wd'.deep = job.active
      BY <2>1 DEF BeginTick
    <3> QED
      BY <3>1, <3>2, <3>3, <3>4
  <2>2. CASE WatchdogSkips \/ EndTick
    BY <2>2, ConstantsTyped DEF WatchdogSkips, EndTick
  <2>3. CASE LookAtHandle
    BY <2>3 DEF LookAtHandle, Typed, TypedRuns
  <2> QED
    BY <2>1, <2>2, <2>3
<1>5. Stages'
  BY <1>1, <1>2, <1>3 DEF Stages, Spawning, Live
<1>6. RunInv'
  BY <1>1, <1>2, <1>3, <1>4 DEF RunInv, TickSawNone, OneRun, HandleOfRun, Spawning, Live
<1> QED
  BY <1>5, <1>6

(* Entering a run leaves the threads alone.                                *)
LEMMA Entered ==
  ASSUME Typed, NEW r \in Runs, Enter(r)
  PROVE  /\ \A q \in Runs : worker'[q].phase = worker[q].phase
         /\ \A q \in Live : worker'[q] = worker[q]
         /\ Live' = Live /\ r \notin Live
         /\ job'.active /\ job'.cancel = r /\ job'.handle = job.handle
<1>1. worker' = [worker EXCEPT ![r] = Unborn] /\ worker[r].phase = "unborn"
  BY DEF Enter
<1>2. worker'[r] = Unborn /\ \A q \in Runs : q # r => worker'[q] = worker[q]
  BY <1>1 DEF Typed, TypedRuns
<1>3. \A q \in Runs : worker'[q].phase = worker[q].phase
  BY <1>1, <1>2, ConstantsTyped
<1>4. Live' = Live
  BY <1>3 DEF Live
<1>5. \A q \in Live : worker'[q] = worker[q]
  BY <1>1, <1>2 DEF Live
<1>6. job'.active /\ job'.cancel = r /\ job'.handle = job.handle
  BY DEF Enter, Typed, TypedRuns, Jobs
<1> QED
  BY <1>1, <1>3, <1>4, <1>5, <1>6 DEF Live

(* A start by request keeps Stages and RunInv.                             *)
LEMMA StartSafe ==
  ASSUME Typed, Stages, RunInv, NEW r \in Runs, StartDeepBench(r)
  PROVE  Stages' /\ RunInv'
<1>1. Enter(r) /\ ~job.active /\ UNCHANGED <<wd, main, raced>> /\ main.step = "serving"
  BY ConstantsTyped DEF StartDeepBench
<1>2. starter'.step = "spawn" /\ starter'.run = r
  BY DEF StartDeepBench
<1>3. worker[r].phase = "unborn" /\ wd.run # r
  BY <1>1 DEF Enter
<1>4. /\ \A q \in Runs : worker'[q].phase = worker[q].phase
      /\ \A q \in Live : worker'[q] = worker[q]
      /\ Live' = Live
      /\ job'.active /\ job'.cancel = r /\ job'.handle = job.handle
  BY <1>1, Entered
<1>5. job.handle \in SomeRun
  BY DEF Typed, TypedRuns, Jobs
<1>6. Stages'
  BY <1>1, <1>2, <1>3, <1>4, <1>5 DEF Stages, Spawning, SomeRun
<1>7. RunInv'
  BY <1>1, <1>2, <1>4 DEF RunInv, TickSawNone, OneRun, HandleOfRun, Spawning
<1> QED
  BY <1>6, <1>7

(* A start by the watchdog keeps Stages and RunInv.                        *)
LEMMA WatchdogStartSafe ==
  ASSUME Typed, Stages, RunInv, NEW r \in Runs, WatchdogStarts(r)
  PROVE  Stages' /\ RunInv'
<1>1. Enter(r) /\ UNCHANGED <<starter, main>> /\ wd.step = "tick"
  BY DEF WatchdogStarts
<1>2. wd'.step = "spawn" /\ wd'.run = r
  BY DEF WatchdogStarts, Typed, TypedRuns
<1>3. worker[r].phase = "unborn" /\ starter.run # r
  BY <1>1 DEF Enter
<1>4. /\ \A q \in Runs : worker'[q].phase = worker[q].phase
      /\ \A q \in Live : worker'[q] = worker[q]
      /\ Live' = Live
      /\ job'.active /\ job'.cancel = r /\ job'.handle = job.handle
  BY <1>1, Entered
<1>5. job.handle \in SomeRun
  BY DEF Typed, TypedRuns, Jobs
<1>6. ~raced' => ~raced /\ ~job.active
  <2>1. raced' = (raced \/ (job.active /\ ~wd.deep)) /\ ~wd.deep
    BY <1>1, Zenon DEF WatchdogStarts, RunInv, TickSawNone
  <2> QED
    BY <2>1, Zenon
<1>7. Stages'
  BY <1>1, <1>2, <1>3, <1>4, <1>5 DEF Stages, Spawning, SomeRun
<1>8. RunInv'
  BY <1>1, <1>2, <1>4, <1>6 DEF RunInv, TickSawNone, OneRun, HandleOfRun, Spawning
<1> QED
  BY <1>7, <1>8

(* A spawned thread is the one that was entered.                           *)
LEMMA SpawnedFields ==
  ASSUME Typed, NEW r \in Runs, worker' = Spawned(r)
  PROVE  /\ worker'[r].phase = "a" /\ worker'[r].date = DateOf(now)
         /\ \A q \in Runs : q # r => worker'[q] = worker[q]
         /\ Live' = Live \cup {r}
<1> DEFINE date == DateOf(now)
           w == [worker[r] EXCEPT !.phase = "a", !.date = date]
<1>1. worker' = [worker EXCEPT ![r] = w]
  BY DEF Spawned
<1> HIDE DEF date
<1>2. worker[r] \in Workers /\ worker \in [Runs -> Workers]
  BY DEF Typed, TypedRuns
<1>3. w.phase = "a" /\ w.date = date
  BY <1>2 DEF Workers
<1> HIDE DEF w
<1>4. worker'[r] = w /\ \A q \in Runs : q # r => worker'[q] = worker[q]
  BY <1>1, <1>2, OneWorker
<1>5. Live' = Live \cup {r}
  BY <1>3, <1>4 DEF Live
<1> QED
  BY <1>3, <1>4, <1>5 DEF date

(* A start that is taken back leaves no active job and the old handle.     *)
LEMMA UnenteredFields ==
  ASSUME Typed, job' = Unentered
  PROVE  ~job'.active /\ job'.cancel = NoRun /\ job'.handle = job.handle
BY DEF Unentered, Typed, TypedRuns, Jobs


(* The spawn after a request keeps Stages and RunInv.                      *)
LEMMA StarterSpawnSafe ==
  ASSUME Typed, Stages, RunInv, StarterSpawns
  PROVE  Stages' /\ RunInv'
<1>1. starter.step = "spawn" /\ UNCHANGED <<wd, main, raced>>
  BY DEF StarterSpawns
<1>2. starter.run \in Runs /\ worker[starter.run].phase = "unborn" /\ starter.run \notin Live
  BY <1>1 DEF Stages, Spawning, Live
<1>3. ~raced => /\ Live = {} /\ job.active /\ job.cancel = starter.run /\ ~Spawning(wd)
               /\ job.handle = NoRun
  BY <1>1, <1>2 DEF RunInv, OneRun, HandleOfRun, Stages, Spawning
<1>4. CASE worker' = Spawned(starter.run) /\ starter' = [starter EXCEPT !.step = "handle"] /\ job' = job
  <2>1. starter'.step = "handle" /\ starter'.run = starter.run
    BY <1>4 DEF Typed, TypedRuns
  <2>2. /\ worker'[starter.run].phase = "a" /\ worker'[starter.run].date = DateOf(now)
        /\ \A q \in Runs : q # starter.run => worker'[q] = worker[q]
        /\ Live' = Live \cup {starter.run}
    BY <1>2, <1>4, SpawnedFields
  <2>3. DateOf(now) # 0
    BY NowTyped DEF Typed, TypedSettings
  <2>4. job.handle \in SomeRun
    BY DEF Typed, TypedRuns, Jobs
  <2>5. Stages'
    <3>1. \A q \in Live' : worker'[q].date # 0
      BY <2>2, <2>3 DEF Stages, Live
    <3> QED
      BY <1>1, <1>2, <1>4, <2>1, <2>2, <2>4, <3>1 DEF Stages, Spawning, SomeRun
  <2>6. TickSawNone'
    BY <1>1, <2>1 DEF RunInv, TickSawNone
  <2>7. ~raced' => OneRun' /\ HandleOfRun'
    BY <1>1, <1>2, <1>3, <1>4, <2>1, <2>2 DEF RunInv, OneRun, HandleOfRun, Spawning
  <2> QED
    BY <2>5, <2>6, <2>7 DEF RunInv
<1>5. CASE job' = Unentered /\ starter'.step \in {"idle", "flush"} /\ worker' = worker
  <2>1. ~job'.active /\ job'.cancel = NoRun /\ job'.handle = job.handle
    BY <1>5, UnenteredFields
  <2>2. Stages'
    BY <1>1, <1>5, <2>1 DEF Stages, Spawning, Live
  <2>3. TickSawNone'
    BY <1>1, <1>5 DEF RunInv, TickSawNone
  <2>4. ~raced' => OneRun' /\ HandleOfRun'
    BY <1>1, <1>3, <1>5, <2>1 DEF RunInv, OneRun, HandleOfRun, Spawning, Live
  <2> QED
    BY <2>2, <2>3, <2>4 DEF RunInv
<1> QED
  BY <1>4, <1>5, ConstantsTyped DEF StarterSpawns

(* The spawn by the watchdog keeps Stages and RunInv.                      *)
LEMMA WatchdogSpawnSafe ==
  ASSUME Typed, Stages, RunInv, WatchdogSpawns
  PROVE  Stages' /\ RunInv'
<1>1. wd.step = "spawn" /\ UNCHANGED <<starter, main, raced>>
  BY DEF WatchdogSpawns
<1>2. wd.run \in Runs /\ worker[wd.run].phase = "unborn" /\ wd.run \notin Live
  BY <1>1 DEF Stages, Spawning, Live
<1>3. ~raced => /\ Live = {} /\ job.active /\ job.cancel = wd.run /\ ~Spawning(starter)
               /\ job.handle = NoRun
  BY <1>1, <1>2 DEF RunInv, OneRun, HandleOfRun, Stages, Spawning
<1>4. CASE worker' = Spawned(wd.run) /\ wd' = [wd EXCEPT !.step = "handle"] /\ job' = job
  <2>1. wd'.step = "handle" /\ wd'.run = wd.run
    BY <1>4 DEF Typed, TypedRuns
  <2>2. /\ worker'[wd.run].phase = "a" /\ worker'[wd.run].date = DateOf(now)
        /\ \A q \in Runs : q # wd.run => worker'[q] = worker[q]
        /\ Live' = Live \cup {wd.run}
    BY <1>2, <1>4, SpawnedFields
  <2>3. DateOf(now) # 0
    BY NowTyped DEF Typed, TypedSettings
  <2>4. job.handle \in SomeRun
    BY DEF Typed, TypedRuns, Jobs
  <2>5. Stages'
    <3>1. \A q \in Live' : worker'[q].date # 0
      BY <2>2, <2>3 DEF Stages, Live
    <3> QED
      BY <1>1, <1>2, <1>4, <2>1, <2>2, <2>4, <3>1 DEF Stages, Spawning, SomeRun
  <2>6. TickSawNone'
    BY <1>1, <2>1 DEF RunInv, TickSawNone
  <2>7. ~raced' => OneRun' /\ HandleOfRun'
    BY <1>1, <1>2, <1>3, <1>4, <2>1, <2>2 DEF RunInv, OneRun, HandleOfRun, Spawning
  <2> QED
    BY <2>5, <2>6, <2>7 DEF RunInv
<1>5. CASE job' = Unentered /\ wd'.step \in {"idle", "flush"} /\ worker' = worker
  <2>1. ~job'.active /\ job'.cancel = NoRun /\ job'.handle = job.handle
    BY <1>5, UnenteredFields
  <2>2. Stages'
    BY <1>1, <1>5, <2>1 DEF Stages, Spawning, Live
  <2>3. TickSawNone'
    BY <1>1, <1>5 DEF RunInv, TickSawNone
  <2>4. ~raced' => OneRun' /\ HandleOfRun'
    BY <1>1, <1>3, <1>5, <2>1 DEF RunInv, OneRun, HandleOfRun, Spawning, Live
  <2> QED
    BY <2>2, <2>3, <2>4 DEF RunInv
<1> QED
  BY <1>4, <1>5, ConstantsTyped DEF WatchdogSpawns

(* Storing the handle after a request keeps Stages and RunInv.             *)
LEMMA StarterStoresSafe ==
  ASSUME Typed, Stages, RunInv, StarterStoresHandle
  PROVE  Stages' /\ RunInv'
<1>1. starter.step = "handle" /\ UNCHANGED <<wd, main, raced, worker>>
  BY DEF StarterStoresHandle
<1>2. starter'.step \in {"idle", "flush"}
  BY ConstantsTyped DEF StarterStoresHandle
<1>3. job'.handle = starter.run /\ job'.active = job.active /\ job'.cancel = job.cancel
  BY DEF StarterStoresHandle, Typed, TypedRuns, Jobs
<1>4. starter.run \in Runs /\ worker[starter.run].phase # "unborn"
  BY <1>1 DEF Stages, Spawning
<1>5. Stages'
  BY <1>1, <1>2, <1>3, <1>4 DEF Stages, Spawning, Live
<1>6. TickSawNone'
  BY <1>1, <1>2 DEF RunInv, TickSawNone
<1>7. ~raced' => OneRun' /\ HandleOfRun'
  <2> SUFFICES ASSUME ~raced
               PROVE  OneRun' /\ HandleOfRun'
    BY <1>1
  <2>1. OneRun /\ HandleOfRun /\ Live' = Live
    BY <1>1 DEF RunInv, Live
  <2>2. job.active /\ job.cancel = starter.run
    BY <1>1, <2>1 DEF OneRun, Spawning
  <2>3. OneRun'
    BY <1>1, <1>2, <1>3, <2>1, <2>2 DEF OneRun, Spawning
  <2>4. HandleOfRun'
    BY <1>3, <1>4, <2>2, DeepBenchAssumption DEF HandleOfRun
  <2> QED
    BY <2>3, <2>4
<1> QED
  BY <1>5, <1>6, <1>7 DEF RunInv

(* Storing the handle in the watchdog keeps Stages and RunInv.             *)
LEMMA WatchdogStoresSafe ==
  ASSUME Typed, Stages, RunInv, WatchdogStoresHandle
  PROVE  Stages' /\ RunInv'
<1>1. wd.step = "handle" /\ UNCHANGED <<starter, main, raced, worker>>
  BY DEF WatchdogStoresHandle
<1>2. wd'.step \in {"idle", "flush"}
  BY ConstantsTyped DEF WatchdogStoresHandle
<1>3. job'.handle = wd.run /\ job'.active = job.active /\ job'.cancel = job.cancel
  BY DEF WatchdogStoresHandle, Typed, TypedRuns, Jobs
<1>4. wd.run \in Runs /\ worker[wd.run].phase # "unborn"
  BY <1>1 DEF Stages, Spawning
<1>5. Stages'
  BY <1>1, <1>2, <1>3, <1>4 DEF Stages, Spawning, Live
<1>6. TickSawNone'
  BY <1>1, <1>2 DEF RunInv, TickSawNone
<1>7. ~raced' => OneRun' /\ HandleOfRun'
  <2> SUFFICES ASSUME ~raced
               PROVE  OneRun' /\ HandleOfRun'
    BY <1>1
  <2>1. OneRun /\ HandleOfRun /\ Live' = Live
    BY <1>1 DEF RunInv, Live
  <2>2. job.active /\ job.cancel = wd.run
    BY <1>1, <2>1 DEF OneRun, Spawning
  <2>3. OneRun'
    BY <1>1, <1>2, <1>3, <2>1, <2>2 DEF OneRun, Spawning
  <2>4. HandleOfRun'
    BY <1>3, <1>4, <2>2, DeepBenchAssumption DEF HandleOfRun
  <2> QED
    BY <2>3, <2>4
<1> QED
  BY <1>5, <1>6, <1>7 DEF RunInv

(* A join of a finished thread clears the job; one of a live thread, or    *)
(* beside a start, is a race.                                              *)
LEMMA JoinSafe ==
  ASSUME Typed, Stages, RunInv, Join \/ Joined
  PROVE  Stages' /\ RunInv'
<1>1. UNCHANGED <<worker, starter, main>> /\ wd.step \in {"join", "joining"}
  BY DEF Join, Joined
<1>2. ~raced' => /\ ~raced /\ starter.step = "idle" /\ wd.step = "join"
                /\ job.handle \notin Live /\ wd'.step # "joining"
  <2>1. CASE Join
    <3>1. raced' = (raced \/ starter.step # "idle" \/ job.handle \in Live)
      BY <2>1, Zenon DEF Join
    <3>2. job.handle \notin Live => wd' = Flushes
      BY <2>1 DEF Join
    <3>3. ~raced' => ~raced /\ ~(starter.step # "idle") /\ job.handle \notin Live
      BY <3>1, Zenon
    <3> QED
      BY <2>1, <3>2, <3>3, ConstantsTyped DEF Join
  <2>2. CASE Joined
    BY <2>2 DEF Joined, RunInv, OneRun
  <2> QED
    BY <2>1, <2>2
<1>3. wd'.step \in {"flush", "joining"}
  BY ConstantsTyped DEF Join, Joined, Typed, TypedRuns
<1>4. job'.handle = NoRun /\ (~raced' => ~job'.active)
  <2>1. CASE Join
    BY <1>2, <2>1 DEF Join, Reaped, NoJob, Typed, TypedRuns, Jobs
  <2>2. CASE Joined
    BY <2>2 DEF Joined, Reaped, NoJob
  <2> QED
    BY <2>1, <2>2
<1>5. Stages'
  BY <1>1, <1>3, <1>4 DEF Stages, Spawning, Live
<1>6. TickSawNone'
  BY <1>3 DEF TickSawNone
<1>7. ~raced' => OneRun' /\ HandleOfRun'
  <2> SUFFICES ASSUME ~raced'
               PROVE  OneRun' /\ HandleOfRun'
    OBVIOUS
  <2>1. OneRun /\ HandleOfRun /\ ~Spawning(starter) /\ ~Spawning(wd)
    BY <1>2 DEF RunInv, Spawning
  <2>2. main.step = "serving" => Live = {}
    BY <1>2, <2>1 DEF OneRun, HandleOfRun
  <2>3. main.step \in {"serving", "joining"}
    BY DEF Typed, TypedRuns
  <2>4. \A r \in Live : worker[r].cancelled
    BY <1>2, <2>1, <2>2, <2>3 DEF OneRun, HandleOfRun
  <2>5. Live' = Live
    BY <1>1 DEF Live
  <2> QED
    BY <1>1, <1>2, <1>3, <1>4, <2>1, <2>2, <2>4, <2>5 DEF OneRun, HandleOfRun, Spawning
<1> QED
  BY <1>5, <1>6, <1>7 DEF RunInv

(* The shutdown takes the handle and cancels the run.                      *)
LEMMA ShutdownSafe ==
  ASSUME Typed, Stages, RunInv, Shutdown
  PROVE  Stages' /\ RunInv'
<1>1. /\ UNCHANGED <<wd, starter, raced>> /\ worker' = Cancelled(job.cancel)
      /\ main'.step = "joining" /\ wd.step # "joining"
  BY DEF Shutdown, InnerFree
<1>2. job'.handle = NoRun /\ job'.active = job.active /\ job'.cancel = job.cancel
  BY DEF Shutdown, Typed, TypedRuns, Jobs
<1>3. /\ \A q \in Runs : /\ worker'[q].phase = worker[q].phase
                         /\ worker'[q].date = worker[q].date
                         /\ worker[q].cancelled => worker'[q].cancelled
      /\ job.cancel # NoRun => worker'[job.cancel].cancelled
  BY <1>1, CancelledFields
<1>4. Live' = Live
  BY <1>3 DEF Live
<1>5. NoRun \notin Live
  BY DeepBenchAssumption DEF Live
<1>6. Stages'
  BY <1>1, <1>2, <1>3, <1>4 DEF Stages, Spawning, Live
<1>7. TickSawNone'
  BY <1>1 DEF RunInv, TickSawNone
<1>8. ~raced' => OneRun' /\ HandleOfRun'
  <2> SUFFICES ASSUME ~raced
               PROVE  OneRun' /\ HandleOfRun'
    BY <1>1
  <2>1. OneRun /\ HandleOfRun
    BY DEF RunInv
  <2>2. \A q \in Live : worker[q].cancelled => worker'[q].cancelled
    BY <1>3 DEF Live
  <2>3. OneRun'
    BY <1>1, <1>2, <1>4, <2>1, <2>2 DEF OneRun, Spawning
  <2>4. HandleOfRun'
    BY <1>1, <1>2, <1>3, <1>4, <1>5, <2>1 DEF HandleOfRun
  <2> QED
    BY <2>3, <2>4
<1> QED
  BY <1>6, <1>7, <1>8 DEF RunInv

(* A process starts with no thread.                                        *)
LEMMA ProcessSafe ==
  ASSUME NEW settings, StartsFrom(settings)
  PROVE  Stages' /\ RunInv'
<1>1. /\ job'.handle = NoRun /\ ~job'.active
      /\ wd'.step = "sleep" /\ starter'.step = "idle" /\ main'.step = "serving"
  BY ConstantsTyped DEF StartsFrom, NoJob
<1>2. \A r \in Runs : worker'[r].phase = "unborn"
  BY ConstantsTyped DEF StartsFrom
<1>3. Live' = {}
  BY <1>2 DEF Live
<1> QED
  BY <1>1, <1>3 DEF Stages, RunInv, TickSawNone, OneRun, HandleOfRun, Spawning

(* Every step keeps Stages and RunInv.                                     *)
LEMMA RunInvNext ==
  ASSUME Typed, Stages, RunInv, Next
  PROVE  Stages' /\ RunInv'
<1>1. CASE Advance
  BY <1>1 DEF Advance, Stages, RunInv, TickSawNone, OneRun, HandleOfRun, Spawning, Live
<1>2. CASE CancelDeepBench \/ \E r \in Runs : WorkerStep(r) \/ Panic(r)
  BY <1>2, CancelGoesOn, WorkersGoOn, GoOnInvariant
<1>3. CASE ShutdownEnds \/ Crash
  BY <1>3, ProcessSafe DEF ShutdownEnds, Crash
<1>4. CASE StarterStep
  BY <1>4, StarterSpawnSafe, StarterStoresSafe DEF StarterStep
<1>5. CASE Tick
  BY <1>5, LooksSafe, WatchdogStartSafe, WatchdogSpawnSafe, WatchdogStoresSafe, JoinSafe DEF Tick
<1> QED
  BY <1>1, <1>2, <1>3, <1>4, <1>5, StartSafe, ShutdownSafe, Zenon DEF Next


-----------------------------------------------------------------------------
(* Dates.                                                                  *)

(* All dates the state holds can be compared as numbers.                   *)
LEMMA DatesAreNumbers ==
  ASSUME Typed
  PROVE  /\ now \in Nat /\ DateOf(now) \in Nat
         /\ last.completed \in Nat /\ disk.last.completed \in Nat
         /\ \A r \in Runs : worker[r].date \in Nat
         /\ \A e \in history \cup disk.history : e.date \in Dates /\ e.date \in Nat
<1>1. \A d \in Dates \cup {0} : d \in Nat
  BY NowTyped DEF Dates
<1>2. now \in Nat /\ DateOf(now) \in Nat
  BY NowTyped DEF Typed, TypedSettings
<1>3. last.completed \in Nat /\ disk.last.completed \in Nat
  <2>1. last.completed \in Dates \cup {0} /\ disk.last.completed \in Dates \cup {0}
    BY DEF Typed, TypedSettings, Lasts
  <2> QED
    BY <1>1, <2>1, Zenon
<1>4. \A r \in Runs : worker[r].date \in Nat
  <2>1. \A r \in Runs : worker[r].date \in Dates \cup {0}
    BY DEF Typed, TypedRuns, Workers
  <2> QED
    BY <1>1, <2>1, Zenon
<1>5. \A e \in history \cup disk.history : e.date \in Dates
  BY DEF Typed, TypedSettings, Entries
<1> QED
  BY <1>1, <1>2, <1>3, <1>4, <1>5

(* Only the end of a run and the clock change what is compared.            *)
LEMMA DatesKept ==
  ASSUME Typed, DateInv, now' = now, doneOn' = doneOn, raced => raced',
         last'.completed = last.completed, disk'.last \in {disk.last, last},
         history' \cup disk'.history \subseteq history \cup disk.history,
         \A r \in Live' : \/ r \in Live /\ worker'[r].date = worker[r].date
                          \/ worker'[r].date = DateOf(now),
         ~raced' /\ wd'.step = "tick" /\ (~job'.active \/ starter'.step = "spawn") =>
           DateOf(now) \notin doneOn
  PROVE  DateInv'
<1> DEFINE today == DateOf(now)
<1>1. /\ today \in Nat /\ last.completed \in Nat /\ disk.last.completed \in Nat
      /\ \A r \in Runs : worker[r].date \in Nat
      /\ \A e \in history \cup disk.history : e.date \in Nat
  BY DatesAreNumbers
<1>2. today' = today
  OBVIOUS
<1>3. NoFutureDates /\ (~raced => CompletedInOrder)
  BY DEF DateInv
<1> DEFINE done == last.completed
           kept == disk.last.completed
<1>4. done \in Nat /\ kept \in Nat
  BY <1>1
<1>5. done' = done /\ kept' \in {kept, done}
  OBVIOUS
<1>6. \A r \in Live' : worker'[r].date \in Nat /\ worker'[r].date <= today
  BY <1>1, <1>3 DEF NoFutureDates, Live
<1>7. done <= today /\ kept <= today
  BY <1>3 DEF NoFutureDates
<1>8. NoFutureDates'
  <2>1. \A e \in history' \cup disk'.history : e.date <= today
    BY <1>3 DEF NoFutureDates
  <2> HIDE DEF today, done, kept
  <2>2. done' <= today' /\ kept' <= today'
    BY <1>2, <1>4, <1>5, <1>7
  <2> QED
    BY <1>2, <1>6, <2>1, <2>2 DEF NoFutureDates, today, done, kept
<1>9. ~raced' => CompletedInOrder'
  <2> SUFFICES ASSUME ~raced'
               PROVE  CompletedInOrder'
    OBVIOUS
  <2>1. CompletedInOrder
    BY <1>3
  <2>2. \A r \in Live' : last'.completed <= worker'[r].date
    BY <1>1, <1>7, <2>1 DEF CompletedInOrder
  <2> QED
    BY <1>2, <2>1, <2>2 DEF CompletedInOrder
<1> QED
  BY <1>8, <1>9 DEF DateInv

(* A step that touches neither settings nor history nor what is done.      *)
LEMMA DatesSame ==
  ASSUME Typed, DateInv, UNCHANGED <<now, last, history, disk, doneOn>>, raced => raced',
         \A r \in Live' : \/ r \in Live /\ worker'[r].date = worker[r].date
                          \/ worker'[r].date = DateOf(now),
         ~raced' /\ wd'.step = "tick" /\ (~job'.active \/ starter'.step = "spawn") =>
           DateOf(now) \notin doneOn
  PROVE  DateInv'
<1>1. /\ last'.completed = last.completed /\ disk'.last \in {disk.last, last}
      /\ history' \cup disk'.history \subseteq history \cup disk.history
      /\ now' = now /\ doneOn' = doneOn
  OBVIOUS
<1> QED
  BY <1>1, DatesKept

(* A step in which the watchdog and the job stand still.                   *)
LEMMA DatesGoOn ==
  ASSUME Typed, DateInv, GoOn, UNCHANGED <<now, last, history, disk, doneOn>>, UNCHANGED RunVars
  PROVE  DateInv'
<1>1. \A r \in Live' : r \in Live /\ worker'[r].date = worker[r].date
  BY DEF GoOn, Live
<1>2. UNCHANGED <<job, wd, starter, raced>>
  BY DEF RunVars
<1>3. ~raced' /\ wd'.step = "tick" /\ (~job'.active \/ starter'.step = "spawn") =>
        DateOf(now) \notin doneOn
  BY <1>2 DEF DateInv, CompletedInOrder
<1> QED
  BY <1>1, <1>2, <1>3, DatesSame

(* The end of a run: it was the only one, and its date comes last.         *)
LEMMA DatesCompleted ==
  ASSUME Typed, RunInv, DateInv, NEW r \in Runs, r \in Live, Completed(r), Ends(r),
         UNCHANGED RunVars, now' = now, disk'.last = disk.last,
         \A e \in history' \cup disk'.history :
            e \in history \cup disk.history \/ e.date = worker[r].date
  PROVE  DateInv'
<1> DEFINE today == DateOf(now)
           date == worker[r].date
<1>1. /\ today \in Nat /\ last.completed \in Nat /\ disk.last.completed \in Nat
      /\ \A q \in Runs : worker[q].date \in Nat
      /\ \A e \in history \cup disk.history : e.date \in Nat
  BY DatesAreNumbers
<1>2. last'.completed = date /\ doneOn' = doneOn \cup {date}
  BY DEF Completed, Typed, TypedSettings, Lasts
<1>3. NoFutureDates /\ (~raced => CompletedInOrder /\ OneRun) /\ date \in Nat /\ date <= today
  BY <1>1 DEF DateInv, NoFutureDates, RunInv
<1>4. r \notin Live' /\ \A q \in Live' : q \in Live /\ worker'[q] = worker[q]
  <2> DEFINE w == [Unborn EXCEPT !.phase = "ended"]
  <2>1. w.phase = "ended"
    BY DEF Unborn
  <2>2. worker' = [worker EXCEPT ![r] = w] /\ worker \in [Runs -> Workers]
    BY DEF Ends, Typed, TypedRuns
  <2> HIDE DEF w
  <2>3. worker'[r] = w /\ \A q \in Runs : q # r => worker'[q] = worker[q]
    BY <2>2, OneWorker
  <2> QED
    BY <2>1, <2>3 DEF Live
<1>5. today' = today
  OBVIOUS
<1>6. NoFutureDates'
  <2>1. \A e \in history' \cup disk'.history : e.date <= today
    BY <1>3 DEF NoFutureDates
  <2>2. \A q \in Live' : worker'[q].date <= today
    BY <1>3, <1>4 DEF NoFutureDates
  <2>3. last'.completed <= today /\ disk'.last.completed <= today
    BY <1>2, <1>3 DEF NoFutureDates
  <2> HIDE DEF date
  <2> QED
    BY <1>5, <2>1, <2>2, <2>3 DEF NoFutureDates
<1>7. ~raced' => CompletedInOrder'
  <2> SUFFICES ASSUME ~raced
               PROVE  CompletedInOrder'
    BY DEF RunVars
  <2>1. Live' = {} /\ last.completed <= date
    BY <1>3, <1>4 DEF OneRun, CompletedInOrder
  <2>2. \A d \in doneOn' : d \in Nat /\ d <= last'.completed
    BY <1>1, <1>2, <1>3, <2>1 DEF CompletedInOrder
  <2>3. ~(wd.step = "tick" /\ (~job.active \/ starter.step = "spawn"))
    BY <1>3 DEF OneRun
  <2>4. ~(wd'.step = "tick" /\ (~job'.active \/ starter'.step = "spawn"))
    BY <2>3 DEF RunVars
  <2> QED
    BY <2>1, <2>2, <2>4 DEF CompletedInOrder
<1> QED
  BY <1>6, <1>7 DEF DateInv


(* The clock moves forward.                                                *)
LEMMA DatesAdvance ==
  ASSUME Typed, Typed', DateInv, Advance
  PROVE  DateInv' /\ DateOf(now) <= DateOf(now)'
<1> DEFINE today == DateOf(now)
<1>1. /\ today \in Nat /\ last.completed \in Nat /\ disk.last.completed \in Nat
      /\ \A r \in Runs : worker[r].date \in Nat
      /\ \A e \in history \cup disk.history : e.date \in Nat
  BY DatesAreNumbers
<1>2. today' \in Nat /\ today <= today'
  <2>1. now \in Nat /\ now' \in Nat /\ now <= now'
    <3>1. now \in Nat /\ now' \in Times /\ now' > now
      BY DatesAreNumbers DEF Advance
    <3>2. now' \in Nat
      BY <3>1, NowTyped
    <3> QED
      BY <3>1, <3>2
  <2>2. DateOf(now) <= DateOf(now') /\ DateOf(now') \in Nat
    BY <2>1, DateOfMonotone, DateOfTyped
  <2> QED
    BY <2>2
<1>3. UNCHANGED <<job, worker, last, history, disk, starter, wd, raced, doneOn>>
  BY DEF Advance
<1>4. NoFutureDates /\ (~raced => CompletedInOrder)
  BY DEF DateInv
<1>5. Live' = Live /\ Live \subseteq Runs
  BY <1>3 DEF Live
<1> HIDE DEF today
<1>6. NoFutureDates'
  BY <1>1, <1>2, <1>3, <1>4, <1>5 DEF NoFutureDates, today
<1>7. ~raced' => CompletedInOrder'
  <2> SUFFICES ASSUME ~raced
               PROVE  CompletedInOrder'
    BY <1>3
  <2>1. today' \in doneOn => today \in doneOn
    BY <1>1, <1>2, <1>4 DEF CompletedInOrder, NoFutureDates, today
  <2> QED
    BY <1>3, <1>4, <1>5, <2>1 DEF CompletedInOrder, today
<1> QED
  BY <1>2, <1>6, <1>7 DEF DateInv, today

(* The settings a process starts from are those of the disk.               *)
LEMMA DatesRestart ==
  ASSUME Typed, DateInv, ShutdownEnds \/ Crash
  PROVE  DateInv'
<1> DEFINE today == DateOf(now)
<1>1. /\ today \in Nat /\ last.completed \in Nat /\ disk.last.completed \in Nat
      /\ \A e \in history \cup disk.history : e.date \in Nat
  BY DatesAreNumbers
<1>2. disk' \in {disk, [disk EXCEPT !.last = IF dirty THEN last ELSE @]}
  BY DEF ShutdownEnds, Crash
<1>3. disk'.history = disk.history /\ disk'.last \in {disk.last, last}
  BY <1>2 DEF Typed, TypedSettings
<1>4. StartsFrom(disk'.last)
  BY DEF ShutdownEnds, Crash
<1>5. /\ last' = disk'.last /\ doneOn' = {last'.completed} \ {0} /\ now' = now /\ history' = {}
      /\ wd'.step = "sleep"
  BY <1>4, ConstantsTyped DEF StartsFrom
<1>6. Live' = {}
  <2>1. \A r \in Runs : worker'[r].phase = "unborn"
    BY <1>4, ConstantsTyped DEF StartsFrom
  <2> QED
    BY <2>1 DEF Live
<1>7. last'.completed \in Nat /\ last'.completed <= today
  BY <1>1, <1>3, <1>5 DEF DateInv, NoFutureDates
<1>8. NoFutureDates'
  <2>1. \A e \in history' \cup disk'.history : e.date <= today
    BY <1>3, <1>5 DEF DateInv, NoFutureDates
  <2>2. today' = today /\ disk'.last.completed <= today
    BY <1>5, <1>7
  <2> QED
    BY <1>6, <1>7, <2>1, <2>2 DEF NoFutureDates
<1>9. CompletedInOrder'
  BY <1>5, <1>6, <1>7 DEF CompletedInOrder
<1> QED
  BY <1>8, <1>9 DEF DateInv

(* What a tick decides on is the date it read.                             *)
LEMMA DatesTick ==
  ASSUME Typed, Stages, RunInv, DateInv, Tick
  PROVE  DateInv'
<1>1. DateOf(now) \in Nat /\ last.completed \in Nat
  BY DatesAreNumbers
<1>2. UNCHANGED <<now, history, doneOn>> /\ last'.completed = last.completed
      /\ disk'.last \in {disk.last, last} /\ disk'.history = disk.history
  <2>1. UNCHANGED <<now, history, doneOn>>
    BY Zenon DEF Tick, BeginTick, WatchdogSpawns, WatchdogStoresHandle, LookAtHandle, Join, Joined, EndTick,
              WatchdogSkips, WatchdogStarts
  <2>2. ASSUME NEW r \in Runs, WatchdogStarts(r)
        PROVE  last'.completed = last.completed /\ disk' = disk
    BY <2>2 DEF WatchdogStarts, Enter, Typed, TypedSettings, Lasts
  <2>3. CASE EndTick
    BY <2>1, <2>3 DEF EndTick, Flush, Typed, TypedSettings
  <2>4. UNCHANGED <<last, disk>> \/ EndTick \/ \E r \in Runs : WatchdogStarts(r)
    BY Zenon DEF Tick, BeginTick, WatchdogSpawns, WatchdogStoresHandle, LookAtHandle, Join, Joined, WatchdogSkips
  <2> QED
    BY <2>1, <2>2, <2>3, <2>4
<1>3. raced => raced'
  BY Zenon DEF Tick, BeginTick, WatchdogSpawns, WatchdogStoresHandle, LookAtHandle, Join, Joined, EndTick,
            WatchdogSkips, WatchdogStarts
<1>4. \A r \in Live' : \/ r \in Live /\ worker'[r].date = worker[r].date
                       \/ worker'[r].date = DateOf(now)
  <2>1. CASE worker' = worker
    BY <2>1 DEF Live
  <2>2. ASSUME NEW r \in Runs, WatchdogStarts(r)
        PROVE  Live' = Live /\ \A q \in Live : worker'[q] = worker[q]
    <3>1. Enter(r)
      BY <2>2 DEF WatchdogStarts
    <3> QED
      BY <3>1, Entered
  <2>3. CASE worker' = Spawned(wd.run) /\ wd.step = "spawn"
    <3>1. wd.run \in Runs
      BY <2>3 DEF Stages, Spawning
    <3>2. /\ worker'[wd.run].date = DateOf(now) /\ Live' = Live \cup {wd.run}
          /\ \A q \in Runs : q # wd.run => worker'[q] = worker[q]
      BY <2>3, <3>1, SpawnedFields
    <3> QED
      BY <3>2 DEF Live
  <2>4. worker' = worker \/ (worker' = Spawned(wd.run) /\ wd.step = "spawn")
          \/ \E r \in Runs : WatchdogStarts(r)
    BY Zenon DEF Tick, BeginTick, WatchdogSpawns, WatchdogStoresHandle, LookAtHandle, Join, Joined, EndTick,
              WatchdogSkips
  <2> QED
    BY <2>1, <2>2, <2>3, <2>4
<1>5. ~raced' /\ wd'.step = "tick" => DateOf(now) \notin doneOn
  <2> SUFFICES ASSUME ~raced', wd'.step = "tick"
               PROVE  DateOf(now) \notin doneOn
    OBVIOUS
  <2>1. BeginTick
    BY ConstantsTyped DEF Tick, BeginTick, WatchdogSpawns, WatchdogStoresHandle, LookAtHandle, Join, Joined,
       EndTick, WatchdogSkips, WatchdogStarts, Typed, TypedRuns
  <2>2. Due
    <3>1. Launches(job.active)
      BY <2>1 DEF BeginTick
    <3> QED
      BY <3>1, Zenon DEF Launches
  <2>3. last.completed # DateOf(now) /\ last.completed <= DateOf(now)
    BY <2>2 DEF Due, DateInv, NoFutureDates
  <2>4. \A d \in doneOn : d \in Nat /\ d <= last.completed
    BY <1>3 DEF DateInv, CompletedInOrder
  <2> QED
    BY <1>1, <2>3, <2>4
<1> QED
  BY <1>2, <1>3, <1>4, <1>5, DatesKept


(* Requests keep DateInv.                                                  *)
LEMMA DatesRequests ==
  ASSUME Typed, Stages, RunInv, DateInv,
         (\E r \in Runs : StartDeepBench(r)) \/ StarterStep \/ CancelDeepBench \/ Shutdown
  PROVE  DateInv'
<1>1. ~raced /\ wd.step = "tick" /\ (~job.active \/ starter.step = "spawn") =>
        DateOf(now) \notin doneOn
  BY DEF DateInv, CompletedInOrder
<1>2. ASSUME NEW r \in Runs, StartDeepBench(r)
      PROVE  DateInv'
  <2>1. Enter(r) /\ UNCHANGED <<now, history, disk, wd, raced, doneOn>> /\ ~job.active
    BY <1>2 DEF StartDeepBench
  <2>2. Live' = Live /\ \A q \in Live : worker'[q] = worker[q]
    BY <2>1, Entered
  <2>3. last'.completed = last.completed
    BY <2>1 DEF Enter, Typed, TypedSettings, Lasts
  <2> QED
    BY <1>1, <2>1, <2>2, <2>3, DatesKept
<1>3. CASE StarterSpawns
  <2>1. UNCHANGED <<now, last, history, disk, wd, raced, doneOn>> /\ starter.step = "spawn"
    BY <1>3 DEF StarterSpawns
  <2>2. worker' \in {worker, Spawned(starter.run)} /\ starter.run \in Runs
    BY <1>3, <2>1 DEF StarterSpawns, Stages, Spawning
  <2>3. \A r \in Live' : \/ r \in Live /\ worker'[r].date = worker[r].date
                         \/ worker'[r].date = DateOf(now)
    <3>1. CASE worker' = worker
      BY <3>1 DEF Live
    <3>2. CASE worker' = Spawned(starter.run)
      <4>1. /\ worker'[starter.run].date = DateOf(now) /\ Live' = Live \cup {starter.run}
            /\ \A q \in Runs : q # starter.run => worker'[q] = worker[q]
        BY <2>2, <3>2, SpawnedFields
      <4> QED
        BY <4>1 DEF Live
    <3> QED
      BY <2>2, <3>1, <3>2
  <2> QED
    BY <1>1, <2>1, <2>3, DatesSame
<1>4. CASE StarterStoresHandle
  <2>1. UNCHANGED <<now, last, history, disk, wd, worker, raced, doneOn>> /\ starter'.step = "idle"
    BY <1>4, ConstantsTyped DEF StarterStoresHandle
  <2>2. job'.active = job.active
    BY <1>4 DEF StarterStoresHandle, Typed, TypedRuns, Jobs
  <2>3. \A r \in Live' : r \in Live /\ worker'[r].date = worker[r].date
    BY <2>1 DEF Live
  <2> QED
    BY <1>1, <2>1, <2>2, <2>3, DatesSame
<1>5. CASE CancelDeepBench
  <2>1. UNCHANGED <<now, last, history, disk, doneOn>>
    BY <1>5 DEF CancelDeepBench
  <2> QED
    BY <1>5, <2>1, CancelGoesOn, DatesGoOn
<1>6. CASE Shutdown
  <2>1. UNCHANGED <<now, last, history, disk, wd, starter, raced, doneOn>> /\ worker' = Cancelled(job.cancel)
    BY <1>6 DEF Shutdown
  <2>2. job'.active = job.active
    BY <1>6 DEF Shutdown, Typed, TypedRuns, Jobs
  <2>3. \A r \in Live' : r \in Live /\ worker'[r].date = worker[r].date
    BY <2>1, CancelledFields DEF Live
  <2> QED
    BY <1>1, <2>1, <2>2, <2>3, DatesSame
<1> QED
  BY <1>2, <1>3, <1>4, <1>5, <1>6 DEF StarterStep

(* The threads of the runs keep DateInv.                                   *)
LEMMA DatesWorkers ==
  ASSUME Typed, RunInv, DateInv, NEW r \in Runs, WorkerStep(r) \/ Panic(r)
  PROVE  DateInv'
<1>1. GoOn /\ r \in Live /\ UNCHANGED RunVars
  BY WorkersGoOn
<1>2. UNCHANGED <<now, history, disk, last, doneOn>> \/ (Completed(r) /\ Ends(r))
  BY Zenon DEF WorkerStep, FinishPhaseA, StepPhaseB, SaveHistory, Panic
<1>3. now' = now
  BY Zenon DEF WorkerStep, FinishPhaseA, StepPhaseB, SaveHistory, Panic
<1>4. UNCHANGED <<history, disk>> \/ SaveHistory(r)
  BY Zenon DEF WorkerStep, FinishPhaseA, StepPhaseB, Panic
<1>5. ASSUME SaveHistory(r)
      PROVE  /\ disk'.last = disk.last /\ disk'.history \in {disk.history, history'}
             /\ \A e \in history' : e \in history \cup disk.history \/ e.date = worker[r].date
  <2> DEFINE measured == {[date |-> worker[r].date, server |-> t] : t \in worker[r].tested}
  <2>1. \A e \in measured : e.date = worker[r].date
    OBVIOUS
  <2>2. history' \subseteq Loaded \cup measured
    BY <1>5 DEF SaveHistory, Capped
  <2>3. Loaded \subseteq history \cup disk.history
    BY DEF Loaded
  <2>4. disk' \in {disk, [disk EXCEPT !.history = history']}
    BY <1>5 DEF SaveHistory
  <2> HIDE DEF measured
  <2> QED
    BY <2>1, <2>2, <2>3, <2>4 DEF Typed, TypedSettings
<1>6. disk'.last = disk.last /\ \A e \in history' \cup disk'.history :
                                  e \in history \cup disk.history \/ e.date = worker[r].date
  BY <1>4, <1>5
<1>7. CASE UNCHANGED <<now, history, disk, last, doneOn>>
  BY <1>1, <1>7, DatesGoOn
<1>8. CASE Completed(r) /\ Ends(r)
  BY <1>1, <1>3, <1>6, <1>8, DatesCompleted
<1> QED
  BY <1>2, <1>7, <1>8

(* Every step keeps DateInv.                                               *)
LEMMA DateInvNext ==
  ASSUME Typed, Typed', Stages, RunInv, DateInv, Next
  PROVE  DateInv'
BY DatesAdvance, DatesRestart, DatesTick, DatesRequests, DatesWorkers, Zenon DEF Next

-----------------------------------------------------------------------------
(* The history.                                                            *)

(* The cap keeps the month: yyyymmdd - 30 lies in the month before.        *)
LEMMA MonthKept ==
  ASSUME Typed, DateInv, NEW r \in Runs, r \in Live, NEW e \in disk.history, SameMonth(e.date)
  PROVE  e.date >= worker[r].date - 30
<1> DEFINE today == DateOf(now)
           date == worker[r].date
           day == e.date
<1>1. today \in Nat /\ date \in Nat /\ day \in Nat /\ day \in Dates
  BY DatesAreNumbers
<1>2. date <= today
  BY DEF DateInv, NoFutureDates
<1>3. today <= 100 * (today \div 100) + 31
  BY DatesAreNumbers, DateOfTyped
<1>4. 100 * (day \div 100) < day
  <2>1. PICK t \in Times : day = DateOf(t)
    BY <1>1 DEF Dates
  <2>2. t \in Nat
    BY NowTyped
  <2> QED
    BY <2>1, <2>2, DateOfTyped
<1>5. day \div 100 = today \div 100
  BY DEF SameMonth
<1> HIDE DEF today, date, day
<1> QED
  BY <1>1, <1>2, <1>3, <1>4, <1>5 DEF day, date

(* Saving the history keeps the entries of the current month, in memory    *)
(* and in the file.                                                        *)
LEMMA SavedKeeps ==
  ASSUME Typed, DateInv, MemoryHasDisk, NEW r \in Runs, SaveHistory(r), ~misread',
         NEW e \in disk.history, SameMonth(e.date)
  PROVE  e \in history' /\ (disk' = disk \/ disk'.history = history')
<1> DEFINE measured == {[date |-> worker[r].date, server |-> t] : t \in worker[r].tested}
<1>1. r \in Live
  BY DEF SaveHistory, Live
<1>2. ~misread /\ history' = Capped(Loaded \cup measured, worker[r].date)
  BY DEF SaveHistory
<1>3. e \in Loaded
  BY <1>2 DEF Loaded, MemoryHasDisk
<1>4. e \in history'
  BY <1>1, <1>2, <1>3, MonthKept DEF Capped
<1>5. disk' \in {disk, [disk EXCEPT !.history = history']}
  BY DEF SaveHistory
<1> QED
  BY <1>4, <1>5 DEF Typed, TypedSettings

(* Only a run that ends writes the history, only a restart forgets it.     *)
LEMMA HistoryWritten ==
  ASSUME Typed, Next
  PROVE  /\ disk'.history = disk.history \/ \E r \in Runs : SaveHistory(r)
         /\ \/ UNCHANGED <<now, history, misread>>
            \/ history' = {} \/ Advance \/ \E r \in Runs : SaveHistory(r)
<1>1. CASE ShutdownEnds \/ Crash
  <2>1. disk' \in {disk, [disk EXCEPT !.last = IF dirty THEN last ELSE @]} /\ history' = {}
    BY <1>1 DEF ShutdownEnds, Crash, StartsFrom
  <2> QED
    BY <2>1 DEF Typed, TypedSettings
<1>2. CASE EndTick
  BY <1>2 DEF EndTick, Flush, Typed, TypedSettings
<1>3. CASE Tick
  <2>1. EndTick \/ UNCHANGED <<now, history, misread, disk>>
    BY <1>3, Zenon DEF Tick, BeginTick, WatchdogSpawns, WatchdogStoresHandle, LookAtHandle, Join, Joined,
                WatchdogSkips, WatchdogStarts
  <2> QED
    BY <1>2, <2>1
<1>4. StarterStep \/ CancelDeepBench \/ Shutdown => UNCHANGED <<now, history, misread, disk>>
  BY Zenon DEF StarterStep, StarterSpawns, StarterStoresHandle, CancelDeepBench, Shutdown
<1>5. \A r \in Runs : StartDeepBench(r) \/ FinishPhaseA(r) \/ StepPhaseB(r) \/ Panic(r) =>
                         UNCHANGED <<now, history, misread, disk>>
  BY Zenon DEF StartDeepBench, FinishPhaseA, StepPhaseB, Panic
<1>6. \/ ShutdownEnds \/ Crash \/ Tick \/ Advance
      \/ UNCHANGED <<now, history, misread, disk>>
      \/ \E r \in Runs : SaveHistory(r)
  BY <1>4, <1>5, Zenon DEF Next, WorkerStep
<1> QED
  BY <1>1, <1>3, <1>6 DEF Advance

(* Every step keeps MemoryHasDisk.                                         *)
LEMMA MemoryHasDiskNext ==
  ASSUME Typed, Typed', DateInv, MemoryHasDisk, Next
  PROVE  MemoryHasDisk'
<1>1. CASE UNCHANGED <<now, history, misread>> /\ disk'.history = disk.history
  BY <1>1 DEF MemoryHasDisk, SameMonth
<1>2. CASE history' = {}
  BY <1>2 DEF MemoryHasDisk
<1>3. ASSUME NEW r \in Runs, SaveHistory(r)
      PROVE  MemoryHasDisk'
  <2>1. UNCHANGED now
    BY <1>3 DEF SaveHistory
  <2>2. ASSUME ~misread', NEW e \in disk'.history, SameMonth(e.date)
        PROVE  e \in history'
    <3>1. disk' = disk \/ disk'.history = history'
      <4>1. disk' \in {disk, [disk EXCEPT !.history = history']}
        BY <1>3 DEF SaveHistory
      <4> QED
        BY <4>1 DEF Typed, TypedSettings
    <3> QED
      BY <1>3, <2>2, <3>1, SavedKeeps
  <2> QED
    BY <2>1, <2>2 DEF MemoryHasDisk, SameMonth
<1>4. CASE Advance
  <2> DEFINE today == DateOf(now)
  <2>1. UNCHANGED <<history, disk, misread>>
    BY <1>4 DEF Advance
  <2>2. /\ today \in Nat
        /\ \A e \in disk.history : e.date \in Nat /\ e.date <= today
    BY DatesAreNumbers DEF DateInv, NoFutureDates
  <2>3. today' \in Nat /\ today <= today'
    BY <1>4, DatesAdvance, NowTyped DEF Typed, TypedSettings
  <2>4. ASSUME NEW e \in disk.history, e.date \div 100 = today' \div 100
        PROVE  SameMonth(e.date)
    <3> DEFINE day == e.date
    <3>1. day \in Nat /\ day <= today /\ day \div 100 = today' \div 100
      BY <2>2, <2>4
    <3> HIDE DEF day, today
    <3>2. day \div 100 = today \div 100
      BY <2>2, <2>3, <3>1
    <3> QED
      BY <3>2 DEF SameMonth, day, today
  <2> QED
    BY <2>1, <2>4 DEF MemoryHasDisk, SameMonth
<1>5. \/ UNCHANGED <<now, history, misread>> /\ disk'.history = disk.history
      \/ history' = {} \/ Advance \/ \E r \in Runs : SaveHistory(r)
  BY HistoryWritten
<1> QED
  BY <1>1, <1>2, <1>3, <1>4, <1>5


-----------------------------------------------------------------------------
(* The theorems.                                                           *)

(* DeepInv holds initially.                                                *)
LEMMA DeepInit == Init => DeepInv
<1> SUFFICES ASSUME Init
             PROVE  DeepInv
  OBVIOUS
<1>1. now \in Times /\ history = {} /\ doneOn = {} /\ dirty = FALSE
  BY DEF Init
<1>2. last.completed = 0 /\ disk.history = {} /\ disk.last = last /\ last \in Lasts
      /\ disk \in [last : Lasts, history : SUBSET Entries]
  BY DEF Init, Lasts
<1>3. /\ job = NoJob /\ wd = Asleep /\ starter = NoStart /\ main = Serving
      /\ worker = [r \in Runs |-> Unborn]
  BY DEF Init
<1>4. \A r \in Runs : worker[r].phase = "unborn"
  BY <1>3, ConstantsTyped
<1>5. Live = {}
  BY <1>4 DEF Live
<1>6. Typed
  <2>1. worker \in [Runs -> Workers]
    BY <1>3, ConstantsTyped
  <2>2. TypedRuns
    BY <1>3, <2>1, ConstantsTyped DEF TypedRuns
  <2>3. TypedSettings
    BY <1>1, <1>2 DEF TypedSettings
  <2> QED
    BY <2>2, <2>3 DEF Typed
<1>7. /\ job.handle = NoRun /\ ~job.active
      /\ wd.step = "sleep" /\ starter.step = "idle" /\ main.step = "serving"
  BY <1>3, ConstantsTyped DEF NoJob
<1>8. Stages
  BY <1>5, <1>7 DEF Stages, Spawning
<1>9. RunInv
  BY <1>5, <1>7 DEF RunInv, TickSawNone, OneRun, HandleOfRun, Spawning
<1>10. DateInv
  <2>1. DateOf(now) \in Nat
    BY <1>6, DatesAreNumbers
  <2>2. 0 <= DateOf(now)
    BY <2>1
  <2>3. NoFutureDates
    BY <1>1, <1>2, <1>5, <2>2 DEF NoFutureDates
  <2>4. CompletedInOrder
    BY <1>1, <1>5, <1>7 DEF CompletedInOrder
  <2> QED
    BY <2>3, <2>4 DEF DateInv
<1>11. MemoryHasDisk
  BY <1>1 DEF MemoryHasDisk
<1> QED
  BY <1>6, <1>8, <1>9, <1>10, <1>11 DEF DeepInv

(* Every step keeps DeepInv.                                               *)
LEMMA DeepNext ==
  ASSUME DeepInv, [Next]_vars
  PROVE  DeepInv'
<1>1. CASE UNCHANGED vars
  BY <1>1 DEF vars, DeepInv, Typed, TypedRuns, TypedSettings, Stages, Spawning, RunInv, TickSawNone, OneRun,
     HandleOfRun, DateInv, NoFutureDates, CompletedInOrder, MemoryHasDisk, SameMonth, Live
<1>2. CASE Next
  <2>1. Typed' /\ Stages' /\ RunInv'
    BY <1>2, TypedNext, RunInvNext DEF DeepInv
  <2>2. DateInv' /\ MemoryHasDisk'
    BY <1>2, <2>1, DateInvNext, MemoryHasDiskNext DEF DeepInv
  <2> QED
    BY <2>1, <2>2 DEF DeepInv
<1> QED
  BY <1>1, <1>2

(* The inductive invariant: who runs and who can cancel it, that no date   *)
(* lies in the future or runs backwards, and that the memory has the       *)
(* disk's entries of the month.                                            *)
THEOREM DeepBenchInvariant == Spec => []DeepInv
<1>1. Init => DeepInv
  BY DeepInit
<1>2. DeepInv /\ [Next]_vars => DeepInv'
  BY DeepNext
<1> QED
  BY <1>1, <1>2, PTL DEF Spec

(* The variables of the runs, the settings and the history keep their      *)
(* types, and the handle that is kept is that of a thread once spawned.    *)
THEOREM DeepBenchTypeCorrect == Spec => []TypeOK
<1>1. DeepInv => TypeOK
  <2> SUFFICES ASSUME DeepInv
               PROVE  TypeOK
    OBVIOUS
  <2>1. TypedRuns /\ TypedSettings /\ Stages
    BY DEF DeepInv, Typed
  <2>2. now \in Times /\ dirty \in BOOLEAN /\ history \cup disk.history \subseteq Entries
    BY <2>1 DEF TypedSettings
  <2>3. last.run \in Times \cup {0} /\ last.completed \in Dates \cup {0}
    BY <2>1 DEF TypedSettings, Lasts
  <2>4. job \in [active: BOOLEAN, cancel: Runs \cup {NoRun}, handle: Runs \cup {NoRun}]
    BY <2>1 DEF TypedRuns, Jobs, SomeRun
  <2>5. \A r \in Runs :
          /\ worker[r].phase \in {"unborn", "a", "b", "save", "ended"}
          /\ worker[r].todo \cup worker[r].tested \subseteq Servers
    BY <2>1 DEF TypedRuns, Workers, Phases
  <2>6. job.handle # NoRun => worker[job.handle].phase # "unborn"
    BY <2>1 DEF Stages
  <2>7. /\ wd.step \in {"sleep", "tick", "spawn", "handle", "reap", "join", "joining", "flush"}
        /\ starter.step \in {"idle", "spawn", "handle"} /\ main.step \in {"serving", "joining"}
    BY <2>1 DEF TypedRuns, WatchdogSteps
  <2> QED
    BY <2>2, <2>3, <2>4, <2>5, <2>6, <2>7 DEF TypeOK
<1> QED
  BY <1>1, DeepBenchInvariant, PTL

(* Unless a start overlapped a tick that does not know it, a test that     *)
(* runs is cancelled already or the job's flag is the one it reads.        *)
THEOREM CancellationReachesTheRun == Spec => []CancelReachesRun
<1>1. DeepInv => CancelReachesRun
  BY DEF DeepInv, RunInv, OneRun, CancelReachesRun
<1> QED
  BY <1>1, DeepBenchInvariant, PTL

(* The watchdog's decision is right when it acts on it, some steps later:  *)
(* no run of this date was completed or cancelled meanwhile.               *)
THEOREM OneRunADay == Spec => OncePerDay
<1>1. DeepInv /\ [Next]_vars =>
        [(\E r \in Runs : WatchdogStarts(r)) /\ ~raced' => DateOf(now) \notin doneOn]_vars
  <2> SUFFICES ASSUME DeepInv, NEW r \in Runs, WatchdogStarts(r), ~raced'
               PROVE  DateOf(now) \notin doneOn
    BY Zenon
  <2>1. wd.step = "tick" /\ raced' = (raced \/ (job.active /\ ~wd.deep)) /\ ~wd.deep
    BY Zenon DEF WatchdogStarts, DeepInv, RunInv, TickSawNone
  <2>2. ~raced /\ ~job.active
    BY <2>1, Zenon
  <2> QED
    BY <2>1, <2>2 DEF DeepInv, DateInv, CompletedInOrder
<1> QED
  BY <1>1, DeepBenchInvariant, PTL DEF Spec, OncePerDay

(* A result of the current month that is on disk stays there, whatever is  *)
(* saved or fails to be saved, if the history could be read.               *)
THEOREM HistoryIsKept == Spec => HistorySurvives
<1>1. DeepInv /\ [Next]_vars =>
        [\A e \in disk.history : SameMonth(e.date)' /\ ~misread' => e \in disk'.history]_vars
  <2> SUFFICES ASSUME DeepInv, Next, NEW e \in disk.history, SameMonth(e.date)', ~misread'
               PROVE  e \in disk'.history
    BY Zenon
  <2>1. ASSUME NEW r \in Runs, SaveHistory(r)
        PROVE  e \in disk'.history
    <3>1. now' = now
      BY <2>1 DEF SaveHistory
    <3>2. SameMonth(e.date)
      BY <3>1 DEF SameMonth
    <3> QED
      BY <2>1, <3>2, SavedKeeps DEF DeepInv
  <2>2. disk'.history = disk.history \/ \E r \in Runs : SaveHistory(r)
    BY HistoryWritten DEF DeepInv
  <2> QED
    BY <2>1, <2>2
<1> QED
  BY <1>1, DeepBenchInvariant, PTL DEF Spec, HistorySurvives

==============================================================================
