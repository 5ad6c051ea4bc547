CONSTANTS
  Servers = {s1}
  Times <- MCTimes
  StartHour = 3
  EndHour = 5
  Runs = {r1, r2}
  NoRun = NoRun
  MaxEvents = 2
SPECIFICATION FairSpec
CHECK_DEADLOCK FALSE
INVARIANTS TypeOK CancelReachesRun
PROPERTIES OncePerDay HistorySurvives ActiveClears
