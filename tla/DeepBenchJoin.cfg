CONSTANTS
  Servers = {s1}
  Times <- MCTimes
  StartHour = 3
  EndHour = 5
  Runs = {r1, r2}
  NoRun = NoRun
  MaxEvents = 2
SPECIFICATION Spec
CHECK_DEADLOCK FALSE
INVARIANT WatchdogNeverBlocked
