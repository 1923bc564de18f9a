SPECIFICATION Spec
CONSTANTS
  Cities = 3
  Day = 4
  Hour = 2
  Minute = 3
  Step = 2
  Passes = 2
  ShowStep = 4
  StartTimes = {1}
  MaxQueries = 2
  MaxClock = 18
  Factor <- MCFactor
  Timetables <- MCTimetables
  Trips <- MCTrips
  Questions <- MCQuestions
INVARIANTS
  TypeOK
  LimitKept
  RidesConnect
  FoundIfReachable
  NotMissed
  ClocksAgree
  StaysOnRoute
PROPERTIES
  Arrives
  LogWritten
CHECK_DEADLOCK FALSE
