CONSTANTS
  N = 4
  SleepMs = {5, 10, 30}
  TickWrap = 3
SPECIFICATION HSpec
INVARIANTS TypeOK SleepersCanWake BoundedBypass SleepsNoLonger
PROPERTY SleepReturns
