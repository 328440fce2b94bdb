SPECIFICATION FairSpec
CONSTANTS
  Callers = {p1, p2, p3, p4}
  MaxCapacity = 3
  MaxCalls = 2
INVARIANTS TypeOK SlotsAccounted NoneStranded
PROPERTIES Served
CHECK_DEADLOCK FALSE
