\* Progress of the scheduler, the threads and the division opcodes of vvp.
SPECIFICATION ProgressSpec
CONSTANTS
  MaxEvents = 3
  Delays = {0, 1}
  MaxStops = 0
  StartNow = FALSE
  Calls = {"vthread", "generic", "start", "next", "init", "final", "del_thr", "finish"}
INVARIANT RegionsInOrder
PROPERTY EveryEventRuns
PROPERTY EveryThreadIsDeleted
INVARIANT DivisionIsRight
PROPERTY Terminates
CHECK_DEADLOCK FALSE
