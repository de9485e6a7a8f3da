\* The event list, the threads and the callback lists of vvp.
SPECIFICATION ProcessSpec
CONSTANTS
  MaxEvents = 4
  Delays = {0, 1, 2}
  MaxStops = 0
  StartNow = FALSE
  Calls = {"vthread", "inactive", "assign", "functor"}
  Callbacks = {1, 2, 3, 4}
  Parts = {4}
  nil = 0
  MaxDepth = 1
  MaxSteps = 2
PROPERTY RefinesAgenda
INVARIANT UpdatesBeforeReaders
INVARIANT FreedInTime
INVARIANT LinksAgree
INVARIANT SomeoneWillWake
INVARIANT JoinedAll
INVARIANT ListsIntact
INVARIANT CalledOnce
INVARIANT RemovedIsReaped
CHECK_DEADLOCK FALSE
