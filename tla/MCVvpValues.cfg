\* Vectors, functors, delays, signals and resolvers of vvp.
SPECIFICATION ValuesSpec
CONSTANTS
  \* the net with fixed delays
  Kind = "vec4"
  NetWidth = 1
  Inputs <- Bits
  Delays = {0, 1, 3}
  Variable = FALSE
  MaxChanges = 1
  ChangeWhenDue = "not first"
  MaxTime = 6
  \* the net that is forced
  Width = 2
  InputBits <- TwoState
  IsNet = TRUE
  Assigns = FALSE
  ReleaseOwned = TRUE
  \* the net with a tree of drivers
  NPorts = 5
  ActivePorts = {0, 3, 4}
  VectorWidth = 1
  Drivers <- EvenDrivers
  Drivers4 <- StrongZeros
  Partial = FALSE
  Kinds = {"tri", "tri0", "trior"}
INVARIANT ResultIsRight
INVARIANT StandsForBits
INVARIANT ReadsBits
INVARIANT InputArrives
PROPERTY FixedDelayIsInertial
INVARIANT ReadsAsPromised
PROPERTY ChangesAreTold
INVARIANT NetIsResolved
CHECK_DEADLOCK FALSE
