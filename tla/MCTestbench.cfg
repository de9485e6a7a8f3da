\* The repository's integration testbenches, at the widest word TLC can hold.
SPECIFICATION TestbenchSpec
CONSTANTS
  XLEN = 30
  DMEM_WORDS = 256
  Junk = {3}
  Programs <- MCPrograms
  PowerUp <- MCPowerUp
  DefaultProgram <- MCDefault
  CycleBound = 42
  ResetBound = 5
INVARIANT TestbenchPasses
INVARIANT EdgeIsAtomic
INVARIANT ResetWins
CHECK_DEADLOCK FALSE
