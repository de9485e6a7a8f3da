\* Where a load-use reader takes its operand from.
SPECIFICATION Spec
CONSTANTS
  XLEN = 5
  DMEM_WORDS = 8
  Junk = {3}
  Programs <- MCLoadUse
  PowerUp <- MCPowerUp
INVARIANT LoadReachesReaderFromExMem
