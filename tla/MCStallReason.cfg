\* A stall without a reader.
SPECIFICATION Spec
CONSTANTS
  XLEN = 5
  DMEM_WORDS = 8
  Junk = {3}
  Programs <- MCLuiAfterLoad
  PowerUp <- MCPowerUp
INVARIANT StallOnlyForReaders
