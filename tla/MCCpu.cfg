\* Every three-instruction program without a read of its own destination.
SPECIFICATION Spec
CONSTANTS
  XLEN = 4
  DMEM_WORDS = 2
  Junk = {3}
  Programs <- MCPrograms
  PowerUp <- MCPowerUp
INVARIANT LoopOnlyOnOwnDestination
PROPERTY RefinesIsaButInReset
PROPERTY OnlyFirstStoreInReset
