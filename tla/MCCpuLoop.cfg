\* A program that reads the register it writes.
SPECIFICATION Spec
CONSTANTS
  XLEN = 5
  DMEM_WORDS = 2
  Junk = {3}
  Programs <- MCLoopPrograms
  PowerUp <- MCPowerUp
PROPERTY RefinesIsa
