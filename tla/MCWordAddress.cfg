\* Where an aligned store lands.
SPECIFICATION Spec
CONSTANTS
  XLEN = 5
  DMEM_WORDS = 8
  Junk = {3}
  Programs <- MCStoreWord
  PowerUp <- MCPowerUp
PROPERTY WordAddressed
