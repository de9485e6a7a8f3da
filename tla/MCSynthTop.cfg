\* Every three-instruction program over the repertoire of MCPipeline.
SPECIFICATION TopFairSpec
CONSTANTS
  XLEN = 4
  DMEM_WORDS = 2
  Junk = {3}
  Programs <- MCShortPrograms
  PowerUp <- MCPowerUp
INVARIANT CycleCost
INVARIANT WriterShown
PROPERTY Progress
