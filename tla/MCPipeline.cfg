\* Every four-instruction program over the repertoire of MCPipeline.
SPECIFICATION Spec
CONSTANTS
  XLEN = 4
  DMEM_WORDS = 2
  Junk = {3}
  Programs <- MCPrograms
  PowerUp <- MCPowerUp
INVARIANT TypeOK
INVARIANT PipelineInv
INVARIANT NoRedirectWhileStalled
INVARIANT BubbleHasCause
PROPERTY RefinesIsa
PROPERTY StallLastsOneCycle
PROPERTY ResetStoresNothing
