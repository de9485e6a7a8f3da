\* Single instructions at 30 bits.
SPECIFICATION Spec
CONSTANT XLEN = 30
CONSTANT DMEM_WORDS = 2
CONSTANT Junk = {3}
CONSTANT Programs = {}
CONSTANT PowerUp = {}
CONSTANT Operands <- MCOperands
CONSTANT Immediates <- MCImmediates
CONSTANT Offsets <- MCOffsets
CONSTANT UImmediates <- MCUImmediates
INVARIANT ResultMeetsISA
INVARIANT NextPcMeetsISA
CHECK_DEADLOCK FALSE
