------------------------------- MODULE RV32I -------------------------------
(***************************************************************************)
(* What the ISA says single instructions do, stated on bits and            *)
(* independently of the datapath: a reference for Datapath's operators.    *)
(* External to the repository; docs/Architecture.md:36-42 lists the        *)
(* instructions the cores implement.                                       *)
(***************************************************************************)
EXTENDS Datapath, Assembler

Positions == 0..(XLEN - 1)
SignBit(a) == Bit(a, XLEN - 1)

\* The most significant bit in which a and b differ decides an unsigned order.
Below(a, b) ==
  \E k \in Positions :
    /\ Bit(a, k) = 0 /\ Bit(b, k) = 1
    /\ \A j \in (k + 1)..(XLEN - 1) : Bit(a, j) = Bit(b, j)

SignedBelow(a, b) ==
  IF SignBit(a) # SignBit(b) THEN SignBit(a) = 1 ELSE Below(a, b)

\* Whether r is the result of a register-register or register-immediate
\* operation on a and b.
ALUMeaning(mnemonic, a, b, r) ==
  LET s == b % 32
      every(P(_)) == \A k \in Positions : P(k)
  IN CASE mnemonic = "add"  -> (r + 2^XLEN - b) % 2^XLEN = a
       [] mnemonic = "sub"  -> (r + b) % 2^XLEN = a
       [] mnemonic = "and"  -> every(LAMBDA k : Bit(r, k) = 1 <=> Bit(a, k) = 1 /\ Bit(b, k) = 1)
       [] mnemonic = "or"   -> every(LAMBDA k : Bit(r, k) = 1 <=> Bit(a, k) = 1 \/ Bit(b, k) = 1)
       [] mnemonic = "xor"  -> every(LAMBDA k : Bit(r, k) = 1 <=> Bit(a, k) # Bit(b, k))
       [] mnemonic = "sll"  -> every(LAMBDA k : Bit(r, k) = IF k < s THEN 0 ELSE Bit(a, k - s))
       [] mnemonic = "srl"  -> every(LAMBDA k : Bit(r, k) = IF k + s < XLEN THEN Bit(a, k + s) ELSE 0)
       [] mnemonic = "sra"  ->
            every(LAMBDA k : Bit(r, k) = IF k + s < XLEN THEN Bit(a, k + s) ELSE SignBit(a))
       [] mnemonic = "slt"  -> r = IF SignedBelow(a, b) THEN 1 ELSE 0
       [] mnemonic = "sltu" -> r = IF Below(a, b) THEN 1 ELSE 0

ALUMnemonics == {"add", "sub", "and", "or", "xor", "sll", "srl", "sra", "slt", "sltu"}

funct3Of(mnemonic) ==
  CASE mnemonic \in {"add", "sub", "beq"} -> 0
    [] mnemonic \in {"sll", "bne"} -> 1
    [] mnemonic = "slt" -> 2
    [] mnemonic = "sltu" -> 3
    [] mnemonic \in {"xor", "blt"} -> 4
    [] mnemonic \in {"srl", "sra", "bge"} -> 5
    [] mnemonic \in {"or", "bltu"} -> 6
    [] mnemonic \in {"and", "bgeu"} -> 7

\* Whether a branch on a and b is taken.
BranchMeaning(mnemonic, a, b) ==
  CASE mnemonic = "beq"  -> \A k \in Positions : Bit(a, k) = Bit(b, k)
    [] mnemonic = "bne"  -> \E k \in Positions : Bit(a, k) # Bit(b, k)
    [] mnemonic = "blt"  -> SignedBelow(a, b)
    [] mnemonic = "bge"  -> ~SignedBelow(a, b)
    [] mnemonic = "bltu" -> Below(a, b)
    [] mnemonic = "bgeu" -> ~Below(a, b)

BranchMnemonics == {"beq", "bne", "blt", "bge", "bltu", "bgeu"}

=============================================================================
