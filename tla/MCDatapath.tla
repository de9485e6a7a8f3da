----------------------------- MODULE MCDatapath -----------------------------
(* Single instructions at nearly the full width, on corner values of        *)
(* operands and immediates: those at which carries, signs and widths turn   *)
(* over.                                                                    *)
EXTENDS DatapathTest

MCOperands    == {0, 1, 2, 31, 2^29 - 1, 2^29, 2^29 + 5, 2^30 - 2, 2^30 - 1}
MCImmediates  == {-2048, -1024, -33, -1, 0, 1, 31, 32, 1023, 1024, 2047}
MCOffsets     == {-4096, -2048, -1026, -4, -2, 0, 2, 8, 30, 32, 1022, 2046, 2048, 4094}
MCUImmediates == {0, 1, 7, 8, 255, 256, 4096, 2^18 - 1, 2^19, 2^20 - 1}

=============================================================================
