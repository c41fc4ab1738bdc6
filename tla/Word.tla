-------------------------------- MODULE Word --------------------------------
(***************************************************************************)
(* The values that programs compute with: unsigned, of width 2^w.          *)
(***************************************************************************)
EXTENDS Naturals

CONSTANT Modulus      \* 2^64, the width of a value

ASSUME ModulusAssumption == Modulus \in Nat \ {0}

=============================================================================
