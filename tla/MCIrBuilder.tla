---------------------------- MODULE MCIrBuilder -----------------------------
(***************************************************************************)
(* IrBuilder for TLC: every history of calls that keeps the three arenas   *)
(* small together, whatever the mix.                                       *)
(***************************************************************************)
EXTENDS IrBuilder

CONSTANT MaxObjects   \* bound on the objects in all arenas

Small == Len(ir.blocks) + Len(ir.ssas) + Len(ir.phi_lists) <= MaxObjects

=============================================================================
