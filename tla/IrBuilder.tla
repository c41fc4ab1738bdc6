----------------------------- MODULE IrBuilder ------------------------------
(***************************************************************************)
(* ir::builder under an arbitrary client: any member function at any time, *)
(* with operands that exist.  The one thing asked of the client is to      *)
(* start a block once, as every caller in the repository does.             *)
(***************************************************************************)
EXTENDS IrOps

CONSTANTS Scopes,      \* the scopes a client may give a block
          Literals,    \* the values of its literals
          Conditions,  \* the conditions it branches on
          Window       \* how many instructions back its operands reach

ASSUME ClientInputs ==
    /\ Scopes \subseteq Nat
    /\ Literals \subseteq Nat
    /\ Window \in Nat
    /\ Conditions \subseteq block_br \ {"UNUSED", "unconditional"}

VARIABLE ir

Init == ir = NewBuilder

Blocks    == BlockIds(ir)
Operands  == {s \in SsaIds(ir) : s + Window > last_ssa(ir)}
Unstarted == {b \in Blocks : ~ Started(ir.blocks[b])}

\* One call of the client, while the process runs: a failed assertion leaves
\* nothing of the process but its last message.
Call(next) ==
    /\ ir.fault = NoFault
    /\ ir' = IF next.fault = NoFault THEN next ELSE [NewBuilder EXCEPT !.fault = next.fault]

AllocBlock == Call(alloc_block(ir))
StartBlock == \E b \in Unstarted, scope \in Scopes : Call(start_block(ir, b, scope))
EndBlock   == Call(end_block(ir))
EndBlockTo == \E b \in Blocks : Call(end_block_to(ir, b))
StartPhi   == Call(start_phi(ir))
PushPhi    == \E s \in Operands : Call(push_phi(ir, s))
EndPhi     == Call(end_phi(ir))
EmitDBG    == Call(DBG(ir))
EmitAdd    == \E l, r \in Operands : Call(add(ir, l, r))
EmitSub    == \E l, r \in Operands : Call(sub(ir, l, r))
EmitLiteral == \E val \in Literals : Call(literal(ir, val))
EmitNop    == Call(nop(ir))
EmitRet    == \E s \in Operands \cup {NULL} : Call(ret(ir, s))
Branch     == \E br \in Conditions, t, f \in Blocks \cup {NULL} : Call(branch(ir, br, t, f))
UnconditionalBranch == \E b \in Blocks : Call(unconditional_branch(ir, b))
AddFinalValue == /\ ir.current_block # NULL
                 /\ \E sym \in Symbols, s \in Operands : Call(add_final_value(ir, sym, s))
Exited     == ir.fault # NoFault /\ UNCHANGED ir

Next == \/ AllocBlock \/ StartBlock \/ EndBlock \/ EndBlockTo
        \/ StartPhi \/ PushPhi \/ EndPhi
        \/ EmitDBG \/ EmitAdd \/ EmitSub \/ EmitLiteral \/ EmitNop \/ EmitRet
        \/ Branch \/ UnconditionalBranch \/ AddFinalValue \/ Exited

Spec == Init /\ [][Next]_ir

-----------------------------------------------------------------------------
(***************************************************************************)
(* Properties.                                                             *)
(***************************************************************************)

\* The builder's data have their types and its pointers stay in the arenas.
TypeOK == ir \in builder /\ PointersInBounds(ir)

\* A block's instructions are contiguous and exactly its own, however blocks
\* and phis are interleaved: the interpreter runs head..next on this ground.
RangesAreExact == BlocksOwnTheirRange(ir) /\ OneOpenBlock(ir)

\* Every predecessor entry names a block that branches here (the converse
\* fails by design of end_block(next), which records no predecessor).
PredecessorsAgree == PredecessorsBranchHere(ir)

\* The argument lists of two phis never overlap in the shared arena.
PhiListsDisjoint == PhisOwnTheirSlice(ir)

\* Once ended, a block keeps its range, scope, branch and final values; only
\* its predecessors may still grow.
EndedBlocksFrozen ==
    [][ir'.fault = NoFault => \A b \in Blocks : Ended(ir.blocks[b]) =>
          ir'.blocks[b] = [ir.blocks[b] EXCEPT !.predecessors = ir'.blocks[b].predecessors]]_ir

=============================================================================
