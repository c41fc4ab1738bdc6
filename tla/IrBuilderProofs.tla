-------------------------- MODULE IrBuilderProofs ---------------------------
(***************************************************************************)
(* Proofs about IrBuilder, for every capacity and every client input.      *)
(*                                                                         *)
(* Each action is one call of a member function, of which IrOpsProofs says *)
(* what it keeps.                                                          *)
(***************************************************************************)
EXTENDS IrBuilder, IrOpsProofs

\* A call that fails leaves the fault and no builder.
LEMMA CallTyped ==
    ASSUME NEW next, Typed(next), Call(next)
    PROVE  TypeOK'
<1>1. CASE next.fault = NoFault
  BY <1>1 DEF Call, Typed, TypeOK
<1>2. CASE next.fault # NoFault
  <2>1. next.fault \in failure BY <1>2, Zenon DEF Typed, builder
  <2>2. Typed([NewBuilder EXCEPT !.fault = next.fault])
    BY <2>1, NewBuilderTyped, FailTyped, Zenon
  <2> QED BY <1>2, <2>2 DEF Call, Typed, TypeOK
<1> QED BY <1>1, <1>2

LEMMA TypePreserved == TypeOK /\ [Next]_ir => TypeOK'
<1> SUFFICES ASSUME TypeOK, [Next]_ir PROVE TypeOK'
  OBVIOUS
<1>1. Typed(ir) /\ NULL \in Nat BY DEF TypeOK, Typed, NULL
<1>2. Operands \subseteq Nat BY LengthType DEF Operands, SsaIds
<1>3. Scopes \subseteq Nat /\ Literals \subseteq Nat /\ Conditions \subseteq block_br
  BY ClientInputs
<1>4. CASE AllocBlock BY <1>1, <1>4, alloc_blockTyped, CallTyped, Zenon DEF AllocBlock
<1>5. CASE StartBlock
  BY <1>1, <1>3, <1>5, start_blockTyped, CallTyped, Zenon DEF StartBlock, Unstarted, Blocks
<1>6. CASE EndBlock BY <1>1, <1>6, end_blockTyped, CallTyped, Zenon DEF EndBlock
<1>7. CASE EndBlockTo
  BY <1>1, <1>7, end_block_toTyped, CallTyped, Zenon DEF EndBlockTo, Blocks
<1>8. CASE StartPhi BY <1>1, <1>8, start_phiTyped, CallTyped, Zenon DEF StartPhi
<1>9. CASE PushPhi BY <1>1, <1>2, <1>9, push_phiTyped, CallTyped, Zenon DEF PushPhi
<1>10. CASE EndPhi BY <1>1, <1>10, end_phiTyped, CallTyped, Zenon DEF EndPhi
<1>11. CASE EmitDBG BY <1>1, <1>11, InstructionsTyped, CallTyped, Zenon DEF EmitDBG
<1>12. CASE EmitAdd BY <1>1, <1>2, <1>12, InstructionsTyped, CallTyped, Zenon DEF EmitAdd
<1>13. CASE EmitSub BY <1>1, <1>2, <1>13, InstructionsTyped, CallTyped, Zenon DEF EmitSub
<1>14. CASE EmitLiteral
  BY <1>1, <1>3, <1>14, InstructionsTyped, CallTyped, Zenon DEF EmitLiteral
<1>15. CASE EmitNop BY <1>1, <1>15, InstructionsTyped, CallTyped, Zenon DEF EmitNop
<1>16. CASE EmitRet BY <1>1, <1>2, <1>16, retTyped, CallTyped, Zenon DEF EmitRet
<1>17. CASE Branch BY <1>1, <1>3, <1>17, branchTyped, CallTyped, Zenon DEF Branch, Blocks
<1>18. CASE UnconditionalBranch
  BY <1>1, <1>18, unconditional_branchTyped, CallTyped, Zenon DEF UnconditionalBranch, Blocks
<1>19. CASE AddFinalValue
  <2>1. ir.current_block # NULL BY <1>19, Zenon DEF AddFinalValue
  <2>2. ir.current_block \in BlockIds(ir)
    BY <1>1, <2>1, LengthType DEF Typed, PointersInBounds, BlockIds, NULL
  <2> QED BY <1>1, <1>2, <1>19, <2>2, add_final_valueTyped, CallTyped, Zenon DEF AddFinalValue
<1>20. CASE Exited \/ UNCHANGED ir
  BY <1>20 DEF Exited, TypeOK
<1> QED BY <1>4, <1>5, <1>6, <1>7, <1>8, <1>9, <1>10, <1>11, <1>12, <1>13, <1>14, <1>15,
           <1>16, <1>17, <1>18, <1>19, <1>20 DEF Next

\* However its functions are called, the builder keeps its types and no
\* pointer of a block, an instruction or the builder leaves its arena.
THEOREM TypeCorrect == Spec => []TypeOK
<1>1. Init => TypeOK BY NewBuilderTyped DEF Init, TypeOK, Typed
<1> QED BY <1>1, TypePreserved, PTL DEF Spec

-----------------------------------------------------------------------------
\* A call of the client that is sound
StepSound == /\ Exact(ir)'
             /\ ir'.fault = NoFault => Frozen(ir, ir')

LEMMA CallSound ==
    ASSUME NEW next, Sound(ir, next), Call(next)
    PROVE  StepSound
<1>1. CASE next.fault = NoFault
  <2>1. ir' = next BY <1>1, Zenon DEF Call
  <2> QED BY <2>1, Zenon DEF Sound, StepSound
<1>2. CASE next.fault # NoFault
  <2>1. next.fault \in failure BY <1>2, Zenon DEF Sound, Exact, Typed, builder
  <2>2. ir' = [NewBuilder EXCEPT !.fault = next.fault] BY <1>2, Zenon DEF Call
  <2>3. ir'.fault # NoFault
    <3>1. NewBuilder \in builder BY NewBuilderTyped DEF Typed
    <3>2. ir'.fault = next.fault BY <2>2, <3>1, Zenon DEF builder
    <3> QED BY <1>2, <3>2
  <2>4. Exact(ir)' BY <2>1, <2>2, NewBuilderExact, Zenon
  <2> QED BY <2>3, <2>4, Zenon DEF StepSound
<1> QED BY <1>1, <1>2

LEMMA NextSound == Exact(ir) /\ [Next]_ir => StepSound
<1> SUFFICES ASSUME Exact(ir), [Next]_ir PROVE StepSound
  OBVIOUS
<1>1. NULL \in Nat BY DEF NULL
<1>2. Operands \subseteq Nat BY LengthType DEF Operands, SsaIds
<1>3. Scopes \subseteq Nat /\ Literals \subseteq Nat /\ Conditions \subseteq block_br
  BY ClientInputs
<1>4. CASE AllocBlock BY <1>4, alloc_blockSound, CallSound, Zenon DEF AllocBlock
<1>5. CASE StartBlock
  BY <1>3, <1>5, start_blockSound, CallSound, Zenon DEF StartBlock, Unstarted, Blocks
<1>6. CASE EndBlock BY <1>6, end_blockSound, CallSound, Zenon DEF EndBlock
<1>7. CASE EndBlockTo
  BY <1>7, end_block_toSound, CallSound, Zenon DEF EndBlockTo, Blocks
<1>8. CASE StartPhi BY <1>1, <1>8, PhiListSound, CallSound, Zenon DEF StartPhi
<1>9. CASE PushPhi BY <1>2, <1>9, PhiListSound, CallSound, Zenon DEF PushPhi
<1>10. CASE EndPhi BY <1>10, end_phiSound, CallSound, Zenon DEF EndPhi
<1>11. CASE EmitDBG BY <1>1, <1>11, InstructionsSound, CallSound, Zenon DEF EmitDBG
<1>12. CASE EmitAdd BY <1>2, <1>12, InstructionsSound, CallSound, Zenon DEF EmitAdd
<1>13. CASE EmitSub BY <1>2, <1>13, InstructionsSound, CallSound, Zenon DEF EmitSub
<1>14. CASE EmitLiteral
  BY <1>3, <1>14, InstructionsSound, CallSound, Zenon DEF EmitLiteral
<1>15. CASE EmitNop BY <1>1, <1>15, InstructionsSound, CallSound, Zenon DEF EmitNop
<1>16. CASE EmitRet BY <1>1, <1>2, <1>16, retSound, CallSound, Zenon DEF EmitRet
<1>17. CASE Branch BY <1>3, <1>17, branchSound, CallSound, Zenon DEF Branch, Blocks
<1>18. CASE UnconditionalBranch
  BY <1>18, unconditional_branchSound, CallSound, Zenon DEF UnconditionalBranch, Blocks
<1>19. CASE AddFinalValue
  <2>1. ir.current_block \in BlockIds(ir)
    BY <1>19, CurrentIsOpen, Zenon DEF AddFinalValue
  <2> QED BY <1>2, <1>19, <2>1, add_final_valueSound, CallSound, Zenon DEF AddFinalValue
<1>20. CASE Exited \/ UNCHANGED ir
  <2>1. ir' = ir BY <1>20 DEF Exited
  <2> QED BY <2>1, FrozenItself, Zenon DEF StepSound
<1> QED BY <1>4, <1>5, <1>6, <1>7, <1>8, <1>9, <1>10, <1>11, <1>12, <1>13, <1>14, <1>15,
           <1>16, <1>17, <1>18, <1>19, <1>20 DEF Next

\* However blocks, instructions and phi functions are interleaved, the range
\* head..next of a block holds its own instructions and no others, and exactly
\* the current block is open.
THEOREM RangesExact == Spec => []RangesAreExact
<1>1. Init => Exact(ir) BY NewBuilderExact DEF Init
<1>2. Exact(ir) /\ [Next]_ir => Exact(ir)' BY NextSound DEF StepSound
<1>3. Exact(ir) => RangesAreExact BY DEF Exact, RangesAreExact
<1> QED BY <1>1, <1>2, <1>3, PTL DEF Spec

\* A block that has ended keeps its instructions, its branch, its scope and
\* its final values for ever; only its predecessors may grow.
THEOREM BlocksFrozen == Spec => EndedBlocksFrozen
<1> DEFINE Kept == ir'.fault = NoFault => \A b \in Blocks : Ended(ir.blocks[b]) =>
              ir'.blocks[b] = [ir.blocks[b] EXCEPT !.predecessors = ir'.blocks[b].predecessors]
<1>1. Init => Exact(ir) BY NewBuilderExact DEF Init
<1>2. Exact(ir) /\ [Next]_ir => Exact(ir)' BY NextSound DEF StepSound
<1>3. Exact(ir) /\ [Next]_ir => [Kept]_ir
  <2> SUFFICES ASSUME Exact(ir), [Next]_ir, ir'.fault = NoFault,
                      NEW b \in Blocks, Ended(ir.blocks[b])
               PROVE  ir'.blocks[b] =
                         [ir.blocks[b] EXCEPT !.predecessors = ir'.blocks[b].predecessors]
    BY Zenon
  <2>1. StepSound BY NextSound, Zenon
  <2>2. ir \in builder /\ ir' \in builder BY <2>1, Zenon DEF StepSound, Exact, Typed
  <2>3. Frozen(ir, ir') BY <2>1, Zenon DEF StepSound
  <2>4. b \in BlockIds(ir) BY DEF Blocks
  <2> QED BY <2>2, <2>3, <2>4, FrozenRecord
<1> QED BY <1>1, <1>2, <1>3, PTL DEF Spec, EndedBlocksFrozen

-----------------------------------------------------------------------------
\* A call that failed leaves nothing but its message; the fault it leaves is
\* one of the builder's.
LEMMA CallLeaves ==
    ASSUME NEW next, Typed(next), Call(next)
    PROVE  \/ ir' = next
           \/ \E why \in failure : ir' = [NewBuilder EXCEPT !.fault = why]
BY Zenon DEF Call, Typed, builder

LEMMA CallWired ==
    ASSUME NEW next, Sound(ir, next), Wired(next), Call(next)
    PROVE  Wired(ir)'
<1>1. Typed(next) BY DEF Sound, Exact
<1>2. CASE ir' = next BY <1>2, Zenon
<1>3. CASE \E why \in failure : ir' = [NewBuilder EXCEPT !.fault = why]
  BY <1>3, NewBuilderWired, Zenon
<1> QED BY <1>1, <1>2, <1>3, CallLeaves, Zenon

LEMMA NextWired == Exact(ir) /\ Wired(ir) /\ [Next]_ir => Wired(ir)'
<1> SUFFICES ASSUME Exact(ir), Wired(ir), [Next]_ir PROVE Wired(ir)'
  OBVIOUS
<1>1. NULL \in Nat BY DEF NULL
<1>2. Operands \subseteq Nat BY LengthType DEF Operands, SsaIds
<1>3. /\ Scopes \subseteq Nat /\ Literals \subseteq Nat
      /\ \A br \in Conditions : br \in block_br /\ br # "UNUSED"
  BY ClientInputs
<1>4. Typed(ir) BY DEF Exact
<1>5. CASE AllocBlock
  BY <1>5, alloc_blockSound, alloc_blockWired, CallWired, Zenon DEF AllocBlock
<1>6. CASE StartBlock
  BY <1>3, <1>6, start_blockSound, start_blockWired, CallWired, Zenon
     DEF StartBlock, Unstarted, Blocks
<1>7. CASE EndBlock
  BY <1>7, end_blockSound, end_blockWired, CallWired, Zenon DEF EndBlock
<1>8. CASE EndBlockTo
  BY <1>8, end_block_toSound, end_block_toWired, CallWired, Zenon DEF EndBlockTo, Blocks
<1>9. CASE StartPhi
  BY <1>1, <1>4, <1>9, PhiListSound, PhiBlocks, SameWired, CallWired, Zenon DEF StartPhi
<1>10. CASE PushPhi
  BY <1>2, <1>4, <1>10, PhiListSound, PhiBlocks, SameWired, CallWired, Zenon DEF PushPhi
<1>11. CASE EndPhi
  BY <1>4, <1>11, end_phiSound, PhiBlocks, SameWired, CallWired, Zenon DEF EndPhi
<1>12. CASE EmitDBG \/ EmitNop
  BY <1>1, <1>12, InstructionsSound, InstructionsWired, CallWired, Zenon
     DEF EmitDBG, EmitNop
<1>13. CASE EmitAdd \/ EmitSub
  BY <1>2, <1>13, InstructionsSound, InstructionsWired, CallWired, Zenon
     DEF EmitAdd, EmitSub
<1>14. CASE EmitLiteral
  BY <1>3, <1>14, InstructionsSound, InstructionsWired, CallWired, Zenon DEF EmitLiteral
<1>15. CASE EmitRet
  BY <1>1, <1>2, <1>15, retSound, retWired, CallWired, Zenon DEF EmitRet
<1>16. CASE Branch
  BY <1>3, <1>16, branchSound, branchWired, CallWired, Zenon DEF Branch, Blocks
<1>17. CASE UnconditionalBranch
  BY <1>17, unconditional_branchSound, unconditional_branchWired, CallWired, Zenon
     DEF UnconditionalBranch, Blocks
<1>18. CASE AddFinalValue
  <2>1. ir.current_block \in BlockIds(ir)
    BY <1>18, CurrentIsOpen, Zenon DEF AddFinalValue
  <2> QED BY <1>2, <1>18, <2>1, add_final_valueSound, add_final_valueWired, CallWired, Zenon
             DEF AddFinalValue
<1>19. CASE Exited \/ UNCHANGED ir BY <1>19, Zenon DEF Exited
<1> QED BY <1>5, <1>6, <1>7, <1>8, <1>9, <1>10, <1>11, <1>12, <1>13, <1>14, <1>15,
           <1>16, <1>17, <1>18, <1>19 DEF Next

\* Whoever is listed as a predecessor of a block branches to it, so the
\* lowering that looks a value up in the predecessors of a block asks only
\* blocks control can come from.
THEOREM PredecessorsCorrect == Spec => []PredecessorsAgree
<1>1. Init => Exact(ir) /\ Wired(ir) BY NewBuilderExact, NewBuilderWired DEF Init
<1>2. Exact(ir) /\ [Next]_ir => Exact(ir)' BY NextSound DEF StepSound
<1>3. Exact(ir) /\ Wired(ir) /\ [Next]_ir => Wired(ir)' BY NextWired
<1>4. Wired(ir) => PredecessorsAgree BY DEF Wired, PredecessorsAgree
<1> QED BY <1>1, <1>2, <1>3, <1>4, PTL DEF Spec

-----------------------------------------------------------------------------
LEMMA CallSliced ==
    ASSUME NEW next, Typed(next), Sliced(next), Call(next)
    PROVE  Sliced(ir)'
<1>1. CASE ir' = next BY <1>1, Zenon
<1>2. CASE \E why \in failure : ir' = [NewBuilder EXCEPT !.fault = why]
  BY <1>2, NewBuilderSliced, Zenon
<1> QED BY <1>1, <1>2, CallLeaves, Zenon

LEMMA NextSliced == Exact(ir) /\ Sliced(ir) /\ [Next]_ir => Sliced(ir)'
<1> SUFFICES ASSUME Exact(ir), Sliced(ir), [Next]_ir PROVE Sliced(ir)'
  OBVIOUS
<1>1. NULL \in Nat BY DEF NULL
<1>2. Operands \subseteq Nat /\ Operands \subseteq SsaIds(ir)
  BY LengthType DEF Operands, SsaIds
<1>3. Scopes \subseteq Nat /\ Literals \subseteq Nat /\ Conditions \subseteq block_br
  BY ClientInputs
<1>4. Typed(ir) /\ ir \in builder /\ SamePhis(ir, ir) BY DEF Exact, Typed, SamePhis
<1>5. \A next : Sound(ir, next) => Typed(next) BY DEF Sound, Exact
<1>6. ASSUME NEW next, Sound(ir, next), SamePhis(ir, next), Call(next) PROVE Sliced(ir)'
  BY <1>5, <1>6, SameSliced, CallSliced, Zenon
<1>7. ASSUME NEW x, NEW y, NEW z
      PROVE  /\ SamePhis(ir, alloc_block(ir)) /\ SamePhis(ir, start_block(ir, x, y))
             /\ SamePhis(ir, end_block(ir)) /\ SamePhis(ir, end_block_to(ir, x))
             /\ SamePhis(ir, add_final_value(ir, x, y))
             /\ SamePhis(ir, unconditional_branch(ir, x))
             /\ SamePhis(ir, branch(ir, x, y, z))
  BY <1>4, SamePhisOperations, Zenon
<1>8. CASE AllocBlock
  BY <1>6, <1>7, <1>8, alloc_blockSound, Zenon DEF AllocBlock
<1>9. CASE StartBlock
  BY <1>3, <1>6, <1>7, <1>9, start_blockSound, Zenon DEF StartBlock, Unstarted, Blocks
<1>10. CASE EndBlock BY <1>6, <1>7, <1>10, end_blockSound, Zenon DEF EndBlock
<1>11. CASE EndBlockTo
  BY <1>6, <1>7, <1>11, end_block_toSound, Zenon DEF EndBlockTo, Blocks
<1>12. CASE StartPhi
  BY <1>4, <1>12, start_phiTyped, start_phiSliced, CallSliced, Zenon DEF StartPhi
<1>13. CASE PushPhi
  BY <1>2, <1>4, <1>13, push_phiTyped, push_phiSliced, CallSliced, Zenon DEF PushPhi
<1>14. CASE EndPhi
  BY <1>4, <1>14, end_phiTyped, end_phiSliced, CallSliced, Zenon DEF EndPhi
<1>15. CASE EmitDBG \/ EmitNop
  BY <1>1, <1>4, <1>15, InstructionsTyped, InstructionsSliced, CallSliced, Zenon
     DEF EmitDBG, EmitNop
<1>16. CASE EmitAdd \/ EmitSub
  BY <1>2, <1>4, <1>16, InstructionsTyped, InstructionsSliced, CallSliced, Zenon
     DEF EmitAdd, EmitSub
<1>17. CASE EmitLiteral
  BY <1>3, <1>4, <1>17, InstructionsTyped, InstructionsSliced, CallSliced, Zenon
     DEF EmitLiteral
<1>18. CASE EmitRet
  BY <1>1, <1>2, <1>4, <1>18, retTyped, InstructionsSliced, CallSliced, Zenon DEF EmitRet
<1>19. CASE Branch
  BY <1>3, <1>6, <1>7, <1>19, branchSound, Zenon DEF Branch, Blocks
<1>20. CASE UnconditionalBranch
  BY <1>6, <1>7, <1>20, unconditional_branchSound, Zenon DEF UnconditionalBranch, Blocks
<1>21. CASE AddFinalValue
  <2>1. ir.current_block \in BlockIds(ir)
    BY <1>21, CurrentIsOpen, Zenon DEF AddFinalValue
  <2> QED BY <1>2, <1>6, <1>7, <1>21, <2>1, add_final_valueSound, Zenon DEF AddFinalValue
<1>22. CASE Exited \/ UNCHANGED ir BY <1>22, Zenon DEF Exited
<1> QED BY <1>8, <1>9, <1>10, <1>11, <1>12, <1>13, <1>14, <1>15, <1>16, <1>17, <1>18,
           <1>19, <1>20, <1>21, <1>22 DEF Next

\* However phi functions are interleaved with instructions and blocks, each
\* phi has a slice of the shared arena of its own, of instructions before it.
THEOREM PhisDisjoint == Spec => []PhiListsDisjoint
<1>1. Init => Exact(ir) /\ Sliced(ir) BY NewBuilderExact, NewBuilderSliced DEF Init
<1>2. Exact(ir) /\ [Next]_ir => Exact(ir)' BY NextSound DEF StepSound
<1>3. Exact(ir) /\ Sliced(ir) /\ [Next]_ir => Sliced(ir)' BY NextSliced
<1>4. Sliced(ir) => PhiListsDisjoint BY DEF Sliced, PhiListsDisjoint
<1> QED BY <1>1, <1>2, <1>3, <1>4, PTL DEF Spec

=============================================================================
