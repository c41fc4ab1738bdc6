------------------------------ MODULE Compiler ------------------------------
(***************************************************************************)
(* The program (entry/test.cpp): lower a tree, then run the code.  The     *)
(* emitter's builder state ir is what the interpreter reads.               *)
(***************************************************************************)
EXTENDS IrEmit, Word

VARIABLES executing,     \* interp.exec has been called
          ctx, cur, pc, ssa_values

execVars == <<executing, ctx, cur, pc, ssa_values>>
allVars  == <<vars, execVars>>

Exec == INSTANCE Interp

PipelineInit == Init /\ Exec!InterpInit /\ executing = FALSE

Emit == EmitNext /\ UNCHANGED execVars

\* assert(ir_builder.current_block == NULL) and exec(block_entry)
StartExec ==
    /\ emitted /\ ~ executing
    /\ executing' = TRUE
    /\ IF ir.current_block = NULL THEN Exec!Start(1)
       ELSE /\ fault = NoFault /\ fault' = "ir_builder.current_block == NULL"
            /\ UNCHANGED <<ir, ctx, cur, pc, ssa_values>>
    /\ UNCHANGED <<root, locals, tasks, emitted>>

Execution == /\ executing /\ Exec!Step
       /\ UNCHANGED <<root, locals, tasks, emitted, executing>>

Finished == executing /\ fault = NoFault /\ pc = NULL /\ ctx.block = NULL
Stopped  == (Finished \/ fault # NoFault) /\ UNCHANGED allVars

PipelineNext == Emit \/ StartExec \/ Execution \/ Stopped

Pipeline == PipelineInit /\ [][PipelineNext]_allVars /\ WF_allVars(Execution)

-----------------------------------------------------------------------------
(***************************************************************************)
(* Properties.                                                             *)
(***************************************************************************)
\* An addition or difference only meets operands that were computed: the -1
\* that stands for a missing one never enters a result.
NoDefaultOperand ==
    executing /\ fault = NoFault /\ pc # NULL /\ pc <= ir.blocks[cur].next =>
        (Exec!instruction.op \in {"add", "sub"} =>
            Exec!has_value(Exec!instruction.left) /\ Exec!has_value(Exec!instruction.right))

\* None of the interpreter's own assertions fails on code the emitter finished.
ExecutionNeverAborts == executing => fault = NoFault

\* The first return is the last: no later block or instruction replaces it,
\* although return does not stop the block and leaves no mark on the branch.
ReturnIsFinal ==
    [][ctx.return_value # NULL => ctx'.return_value = ctx.return_value]_allVars

\* Execution ends: no branch of the emitted code leads back.
ExecutionEnds == executing ~> Finished

=============================================================================
