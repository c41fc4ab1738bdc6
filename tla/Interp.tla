------------------------------- MODULE Interp -------------------------------
(***************************************************************************)
(* backend::interp (interp.cpp) over finished code ir.  exec runs _exec    *)
(* block by block; _exec runs the instructions of one block and chooses    *)
(* the next.  One action per kind of instruction, and one to enter and to  *)
(* leave a block.                                                          *)
(***************************************************************************)
EXTENDS Integers, Sequences, Memory, Word

VARIABLES ir,             \* the code, which the interpreter only reads
          fault,          \* the assertion that ended the process, or NoFault
          ctx,            \* block_context: the next block and the value returned
          cur,            \* the variable block of _exec: the block it is in
          pc,             \* its loop variable ssa, NULL between two blocks
          ssa_values      \* the values computed, Unset where there is none

interpVars == <<ir, fault, ctx, cur, pc, ssa_values>>

Unset   == -1
Default == Modulus - 1     \* u64 l = -1, when try_get finds nothing

InterpInit ==
    /\ ctx = [block |-> NULL, return_value |-> NULL]
    /\ cur = NULL
    /\ pc = NULL
    /\ ssa_values = <<>>

has_value(s) == s \in DOMAIN ssa_values /\ ssa_values[s] # Unset
operand(s)   == IF has_value(s) THEN ssa_values[s] ELSE Default
instruction  == ir.ssas[pc]

Fails(why) == fault' = why /\ UNCHANGED <<ctx, cur, pc, ssa_values>>

-----------------------------------------------------------------------------

\* exec(entry).  The map of values is the interpreter's: an exec begins with
\* what the ones before it have computed.
Start(entry) ==
    /\ fault = NoFault
    /\ UNCHANGED ir
    /\ IF entry = NULL THEN Fails("block != NULL")
       ELSE /\ ctx' = [block |-> entry, return_value |-> NULL]
            /\ ssa_values' = [s \in 1..Len(ir.ssas) |->
                                IF has_value(s) THEN ssa_values[s] ELSE Unset]
            /\ cur' = NULL
            /\ UNCHANGED <<fault, pc>>

Enter_KeepsBlock ==                               \* mutant: ctx.block is not reset
    /\ fault = NoFault /\ pc = NULL /\ ctx.block # NULL
    /\ cur' = ctx.block
    /\ pc' = ir.blocks[ctx.block].head
    /\ UNCHANGED <<ir, fault, ctx, ssa_values>>

Enter_PastHead ==                                 \* mutant: skips the first instruction
    /\ fault = NoFault /\ pc = NULL /\ ctx.block # NULL
    /\ cur' = ctx.block
    /\ pc' = ir.blocks[ctx.block].head + 1
    /\ ctx' = [ctx EXCEPT !.block = NULL]
    /\ UNCHANGED <<ir, fault, ssa_values>>

Enter ==
    /\ fault = NoFault /\ pc = NULL /\ ctx.block # NULL
    /\ UNCHANGED ir
    /\ IF ir.blocks[ctx.block].head = NULL THEN Fails("ctx.block->head != NULL")
       ELSE /\ cur' = ctx.block
            /\ pc' = ir.blocks[ctx.block].head
            /\ ctx' = [ctx EXCEPT !.block = NULL]
            /\ UNCHANGED <<fault, ssa_values>>

\* The next instruction of the block is one of ops.
At(ops) ==
    /\ fault = NoFault /\ pc # NULL
    /\ pc <= ir.blocks[cur].next
    /\ instruction.op \in ops
    /\ UNCHANGED ir

Define_Overwrites(v) ==                           \* mutant: a key's value is replaced
    /\ ssa_values' = [ssa_values EXCEPT ![pc] = v]
    /\ pc' = pc + 1
    /\ UNCHANGED <<fault, ctx, cur>>

\* ssa_values.add(ssa, v): the map takes a key once
Define(v) ==
    IF has_value(pc) THEN Fails("Attempt to add duplicate key")
    ELSE /\ ssa_values' = [ssa_values EXCEPT ![pc] = v]
         /\ pc' = pc + 1
         /\ UNCHANGED <<fault, ctx, cur>>

Literal == At({"i"}) /\ Define(instruction.left % Modulus)

Arithmetic ==
    LET l == operand(instruction.left)
        r == operand(instruction.right)
    IN  /\ At({"add", "sub", "mul", "div"})
        /\ IF instruction.op = "div" /\ r = 0 THEN Fails("SIGFPE")
           ELSE Define(CASE instruction.op = "add" -> (l + r) % Modulus
                         [] instruction.op = "sub" -> (l - r) % Modulus
                         [] instruction.op = "mul" -> (l * r) % Modulus
                         [] instruction.op = "div" -> l \div r)

\* The first argument that has a value is taken for the value of the phi.
Computed(list) == {k \in 1..Len(list) : has_value(list[k])}

PhiChoice_Last(list) ==                           \* mutant: the last that has one
    CHOOSE k \in Computed(list) : \A j \in Computed(list) : k >= j

PhiChoice(list) == CHOOSE k \in Computed(list) : \A j \in Computed(list) : k <= j

Phi ==
    LET list == SubSeq(ir.phi_lists, instruction.left,
                       instruction.left + instruction.right - 1)
    IN  /\ At({"phi"})
        /\ IF \E k \in 1..Len(list) : list[k] = NULL THEN Fails("x != NULL")
           ELSE IF Computed(list) = {} THEN Fails("found_phi")
           ELSE Define(ssa_values[list[PhiChoice(list)]])

\* The rest of the block still runs.
Return ==
    /\ At({"ret"})
    /\ ctx' = [ctx EXCEPT !.return_value = instruction.left]
    /\ pc' = pc + 1
    /\ UNCHANGED <<fault, cur, ssa_values>>

\* nop, and what the interpreter does not implement
Skip ==
    /\ At({"nop", "dbg"})
    /\ pc' = pc + 1
    /\ UNCHANGED <<fault, ctx, cur, ssa_values>>

-----------------------------------------------------------------------------

\* Unsigned comparisons with 0
Holds(br, last_ssa) ==
    CASE br = "eq"  -> last_ssa = 0
      [] br = "neq" -> last_ssa # 0
      [] br = "lt"  -> FALSE
      [] br = "lte" -> last_ssa = 0
      [] br = "gt"  -> last_ssa > 0
      [] br = "gte" -> TRUE

Leave_TestsHead ==                                \* mutant: its first instruction
    LET b == ir.blocks[cur]
        goto(target) == /\ ctx' = [ctx EXCEPT !.block = target]
                        /\ pc' = NULL
                        /\ UNCHANGED <<fault, cur, ssa_values>>
    IN  /\ fault = NoFault /\ pc # NULL /\ pc > b.next
        /\ UNCHANGED ir
        /\ CASE b.br = "UNUSED"        -> Fails("Invalid block branch")
             [] b.br = "unconditional" -> goto(b.block_true)
             [] OTHER ->
                  IF ~ has_value(b.head) THEN Fails("ssa_values.try_get(block->next)")
                  ELSE goto(IF Holds(b.br, ssa_values[b.head])
                            THEN b.block_true ELSE b.block_false)

\* The end of the loop over the block: its branch tests its last instruction.
Leave ==
    LET b == ir.blocks[cur]
        goto(target) == /\ ctx' = [ctx EXCEPT !.block = target]
                        /\ pc' = NULL
                        /\ UNCHANGED <<fault, cur, ssa_values>>
    IN  /\ fault = NoFault /\ pc # NULL /\ pc > b.next
        /\ UNCHANGED ir
        /\ CASE b.br = "UNUSED"        -> Fails("Invalid block branch")
             [] b.br = "unconditional" -> goto(b.block_true)
             [] OTHER ->
                  IF ~ has_value(b.next) THEN Fails("ssa_values.try_get(block->next)")
                  ELSE goto(IF Holds(b.br, ssa_values[b.next])
                            THEN b.block_true ELSE b.block_false)

Step == Enter \/ Literal \/ Arithmetic \/ Phi \/ Return \/ Skip \/ Leave

=============================================================================
