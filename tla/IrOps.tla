------------------------------- MODULE IrOps --------------------------------
(***************************************************************************)
(* ir::builder (ir-builder.hpp) over its data (ir.hpp, basic-block.hpp):   *)
(* one operator per member function, from a builder B to the builder it    *)
(* leaves.  A function that returns a new object has put it last in its    *)
(* arena: last_ssa(B) and last_block(B) are those results.                 *)
(***************************************************************************)
EXTENDS Integers, Sequences, Memory

CONSTANTS MaxBlocks,     \* capacity in blocks: blocks, block_lists, value_maps
          MaxSsas,       \* capacity of the ssas arena
          MaxPhiArgs,    \* capacity of the phi_lists arena
          MaxPreds,      \* 64, the predecessors stack of one block
          Symbols        \* the SYMIDs that key final_values

ASSUME IrBounds == {MaxBlocks, MaxSsas, MaxPhiArgs, MaxPreds} \subseteq Nat

ssa_prop == {"const_val", "no_value"}
opcode   == {"nop", "phi", "i", "add", "sub", "mul", "div", "ret", "dbg"}
block_br == {"UNUSED", "unconditional", "eq", "neq", "lt", "gt", "gte", "lte"}

\* The unions left and right are numbers: a literal, the index of an ssa, or
\* the first index and the count of a slice of phi_lists.
ssa == [op : opcode, flags : SUBSET ssa_prop, block : Nat, left : Nat, right : Nat]

\* An absent final value is NULL: the map never holds a NULL ssa.
bb == [scope : Nat, predecessors : Seq(Nat), final_values : [Symbols -> Nat],
       head : Nat, next : Nat, br : block_br, block_true : Nat, block_false : Nat]

\* The assertions of the builder, of its arenas and of its maps
failure == {"block != NULL", "current_block == NULL", "current_block != NULL",
            "is_not_empty", "current_block->br == block_br::UNUSED",
            "current_block->br != block_br::UNUSED",
            "block->block_true == NULL", "block->block_false == NULL",
            "phi_start == NULL", "phi_start != NULL", "size > 0", "next < max",
            "Arena reached max capacity", "Attempt to add duplicate key"}

builder == [blocks : Seq(bb), ssas : Seq(ssa), phi_lists : Seq(Nat),
            current_block : Nat, phi_start : Nat, fault : failure \cup {NoFault}]

NewBuilder == [blocks |-> <<>>, ssas |-> <<>>, phi_lists |-> <<>>,
               current_block |-> NULL, phi_start |-> NULL, fault |-> NoFault]

\* mmap hands out zeroed memory, so every field of a block starts as zero
FreshBlock == [scope |-> NULL, predecessors |-> <<>>,
               final_values |-> [s \in Symbols |-> NULL],
               head |-> NULL, next |-> NULL, br |-> "UNUSED",
               block_true |-> NULL, block_false |-> NULL]

last_ssa(B)   == Len(B.ssas)
last_block(B) == Len(B.blocks)
Started(b)    == b.head # NULL
Ended(b)      == b.next # NULL
has_flag(s, f) == f \in s.flags
is_not_empty(B) == B.blocks[B.current_block].head <= Len(B.ssas)

alloc_block(B) ==
    Checked(B, Len(B.blocks) < MaxBlocks, "Arena reached max capacity",
            [B EXCEPT !.blocks = Append(@, FreshBlock)])

alloc_ssa(B, s) ==
    Checked(B, Len(B.ssas) < MaxSsas, "Arena reached max capacity",
            [B EXCEPT !.ssas = Append(@, s)])

WithBlock(B, block, b)   == [B EXCEPT !.blocks[block] = b]
WithCurrent(B, block)    == [B EXCEPT !.current_block = block]

start_block_AtPeek(B, block, scope) ==            \* mutant: the newest, not the next
    LET b == [B.blocks[block] EXCEPT !.head = Len(B.ssas), !.scope = scope]
    IN  Checked(B, block # NULL, "block != NULL",
        Checked(B, B.current_block = NULL, "current_block == NULL",
                WithCurrent(WithBlock(B, block, b), block)))

start_block(B, block, scope) ==
    LET b == [B.blocks[block] EXCEPT !.br = "UNUSED", !.head = Len(B.ssas) + 1,
                                     !.scope = scope]
    IN  Checked(B, block # NULL, "block != NULL",
        Checked(B, B.current_block = NULL, "current_block == NULL",
                WithCurrent(WithBlock(B, block, b), block)))

InBlock(B, next) == Checked(B, B.current_block # NULL, "current_block != NULL", next)

\* The two assertions that open every function which adds to the block
InOpenBlock(B, next) ==
    InBlock(B, Checked(B, B.blocks[B.current_block].br = "UNUSED",
                       "current_block->br == block_br::UNUSED", next))

Closing(B, b) == WithCurrent(WithBlock(B, B.current_block, b), NULL)

end_block_AtNext(B) ==                            \* mutant: one past the newest
    LET cur == B.blocks[B.current_block]
    IN  InBlock(B, Checked(B, is_not_empty(B) /\ cur.br # "UNUSED", "is_not_empty",
                Closing(B, [cur EXCEPT !.next = last_ssa(B) + 1])))

end_block_StaysIn(B) ==                           \* mutant: the block stays current
    LET cur == B.blocks[B.current_block]
    IN  InBlock(B, Checked(B, is_not_empty(B) /\ cur.br # "UNUSED", "is_not_empty",
                WithBlock(B, B.current_block, [cur EXCEPT !.next = last_ssa(B)])))

end_block(B) ==
    LET cur == B.blocks[B.current_block]
        b   == [cur EXCEPT !.next = last_ssa(B)]
    IN  InBlock(B,
        Checked(B, is_not_empty(B), "is_not_empty",
        Checked(B, cur.br # "UNUSED", "current_block->br != block_br::UNUSED",
                Closing(B, b))))

\* end_block(next): branches to next without becoming its predecessor
end_block_to(B, next) ==
    LET cur == B.blocks[B.current_block]
        b   == [cur EXCEPT !.next = last_ssa(B), !.br = "unconditional",
                           !.block_true = next]
    IN  InBlock(B,
        Checked(B, is_not_empty(B), "is_not_empty",
        Checked(B, cur.br = "UNUSED", "current_block->br == block_br::UNUSED",
        Checked(B, cur.block_true = NULL, "block->block_true == NULL",
        Checked(B, cur.block_false = NULL, "block->block_false == NULL",
                Closing(B, b))))))

start_phi(B) ==
    Checked(B, B.phi_start = NULL, "phi_start == NULL",
            [B EXCEPT !.phi_start = Len(B.phi_lists) + 1])

push_phi(B, s) ==
    Checked(B, B.phi_start # NULL, "phi_start != NULL",
    Checked(B, Len(B.phi_lists) < MaxPhiArgs, "Arena reached max capacity",
            [B EXCEPT !.phi_lists = Append(@, s)]))

end_phi_KeepsStart(B) ==                          \* mutant: phi_start is not reset
    LET size == Len(B.phi_lists) + 1 - B.phi_start
    IN  Checked(B, B.phi_start # NULL, "phi_start != NULL",
        Checked(B, size > 0, "size > 0",
                alloc_ssa(B, [op |-> "phi", flags |-> {}, block |-> B.current_block,
                              left |-> B.phi_start, right |-> size])))

\* Unlike the other instructions, a phi asks for no open block.
end_phi(B) ==
    LET size == Len(B.phi_lists) + 1 - B.phi_start
        B1   == alloc_ssa(B, [op |-> "phi", flags |-> {}, block |-> B.current_block,
                              left |-> B.phi_start, right |-> size])
    IN  Checked(B, B.phi_start # NULL, "phi_start != NULL",
        Checked(B, size > 0, "size > 0",
        Then(B1, [B1 EXCEPT !.phi_start = NULL])))

emit(B, op, flags, left, right) ==
    InOpenBlock(B, alloc_ssa(B, [op |-> op, flags |-> flags,
                                 block |-> B.current_block,
                                 left |-> left, right |-> right]))

DBG(B)          == emit(B, "dbg", {"no_value"}, NULL, NULL)
add(B, l, r)    == emit(B, "add", {}, l, r)
sub(B, l, r)    == emit(B, "sub", {}, l, r)
literal(B, val) == emit(B, "i", {"const_val"}, val, 0)
nop(B)          == emit(B, "nop", {"no_value"}, NULL, NULL)

ret_StaysOpen(B, val) ==                          \* mutant: a value leaves br UNUSED
    LET B1 == emit(B, "ret", {"no_value"}, val, NULL)
        b  == [B.blocks[B.current_block] EXCEPT !.br = "unconditional"]
    IN  IF val # NULL THEN B1 ELSE Then(B1, WithBlock(B1, B.current_block, b))

\* The block stays current and block_true stays NULL: nothing follows it.
ret(B, val) ==
    LET B1 == emit(B, "ret", {"no_value"}, val, NULL)
        b  == [B.blocks[B.current_block] EXCEPT !.br = "unconditional"]
    IN  Then(B1, WithBlock(B1, B.current_block, b))

push_predecessor_Swapped(B, target) ==            \* mutant: the target, on the source
    WithBlock(B, B.current_block,
              [B.blocks[B.current_block] EXCEPT !.predecessors = Append(@, target)])

push_predecessor_Overwrites(B, target) ==         \* mutant: always the first slot
    WithBlock(B, target, [B.blocks[target] EXCEPT !.predecessors = <<B.current_block>>])

\* *target->predecessors.move_next() = current_block
push_predecessor(B, target) ==
    LET b == [B.blocks[target] EXCEPT !.predecessors = Append(@, B.current_block)]
    IN  Checked(B, Len(B.blocks[target].predecessors) < MaxPreds, "next < max",
                WithBlock(B, target, b))

\* A NULL target is allocated here.
branch(B, br, when_true, when_false) ==
    LET B1 == IF when_true = NULL THEN alloc_block(B) ELSE B
        t  == IF when_true = NULL THEN last_block(B1) ELSE when_true
        B2 == IF when_false = NULL THEN alloc_block(B1) ELSE B1
        f  == IF when_false = NULL THEN last_block(B2) ELSE when_false
        b  == [B.blocks[B.current_block] EXCEPT !.br = br, !.block_true = t,
                                                !.block_false = f]
        B3 == Then(B2, WithBlock(B2, B.current_block, b))
        B4 == Then(B3, push_predecessor(B3, t))
    IN  InOpenBlock(B, Then(B4, push_predecessor(B4, f)))

unconditional_branch(B, next_block) ==
    LET b  == [B.blocks[B.current_block] EXCEPT !.br = "unconditional",
                                                !.block_true = next_block]
    IN  InOpenBlock(B, push_predecessor(WithBlock(B, B.current_block, b), next_block))

\* block->final_values.try_get(sym, &v) succeeds
try_get(block, sym) == block.final_values[sym] # NULL

add_final_value_Replaces(B, sym, value) ==        \* mutant: a key's value is replaced
    LET b == [B.blocks[B.current_block] EXCEPT !.final_values[sym] = value]
    IN  WithBlock(B, B.current_block, b)

\* current_block->final_values.add(sym, value): the map takes a key once
add_final_value(B, sym, value) ==
    LET cur == B.blocks[B.current_block]
        b   == [cur EXCEPT !.final_values[sym] = value]
    IN  Checked(B, ~ try_get(cur, sym), "Attempt to add duplicate key",
                WithBlock(B, B.current_block, b))

-----------------------------------------------------------------------------
(***************************************************************************)
(* What the intermediate representation promises its readers, whoever      *)
(* built it.  IrBuilder checks these for any client, IrEmit for the        *)
(* compiler's own emitter.                                                 *)
(***************************************************************************)
BlockIds(B) == 1..Len(B.blocks)
SsaIds(B)   == 1..Len(B.ssas)
Targets(b)  == {b.block_true, b.block_false} \ {NULL}
EndOf(B, b) == IF Ended(B.blocks[b]) THEN B.blocks[b].next ELSE Len(B.ssas)

BlockInBounds(B, b) ==
    /\ b.head \in 0..Len(B.ssas) + 1
    /\ b.next \in 0..Len(B.ssas)
    /\ b.block_true \in 0..Len(B.blocks)
    /\ b.block_false \in 0..Len(B.blocks)

PointersInBounds(B) ==
    /\ B.current_block \in 0..Len(B.blocks)
    /\ B.phi_start \in 0..Len(B.phi_lists) + 1
    /\ \A b \in BlockIds(B) : BlockInBounds(B, B.blocks[b])
    /\ \A s \in SsaIds(B) : B.ssas[s].block \in 0..Len(B.blocks)

\* The instructions head..next of a block are those that name it as theirs.
BlocksOwnTheirRange(B) ==
    /\ \A b \in BlockIds(B) : Started(B.blocks[b]) =>
          \A s \in SsaIds(B) :
             (s \in B.blocks[b].head..EndOf(B, b)) <=> (B.ssas[s].block = b)
    /\ \A b \in BlockIds(B), s \in SsaIds(B) :
          ~ Started(B.blocks[b]) => B.ssas[s].block # b

\* Exactly the current block is started and not ended.
OneOpenBlock(B) ==
    \A b \in BlockIds(B) :
        /\ Started(B.blocks[b]) /\ ~ Ended(B.blocks[b]) <=> b = B.current_block
        /\ Ended(B.blocks[b]) => /\ Started(B.blocks[b])
                                 /\ B.blocks[b].head <= B.blocks[b].next
                                 /\ B.blocks[b].br # "UNUSED"

\* Whoever is listed as a predecessor of a block branches to it.
PredecessorsBranchHere(B) ==
    \A b \in BlockIds(B) : \A k \in 1..Len(B.blocks[b].predecessors) :
        LET p == B.blocks[b].predecessors[k]
        IN  p \in BlockIds(B) /\ b \in Targets(B.blocks[p])

Phis(B) == {s \in SsaIds(B) : B.ssas[s].op = "phi"}
PhiSlice(B, s) == B.ssas[s].left .. B.ssas[s].left + B.ssas[s].right - 1

\* Each phi has a slice of its own, not empty, of older instructions.
PhisOwnTheirSlice(B) ==
    \A s \in Phis(B) :
        /\ PhiSlice(B, s) # {}
        /\ PhiSlice(B, s) \subseteq 1..Len(B.phi_lists)
        /\ \A k \in PhiSlice(B, s) : B.phi_lists[k] \in 1..s - 1
        /\ B.phi_start # NULL => \A k \in PhiSlice(B, s) : k < B.phi_start
        /\ \A t \in Phis(B) : t # s => PhiSlice(B, s) \cap PhiSlice(B, t) = {}

=============================================================================
