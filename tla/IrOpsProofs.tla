---------------------------- MODULE IrOpsProofs -----------------------------
(***************************************************************************)
(* Lemmas about the functions of ir::builder, for every capacity, whoever  *)
(* calls them: IrBuilderProofs and IrEmitProofs rest on them.              *)
(*                                                                         *)
(* Every member function is a composition of a few elementary updates of   *)
(* the builder.  Each update keeps Typed, a check keeps it whether it      *)
(* passes or fails, hence so does each function.  In the same way each     *)
(* keeps Exact, and leaves the blocks ended before it as they are.         *)
(***************************************************************************)
EXTENDS IrOps, TLAPS

Typed(B) == B \in builder /\ PointersInBounds(B)

-----------------------------------------------------------------------------
(***************************************************************************)
(* The elementary updates: their types and what they leave alone.          *)
(***************************************************************************)
SameBlocks(B, C) == C.blocks = B.blocks
SameSsas(B, C)   == C.ssas = B.ssas /\ C.phi_lists = B.phi_lists
SameMode(B, C)   == C.current_block = B.current_block /\ C.phi_start = B.phi_start

LEMMA LengthType ==
    ASSUME NEW B \in builder
    PROVE  Len(B.blocks) \in Nat /\ Len(B.ssas) \in Nat /\ Len(B.phi_lists) \in Nat
BY DEF builder

LEMMA FieldType ==
    ASSUME NEW B \in builder
    PROVE  /\ B.blocks \in Seq(bb) /\ B.ssas \in Seq(ssa) /\ B.phi_lists \in Seq(Nat)
           /\ B.current_block \in Nat /\ B.phi_start \in Nat
           /\ \A b \in BlockIds(B) : B.blocks[b] \in bb
           /\ \A s \in SsaIds(B) : B.ssas[s] \in ssa
BY DEF builder, BlockIds, SsaIds

LEMMA SetFault ==
    ASSUME NEW B \in builder, NEW why \in failure, NEW C, C = [B EXCEPT !.fault = why]
    PROVE  C \in builder /\ SameBlocks(B, C) /\ SameSsas(B, C) /\ SameMode(B, C)
BY Zenon DEF builder, SameBlocks, SameSsas, SameMode

LEMMA SetBlocks ==
    ASSUME NEW B \in builder, NEW blocks \in Seq(bb), NEW C, C = [B EXCEPT !.blocks = blocks]
    PROVE  C \in builder /\ C.blocks = blocks /\ SameSsas(B, C) /\ SameMode(B, C) /\ C.fault = B.fault
BY Zenon DEF builder, SameSsas, SameMode

LEMMA SetCurrent ==
    ASSUME NEW B \in builder, NEW b \in Nat, NEW C, C = WithCurrent(B, b)
    PROVE  /\ C \in builder /\ C.current_block = b /\ C.phi_start = B.phi_start
           /\ SameBlocks(B, C) /\ SameSsas(B, C) /\ C.fault = B.fault
BY Zenon DEF builder, SameBlocks, SameSsas, WithCurrent

LEMMA SetBlock ==
    ASSUME NEW B \in builder, NEW b \in BlockIds(B), NEW c \in bb, NEW C, C = WithBlock(B, b, c)
    PROVE  /\ C \in builder /\ SameSsas(B, C) /\ SameMode(B, C) /\ C.fault = B.fault
           /\ Len(C.blocks) = Len(B.blocks) /\ C.blocks[b] = c
           /\ \A d \in BlockIds(B) : d # b => C.blocks[d] = B.blocks[d]
<1> DEFINE blocks == [B.blocks EXCEPT ![b] = c]
<1>1. B.blocks \in Seq(bb) /\ b \in 1..Len(B.blocks) BY DEF builder, BlockIds
<1>2. /\ blocks \in Seq(bb) /\ Len(blocks) = Len(B.blocks) /\ blocks[b] = c
      /\ \A d \in 1..Len(B.blocks) : d # b => blocks[d] = B.blocks[d]
  BY <1>1
<1>3. C = [B EXCEPT !.blocks = blocks] BY Zenon DEF WithBlock
<1> HIDE DEF blocks
<1>4. /\ C \in builder /\ C.blocks = blocks
      /\ SameSsas(B, C) /\ SameMode(B, C) /\ C.fault = B.fault
  BY <1>2, <1>3, SetBlocks
<1> QED BY <1>2, <1>4, Zenon DEF BlockIds

-----------------------------------------------------------------------------
(***************************************************************************)
(* Bounds survive growth: nothing is ever removed from an arena.           *)
(***************************************************************************)
Grown(B, C) == /\ Len(C.blocks) >= Len(B.blocks)
               /\ Len(C.ssas) >= Len(B.ssas)
               /\ Len(C.phi_lists) >= Len(B.phi_lists)

LEMMA BoundsGrow ==
    ASSUME NEW B \in builder, NEW C \in builder, Grown(B, C)
    PROVE  /\ \A b : BlockInBounds(B, b) => BlockInBounds(C, b)
           /\ \A n : n \in 0..Len(B.blocks) => n \in 0..Len(C.blocks)
           /\ \A n : n \in 0..Len(B.phi_lists) + 1 => n \in 0..Len(C.phi_lists) + 1
<1>1. /\ Len(B.blocks) \in Nat /\ Len(B.ssas) \in Nat /\ Len(B.phi_lists) \in Nat
      /\ Len(C.blocks) \in Nat /\ Len(C.ssas) \in Nat /\ Len(C.phi_lists) \in Nat
  BY LengthType
<1>2. /\ \A n : n \in 0..Len(B.blocks) => n \in 0..Len(C.blocks)
      /\ \A n : n \in 0..Len(B.ssas) => n \in 0..Len(C.ssas)
      /\ \A n : n \in 0..Len(B.ssas) + 1 => n \in 0..Len(C.ssas) + 1
      /\ \A n : n \in 0..Len(B.phi_lists) + 1 => n \in 0..Len(C.phi_lists) + 1
  BY <1>1, SMTT(30) DEF Grown
<1> QED BY <1>2, Zenon DEF BlockInBounds

LEMMA GrownTyped ==
    ASSUME NEW B, Typed(B), NEW C \in builder, Grown(B, C),
           C.current_block = B.current_block \/ C.current_block \in 0..Len(C.blocks),
           C.phi_start = B.phi_start \/ C.phi_start \in 0..Len(C.phi_lists) + 1,
           \A b \in BlockIds(C) : \/ b \in BlockIds(B) /\ C.blocks[b] = B.blocks[b]
                                  \/ BlockInBounds(C, C.blocks[b]),
           \A s \in SsaIds(C) : \/ s \in SsaIds(B) /\ C.ssas[s] = B.ssas[s]
                                \/ C.ssas[s].block \in 0..Len(C.blocks)
    PROVE  Typed(C)
<1>1. /\ \A b : BlockInBounds(B, b) => BlockInBounds(C, b)
      /\ \A n : n \in 0..Len(B.blocks) => n \in 0..Len(C.blocks)
      /\ \A n : n \in 0..Len(B.phi_lists) + 1 => n \in 0..Len(C.phi_lists) + 1
  BY BoundsGrow DEF Typed
<1>2. PointersInBounds(B) BY DEF Typed
<1> QED BY <1>1, <1>2, Zenon DEF Typed, PointersInBounds

\* Two builders with the same arenas have the same bounds.
LEMMA SameTyped ==
    ASSUME NEW B, Typed(B), NEW C \in builder, SameBlocks(B, C), SameSsas(B, C),
           C.current_block = B.current_block \/ C.current_block \in 0..Len(B.blocks),
           C.phi_start = B.phi_start \/ C.phi_start \in 0..Len(B.phi_lists) + 1
    PROVE  Typed(C)
BY Zenon DEF Typed, PointersInBounds, BlockInBounds, BlockIds, SsaIds, SameBlocks, SameSsas

LEMMA FailTyped ==
    ASSUME NEW B, Typed(B), NEW why \in failure
    PROVE  Typed([B EXCEPT !.fault = why])
BY SetFault, SameTyped, Zenon DEF Typed, SameMode

LEMMA CheckedTyped ==
    ASSUME NEW B, Typed(B), NEW ok, NEW why \in failure, NEW next, ok => Typed(next)
    PROVE  Typed(Checked(B, ok, why, next))
BY FailTyped, Zenon DEF Checked, Then

LEMMA WithCurrentTyped ==
    ASSUME NEW B, Typed(B), NEW b \in 0..Len(B.blocks)
    PROVE  Typed(WithCurrent(B, b))
<1> DEFINE C == WithCurrent(B, b)
<1>1. B \in builder /\ b \in Nat BY LengthType DEF Typed
<1>2. C = WithCurrent(B, b) OBVIOUS
<1> HIDE DEF C
<1>3. /\ C \in builder /\ C.current_block = b /\ C.phi_start = B.phi_start
      /\ SameBlocks(B, C) /\ SameSsas(B, C)
  BY <1>1, <1>2, SetCurrent, Zenon
<1>4. Typed(C) BY <1>3, SameTyped, Zenon
<1> QED BY <1>2, <1>4, Zenon

LEMMA WithBlockTyped ==
    ASSUME NEW B, Typed(B), NEW b \in BlockIds(B), NEW c \in bb, BlockInBounds(B, c)
    PROVE  Typed(WithBlock(B, b, c))
<1> DEFINE C == WithBlock(B, b, c)
<1>1. B \in builder /\ C = WithBlock(B, b, c) BY DEF Typed
<1> HIDE DEF C
<1>2. /\ C \in builder /\ SameSsas(B, C) /\ SameMode(B, C)
      /\ Len(C.blocks) = Len(B.blocks) /\ C.blocks[b] = c
      /\ \A d \in BlockIds(B) : d # b => C.blocks[d] = B.blocks[d]
  BY <1>1, SetBlock
<1>3. BlockIds(C) = BlockIds(B) /\ SsaIds(C) = SsaIds(B)
  BY <1>2, Zenon DEF BlockIds, SsaIds, SameSsas
<1>4. BlockInBounds(C, c) BY <1>2, Zenon DEF BlockInBounds, SameSsas
<1>5. Grown(B, C)
  <2>1. Len(B.blocks) \in Nat /\ Len(B.ssas) \in Nat /\ Len(B.phi_lists) \in Nat
    BY <1>1, LengthType
  <2> QED BY <1>2, <2>1 DEF Grown, SameSsas
<1>6. \A d \in BlockIds(C) : \/ d \in BlockIds(B) /\ C.blocks[d] = B.blocks[d]
                             \/ BlockInBounds(C, C.blocks[d])
  BY <1>2, <1>3, <1>4, Zenon
<1>7. Typed(C) BY <1>2, <1>3, <1>5, <1>6, GrownTyped, Zenon DEF SameMode, SameSsas
<1> QED BY <1>1, <1>7, Zenon

-----------------------------------------------------------------------------
(***************************************************************************)
(* Each member function keeps the types and the bounds, passing or         *)
(* failing, whatever state it is called in.                                *)
(***************************************************************************)
LEMMA NewBuilderTyped == Typed(NewBuilder)
<1>1. NewBuilder \in builder BY DEF NewBuilder, builder, NULL, NoFault
<1>2. /\ NewBuilder.blocks = <<>> /\ NewBuilder.ssas = <<>> /\ NewBuilder.phi_lists = <<>>
      /\ NewBuilder.current_block = 0 /\ NewBuilder.phi_start = 0
  BY DEF NewBuilder, NULL
<1>3. BlockIds(NewBuilder) = {} /\ SsaIds(NewBuilder) = {}
  BY <1>2 DEF BlockIds, SsaIds
<1> QED BY <1>1, <1>2, <1>3 DEF Typed, PointersInBounds

LEMMA FreshBlockTyped ==
    /\ FreshBlock \in bb
    /\ \A B \in builder : BlockInBounds(B, FreshBlock)
<1>1. FreshBlock \in bb BY DEF FreshBlock, bb, block_br, NULL
<1>2. /\ FreshBlock.head = 0 /\ FreshBlock.next = 0
      /\ FreshBlock.block_true = 0 /\ FreshBlock.block_false = 0
  BY DEF FreshBlock, NULL
<1>3. ASSUME NEW B \in builder PROVE BlockInBounds(B, FreshBlock)
  <2>1. Len(B.blocks) \in Nat /\ Len(B.ssas) \in Nat BY LengthType
  <2> QED BY <1>2, <2>1 DEF BlockInBounds
<1> QED BY <1>1, <1>3

LEMMA AppendedBlock ==
    ASSUME NEW B, Typed(B), NEW C, C = [B EXCEPT !.blocks = Append(@, FreshBlock)]
    PROVE  /\ Typed(C) /\ SameSsas(B, C) /\ SameMode(B, C) /\ C.fault = B.fault
           /\ Len(C.blocks) = Len(B.blocks) + 1
           /\ C.blocks[Len(B.blocks) + 1] = FreshBlock
           /\ \A b \in BlockIds(B) : C.blocks[b] = B.blocks[b]
<1> DEFINE blocks == Append(B.blocks, FreshBlock)
<1>1. B \in builder /\ B.blocks \in Seq(bb) BY FieldType DEF Typed
<1>2. FreshBlock \in bb BY FreshBlockTyped, Zenon
<1>3. /\ blocks \in Seq(bb) /\ Len(blocks) = Len(B.blocks) + 1
      /\ blocks[Len(B.blocks) + 1] = FreshBlock
      /\ \A b \in 1..Len(B.blocks) : blocks[b] = B.blocks[b]
  BY <1>1, <1>2
<1>4. C = [B EXCEPT !.blocks = blocks] OBVIOUS
<1> HIDE DEF blocks
<1>5. C \in builder /\ C.blocks = blocks /\ SameSsas(B, C) /\ SameMode(B, C) /\ C.fault = B.fault
  <2>1. B \in builder /\ blocks \in Seq(bb) BY <1>1, <1>3
  <2> QED BY <2>1, <1>4, SetBlocks, ZenonT(30)
<1>6. BlockIds(C) = BlockIds(B) \cup {Len(B.blocks) + 1}
  <2>1. Len(B.blocks) \in Nat BY <1>1, LengthType
  <2> QED BY <1>3, <1>5, <2>1 DEF BlockIds
<1>7. Grown(B, C)
  <2>1. Len(B.blocks) \in Nat /\ Len(B.ssas) \in Nat /\ Len(B.phi_lists) \in Nat
    BY <1>1, LengthType
  <2> QED BY <1>3, <1>5, <2>1 DEF Grown, SameSsas
<1>8. \A b \in BlockIds(C) : \/ b \in BlockIds(B) /\ C.blocks[b] = B.blocks[b]
                             \/ BlockInBounds(C, C.blocks[b])
  BY <1>3, <1>5, <1>6, FreshBlockTyped, Zenon DEF BlockIds
<1>9. Typed(C) BY <1>5, <1>7, <1>8, GrownTyped, Zenon DEF SameMode, SameSsas, SsaIds
<1> QED BY <1>3, <1>5, <1>9, Zenon DEF BlockIds

LEMMA AppendedSsa ==
    ASSUME NEW B, Typed(B), NEW s \in ssa, s.block \in 0..Len(B.blocks),
           NEW C, C = [B EXCEPT !.ssas = Append(@, s)]
    PROVE  /\ Typed(C) /\ SameBlocks(B, C) /\ SameMode(B, C) /\ C.fault = B.fault
           /\ C.phi_lists = B.phi_lists
           /\ Len(C.ssas) = Len(B.ssas) + 1 /\ C.ssas[Len(B.ssas) + 1] = s
           /\ \A t \in SsaIds(B) : C.ssas[t] = B.ssas[t]
<1> DEFINE ssas == Append(B.ssas, s)
<1>1. B \in builder /\ B.ssas \in Seq(ssa) BY FieldType DEF Typed
<1>2. /\ ssas \in Seq(ssa) /\ Len(ssas) = Len(B.ssas) + 1
      /\ ssas[Len(B.ssas) + 1] = s
      /\ \A t \in 1..Len(B.ssas) : ssas[t] = B.ssas[t]
  BY <1>1
<1>3. C = [B EXCEPT !.ssas = ssas] OBVIOUS
<1> HIDE DEF ssas
<1>4. /\ C \in builder /\ C.ssas = ssas /\ C.phi_lists = B.phi_lists
      /\ SameBlocks(B, C) /\ SameMode(B, C) /\ C.fault = B.fault
  <2>1. B \in builder /\ ssas \in Seq(ssa) BY <1>1, <1>2
  <2> QED BY <2>1, <1>3, Zenon DEF builder, SameBlocks, SameMode
<1>5. SsaIds(C) = SsaIds(B) \cup {Len(B.ssas) + 1}
  <2>1. Len(B.ssas) \in Nat BY <1>1, LengthType
  <2> QED BY <1>2, <1>4, <2>1 DEF SsaIds
<1>6. Grown(B, C)
  <2>1. Len(B.blocks) \in Nat /\ Len(B.ssas) \in Nat /\ Len(B.phi_lists) \in Nat
    BY <1>1, LengthType
  <2> QED BY <1>2, <1>4, <2>1 DEF Grown, SameBlocks
<1>7. \A t \in SsaIds(C) : \/ t \in SsaIds(B) /\ C.ssas[t] = B.ssas[t]
                           \/ C.ssas[t].block \in 0..Len(C.blocks)
  BY <1>2, <1>4, <1>5, Zenon DEF SsaIds, SameBlocks
<1>8. Typed(C) BY <1>4, <1>6, <1>7, GrownTyped, Zenon DEF SameMode, SameBlocks, BlockIds
<1> QED BY <1>2, <1>4, <1>8, Zenon DEF SsaIds

LEMMA alloc_blockTyped ==
    ASSUME NEW B, Typed(B)
    PROVE  Typed(alloc_block(B))
<1>1. "Arena reached max capacity" \in failure BY DEF failure
<1>2. Typed([B EXCEPT !.blocks = Append(@, FreshBlock)]) BY AppendedBlock, Zenon
<1> QED BY <1>1, <1>2, CheckedTyped, Zenon DEF alloc_block

LEMMA alloc_ssaTyped ==
    ASSUME NEW B, Typed(B), NEW s \in ssa, s.block \in 0..Len(B.blocks)
    PROVE  Typed(alloc_ssa(B, s))
<1>1. "Arena reached max capacity" \in failure BY DEF failure
<1>2. Typed([B EXCEPT !.ssas = Append(@, s)]) BY AppendedSsa, Zenon
<1> QED BY <1>1, <1>2, CheckedTyped, Zenon DEF alloc_ssa

LEMMA InBlockTyped ==
    ASSUME NEW B, Typed(B), NEW next, B.current_block \in BlockIds(B) => Typed(next)
    PROVE  Typed(InBlock(B, next))
<1>1. "current_block != NULL" \in failure BY DEF failure
<1>2. B.current_block # NULL => B.current_block \in BlockIds(B)
  BY LengthType DEF Typed, PointersInBounds, BlockIds, NULL
<1> QED BY <1>1, <1>2, CheckedTyped, Zenon DEF InBlock

LEMMA InOpenBlockTyped ==
    ASSUME NEW B, Typed(B), NEW next, B.current_block \in BlockIds(B) => Typed(next)
    PROVE  Typed(InOpenBlock(B, next))
<1>1. "current_block->br == block_br::UNUSED" \in failure BY DEF failure
<1> QED BY <1>1, CheckedTyped, InBlockTyped, Zenon DEF InOpenBlock

LEMMA start_blockTyped ==
    ASSUME NEW B, Typed(B), NEW block \in BlockIds(B), NEW scope \in Nat
    PROVE  Typed(start_block(B, block, scope))
<1> DEFINE b == [B.blocks[block] EXCEPT !.br = "UNUSED", !.head = Len(B.ssas) + 1,
                                        !.scope = scope]
<1>1. /\ B \in builder /\ B.blocks[block] \in bb /\ BlockInBounds(B, B.blocks[block])
      /\ Len(B.ssas) \in Nat
  BY FieldType, LengthType DEF Typed, PointersInBounds
<1>2. "UNUSED" \in block_br BY DEF block_br
<1>3. /\ b \in bb /\ b.head = Len(B.ssas) + 1 /\ b.next = B.blocks[block].next
      /\ b.block_true = B.blocks[block].block_true
      /\ b.block_false = B.blocks[block].block_false
  <2>1. B.blocks[block] \in bb /\ Len(B.ssas) + 1 \in Nat BY <1>1
  <2> QED BY <2>1, <1>2, Zenon DEF bb
<1> HIDE DEF b
<1>4. BlockInBounds(B, b) BY <1>1, <1>3 DEF BlockInBounds
<1> DEFINE C == WithBlock(B, block, b)
<1>5. Typed(C) BY <1>3, <1>4, WithBlockTyped, Zenon
<1>6. block \in 0..Len(C.blocks)
  <2>1. Len(C.blocks) = Len(B.blocks) BY <1>1, <1>3, SetBlock
  <2> QED BY <1>1, <2>1, LengthType DEF BlockIds
<1> HIDE DEF C
<1>7. Typed(WithCurrent(C, block)) BY <1>5, <1>6, WithCurrentTyped, Zenon
<1>8. "block != NULL" \in failure /\ "current_block == NULL" \in failure BY DEF failure
<1> QED BY <1>7, <1>8, CheckedTyped, Zenon DEF start_block, b, C

\* Both ways to end a block write its last instruction and forget it.
LEMMA ClosedTyped ==
    ASSUME NEW B, Typed(B), B.current_block \in BlockIds(B), NEW b \in bb, BlockInBounds(B, b)
    PROVE  Typed(WithCurrent(WithBlock(B, B.current_block, b), NULL))
<1> DEFINE C == WithBlock(B, B.current_block, b)
<1>1. Typed(C) BY WithBlockTyped, Zenon
<1> HIDE DEF C
<1>2. NULL \in 0..Len(C.blocks) BY <1>1, LengthType DEF Typed, NULL
<1>3. Typed(WithCurrent(C, NULL)) BY <1>1, <1>2, WithCurrentTyped, Zenon
<1> QED BY <1>3 DEF C

LEMMA end_blockTyped ==
    ASSUME NEW B, Typed(B)
    PROVE  Typed(end_block(B))
<1> DEFINE cur == B.blocks[B.current_block]
           b   == [cur EXCEPT !.next = last_ssa(B)]
<1>1. ASSUME B.current_block \in BlockIds(B)
      PROVE  Typed(WithCurrent(WithBlock(B, B.current_block, b), NULL))
  <2>1. /\ B \in builder /\ cur \in bb /\ BlockInBounds(B, cur) /\ Len(B.ssas) \in Nat
    BY <1>1, FieldType, LengthType DEF Typed, PointersInBounds
  <2>2. /\ b \in bb /\ b.head = cur.head /\ b.next = Len(B.ssas)
        /\ b.block_true = cur.block_true /\ b.block_false = cur.block_false
    BY <2>1 DEF bb, last_ssa
  <2> HIDE DEF b, cur
  <2>3. BlockInBounds(B, b) BY <2>1, <2>2 DEF BlockInBounds
  <2> QED BY <1>1, <2>2, <2>3, ClosedTyped, Zenon
<1>2. /\ "is_not_empty" \in failure
      /\ "current_block->br != block_br::UNUSED" \in failure
  BY DEF failure
<1> QED BY <1>1, <1>2, CheckedTyped, InBlockTyped, Zenon DEF end_block, Closing

LEMMA end_block_toTyped ==
    ASSUME NEW B, Typed(B), NEW next \in BlockIds(B)
    PROVE  Typed(end_block_to(B, next))
<1> DEFINE cur == B.blocks[B.current_block]
           b   == [cur EXCEPT !.next = last_ssa(B), !.br = "unconditional",
                              !.block_true = next]
<1>1. ASSUME B.current_block \in BlockIds(B)
      PROVE  Typed(WithCurrent(WithBlock(B, B.current_block, b), NULL))
  <2>1. /\ B \in builder /\ cur \in bb /\ BlockInBounds(B, cur)
        /\ Len(B.ssas) \in Nat /\ Len(B.blocks) \in Nat
        /\ next \in Nat /\ next \in 0..Len(B.blocks)
    BY <1>1, FieldType, LengthType DEF Typed, PointersInBounds, BlockIds
  <2>2. "unconditional" \in block_br BY DEF block_br
  <2>3. /\ b \in bb /\ b.head = cur.head /\ b.next = Len(B.ssas)
        /\ b.block_true = next /\ b.block_false = cur.block_false
    BY <2>1, <2>2 DEF bb, last_ssa
  <2> HIDE DEF b, cur
  <2>4. BlockInBounds(B, b) BY <2>1, <2>3 DEF BlockInBounds
  <2> QED BY <1>1, <2>3, <2>4, ClosedTyped, Zenon
<1>2. /\ "is_not_empty" \in failure
      /\ "current_block->br == block_br::UNUSED" \in failure
      /\ "block->block_true == NULL" \in failure
      /\ "block->block_false == NULL" \in failure
  BY DEF failure
<1> QED BY <1>1, <1>2, CheckedTyped, InBlockTyped, Zenon DEF end_block_to, Closing

LEMMA start_phiTyped ==
    ASSUME NEW B, Typed(B)
    PROVE  Typed(start_phi(B))
<1> DEFINE C == [B EXCEPT !.phi_start = Len(B.phi_lists) + 1]
<1>1. /\ B \in builder /\ Len(B.phi_lists) + 1 \in Nat
      /\ Len(B.phi_lists) + 1 \in 0..Len(B.phi_lists) + 1
  BY LengthType DEF Typed
<1>2. C = [B EXCEPT !.phi_start = Len(B.phi_lists) + 1] OBVIOUS
<1> HIDE DEF C
<1>3. /\ C \in builder /\ C.current_block = B.current_block
      /\ C.phi_start = Len(B.phi_lists) + 1 /\ SameBlocks(B, C) /\ SameSsas(B, C)
  BY <1>1, <1>2, Zenon DEF builder, SameBlocks, SameSsas
<1>4. Typed(C) BY <1>1, <1>3, SameTyped, Zenon
<1>5. "phi_start == NULL" \in failure BY DEF failure
<1> QED BY <1>2, <1>4, <1>5, CheckedTyped, Zenon DEF start_phi

LEMMA push_phiTyped ==
    ASSUME NEW B, Typed(B), NEW s \in Nat
    PROVE  Typed(push_phi(B, s))
<1> DEFINE list == Append(B.phi_lists, s)
           C    == [B EXCEPT !.phi_lists = list]
<1>1. B \in builder /\ B.phi_lists \in Seq(Nat) BY FieldType DEF Typed
<1>2. list \in Seq(Nat) /\ Len(list) = Len(B.phi_lists) + 1 BY <1>1
<1>3. C = [B EXCEPT !.phi_lists = list] OBVIOUS
<1>4. [B EXCEPT !.phi_lists = Append(@, s)] = C OBVIOUS
<1> HIDE DEF C, list
<1>5. /\ C \in builder /\ C.phi_lists = list /\ C.ssas = B.ssas
      /\ SameBlocks(B, C) /\ SameMode(B, C)
  <2>1. B \in builder /\ list \in Seq(Nat) BY <1>1, <1>2
  <2> QED BY <2>1, <1>3, Zenon DEF builder, SameBlocks, SameMode
<1>6. Grown(B, C)
  <2>1. Len(B.blocks) \in Nat /\ Len(B.ssas) \in Nat /\ Len(B.phi_lists) \in Nat
    BY <1>1, LengthType
  <2> QED BY <1>2, <1>5, <2>1 DEF Grown, SameBlocks
<1>7. Typed(C)
  BY <1>5, <1>6, GrownTyped, Zenon DEF SameMode, SameBlocks, BlockIds, SsaIds
<1>8. "phi_start != NULL" \in failure /\ "Arena reached max capacity" \in failure
  BY DEF failure
<1> QED BY <1>4, <1>7, <1>8, CheckedTyped, Zenon DEF push_phi

-----------------------------------------------------------------------------
(***************************************************************************)
(* Functions made of several updates: what the first leaves, the next one  *)
(* still finds.                                                            *)
(***************************************************************************)
Extends(B, C) == /\ Typed(C)
                 /\ Grown(B, C)
                 /\ C.current_block = B.current_block
                 /\ C.fault = NoFault => B.fault = NoFault

LEMMA ExtendsItself ==
    ASSUME NEW B, Typed(B)
    PROVE  Extends(B, B)
<1>1. Grown(B, B) BY LengthType DEF Typed, Grown
<1> QED BY <1>1 DEF Extends

LEMMA ExtendsTransitive ==
    ASSUME NEW B, Typed(B), NEW C, Extends(B, C), NEW D, Extends(C, D)
    PROVE  Extends(B, D)
<1>1. Grown(B, D)
  <2>1. /\ Len(B.blocks) \in Nat /\ Len(B.ssas) \in Nat /\ Len(B.phi_lists) \in Nat
        /\ Len(C.blocks) \in Nat /\ Len(C.ssas) \in Nat /\ Len(C.phi_lists) \in Nat
        /\ Len(D.blocks) \in Nat /\ Len(D.ssas) \in Nat /\ Len(D.phi_lists) \in Nat
    BY LengthType DEF Typed, Extends
  <2>2. /\ Len(D.blocks) >= Len(C.blocks) /\ Len(C.blocks) >= Len(B.blocks)
        /\ Len(D.ssas) >= Len(C.ssas) /\ Len(C.ssas) >= Len(B.ssas)
        /\ Len(D.phi_lists) >= Len(C.phi_lists) /\ Len(C.phi_lists) >= Len(B.phi_lists)
    BY Zenon DEF Extends, Grown
  <2>3. Len(D.blocks) >= Len(B.blocks) BY <2>1, <2>2
  <2>4. Len(D.ssas) >= Len(B.ssas) BY <2>1, <2>2
  <2>5. Len(D.phi_lists) >= Len(B.phi_lists) BY <2>1, <2>2
  <2> QED BY <2>3, <2>4, <2>5, Zenon DEF Grown
<1> QED BY <1>1, Zenon DEF Extends

LEMMA ExtendsChecked ==
    ASSUME NEW B, Typed(B), NEW ok, NEW why \in failure, NEW next, ok => Extends(B, next)
    PROVE  Extends(B, Checked(B, ok, why, next))
<1> DEFINE C == [B EXCEPT !.fault = why]
<1>1. B \in builder /\ C = [B EXCEPT !.fault = why] BY DEF Typed
<1> HIDE DEF C
<1>2. SameBlocks(B, C) /\ SameSsas(B, C) /\ SameMode(B, C) BY <1>1, SetFault, Zenon
<1>3. Typed(C) BY <1>1, FailTyped, Zenon
<1>4. Grown(B, C)
  <2>1. Len(B.blocks) \in Nat /\ Len(B.ssas) \in Nat /\ Len(B.phi_lists) \in Nat
    BY <1>1, LengthType
  <2> QED BY <1>2, <2>1 DEF Grown, SameBlocks, SameSsas
<1>5. CASE B.fault # NoFault
  BY <1>5, ExtendsItself, Zenon DEF Checked, Then
<1>6. CASE B.fault = NoFault /\ ok
  BY <1>6, Zenon DEF Checked, Then
<1>7. CASE B.fault = NoFault /\ ~ ok
  BY <1>1, <1>2, <1>3, <1>4, <1>7, Zenon DEF Checked, Then, Extends, SameMode
<1> QED BY <1>5, <1>6, <1>7, Zenon

LEMMA ExtendsThen ==
    ASSUME NEW B, Typed(B), NEW next, B.fault = NoFault => Extends(B, next)
    PROVE  Extends(B, Then(B, next))
BY ExtendsItself, Zenon DEF Then

LEMMA AllocBlockExtends ==
    ASSUME NEW B, Typed(B)
    PROVE  /\ Extends(B, alloc_block(B))
           /\ alloc_block(B).fault = NoFault => last_block(alloc_block(B)) \in BlockIds(alloc_block(B))
<1> DEFINE C == [B EXCEPT !.blocks = Append(@, FreshBlock)]
<1>1. C = [B EXCEPT !.blocks = Append(@, FreshBlock)] OBVIOUS
<1> HIDE DEF C
<1>2. Len(B.blocks) \in Nat /\ Len(B.ssas) \in Nat /\ Len(B.phi_lists) \in Nat
  BY LengthType DEF Typed
<1>3. /\ Typed(C) /\ SameSsas(B, C) /\ SameMode(B, C) /\ C.fault = B.fault
      /\ Len(C.blocks) = Len(B.blocks) + 1
  BY <1>1, AppendedBlock, Zenon
<1>4. Grown(B, C) BY <1>2, <1>3 DEF Grown, SameSsas
<1>5. Extends(B, C) BY <1>3, <1>4, Zenon DEF Extends, SameMode
<1>6. "Arena reached max capacity" \in failure /\ "Arena reached max capacity" # NoFault
  BY DEF failure, NoFault
<1>7. Extends(B, alloc_block(B)) BY <1>1, <1>5, <1>6, ExtendsChecked, Zenon DEF alloc_block
<1>8. ASSUME alloc_block(B).fault = NoFault PROVE alloc_block(B) = C
  <2>1. CASE B.fault # NoFault BY <2>1, <1>8, Zenon DEF alloc_block, Checked, Then
  <2>2. CASE B.fault = NoFault /\ ~ (Len(B.blocks) < MaxBlocks)
    <3>1. alloc_block(B) = [B EXCEPT !.fault = "Arena reached max capacity"]
      BY <2>2, Zenon DEF alloc_block, Checked, Then
    <3>2. [B EXCEPT !.fault = "Arena reached max capacity"].fault = "Arena reached max capacity"
      BY Zenon DEF Typed, builder
    <3> QED BY <3>1, <3>2, <1>6, <1>8, Zenon
  <2>3. CASE B.fault = NoFault /\ Len(B.blocks) < MaxBlocks
    BY <2>3, <1>1, Zenon DEF alloc_block, Checked, Then
  <2> QED BY <2>1, <2>2, <2>3, Zenon
<1>9. Len(C.blocks) \in BlockIds(C) BY <1>2, <1>3 DEF BlockIds
<1> QED BY <1>7, <1>8, <1>9, Zenon DEF last_block

LEMMA alloc_ssaExtends ==
    ASSUME NEW B, Typed(B), NEW s \in ssa, s.block \in 0..Len(B.blocks)
    PROVE  Extends(B, alloc_ssa(B, s))
<1> DEFINE C == [B EXCEPT !.ssas = Append(@, s)]
<1>1. C = [B EXCEPT !.ssas = Append(@, s)] OBVIOUS
<1> HIDE DEF C
<1>2. Len(B.blocks) \in Nat /\ Len(B.ssas) \in Nat /\ Len(B.phi_lists) \in Nat
  BY LengthType DEF Typed
<1>3. /\ Typed(C) /\ SameBlocks(B, C) /\ SameMode(B, C) /\ C.fault = B.fault
      /\ C.phi_lists = B.phi_lists /\ Len(C.ssas) = Len(B.ssas) + 1
  BY <1>1, AppendedSsa
<1>4. Grown(B, C) BY <1>2, <1>3 DEF Grown, SameBlocks
<1>5. Extends(B, C) BY <1>3, <1>4, Zenon DEF Extends, SameMode
<1>6. "Arena reached max capacity" \in failure BY DEF failure
<1> QED BY <1>1, <1>5, <1>6, ExtendsChecked, Zenon DEF alloc_ssa

LEMMA emitExtends ==
    ASSUME NEW B, Typed(B), NEW o \in opcode, NEW flags \in SUBSET ssa_prop,
           NEW left \in Nat, NEW right \in Nat
    PROVE  Extends(B, emit(B, o, flags, left, right))
<1> DEFINE s == [op |-> o, flags |-> flags, block |-> B.current_block,
                 left |-> left, right |-> right]
<1>1. s \in ssa /\ s.block \in 0..Len(B.blocks)
  BY DEF Typed, PointersInBounds, builder, ssa
<1>2. Extends(B, alloc_ssa(B, s)) BY <1>1, alloc_ssaExtends, Zenon
<1> HIDE DEF s
<1>3. /\ "current_block->br == block_br::UNUSED" \in failure
      /\ "current_block != NULL" \in failure
  BY DEF failure
<1>4. Extends(B, InOpenBlock(B, alloc_ssa(B, s)))
  BY <1>2, <1>3, ExtendsChecked, Zenon DEF InOpenBlock, InBlock
<1> QED BY <1>4 DEF emit, s

LEMMA end_phiTyped ==
    ASSUME NEW B, Typed(B)
    PROVE  Typed(end_phi(B))
<1> DEFINE size == Len(B.phi_lists) + 1 - B.phi_start
           s    == [op |-> "phi", flags |-> {}, block |-> B.current_block,
                    left |-> B.phi_start, right |-> size]
           B1   == alloc_ssa(B, s)
           C    == [B1 EXCEPT !.phi_start = NULL]
<1>1. ASSUME size > 0 PROVE Typed(Then(B1, C))
  <2>1. s \in ssa /\ s.block \in 0..Len(B.blocks)
    <3>1. size \in Nat BY <1>1, LengthType DEF Typed, PointersInBounds
    <3> HIDE DEF size
    <3> QED BY <3>1 DEF Typed, PointersInBounds, builder, ssa, opcode
  <2> HIDE DEF s
  <2>2. Typed(B1) BY <2>1, alloc_ssaTyped, Zenon
  <2> HIDE DEF B1
  <2>3. B1 \in builder /\ NULL \in Nat /\ NULL \in 0..Len(B1.phi_lists) + 1
    BY <2>2, LengthType DEF Typed, NULL
  <2>4. C = [B1 EXCEPT !.phi_start = NULL] OBVIOUS
  <2> HIDE DEF C
  <2>5. /\ C \in builder /\ C.current_block = B1.current_block /\ C.phi_start = NULL
        /\ SameBlocks(B1, C) /\ SameSsas(B1, C)
    BY <2>3, <2>4, Zenon DEF builder, SameBlocks, SameSsas
  <2>6. Typed(C) BY <2>2, <2>3, <2>5, SameTyped, Zenon
  <2> QED BY <2>2, <2>6, Zenon DEF Then
<1>2. "phi_start != NULL" \in failure /\ "size > 0" \in failure BY DEF failure
<1> QED BY <1>1, <1>2, CheckedTyped, Zenon DEF end_phi

LEMMA InstructionsTyped ==
    ASSUME NEW B, Typed(B), NEW l \in Nat, NEW r \in Nat
    PROVE  /\ Typed(DBG(B)) /\ Typed(nop(B)) /\ Typed(literal(B, l))
           /\ Typed(add(B, l, r)) /\ Typed(sub(B, l, r))
<1>1. /\ {"dbg", "nop", "i", "add", "sub"} \subseteq opcode
      /\ {"no_value"} \in SUBSET ssa_prop /\ {"const_val"} \in SUBSET ssa_prop
      /\ {} \in SUBSET ssa_prop /\ NULL \in Nat /\ 0 \in Nat
  BY DEF opcode, ssa_prop, NULL
<1>2. \A o \in {"dbg", "nop", "i", "add", "sub"}, flags \in SUBSET ssa_prop, x, y \in Nat :
         Typed(emit(B, o, flags, x, y))
  BY <1>1, emitExtends, Zenon DEF Extends
<1> QED BY <1>1, <1>2 DEF DBG, nop, literal, add, sub

\* An instruction that did not fail was given to an open block.
LEMMA InOpenBlockPasses ==
    ASSUME NEW B, Typed(B), NEW next, InOpenBlock(B, next).fault = NoFault
    PROVE  /\ B.fault = NoFault /\ B.current_block \in BlockIds(B)
           /\ B.blocks[B.current_block].br = "UNUSED"
           /\ InOpenBlock(B, next) = next
<1> DEFINE closed == [B EXCEPT !.fault = "current_block->br == block_br::UNUSED"]
           none   == [B EXCEPT !.fault = "current_block != NULL"]
<1>1. closed.fault # NoFault /\ none.fault # NoFault
  <2>1. /\ closed.fault = "current_block->br == block_br::UNUSED"
        /\ none.fault = "current_block != NULL"
    BY Zenon DEF Typed, builder
  <2> QED BY <2>1 DEF NoFault
<1>2. InOpenBlock(B, next) =
         IF B.fault # NoFault THEN B
         ELSE IF B.current_block = NULL THEN none
         ELSE IF B.blocks[B.current_block].br # "UNUSED" THEN closed ELSE next
  BY Zenon DEF InOpenBlock, InBlock, Checked, Then
<1> HIDE DEF closed, none
<1>3. /\ B.fault = NoFault /\ B.current_block # NULL
      /\ B.blocks[B.current_block].br = "UNUSED"
      /\ InOpenBlock(B, next) = next
  BY <1>1, <1>2
<1>4. B.current_block \in BlockIds(B)
  BY <1>3, LengthType DEF Typed, PointersInBounds, BlockIds, NULL
<1> QED BY <1>3, <1>4

\* A block of B rewritten in bounds of B fits any builder that extends B.
LEMMA WithBlockExtends ==
    ASSUME NEW B, Typed(B), NEW b \in BlockIds(B), NEW c \in bb, BlockInBounds(B, c)
    PROVE  Extends(B, WithBlock(B, b, c)) /\ BlockIds(WithBlock(B, b, c)) = BlockIds(B)
<1> DEFINE C == WithBlock(B, b, c)
<1>1. B \in builder /\ C = WithBlock(B, b, c) BY DEF Typed
<1> HIDE DEF C
<1>2. /\ SameSsas(B, C) /\ SameMode(B, C) /\ C.fault = B.fault
      /\ Len(C.blocks) = Len(B.blocks)
  BY <1>1, SetBlock
<1>3. Typed(C) BY <1>1, WithBlockTyped, Zenon
<1>4. Grown(B, C)
  <2>1. Len(B.blocks) \in Nat /\ Len(B.ssas) \in Nat /\ Len(B.phi_lists) \in Nat
    BY <1>1, LengthType
  <2> QED BY <1>2, <2>1 DEF Grown, SameSsas
<1> QED BY <1>1, <1>2, <1>3, <1>4, Zenon DEF Extends, SameMode, BlockIds

LEMMA BlockIdsGrow ==
    ASSUME NEW B, Typed(B), NEW C, Extends(B, C)
    PROVE  /\ BlockIds(B) \subseteq BlockIds(C)
           /\ \A b : BlockInBounds(B, b) => BlockInBounds(C, b)
<1>1. B \in builder /\ C \in builder /\ Grown(B, C) BY DEF Extends, Typed
<1>2. Len(B.blocks) \in Nat /\ Len(C.blocks) \in Nat BY <1>1, LengthType
<1>3. BlockIds(B) \subseteq BlockIds(C) BY <1>1, <1>2 DEF Grown, BlockIds
<1> QED BY <1>1, <1>3, BoundsGrow, Zenon

LEMMA retTyped ==
    ASSUME NEW B, Typed(B), NEW val \in Nat
    PROVE  Typed(ret(B, val))
<1> DEFINE B1 == emit(B, "ret", {"no_value"}, val, NULL)
           b  == [B.blocks[B.current_block] EXCEPT !.br = "unconditional"]
<1>1. Extends(B, B1)
  <2>1. "ret" \in opcode /\ {"no_value"} \in SUBSET ssa_prop /\ NULL \in Nat
    BY DEF opcode, ssa_prop, NULL
  <2> QED BY <2>1, emitExtends, Zenon
<1>2. ASSUME B1.fault = NoFault PROVE B.current_block \in BlockIds(B)
  BY <1>2, InOpenBlockPasses, Zenon DEF emit
<1> HIDE DEF B1
<1>3. ASSUME B1.fault = NoFault PROVE Typed(WithBlock(B1, B.current_block, b))
  <2>1. B.current_block \in BlockIds(B) /\ B.current_block \in BlockIds(B1)
    BY <1>1, <1>2, <1>3, BlockIdsGrow, Zenon
  <2>2. B.blocks[B.current_block] \in bb /\ BlockInBounds(B, B.blocks[B.current_block])
    BY <2>1, FieldType DEF Typed, PointersInBounds
  <2>3. "unconditional" \in block_br BY DEF block_br
  <2>4. /\ b \in bb /\ b.head = B.blocks[B.current_block].head
        /\ b.next = B.blocks[B.current_block].next
        /\ b.block_true = B.blocks[B.current_block].block_true
        /\ b.block_false = B.blocks[B.current_block].block_false
    BY <2>2, <2>3, Zenon DEF bb
  <2> HIDE DEF b
  <2>5. BlockInBounds(B, b) BY <2>2, <2>4, Zenon DEF BlockInBounds
  <2>6. BlockInBounds(B1, b) BY <1>1, <2>5, BlockIdsGrow, Zenon
  <2>7. Typed(B1) BY <1>1 DEF Extends
  <2> QED BY <2>1, <2>4, <2>6, <2>7, WithBlockTyped, Zenon
<1>4. Typed(Then(B1, WithBlock(B1, B.current_block, b)))
  BY <1>1, <1>3, Zenon DEF Then, Extends
<1> QED BY <1>4, Zenon DEF ret, B1

LEMMA push_predecessorExtends ==
    ASSUME NEW B, Typed(B), NEW target \in BlockIds(B)
    PROVE  Extends(B, push_predecessor(B, target))
<1> DEFINE b == [B.blocks[target] EXCEPT !.predecessors = Append(@, B.current_block)]
<1>1. /\ B.blocks[target] \in bb /\ BlockInBounds(B, B.blocks[target])
      /\ B.current_block \in Nat
  BY FieldType DEF Typed, PointersInBounds
<1>2. B.blocks[target].predecessors \in Seq(Nat) BY <1>1 DEF bb
<1>3. Append(B.blocks[target].predecessors, B.current_block) \in Seq(Nat) BY <1>1, <1>2
<1>4. /\ b \in bb /\ b.head = B.blocks[target].head /\ b.next = B.blocks[target].next
      /\ b.block_true = B.blocks[target].block_true
      /\ b.block_false = B.blocks[target].block_false
  BY <1>1, <1>3, Zenon DEF bb
<1> HIDE DEF b
<1>5. BlockInBounds(B, b) BY <1>1, <1>4, Zenon DEF BlockInBounds
<1>6. Extends(B, WithBlock(B, target, b)) BY <1>4, <1>5, WithBlockExtends, Zenon
<1>7. "next < max" \in failure BY DEF failure
<1> QED BY <1>6, <1>7, ExtendsChecked, Zenon DEF push_predecessor, b

\* Writing the branch of the open block, with targets that exist
LEMMA RetargetTyped ==
    ASSUME NEW B, Typed(B), NEW b \in bb, BlockInBounds(B, b), NEW br \in block_br,
           NEW t \in BlockIds(B), NEW f \in BlockIds(B)
    PROVE  /\ [b EXCEPT !.br = br, !.block_true = t, !.block_false = f] \in bb
           /\ BlockInBounds(B, [b EXCEPT !.br = br, !.block_true = t, !.block_false = f])
           /\ [b EXCEPT !.br = br, !.block_true = t] \in bb
           /\ BlockInBounds(B, [b EXCEPT !.br = br, !.block_true = t])
<1> DEFINE c == [b EXCEPT !.br = br, !.block_true = t, !.block_false = f]
           d == [b EXCEPT !.br = br, !.block_true = t]
<1>1. t \in Nat /\ f \in Nat /\ t \in 0..Len(B.blocks) /\ f \in 0..Len(B.blocks)
  BY LengthType DEF Typed, BlockIds
<1>2. c \in bb /\ c.head = b.head /\ c.next = b.next /\ c.block_true = t /\ c.block_false = f
  BY <1>1, Zenon DEF bb
<1>3. /\ d \in bb /\ d.head = b.head /\ d.next = b.next /\ d.block_true = t
      /\ d.block_false = b.block_false
  BY <1>1, Zenon DEF bb
<1> HIDE DEF c, d
<1>4. BlockInBounds(B, c) /\ BlockInBounds(B, d)
  BY <1>1, <1>2, <1>3, Zenon DEF BlockInBounds
<1> QED BY <1>2, <1>3, <1>4 DEF c, d

LEMMA unconditional_branchTyped ==
    ASSUME NEW B, Typed(B), NEW next_block \in BlockIds(B)
    PROVE  Typed(unconditional_branch(B, next_block))
<1> DEFINE cur == B.current_block
           b   == [B.blocks[cur] EXCEPT !.br = "unconditional", !.block_true = next_block]
           C   == WithBlock(B, cur, b)
<1>1. ASSUME cur \in BlockIds(B) PROVE Typed(push_predecessor(C, next_block))
  <2>1. B.blocks[cur] \in bb /\ BlockInBounds(B, B.blocks[cur])
    BY <1>1, FieldType DEF Typed, PointersInBounds
  <2>2. "unconditional" \in block_br BY DEF block_br
  <2>3. b \in bb /\ BlockInBounds(B, b) BY <2>1, <2>2, RetargetTyped
  <2> HIDE DEF b
  <2>4. Extends(B, C) /\ BlockIds(C) = BlockIds(B) BY <1>1, <2>3, WithBlockExtends, Zenon
  <2>5. Typed(C) BY <2>4 DEF Extends
  <2> HIDE DEF C
  <2> QED BY <2>4, <2>5, push_predecessorExtends, Zenon DEF Extends
<1> QED BY <1>1, InOpenBlockTyped, Zenon DEF unconditional_branch

LEMMA branchTyped ==
    ASSUME NEW B, Typed(B), NEW br \in block_br,
           NEW when_true \in BlockIds(B) \cup {NULL}, NEW when_false \in BlockIds(B) \cup {NULL}
    PROVE  Typed(branch(B, br, when_true, when_false))
<1> DEFINE B1 == IF when_true = NULL THEN alloc_block(B) ELSE B
           t  == IF when_true = NULL THEN last_block(B1) ELSE when_true
           B2 == IF when_false = NULL THEN alloc_block(B1) ELSE B1
           f  == IF when_false = NULL THEN last_block(B2) ELSE when_false
           b  == [B.blocks[B.current_block] EXCEPT !.br = br, !.block_true = t,
                                                   !.block_false = f]
           C  == WithBlock(B2, B.current_block, b)
           B3 == Then(B2, C)
           B4 == Then(B3, push_predecessor(B3, t))
<1>1. Extends(B, B1) /\ (B1.fault = NoFault => t \in BlockIds(B1))
  <2>1. CASE when_true = NULL
    BY <2>1, AllocBlockExtends, Zenon
  <2>2. CASE when_true # NULL
    BY <2>2, ExtendsItself, Zenon
  <2> QED BY <2>1, <2>2
<1> HIDE DEF B1, t
<1>2. Typed(B1) BY <1>1 DEF Extends
<1>3. /\ Extends(B1, B2)
      /\ B2.fault = NoFault => f \in BlockIds(B2)
  <2>1. CASE when_false = NULL
    BY <1>2, <2>1, AllocBlockExtends, Zenon
  <2>2. CASE when_false # NULL
    <3>1. BlockIds(B) \subseteq BlockIds(B1) BY <1>1, BlockIdsGrow, Zenon
    <3> QED BY <1>2, <2>2, <3>1, ExtendsItself, Zenon
  <2> QED BY <2>1, <2>2
<1> HIDE DEF B2, f
<1>4. /\ Extends(B, B2) /\ Typed(B2)
      /\ B2.fault = NoFault => t \in BlockIds(B2) /\ f \in BlockIds(B2)
  <2>1. Typed(B2) /\ (B2.fault = NoFault => B1.fault = NoFault) BY <1>3 DEF Extends
  <2>2. BlockIds(B1) \subseteq BlockIds(B2) BY <1>2, <1>3, BlockIdsGrow, Zenon
  <2>3. Extends(B, B2) BY <1>1, <1>3, ExtendsTransitive, Zenon
  <2> QED BY <1>1, <1>3, <2>1, <2>2, <2>3, Zenon
<1>5. ASSUME B.current_block \in BlockIds(B)
      PROVE  Typed(Then(B4, push_predecessor(B4, f)))
  <2>1. Extends(B2, B3)
    <3>1. ASSUME B2.fault = NoFault PROVE Extends(B2, C)
      <4>1. B.blocks[B.current_block] \in bb /\ BlockInBounds(B, B.blocks[B.current_block])
        BY <1>5, FieldType DEF Typed, PointersInBounds
      <4>2. B.current_block \in BlockIds(B2) /\ BlockInBounds(B2, B.blocks[B.current_block])
        BY <1>4, <1>5, <4>1, BlockIdsGrow, Zenon
      <4>3. t \in BlockIds(B2) /\ f \in BlockIds(B2) BY <1>4, <3>1, Zenon
      <4>4. b \in bb /\ BlockInBounds(B2, b) BY <1>4, <4>1, <4>2, <4>3, RetargetTyped
      <4> HIDE DEF b
      <4> QED BY <1>4, <4>2, <4>4, WithBlockExtends, Zenon
    <3> HIDE DEF C
    <3> QED BY <1>4, <3>1, ExtendsThen, Zenon
  <2> HIDE DEF B3
  <2>2. Typed(B3) /\ (B3.fault = NoFault => B2.fault = NoFault) BY <2>1 DEF Extends
  <2>3. BlockIds(B2) \subseteq BlockIds(B3) BY <1>4, <2>1, BlockIdsGrow, Zenon
  <2>4. Extends(B3, B4)
    BY <1>4, <2>2, <2>3, push_predecessorExtends, ExtendsThen, Zenon
  <2> HIDE DEF B4
  <2>5. Typed(B4) /\ (B4.fault = NoFault => B3.fault = NoFault) BY <2>4 DEF Extends
  <2>6. BlockIds(B3) \subseteq BlockIds(B4) BY <2>2, <2>4, BlockIdsGrow, Zenon
  <2>7. Extends(B4, Then(B4, push_predecessor(B4, f)))
    BY <1>4, <2>2, <2>3, <2>5, <2>6, push_predecessorExtends, ExtendsThen, Zenon
  <2> QED BY <2>7 DEF Extends
<1>6. Typed(InOpenBlock(B, Then(B4, push_predecessor(B4, f))))
  BY <1>5, InOpenBlockTyped, Zenon
<1> QED BY <1>6 DEF branch, B1, t, B2, f, b, C, B3, B4

LEMMA add_final_valueTyped ==
    ASSUME NEW B, Typed(B), B.current_block \in BlockIds(B), NEW sym \in Symbols, NEW value \in Nat
    PROVE  Typed(add_final_value(B, sym, value))
<1> DEFINE cur == B.blocks[B.current_block]
           b   == [cur EXCEPT !.final_values[sym] = value]
<1>1. cur \in bb /\ BlockInBounds(B, cur) BY FieldType DEF Typed, PointersInBounds
<1> HIDE DEF cur
<1>2. /\ b \in bb /\ b.head = cur.head /\ b.next = cur.next
      /\ b.block_true = cur.block_true /\ b.block_false = cur.block_false
  BY <1>1 DEF bb
<1> HIDE DEF b
<1>3. BlockInBounds(B, b) BY <1>1, <1>2, Zenon DEF BlockInBounds
<1>4. Typed(WithBlock(B, B.current_block, b)) BY <1>2, <1>3, WithBlockTyped, Zenon
<1>5. "Attempt to add duplicate key" \in failure BY DEF failure
<1> QED BY <1>4, <1>5, CheckedTyped, Zenon DEF add_final_value, cur, b

-----------------------------------------------------------------------------
Exact(B) == Typed(B) /\ BlocksOwnTheirRange(B) /\ OneOpenBlock(B)

SameButPredecessors(b, c) ==
    /\ c.scope = b.scope /\ c.final_values = b.final_values
    /\ c.head = b.head /\ c.next = b.next /\ c.br = b.br
    /\ c.block_true = b.block_true /\ c.block_false = b.block_false

Frozen(B, C) ==
    \A b \in BlockIds(B) : Ended(B.blocks[b]) =>
        b \in BlockIds(C) /\ SameButPredecessors(B.blocks[b], C.blocks[b])

\* From an exact builder, an update that is sound leaves an exact one.
Sound(B, C) == Exact(C) /\ Frozen(B, C)

-----------------------------------------------------------------------------
(***************************************************************************)
(* Composing sound updates.                                                *)
(***************************************************************************)
LEMMA FrozenItself == \A B : Frozen(B, B)
BY Zenon DEF Frozen, SameButPredecessors

LEMMA SoundTransitive ==
    ASSUME NEW B, NEW C, Sound(B, C), NEW D, Sound(C, D)
    PROVE  Sound(B, D)
<1> SUFFICES ASSUME NEW b \in BlockIds(B), Ended(B.blocks[b])
             PROVE  b \in BlockIds(D) /\ SameButPredecessors(B.blocks[b], D.blocks[b])
  BY Zenon DEF Sound, Frozen
<1>1. b \in BlockIds(C) /\ SameButPredecessors(B.blocks[b], C.blocks[b])
  BY Zenon DEF Sound, Frozen
<1>2. Ended(C.blocks[b]) BY <1>1, Zenon DEF Ended, SameButPredecessors
<1>3. b \in BlockIds(D) /\ SameButPredecessors(C.blocks[b], D.blocks[b])
  BY <1>1, <1>2, Zenon DEF Sound, Frozen
<1> QED BY <1>1, <1>3, Zenon DEF SameButPredecessors

\* The same blocks, the same instructions and the same current block
LEMMA SameSound ==
    ASSUME NEW B, Exact(B), NEW C, Typed(C), SameBlocks(B, C), C.ssas = B.ssas,
           C.current_block = B.current_block
    PROVE  Sound(B, C)
<1> DEFINE SameRange(b) == EndOf(C, b) = EndOf(B, b)
<1>3. /\ C.blocks = B.blocks /\ BlockIds(C) = BlockIds(B) /\ SsaIds(C) = SsaIds(B)
      /\ \A b : SameRange(b)
  BY Zenon DEF SameBlocks, BlockIds, SsaIds, EndOf
<1>1. BlocksOwnTheirRange(C) /\ OneOpenBlock(C)
  BY <1>3 DEF Exact, BlocksOwnTheirRange, OneOpenBlock
<1>2. Frozen(B, C) BY Zenon DEF Frozen, SameButPredecessors, SameBlocks, BlockIds
<1> QED BY <1>1, <1>2, Zenon DEF Sound, Exact

LEMMA SoundItself ==
    ASSUME NEW B, Exact(B)
    PROVE  Sound(B, B)
BY FrozenItself, Zenon DEF Sound

LEMMA SoundChecked ==
    ASSUME NEW B, Exact(B), NEW ok, NEW why \in failure, NEW next, ok => Sound(B, next)
    PROVE  Sound(B, Checked(B, ok, why, next))
<1> DEFINE C == [B EXCEPT !.fault = why]
<1>1. B \in builder /\ Typed(B) /\ C = [B EXCEPT !.fault = why] BY DEF Exact, Typed
<1> HIDE DEF C
<1>2. SameBlocks(B, C) /\ SameSsas(B, C) /\ SameMode(B, C) BY <1>1, SetFault, Zenon
<1>3. Typed(C) BY <1>1, FailTyped, Zenon
<1>4. Sound(B, C) BY <1>2, <1>3, SameSound, Zenon DEF SameSsas, SameMode
<1> QED BY <1>1, <1>4, SoundItself, Zenon DEF Checked, Then

LEMMA SoundThen ==
    ASSUME NEW B, Exact(B), NEW next, B.fault = NoFault => Sound(B, next)
    PROVE  Sound(B, Then(B, next))
BY SoundItself, Zenon DEF Then

-----------------------------------------------------------------------------
(***************************************************************************)
(* The elementary updates.                                                 *)
(***************************************************************************)

\* A block rewritten outside its range: if it has ended, outside all but its
\* predecessors.
LEMMA WithBlockSound ==
    ASSUME NEW B, Exact(B), NEW b \in BlockIds(B), NEW c \in bb, BlockInBounds(B, c),
           c.head = B.blocks[b].head, c.next = B.blocks[b].next,
           Ended(B.blocks[b]) => SameButPredecessors(B.blocks[b], c)
    PROVE  Sound(B, WithBlock(B, b, c))
<1> DEFINE C == WithBlock(B, b, c)
<1>1. B \in builder /\ Typed(B) /\ C = WithBlock(B, b, c) BY DEF Exact, Typed
<1> HIDE DEF C
<1>2. /\ SameSsas(B, C) /\ SameMode(B, C)
      /\ Len(C.blocks) = Len(B.blocks) /\ C.blocks[b] = c
      /\ \A d \in BlockIds(B) : d # b => C.blocks[d] = B.blocks[d]
  BY <1>1, SetBlock
<1>3. Typed(C) BY <1>1, WithBlockTyped, Zenon
<1>4. BlockIds(C) = BlockIds(B) /\ C.ssas = B.ssas /\ SsaIds(C) = SsaIds(B)
      /\ C.current_block = B.current_block
  BY <1>2, Zenon DEF BlockIds, SsaIds, SameSsas, SameMode
<1>5. \A d \in BlockIds(B) : /\ C.blocks[d].head = B.blocks[d].head
                             /\ C.blocks[d].next = B.blocks[d].next
                             /\ Ended(B.blocks[d]) => C.blocks[d].br = B.blocks[d].br
  BY <1>2, Zenon DEF SameButPredecessors
<1>6. \A d \in BlockIds(B) : /\ Started(C.blocks[d]) <=> Started(B.blocks[d])
                             /\ Ended(C.blocks[d]) <=> Ended(B.blocks[d])
                             /\ EndOf(C, d) = EndOf(B, d)
  BY <1>4, <1>5, Zenon DEF Started, Ended, EndOf
<1>7. BlocksOwnTheirRange(C)
  BY <1>4, <1>5, <1>6 DEF BlocksOwnTheirRange, Exact
<1>8. OneOpenBlock(C)
  BY <1>4, <1>5, <1>6, Zenon DEF OneOpenBlock, Exact
<1>9. Frozen(B, C)
  BY <1>2, <1>4, Zenon DEF Frozen, SameButPredecessors
<1> QED BY <1>1, <1>3, <1>7, <1>8, <1>9, Zenon DEF Sound, Exact

\* A new block is not started, and no instruction names it yet.
LEMMA AppendedBlockSound ==
    ASSUME NEW B, Exact(B), NEW C, Typed(C), SameSsas(B, C), SameMode(B, C),
           Len(C.blocks) = Len(B.blocks) + 1, C.blocks[Len(B.blocks) + 1] = FreshBlock,
           \A b \in BlockIds(B) : C.blocks[b] = B.blocks[b]
    PROVE  Sound(B, C)
<1> DEFINE n == Len(B.blocks) + 1
<1>1. /\ Typed(B) /\ Len(B.blocks) \in Nat /\ Len(B.ssas) \in Nat
      /\ B.current_block \in 0..Len(B.blocks)
      /\ \A s \in SsaIds(B) : B.ssas[s].block \in 0..Len(B.blocks)
  BY LengthType DEF Exact, Typed, PointersInBounds
<1>2. /\ Typed(C) /\ SameSsas(B, C) /\ SameMode(B, C) /\ Len(C.blocks) = n
      /\ C.blocks[n] = FreshBlock
      /\ \A b \in BlockIds(B) : C.blocks[b] = B.blocks[b]
  OBVIOUS
<1>3. BlockIds(C) = BlockIds(B) \cup {n} /\ n \notin BlockIds(B) /\ n # B.current_block
  BY <1>1, <1>2 DEF BlockIds
<1>4. SsaIds(C) = SsaIds(B) /\ C.ssas = B.ssas /\ C.current_block = B.current_block
  BY <1>2, Zenon DEF SsaIds, SameSsas, SameMode
<1>5. \A s \in SsaIds(C) : C.ssas[s].block # n
  BY <1>1, <1>4
<1>6. ~ Started(C.blocks[n]) /\ ~ Ended(C.blocks[n])
  BY <1>2 DEF FreshBlock, Started, Ended, NULL
<1> HIDE DEF n
<1>7. \A b \in BlockIds(B) : EndOf(C, b) = EndOf(B, b)
  BY <1>2, <1>4 DEF EndOf
<1>8. BlocksOwnTheirRange(C)
  BY <1>2, <1>3, <1>4, <1>5, <1>6, <1>7 DEF BlocksOwnTheirRange, Exact
<1>9. OneOpenBlock(C)
  BY <1>2, <1>3, <1>4, <1>6, Zenon DEF OneOpenBlock, Exact
<1>10. Frozen(B, C)
  BY <1>2, <1>3, Zenon DEF Frozen, SameButPredecessors
<1> QED BY <1>2, <1>8, <1>9, <1>10, Zenon DEF Sound, Exact

\* A new instruction belongs to the current block, whose range it extends; if
\* there is none it belongs to no block, and every started block has ended.
LEMMA AppendedSsaSound ==
    ASSUME NEW B, Exact(B), NEW s \in ssa, s.block = B.current_block,
           NEW C, Typed(C), SameBlocks(B, C), SameMode(B, C),
           Len(C.ssas) = Len(B.ssas) + 1, C.ssas[Len(B.ssas) + 1] = s,
           \A t \in SsaIds(B) : C.ssas[t] = B.ssas[t]
    PROVE  Sound(B, C)
<1> DEFINE n == Len(B.ssas) + 1
<1>1. /\ Typed(B) /\ Len(B.ssas) \in Nat /\ B.current_block \in 0..Len(B.blocks)
  BY LengthType DEF Exact, Typed, PointersInBounds
<1>2. /\ Typed(C) /\ SameBlocks(B, C) /\ SameMode(B, C)
      /\ Len(C.ssas) = n /\ C.ssas[n] = s
      /\ \A t \in SsaIds(B) : C.ssas[t] = B.ssas[t]
  OBVIOUS
<1>3. SsaIds(C) = SsaIds(B) \cup {n} /\ n \notin SsaIds(B) BY <1>1, <1>2 DEF SsaIds
<1>4. BlockIds(C) = BlockIds(B) /\ C.blocks = B.blocks /\ C.current_block = B.current_block
  BY <1>2, Zenon DEF BlockIds, SameBlocks, SameMode
<1>5. OneOpenBlock(C) BY <1>4, Zenon DEF OneOpenBlock, Exact
<1>6. Frozen(B, C) BY <1>4, Zenon DEF Frozen, SameButPredecessors
<1>7. \A b \in BlockIds(B) : /\ B.blocks[b].head \in Nat /\ B.blocks[b].next \in Nat
                             /\ B.blocks[b].head <= n /\ B.blocks[b].next < n
  BY <1>1, SMTT(30) DEF Typed, PointersInBounds, BlockInBounds
<1>8. ASSUME NEW b \in BlockIds(C), Started(C.blocks[b]), NEW t \in SsaIds(C)
      PROVE  (t \in C.blocks[b].head..EndOf(C, b)) <=> (C.ssas[t].block = b)
  <2>1. b \in BlockIds(B) /\ Started(B.blocks[b]) BY <1>4, <1>8, Zenon
  <2>2. \A u \in SsaIds(B) :
           (u \in B.blocks[b].head..EndOf(B, b)) <=> (B.ssas[u].block = b)
    BY <2>1, Zenon DEF BlocksOwnTheirRange, Exact
  <2>3. CASE b = B.current_block
    <3>1. ~ Ended(B.blocks[b]) BY <2>1, <2>3, Zenon DEF OneOpenBlock, Exact
    <3>2. EndOf(B, b) = Len(B.ssas) /\ EndOf(C, b) = n
      BY <1>2, <1>4, <3>1 DEF EndOf
    <3>3. CASE t = n
      BY <1>1, <1>2, <1>4, <1>7, <2>1, <2>3, <3>2, <3>3
    <3>4. CASE t \in SsaIds(B)
      <4>1. t <= Len(B.ssas) /\ t \in Nat BY <1>1, <3>4 DEF SsaIds
      <4>2. (t \in C.blocks[b].head..EndOf(C, b)) <=> (t \in B.blocks[b].head..EndOf(B, b))
        BY <1>1, <1>4, <1>7, <2>1, <3>2, <4>1
      <4> QED BY <1>2, <2>2, <3>4, <4>2
    <3> QED BY <1>3, <3>3, <3>4
  <2>4. CASE b # B.current_block
    <3>1. Ended(B.blocks[b]) BY <2>1, <2>4, Zenon DEF OneOpenBlock, Exact
    <3>2. EndOf(B, b) = B.blocks[b].next /\ EndOf(C, b) = B.blocks[b].next
      BY <1>4, <3>1, Zenon DEF EndOf
    <3>3. CASE t = n
      BY <1>1, <1>2, <1>4, <1>7, <2>1, <2>4, <3>2, <3>3
    <3>4. CASE t \in SsaIds(B)
      BY <1>2, <1>4, <2>2, <3>2, <3>4, Zenon
    <3> QED BY <1>3, <3>3, <3>4
  <2> QED BY <2>3, <2>4
<1>9. ASSUME NEW b \in BlockIds(C), NEW t \in SsaIds(C), ~ Started(C.blocks[b])
      PROVE  C.ssas[t].block # b
  <2>1. b \in BlockIds(B) /\ ~ Started(B.blocks[b]) BY <1>4, <1>9, Zenon
  <2>2. b # B.current_block BY <2>1, Zenon DEF OneOpenBlock, Exact
  <2>3. \A u \in SsaIds(B) : B.ssas[u].block # b
    BY <2>1, Zenon DEF BlocksOwnTheirRange, Exact
  <2> QED BY <1>2, <1>3, <2>2, <2>3, Zenon
<1>10. BlocksOwnTheirRange(C) BY <1>8, <1>9, Zenon DEF BlocksOwnTheirRange
<1> QED BY <1>2, <1>5, <1>6, <1>10, Zenon DEF Sound, Exact

\* Opening a block that was not started, while no block is open: its range is
\* empty and starts after every instruction.
LEMMA OpenedSound ==
    ASSUME NEW B, Exact(B), B.current_block = NULL,
           NEW b \in BlockIds(B), ~ Started(B.blocks[b]),
           NEW C, Typed(C), SameSsas(B, C), C.current_block = b,
           Len(C.blocks) = Len(B.blocks),
           C.blocks[b].head = Len(B.ssas) + 1, C.blocks[b].next = B.blocks[b].next,
           \A d \in BlockIds(B) : d # b => C.blocks[d] = B.blocks[d]
    PROVE  Sound(B, C)
<1>1. Len(B.ssas) \in Nat BY LengthType DEF Exact, Typed
<1>2. /\ BlockIds(C) = BlockIds(B) /\ SsaIds(C) = SsaIds(B) /\ C.ssas = B.ssas
  BY Zenon DEF BlockIds, SsaIds, SameSsas
<1>3. \A d \in BlockIds(B) : Started(B.blocks[d]) => Ended(B.blocks[d])
  BY <1>2, LengthType DEF Exact, Typed, OneOpenBlock, BlockIds, NULL
<1>4. ~ Ended(B.blocks[b]) BY Zenon DEF Exact, OneOpenBlock
<1>5. Started(C.blocks[b]) /\ ~ Ended(C.blocks[b])
  BY <1>1, <1>4 DEF Started, Ended, NULL
<1>6. /\ EndOf(C, b) = Len(B.ssas)
      /\ \A d \in BlockIds(B) : d # b => EndOf(C, d) = EndOf(B, d)
  BY <1>2, <1>5, Zenon DEF EndOf
<1>7. \A s \in SsaIds(B) : B.ssas[s].block # b
  BY Zenon DEF Exact, BlocksOwnTheirRange
<1>8. \A s \in SsaIds(C) : s \notin C.blocks[b].head..EndOf(C, b)
  BY <1>1, <1>6
<1>9. BlocksOwnTheirRange(C)
  BY <1>2, <1>5, <1>6, <1>7, <1>8, SMTT(30) DEF BlocksOwnTheirRange, Exact
<1>10. OneOpenBlock(C)
  BY <1>2, <1>3, <1>4, <1>5, Zenon DEF OneOpenBlock, Exact
<1>11. Frozen(B, C)
  BY <1>2, <1>4, Zenon DEF Frozen, SameButPredecessors
<1> QED BY <1>9, <1>10, <1>11, Zenon DEF Sound, Exact

\* Closing the current block, which is not empty, after the last instruction
LEMMA ClosedSound ==
    ASSUME NEW B, Exact(B), NEW b \in BlockIds(B), b = B.current_block, is_not_empty(B),
           NEW C, Typed(C), SameSsas(B, C), C.current_block = NULL,
           Len(C.blocks) = Len(B.blocks), C.blocks[b].head = B.blocks[b].head,
           C.blocks[b].next = Len(B.ssas), C.blocks[b].br # "UNUSED",
           \A d \in BlockIds(B) : d # b => C.blocks[d] = B.blocks[d]
    PROVE  Sound(B, C)
<1>1. /\ Len(B.ssas) \in Nat /\ B.blocks[b].head \in Nat
      /\ B.blocks[b].head <= Len(B.ssas)
  BY LengthType DEF Exact, Typed, PointersInBounds, BlockInBounds, is_not_empty
<1>2. /\ BlockIds(C) = BlockIds(B) /\ SsaIds(C) = SsaIds(B) /\ C.ssas = B.ssas
  BY Zenon DEF BlockIds, SsaIds, SameSsas
<1>3. Started(B.blocks[b]) /\ ~ Ended(B.blocks[b]) BY Zenon DEF Exact, OneOpenBlock
<1>4. Started(C.blocks[b]) /\ Ended(C.blocks[b])
  BY <1>1, <1>3 DEF Started, Ended, NULL
<1>5. \A d \in BlockIds(B) : EndOf(C, d) = EndOf(B, d)
  BY <1>2, <1>3, <1>4, Zenon DEF EndOf
<1>6. \A d \in BlockIds(B) : /\ C.blocks[d].head = B.blocks[d].head
                             /\ Started(C.blocks[d]) <=> Started(B.blocks[d])
  BY <1>3, <1>4, Zenon
<1>7. BlocksOwnTheirRange(C)
  BY <1>2, <1>5, <1>6 DEF BlocksOwnTheirRange, Exact
<1>8. \A d \in BlockIds(C) : d # NULL BY LengthType DEF Exact, Typed, BlockIds, NULL
<1>9. OneOpenBlock(C)
  <2>1. ASSUME NEW d \in BlockIds(C), d # b
        PROVE  /\ ~ (Started(C.blocks[d]) /\ ~ Ended(C.blocks[d]))
               /\ Ended(C.blocks[d]) => /\ Started(C.blocks[d])
                                        /\ C.blocks[d].head <= C.blocks[d].next
                                        /\ C.blocks[d].br # "UNUSED"
    BY <1>2, <2>1, Zenon DEF OneOpenBlock, Exact
  <2>2. C.blocks[b].head <= C.blocks[b].next BY <1>1
  <2> QED BY <1>2, <1>4, <1>8, <2>1, <2>2, Zenon DEF OneOpenBlock
<1>10. Frozen(B, C)
  BY <1>2, <1>3, Zenon DEF Frozen, SameButPredecessors
<1> QED BY <1>7, <1>9, <1>10, Zenon DEF Sound, Exact

-----------------------------------------------------------------------------
(***************************************************************************)
(* The member functions.                                                   *)
(***************************************************************************)
LEMMA alloc_blockSound ==
    ASSUME NEW B, Exact(B)
    PROVE  Sound(B, alloc_block(B))
<1> DEFINE C == [B EXCEPT !.blocks = Append(@, FreshBlock)]
<1>1. Typed(B) /\ C = [B EXCEPT !.blocks = Append(@, FreshBlock)] BY DEF Exact
<1> HIDE DEF C
<1>2. /\ Typed(C) /\ SameSsas(B, C) /\ SameMode(B, C)
      /\ Len(C.blocks) = Len(B.blocks) + 1 /\ C.blocks[Len(B.blocks) + 1] = FreshBlock
      /\ \A b \in BlockIds(B) : C.blocks[b] = B.blocks[b]
  BY <1>1, AppendedBlock, Zenon
<1>3. Sound(B, C) BY <1>2, AppendedBlockSound, Zenon
<1>4. "Arena reached max capacity" \in failure BY DEF failure
<1> QED BY <1>1, <1>3, <1>4, SoundChecked, Zenon DEF alloc_block

SsaAppended(B, s, C) ==
    /\ Typed(C) /\ SameBlocks(B, C) /\ SameMode(B, C)
    /\ Len(C.ssas) = Len(B.ssas) + 1 /\ C.ssas[Len(B.ssas) + 1] = s
    /\ \A t \in SsaIds(B) : C.ssas[t] = B.ssas[t]

LEMMA AppendingSsa ==
    ASSUME NEW B, Typed(B), NEW s \in ssa, s.block \in 0..Len(B.blocks),
           NEW C, C = [B EXCEPT !.ssas = Append(@, s)]
    PROVE  SsaAppended(B, s, C)
<1>1. Typed(C) BY AppendedSsa
<1>2. SameBlocks(B, C) /\ SameMode(B, C) BY AppendedSsa
<1>3. Len(C.ssas) = Len(B.ssas) + 1 /\ C.ssas[Len(B.ssas) + 1] = s BY AppendedSsa
<1>4. ASSUME NEW t \in SsaIds(B) PROVE C.ssas[t] = B.ssas[t]
  <2>1. B.ssas \in Seq(ssa) /\ C.ssas = Append(B.ssas, s) BY DEF Typed, builder
  <2>2. t \in 1..Len(B.ssas) BY DEF SsaIds
  <2>3. Append(B.ssas, s)[t] = B.ssas[t] BY <2>1, <2>2
  <2> QED BY <2>1, <2>3, Zenon
<1> QED BY <1>1, <1>2, <1>3, <1>4, Zenon DEF SsaAppended

LEMMA alloc_ssaSound ==
    ASSUME NEW B, Exact(B), NEW s \in ssa, s.block = B.current_block
    PROVE  Sound(B, alloc_ssa(B, s))
<1> DEFINE C == [B EXCEPT !.ssas = Append(@, s)]
<1>1. Typed(B) /\ C = [B EXCEPT !.ssas = Append(@, s)] BY DEF Exact
<1>2. s.block \in 0..Len(B.blocks) BY <1>1 DEF Typed, PointersInBounds
<1> HIDE DEF C
<1>3. SsaAppended(B, s, C) BY <1>1, <1>2, AppendingSsa, Zenon
<1>4. Sound(B, C) BY <1>3, AppendedSsaSound, Zenon DEF SsaAppended
<1>5. "Arena reached max capacity" \in failure BY DEF failure
<1> QED BY <1>1, <1>4, <1>5, SoundChecked, Zenon DEF alloc_ssa

\* A block rewritten and another made current
BlockMoved(B, b, c, n, C) ==
    /\ Typed(C) /\ SameSsas(B, C) /\ C.current_block = n
    /\ Len(C.blocks) = Len(B.blocks) /\ C.blocks[b] = c
    /\ \A d \in BlockIds(B) : d # b => C.blocks[d] = B.blocks[d]

LEMMA MovedTo ==
    ASSUME NEW B, Typed(B), NEW b \in BlockIds(B), NEW c \in bb, BlockInBounds(B, c),
           NEW n \in 0..Len(B.blocks), NEW C, C = WithCurrent(WithBlock(B, b, c), n)
    PROVE  BlockMoved(B, b, c, n, C)
<1> DEFINE D == WithBlock(B, b, c)
<1>1. B \in builder /\ n \in Nat /\ D = WithBlock(B, b, c) /\ C = WithCurrent(D, n)
  BY LengthType DEF Typed
<1> HIDE DEF D
<1>2. /\ SameSsas(B, D) /\ Len(D.blocks) = Len(B.blocks) /\ D.blocks[b] = c
      /\ \A d \in BlockIds(B) : d # b => D.blocks[d] = B.blocks[d]
  BY <1>1, SetBlock
<1>3. Typed(D) BY <1>1, WithBlockTyped, Zenon
<1>4. n \in 0..Len(D.blocks) BY <1>2, Zenon
<1>5. Typed(C) BY <1>1, <1>3, <1>4, WithCurrentTyped, Zenon
<1>6. C.current_block = n /\ SameBlocks(D, C) /\ SameSsas(D, C)
  <2>1. D \in builder BY <1>3 DEF Typed
  <2> QED BY <1>1, <2>1, SetCurrent, Zenon
<1> QED BY <1>2, <1>5, <1>6, Zenon DEF BlockMoved, SameBlocks, SameSsas

\* The current block, where there is one, is open.
LEMMA CurrentIsOpen ==
    ASSUME NEW B, Exact(B)
    PROVE  /\ B.current_block # NULL => B.current_block \in BlockIds(B)
           /\ B.current_block \in BlockIds(B) =>
                 /\ Started(B.blocks[B.current_block])
                 /\ ~ Ended(B.blocks[B.current_block])
                 /\ B.blocks[B.current_block] \in bb
                 /\ BlockInBounds(B, B.blocks[B.current_block])
<1>1. B.current_block # NULL => B.current_block \in BlockIds(B)
  BY LengthType DEF Exact, Typed, PointersInBounds, BlockIds, NULL
<1> QED BY <1>1, FieldType, Zenon DEF Exact, Typed, OneOpenBlock, PointersInBounds

LEMMA InBlockSound ==
    ASSUME NEW B, Exact(B), NEW next, B.current_block \in BlockIds(B) => Sound(B, next)
    PROVE  Sound(B, InBlock(B, next))
<1>1. "current_block != NULL" \in failure BY DEF failure
<1> QED BY <1>1, CurrentIsOpen, SoundChecked, Zenon DEF InBlock

LEMMA InOpenBlockSound ==
    ASSUME NEW B, Exact(B), NEW next, B.current_block \in BlockIds(B) => Sound(B, next)
    PROVE  Sound(B, InOpenBlock(B, next))
<1>1. "current_block->br == block_br::UNUSED" \in failure BY DEF failure
<1> QED BY <1>1, SoundChecked, InBlockSound, Zenon DEF InOpenBlock

LEMMA start_blockSound ==
    ASSUME NEW B, Exact(B), NEW block \in BlockIds(B), ~ Started(B.blocks[block]),
           NEW scope \in Nat
    PROVE  Sound(B, start_block(B, block, scope))
<1> DEFINE b == [B.blocks[block] EXCEPT !.br = "UNUSED", !.head = Len(B.ssas) + 1,
                                        !.scope = scope]
           C == WithCurrent(WithBlock(B, block, b), block)
<1>1. /\ Typed(B) /\ B.blocks[block] \in bb /\ BlockInBounds(B, B.blocks[block])
      /\ Len(B.ssas) \in Nat /\ block \in 0..Len(B.blocks)
  BY FieldType, LengthType DEF Exact, Typed, PointersInBounds, BlockIds
<1>2. "UNUSED" \in block_br BY DEF block_br
<1>3. /\ b \in bb /\ b.head = Len(B.ssas) + 1 /\ b.next = B.blocks[block].next
      /\ b.block_true = B.blocks[block].block_true
      /\ b.block_false = B.blocks[block].block_false
  <2>1. B.blocks[block] \in bb /\ Len(B.ssas) + 1 \in Nat BY <1>1
  <2> QED BY <2>1, <1>2, Zenon DEF bb
<1>4. C = WithCurrent(WithBlock(B, block, b), block) OBVIOUS
<1> HIDE DEF b, C
<1>5. BlockInBounds(B, b) BY <1>1, <1>3 DEF BlockInBounds
<1>6. BlockMoved(B, block, b, block, C) BY <1>1, <1>3, <1>4, <1>5, MovedTo, Zenon
<1>7. ASSUME B.current_block = NULL PROVE Sound(B, C)
  BY <1>3, <1>6, <1>7, OpenedSound, Zenon DEF BlockMoved
<1>8. "block != NULL" \in failure /\ "current_block == NULL" \in failure BY DEF failure
<1> QED BY <1>4, <1>7, <1>8, SoundChecked, Zenon DEF start_block, b

\* Both ways to end a block write next and leave it with a branch.
LEMMA ClosingSound ==
    ASSUME NEW B, Exact(B), B.current_block \in BlockIds(B), is_not_empty(B),
           NEW b \in bb, BlockInBounds(B, b),
           b.head = B.blocks[B.current_block].head, b.next = Len(B.ssas), b.br # "UNUSED"
    PROVE  Sound(B, Closing(B, b))
<1> DEFINE C == WithCurrent(WithBlock(B, B.current_block, b), NULL)
<1>1. Typed(B) /\ NULL \in 0..Len(B.blocks) BY LengthType DEF Exact, Typed, NULL
<1>2. C = WithCurrent(WithBlock(B, B.current_block, b), NULL) OBVIOUS
<1> HIDE DEF C
<1>3. BlockMoved(B, B.current_block, b, NULL, C) BY <1>1, <1>2, MovedTo, Zenon
<1>4. Sound(B, C) BY <1>3, ClosedSound, Zenon DEF BlockMoved
<1> QED BY <1>2, <1>4, Zenon DEF Closing

LEMMA end_blockSound ==
    ASSUME NEW B, Exact(B)
    PROVE  Sound(B, end_block(B))
<1> DEFINE cur == B.blocks[B.current_block]
           b   == [cur EXCEPT !.next = last_ssa(B)]
<1>1. ASSUME B.current_block \in BlockIds(B), is_not_empty(B), cur.br # "UNUSED"
      PROVE  Sound(B, Closing(B, b))
  <2>1. cur \in bb /\ BlockInBounds(B, cur) /\ Len(B.ssas) \in Nat
    BY <1>1, CurrentIsOpen, LengthType DEF Exact, Typed
  <2>2. /\ b \in bb /\ b.head = cur.head /\ b.next = Len(B.ssas) /\ b.br = cur.br
        /\ b.block_true = cur.block_true /\ b.block_false = cur.block_false
    BY <2>1 DEF bb, last_ssa
  <2> HIDE DEF b
  <2>3. BlockInBounds(B, b) BY <2>1, <2>2 DEF BlockInBounds
  <2> QED BY <1>1, <2>2, <2>3, ClosingSound, Zenon
<1> HIDE DEF b
<1>2. /\ "is_not_empty" \in failure
      /\ "current_block->br != block_br::UNUSED" \in failure
  BY DEF failure
<1>3. ASSUME B.current_block \in BlockIds(B), is_not_empty(B)
      PROVE  Sound(B, Checked(B, cur.br # "UNUSED", "current_block->br != block_br::UNUSED",
                              Closing(B, b)))
  BY <1>1, <1>2, <1>3, SoundChecked, Zenon
<1> QED BY <1>2, <1>3, SoundChecked, InBlockSound, Zenon DEF end_block, b

LEMMA end_block_toSound ==
    ASSUME NEW B, Exact(B), NEW next \in BlockIds(B)
    PROVE  Sound(B, end_block_to(B, next))
<1> DEFINE cur == B.blocks[B.current_block]
           b   == [cur EXCEPT !.next = last_ssa(B), !.br = "unconditional",
                              !.block_true = next]
<1>1. ASSUME B.current_block \in BlockIds(B), is_not_empty(B)
      PROVE  Sound(B, Closing(B, b))
  <2>1. /\ cur \in bb /\ BlockInBounds(B, cur) /\ Len(B.ssas) \in Nat
        /\ next \in Nat /\ next \in 0..Len(B.blocks)
    BY <1>1, CurrentIsOpen, LengthType DEF Exact, Typed, BlockIds
  <2>2. "unconditional" \in block_br /\ "unconditional" # "UNUSED" BY DEF block_br
  <2>3. /\ b \in bb /\ b.head = cur.head /\ b.next = Len(B.ssas)
        /\ b.br = "unconditional"
        /\ b.block_true = next /\ b.block_false = cur.block_false
    BY <2>1, <2>2 DEF bb, last_ssa
  <2> HIDE DEF b
  <2>4. BlockInBounds(B, b) BY <2>1, <2>3 DEF BlockInBounds
  <2> QED BY <1>1, <2>2, <2>3, <2>4, ClosingSound, Zenon
<1> HIDE DEF b
<1>2. /\ "is_not_empty" \in failure
      /\ "current_block->br == block_br::UNUSED" \in failure
      /\ "block->block_true == NULL" \in failure
      /\ "block->block_false == NULL" \in failure
  BY DEF failure
<1> QED BY <1>1, <1>2, SoundChecked, InBlockSound, Zenon DEF end_block_to, b

\* The phi functions before the last leave blocks and instructions alone.
LEMMA PhiListSound ==
    ASSUME NEW B, Exact(B), NEW s \in Nat
    PROVE  Sound(B, start_phi(B)) /\ Sound(B, push_phi(B, s))
<1> DEFINE Alike(C) == SameBlocks(B, C) /\ C.ssas = B.ssas /\ C.current_block = B.current_block
<1>1. B \in builder /\ Typed(B) BY DEF Exact, Typed
<1>2. /\ Alike(B)
      /\ \A why : Alike([B EXCEPT !.fault = why])
      /\ \A n : Alike([B EXCEPT !.phi_start = n])
      /\ \A list : Alike([B EXCEPT !.phi_lists = list])
  BY <1>1, Zenon DEF builder, SameBlocks
<1> HIDE DEF Alike
<1>3. Alike(start_phi(B)) BY <1>2, Zenon DEF start_phi, Checked, Then
<1>4. Alike(push_phi(B, s)) BY <1>2, Zenon DEF push_phi, Checked, Then
<1>5. Typed(start_phi(B)) /\ Typed(push_phi(B, s))
  BY <1>1, start_phiTyped, push_phiTyped, Zenon
<1> QED BY <1>3, <1>4, <1>5, SameSound, Zenon DEF Alike

LEMMA end_phiSound ==
    ASSUME NEW B, Exact(B)
    PROVE  Sound(B, end_phi(B))
<1> DEFINE size == Len(B.phi_lists) + 1 - B.phi_start
           s    == [op |-> "phi", flags |-> {}, block |-> B.current_block,
                    left |-> B.phi_start, right |-> size]
           B1   == alloc_ssa(B, s)
           C    == [B1 EXCEPT !.phi_start = NULL]
<1>1. ASSUME size > 0 PROVE Sound(B, Then(B1, C))
  <2>1. s \in ssa /\ s.block = B.current_block
    <3>1. size \in Nat BY <1>1, LengthType DEF Exact, Typed, PointersInBounds
    <3> HIDE DEF size
    <3> QED BY <3>1 DEF Exact, Typed, PointersInBounds, builder, ssa, opcode
  <2> HIDE DEF s
  <2>2. Sound(B, B1) BY <2>1, alloc_ssaSound, Zenon
  <2> HIDE DEF B1
  <2>3. Exact(B1) /\ Typed(B1) /\ B1 \in builder BY <2>2 DEF Sound, Exact, Typed
  <2>4. NULL \in Nat /\ NULL \in 0..Len(B1.phi_lists) + 1
    BY <2>3, LengthType DEF NULL
  <2>5. C = [B1 EXCEPT !.phi_start = NULL] OBVIOUS
  <2> HIDE DEF C
  <2>6. /\ C \in builder /\ C.current_block = B1.current_block /\ C.phi_start = NULL
        /\ SameBlocks(B1, C) /\ SameSsas(B1, C)
    BY <2>3, <2>4, <2>5, Zenon DEF builder, SameBlocks, SameSsas
  <2>7. Typed(C) BY <2>3, <2>4, <2>6, SameTyped, Zenon
  <2>8. Sound(B1, C) BY <2>3, <2>6, <2>7, SameSound, Zenon DEF SameSsas
  <2>9. Sound(B, C) BY <2>2, <2>8, SoundTransitive, Zenon
  <2> QED BY <2>2, <2>9, Zenon DEF Then
<1>2. "phi_start != NULL" \in failure /\ "size > 0" \in failure BY DEF failure
<1> HIDE DEF B1, C
<1>3. Sound(B, Checked(B, size > 0, "size > 0", Then(B1, C)))
  BY <1>1, <1>2, SoundChecked, Zenon
<1> QED BY <1>2, <1>3, SoundChecked, Zenon DEF end_phi, B1, C

LEMMA emitSound ==
    ASSUME NEW B, Exact(B), NEW o \in opcode, NEW flags \in SUBSET ssa_prop,
           NEW left \in Nat, NEW right \in Nat
    PROVE  /\ Sound(B, emit(B, o, flags, left, right))
           /\ SameBlocks(B, emit(B, o, flags, left, right))
<1> DEFINE s == [op |-> o, flags |-> flags, block |-> B.current_block,
                 left |-> left, right |-> right]
<1>1. s \in ssa /\ s.block = B.current_block
  BY DEF Exact, Typed, PointersInBounds, builder, ssa
<1> HIDE DEF s
<1>2. Sound(B, alloc_ssa(B, s)) BY <1>1, alloc_ssaSound, Zenon
<1>3. /\ \A why : SameBlocks(B, [B EXCEPT !.fault = why])
      /\ \A ssas : SameBlocks(B, [B EXCEPT !.ssas = ssas])
      /\ SameBlocks(B, B)
  BY Zenon DEF Exact, Typed, builder, SameBlocks
<1>4. SameBlocks(B, alloc_ssa(B, s)) BY <1>3, Zenon DEF alloc_ssa, Checked, Then
<1> HIDE DEF s
<1>5. /\ Sound(B, InOpenBlock(B, alloc_ssa(B, s)))
      /\ SameBlocks(B, InOpenBlock(B, alloc_ssa(B, s)))
  BY <1>2, <1>3, <1>4, InOpenBlockSound, Zenon DEF InOpenBlock, InBlock, Checked, Then
<1> QED BY <1>5 DEF emit, s

LEMMA InstructionsSound ==
    ASSUME NEW B, Exact(B), NEW l \in Nat, NEW r \in Nat
    PROVE  /\ Sound(B, DBG(B)) /\ Sound(B, nop(B)) /\ Sound(B, literal(B, l))
           /\ Sound(B, add(B, l, r)) /\ Sound(B, sub(B, l, r))
<1>1. /\ {"dbg", "nop", "i", "add", "sub"} \subseteq opcode
      /\ {"no_value"} \in SUBSET ssa_prop /\ {"const_val"} \in SUBSET ssa_prop
      /\ {} \in SUBSET ssa_prop /\ NULL \in Nat /\ 0 \in Nat
  BY DEF opcode, ssa_prop, NULL
<1>2. \A o \in {"dbg", "nop", "i", "add", "sub"}, flags \in SUBSET ssa_prop, x, y \in Nat :
         Sound(B, emit(B, o, flags, x, y))
  BY <1>1, emitSound, Zenon
<1> QED BY <1>1, <1>2 DEF DBG, nop, literal, add, sub

\* The open block may be rewritten at will, but for its range.
LEMMA RewrittenSound ==
    ASSUME NEW B, Exact(B), B.current_block \in BlockIds(B), NEW c \in bb, BlockInBounds(B, c),
           c.head = B.blocks[B.current_block].head, c.next = B.blocks[B.current_block].next
    PROVE  Sound(B, WithBlock(B, B.current_block, c))
BY CurrentIsOpen, WithBlockSound, Zenon

LEMMA retSound ==
    ASSUME NEW B, Exact(B), NEW val \in Nat
    PROVE  Sound(B, ret(B, val))
<1> DEFINE B1  == emit(B, "ret", {"no_value"}, val, NULL)
           cur == B.blocks[B.current_block]
           b   == [cur EXCEPT !.br = "unconditional"]
<1>1. "ret" \in opcode /\ {"no_value"} \in SUBSET ssa_prop /\ NULL \in Nat
  BY DEF opcode, ssa_prop, NULL
<1>2. Sound(B, B1) /\ SameBlocks(B, B1) BY <1>1, emitSound, Zenon
<1>3. Typed(B) /\ Extends(B, B1)
  BY <1>1, emitExtends, Zenon DEF Exact
<1>4. ASSUME B1.fault = NoFault PROVE B.current_block \in BlockIds(B)
  BY <1>3, <1>4, InOpenBlockPasses, Zenon DEF emit
<1> HIDE DEF B1
<1>5. ASSUME B1.fault = NoFault PROVE Sound(B1, WithBlock(B1, B.current_block, b))
  <2>1. /\ Exact(B1) /\ B1.current_block = B.current_block
        /\ B1.blocks[B.current_block] = cur /\ B.current_block \in BlockIds(B1)
    BY <1>2, <1>3, <1>4, <1>5, Zenon DEF Sound, Extends, SameBlocks, BlockIds
  <2>2. cur \in bb /\ BlockInBounds(B1, cur) BY <2>1, CurrentIsOpen, Zenon
  <2>3. "unconditional" \in block_br BY DEF block_br
  <2> HIDE DEF cur
  <2>4. /\ b \in bb /\ b.head = cur.head /\ b.next = cur.next
        /\ b.block_true = cur.block_true /\ b.block_false = cur.block_false
    BY <2>2, <2>3, Zenon DEF bb
  <2> HIDE DEF b
  <2>5. BlockInBounds(B1, b) BY <2>2, <2>4, Zenon DEF BlockInBounds
  <2> QED BY <2>1, <2>4, <2>5, RewrittenSound
<1>6. Sound(B, Then(B1, WithBlock(B1, B.current_block, b)))
  BY <1>2, <1>5, SoundTransitive, ZenonT(30) DEF Then
<1> QED BY <1>6, Zenon DEF ret, B1

LEMMA push_predecessorSound ==
    ASSUME NEW B, Exact(B), NEW target \in BlockIds(B)
    PROVE  Sound(B, push_predecessor(B, target))
<1> DEFINE old == B.blocks[target]
           b   == [old EXCEPT !.predecessors = Append(@, B.current_block)]
<1>1. old \in bb /\ BlockInBounds(B, old) /\ B.current_block \in Nat
  BY FieldType DEF Exact, Typed, PointersInBounds
<1>2. old.predecessors \in Seq(Nat) BY <1>1 DEF bb
<1>3. Append(old.predecessors, B.current_block) \in Seq(Nat) BY <1>1, <1>2
<1> HIDE DEF old
<1>4. b \in bb /\ SameButPredecessors(old, b)
  BY <1>1, <1>3, Zenon DEF bb, SameButPredecessors
<1> HIDE DEF b
<1>5. BlockInBounds(B, b) BY <1>1, <1>4, Zenon DEF BlockInBounds, SameButPredecessors
<1>6. Sound(B, WithBlock(B, target, b))
  BY <1>4, <1>5, WithBlockSound, Zenon DEF SameButPredecessors, old
<1>7. "next < max" \in failure BY DEF failure
<1> QED BY <1>6, <1>7, SoundChecked, Zenon DEF push_predecessor, b, old

LEMMA unconditional_branchSound ==
    ASSUME NEW B, Exact(B), NEW next_block \in BlockIds(B)
    PROVE  Sound(B, unconditional_branch(B, next_block))
<1> DEFINE cur == B.current_block
           b   == [B.blocks[cur] EXCEPT !.br = "unconditional", !.block_true = next_block]
           C   == WithBlock(B, cur, b)
<1>1. ASSUME cur \in BlockIds(B) PROVE Sound(B, push_predecessor(C, next_block))
  <2>1. Typed(B) /\ B.blocks[cur] \in bb /\ BlockInBounds(B, B.blocks[cur])
    BY <1>1, CurrentIsOpen, Zenon DEF Exact
  <2>2. "unconditional" \in block_br BY DEF block_br
  <2>3. b \in bb /\ BlockInBounds(B, b) BY <2>1, <2>2, RetargetTyped
  <2>4. b.head = B.blocks[cur].head /\ b.next = B.blocks[cur].next BY <2>1 DEF bb
  <2> HIDE DEF b
  <2>5. Sound(B, C) BY <1>1, <2>3, <2>4, RewrittenSound, Zenon
  <2>6. BlockIds(C) = BlockIds(B) BY <1>1, <2>1, <2>3, WithBlockExtends, Zenon
  <2> HIDE DEF C
  <2>7. Sound(C, push_predecessor(C, next_block))
    BY <2>5, <2>6, push_predecessorSound, Zenon DEF Sound
  <2> QED BY <2>5, <2>7, SoundTransitive, Zenon
<1> QED BY <1>1, InOpenBlockSound, Zenon DEF unconditional_branch

\* alloc_block touches no block that exists.
Keeps(B, C) ==
    /\ Sound(B, C) /\ Extends(B, C)
    /\ \A b \in BlockIds(B) : C.blocks[b] = B.blocks[b]

LEMMA alloc_blockKeeps ==
    ASSUME NEW B, Exact(B)
    PROVE  Keeps(B, alloc_block(B))
<1> DEFINE C == [B EXCEPT !.blocks = Append(@, FreshBlock)]
           D == [B EXCEPT !.fault = "Arena reached max capacity"]
<1>1. B \in builder /\ Typed(B) /\ "Arena reached max capacity" \in failure
  BY DEF Exact, Typed, failure
<1>2. \A b \in BlockIds(B) : C.blocks[b] = B.blocks[b]
  <2>1. C = [B EXCEPT !.blocks = Append(@, FreshBlock)] OBVIOUS
  <2> HIDE DEF C
  <2> QED BY <1>1, <2>1, AppendedBlock, Zenon
<1>3. \A b \in BlockIds(B) : D.blocks[b] = B.blocks[b]
  BY <1>1, SetFault, Zenon DEF SameBlocks
<1> HIDE DEF C, D
<1>4. \A b \in BlockIds(B) : alloc_block(B).blocks[b] = B.blocks[b]
  BY <1>2, <1>3, Zenon DEF alloc_block, Checked, Then, C, D
<1>5. Sound(B, alloc_block(B)) BY alloc_blockSound, Zenon
<1>6. Extends(B, alloc_block(B)) BY <1>1, AllocBlockExtends, Zenon
<1> QED BY <1>4, <1>5, <1>6, Zenon DEF Keeps

LEMMA KeepsItself ==
    ASSUME NEW B, Exact(B)
    PROVE  Keeps(B, B)
BY SoundItself, ExtendsItself, Zenon DEF Keeps, Exact

LEMMA KeepsTransitive ==
    ASSUME NEW B, Exact(B), NEW C, Keeps(B, C), NEW D, Keeps(C, D)
    PROVE  Keeps(B, D)
<1>1. Typed(B) /\ BlockIds(B) \subseteq BlockIds(C) BY BlockIdsGrow, Zenon DEF Keeps, Exact
<1> QED BY <1>1, SoundTransitive, ExtendsTransitive, Zenon DEF Keeps

LEMMA branchSound ==
    ASSUME NEW B, Exact(B), NEW br \in block_br,
           NEW when_true \in BlockIds(B) \cup {NULL}, NEW when_false \in BlockIds(B) \cup {NULL}
    PROVE  Sound(B, branch(B, br, when_true, when_false))
<1> DEFINE B1 == IF when_true = NULL THEN alloc_block(B) ELSE B
           t  == IF when_true = NULL THEN last_block(B1) ELSE when_true
           B2 == IF when_false = NULL THEN alloc_block(B1) ELSE B1
           f  == IF when_false = NULL THEN last_block(B2) ELSE when_false
           cur == B.blocks[B.current_block]
           b  == [cur EXCEPT !.br = br, !.block_true = t, !.block_false = f]
           C  == WithBlock(B2, B.current_block, b)
           B3 == Then(B2, C)
           B4 == Then(B3, push_predecessor(B3, t))
           B5 == Then(B4, push_predecessor(B4, f))
<1>1. Keeps(B, B1) /\ (B1.fault = NoFault => t \in BlockIds(B1))
  BY alloc_blockKeeps, KeepsItself, AllocBlockExtends, Zenon DEF Exact
<1> HIDE DEF B1, t
<1>2. Exact(B1) /\ Typed(B1) /\ BlockIds(B) \subseteq BlockIds(B1)
  BY <1>1, BlockIdsGrow, Zenon DEF Keeps, Sound, Exact
<1>3. Keeps(B1, B2) /\ (B2.fault = NoFault => f \in BlockIds(B2))
  BY <1>2, alloc_blockKeeps, KeepsItself, AllocBlockExtends, Zenon
<1> HIDE DEF B2, f
<1>4. /\ Keeps(B, B2) /\ Exact(B2) /\ Typed(B2)
      /\ B2.fault = NoFault => t \in BlockIds(B2) /\ f \in BlockIds(B2)
  <2>1. Exact(B2) /\ Typed(B2) /\ (B2.fault = NoFault => B1.fault = NoFault)
    BY <1>3, Zenon DEF Keeps, Sound, Exact, Extends
  <2>2. BlockIds(B1) \subseteq BlockIds(B2) BY <1>2, <1>3, BlockIdsGrow, Zenon DEF Keeps
  <2>3. Keeps(B, B2) BY <1>1, <1>3, KeepsTransitive, Zenon
  <2> QED BY <1>1, <1>3, <2>1, <2>2, <2>3, Zenon
<1>5. ASSUME B.current_block \in BlockIds(B) PROVE Sound(B, B5)
  <2>1. /\ B2.current_block = B.current_block
        /\ B.current_block \in BlockIds(B2) /\ B2.blocks[B.current_block] = cur
    <3>1. BlockIds(B) \subseteq BlockIds(B2) BY <1>4, BlockIdsGrow, Zenon DEF Keeps, Exact
    <3> QED BY <1>4, <1>5, <3>1, Zenon DEF Keeps, Extends
  <2> HIDE DEF cur
  <2>2. ASSUME B2.fault = NoFault
        PROVE  Sound(B2, C) /\ BlockIds(C) = BlockIds(B2)
    <3>1. cur \in bb /\ BlockInBounds(B2, cur) BY <1>4, <2>1, CurrentIsOpen, Zenon
    <3>2. t \in BlockIds(B2) /\ f \in BlockIds(B2) BY <1>4, <2>2, Zenon
    <3>3. b \in bb /\ BlockInBounds(B2, b) BY <1>4, <3>1, <3>2, RetargetTyped
    <3>4. b.head = cur.head /\ b.next = cur.next BY <3>1 DEF bb
    <3> HIDE DEF b
    <3>5. C = WithBlock(B2, B2.current_block, b) BY <2>1, Zenon
    <3> HIDE DEF C
    <3>6. Sound(B2, C) BY <1>4, <2>1, <3>3, <3>4, <3>5, RewrittenSound, Zenon
    <3>7. BlockIds(C) = BlockIds(B2)
      BY <1>4, <2>1, <3>3, <3>5, WithBlockExtends, Zenon
    <3> QED BY <3>6, <3>7
  <2> HIDE DEF C
  <2>3. /\ Sound(B2, B3) /\ BlockIds(B3) = BlockIds(B2)
        /\ B3.fault = NoFault => B2.fault = NoFault
    BY <1>4, <2>2, SoundItself, Zenon DEF Then
  <2> HIDE DEF B3
  <2>4. Exact(B3) /\ Typed(B3) BY <2>3, Zenon DEF Sound, Exact
  <2>5. Sound(B3, B4) /\ Extends(B3, B4)
    BY <1>4, <2>3, <2>4, push_predecessorSound, SoundThen, push_predecessorExtends,
       ExtendsThen, Zenon
  <2> HIDE DEF B4
  <2>6. /\ Exact(B4) /\ BlockIds(B3) \subseteq BlockIds(B4)
        /\ B4.fault = NoFault => B3.fault = NoFault
    BY <2>4, <2>5, BlockIdsGrow, Zenon DEF Sound, Extends
  <2>7. Sound(B4, B5)
    BY <1>4, <2>3, <2>6, push_predecessorSound, SoundThen, Zenon
  <2> HIDE DEF B5
  <2>8. Sound(B, B2) BY <1>4, Zenon DEF Keeps
  <2>9. Sound(B, B3) BY <2>3, <2>8, SoundTransitive, Zenon
  <2>10. Sound(B, B4) BY <2>5, <2>9, SoundTransitive, Zenon
  <2> QED BY <2>7, <2>10, SoundTransitive, Zenon
<1> HIDE DEF B5
<1>6. Sound(B, InOpenBlock(B, B5)) BY <1>5, InOpenBlockSound, Zenon
<1> QED BY <1>6 DEF branch, B1, t, B2, f, cur, b, C, B3, B4, B5

LEMMA add_final_valueSound ==
    ASSUME NEW B, Exact(B), B.current_block \in BlockIds(B), NEW sym \in Symbols, NEW value \in Nat
    PROVE  Sound(B, add_final_value(B, sym, value))
<1> DEFINE cur == B.blocks[B.current_block]
           b   == [cur EXCEPT !.final_values[sym] = value]
<1>1. cur \in bb /\ BlockInBounds(B, cur) BY CurrentIsOpen, Zenon
<1> HIDE DEF cur
<1>2. /\ b \in bb /\ b.head = cur.head /\ b.next = cur.next
      /\ b.block_true = cur.block_true /\ b.block_false = cur.block_false
  BY <1>1 DEF bb
<1> HIDE DEF b
<1>3. BlockInBounds(B, b) BY <1>1, <1>2, Zenon DEF BlockInBounds
<1>4. Sound(B, WithBlock(B, B.current_block, b))
  BY <1>2, <1>3, RewrittenSound, Zenon DEF cur
<1>5. "Attempt to add duplicate key" \in failure BY DEF failure
<1> QED BY <1>4, <1>5, SoundChecked, Zenon DEF add_final_value, cur, b

-----------------------------------------------------------------------------
(***************************************************************************)
(* The specification.                                                      *)
(***************************************************************************)
LEMMA NewBuilderExact ==
    /\ Exact(NewBuilder)
    /\ \A why \in failure : Exact([NewBuilder EXCEPT !.fault = why])
<1>1. \A B : Typed(B) /\ B.blocks = <<>> => Exact(B)
  <2> SUFFICES ASSUME NEW B, Typed(B), B.blocks = <<>> PROVE Exact(B)
    OBVIOUS
  <2>1. BlockIds(B) = {} BY DEF BlockIds
  <2> QED BY <2>1, Zenon DEF Exact, BlocksOwnTheirRange, OneOpenBlock
<1>2. NewBuilder.blocks = <<>> BY DEF NewBuilder
<1>3. \A why \in failure : /\ Typed([NewBuilder EXCEPT !.fault = why])
                          /\ [NewBuilder EXCEPT !.fault = why].blocks = <<>>
  BY <1>2, NewBuilderTyped, FailTyped, SetFault, Zenon DEF Typed, SameBlocks
<1> QED BY <1>1, <1>2, <1>3, NewBuilderTyped, Zenon

\* Frozen says of each field what EndedBlocksFrozen says of the record.
LEMMA FrozenRecord ==
    ASSUME NEW B \in builder, NEW C \in builder, Frozen(B, C),
           NEW b \in BlockIds(B), Ended(B.blocks[b])
    PROVE  C.blocks[b] = [B.blocks[b] EXCEPT !.predecessors = C.blocks[b].predecessors]
<1>1. b \in BlockIds(C) /\ SameButPredecessors(B.blocks[b], C.blocks[b])
  BY Zenon DEF Frozen
<1>2. B.blocks[b] \in bb /\ C.blocks[b] \in bb BY <1>1, FieldType, Zenon
<1> QED BY <1>1, <1>2 DEF bb, SameButPredecessors

-----------------------------------------------------------------------------
(***************************************************************************)
(* Edges and phi lists: what the functions of ir::builder keep of them.    *)
(*                                                                         *)
(* Wired strengthens PredecessorsBranchHere: a block whose branch is still *)
(* UNUSED has no target, so that nothing lists it as predecessor and       *)
(* writing its targets breaks no edge.  Sliced strengthens                 *)
(* PhisOwnTheirSlice: the list in progress lies after all others, and what *)
(* any list names exists.                                                  *)
(***************************************************************************)
\* A block that does not branch yet leads nowhere; one not started is such.
Undecided(c) == /\ c.br = "UNUSED" => c.block_true = NULL /\ c.block_false = NULL
                /\ ~ Started(c) => c.br = "UNUSED"

Wired(B) == PredecessorsBranchHere(B) /\ \A b \in BlockIds(B) : Undecided(B.blocks[b])

BranchesTo(B, p, b) == p \in BlockIds(B) /\ b \in Targets(B.blocks[p])

-----------------------------------------------------------------------------
(***************************************************************************)
(* Updates that keep Wired.                                                *)
(***************************************************************************)
LEMMA SameWired ==
    ASSUME NEW B, Wired(B), NEW C, SameBlocks(B, C)
    PROVE  Wired(C)
BY Zenon DEF Wired, PredecessorsBranchHere, SameBlocks, BlockIds

\* One block rewritten: it keeps its targets, and a predecessor it gains
\* branches to it.
LEMMA Rewired ==
    ASSUME NEW B, Wired(B), NEW C, BlockIds(C) = BlockIds(B), NEW b \in BlockIds(B),
           \A d \in BlockIds(B) : d # b => C.blocks[d] = B.blocks[d],
           Undecided(C.blocks[b]), Targets(B.blocks[b]) \subseteq Targets(C.blocks[b]),
           \A k \in 1..Len(C.blocks[b].predecessors) :
              \/ /\ k \in 1..Len(B.blocks[b].predecessors)
                 /\ C.blocks[b].predecessors[k] = B.blocks[b].predecessors[k]
              \/ BranchesTo(C, C.blocks[b].predecessors[k], b)
    PROVE  Wired(C)
<1>1. ASSUME NEW p, NEW d, BranchesTo(B, p, d) PROVE BranchesTo(C, p, d)
  <2>1. Targets(B.blocks[p]) \subseteq Targets(C.blocks[p]) BY <1>1 DEF BranchesTo
  <2> QED BY <1>1, <2>1, Zenon DEF BranchesTo
<1>2. \A d \in BlockIds(B) : \A k \in 1..Len(B.blocks[d].predecessors) :
         BranchesTo(B, B.blocks[d].predecessors[k], d)
  BY Zenon DEF Wired, PredecessorsBranchHere, BranchesTo
<1>3. \A d \in BlockIds(C) : \A k \in 1..Len(C.blocks[d].predecessors) :
         BranchesTo(C, C.blocks[d].predecessors[k], d)
  <2> SUFFICES ASSUME NEW d \in BlockIds(B), NEW k \in 1..Len(C.blocks[d].predecessors)
               PROVE  BranchesTo(C, C.blocks[d].predecessors[k], d)
    BY Zenon
  <2>1. CASE d = b BY <1>1, <1>2, <2>1
  <2>2. CASE d # b BY <1>1, <1>2, <2>2
  <2> QED BY <2>1, <2>2
<1>4. \A d \in BlockIds(C) : Undecided(C.blocks[d])
  BY DEF Wired
<1> QED BY <1>3, <1>4, Zenon DEF Wired, PredecessorsBranchHere, BranchesTo

\* The same, with the predecessors it had
LEMMA RewiredTargets ==
    ASSUME NEW B, Typed(B), Wired(B), NEW b \in BlockIds(B), NEW c \in bb,
           Undecided(c), Targets(B.blocks[b]) \subseteq Targets(c),
           c.predecessors = B.blocks[b].predecessors
    PROVE  Wired(WithBlock(B, b, c))
<1> DEFINE C == WithBlock(B, b, c)
<1>1. B \in builder /\ C = WithBlock(B, b, c) BY DEF Typed
<1> HIDE DEF C
<1>2. /\ Len(C.blocks) = Len(B.blocks) /\ C.blocks[b] = c
      /\ \A d \in BlockIds(B) : d # b => C.blocks[d] = B.blocks[d]
  BY <1>1, SetBlock
<1>3. BlockIds(C) = BlockIds(B) BY <1>2, Zenon DEF BlockIds
<1>4. Wired(C) BY <1>2, <1>3, Rewired, Zenon
<1> QED BY <1>1, <1>4, Zenon

LEMMA SetFaultWired ==
    ASSUME NEW B, Typed(B), Wired(B), NEW why \in failure
    PROVE  Wired([B EXCEPT !.fault = why])
BY SetFault, SameWired, Zenon DEF Typed

LEMMA CheckedWired ==
    ASSUME NEW B, Typed(B), Wired(B), NEW ok, NEW why \in failure, NEW next,
           ok => Wired(next)
    PROVE  Wired(Checked(B, ok, why, next))
BY SetFaultWired, Zenon DEF Checked, Then

LEMMA InBlockWired ==
    ASSUME NEW B, Exact(B), Wired(B), NEW next, B.current_block \in BlockIds(B) => Wired(next)
    PROVE  Wired(InBlock(B, next))
<1>1. "current_block != NULL" \in failure BY DEF failure
<1> QED BY <1>1, CurrentIsOpen, CheckedWired, Zenon DEF InBlock, Exact

\* In an open block whose branch is to be written
LEMMA InOpenBlockWired ==
    ASSUME NEW B, Exact(B), Wired(B), NEW next,
           B.current_block \in BlockIds(B) /\ B.blocks[B.current_block].br = "UNUSED"
              => Wired(next)
    PROVE  Wired(InOpenBlock(B, next))
<1>1. "current_block->br == block_br::UNUSED" \in failure BY DEF failure
<1> QED BY <1>1, CheckedWired, InBlockWired, Zenon DEF InOpenBlock, Exact

-----------------------------------------------------------------------------
(***************************************************************************)
(* The member functions keep Wired.                                        *)
(***************************************************************************)
LEMMA alloc_blockWired ==
    ASSUME NEW B, Exact(B), Wired(B)
    PROVE  Wired(alloc_block(B))
<1> DEFINE C == [B EXCEPT !.blocks = Append(@, FreshBlock)]
           n == Len(B.blocks) + 1
<1>1. Typed(B) /\ C = [B EXCEPT !.blocks = Append(@, FreshBlock)] BY DEF Exact
<1> HIDE DEF C
<1>2. /\ Len(C.blocks) = n /\ C.blocks[n] = FreshBlock
      /\ \A b \in BlockIds(B) : C.blocks[b] = B.blocks[b]
  BY <1>1, AppendedBlock
<1>3. Len(B.blocks) \in Nat BY <1>1, LengthType DEF Typed
<1>4. BlockIds(C) = BlockIds(B) \cup {n} BY <1>2, <1>3 DEF BlockIds
<1> HIDE DEF n
<1>5. FreshBlock.predecessors = <<>> /\ Undecided(FreshBlock)
  BY DEF FreshBlock, Undecided, Started, NULL
<1>6. \A k \in 1..Len(FreshBlock.predecessors) : FALSE BY <1>5
<1>7. PredecessorsBranchHere(C)
  BY <1>2, <1>4, <1>6, Zenon DEF Wired, PredecessorsBranchHere
<1>8. Wired(C) BY <1>2, <1>4, <1>5, <1>7, Zenon DEF Wired
<1>9. "Arena reached max capacity" \in failure BY DEF failure
<1> QED BY <1>1, <1>8, <1>9, CheckedWired, Zenon DEF alloc_block

LEMMA start_blockWired ==
    ASSUME NEW B, Exact(B), Wired(B), NEW block \in BlockIds(B), ~ Started(B.blocks[block]),
           NEW scope \in Nat
    PROVE  Wired(start_block(B, block, scope))
<1> DEFINE old == B.blocks[block]
           b == [old EXCEPT !.br = "UNUSED", !.head = Len(B.ssas) + 1, !.scope = scope]
           D == WithBlock(B, block, b)
<1>1. Typed(B) /\ old \in bb /\ Len(B.ssas) + 1 \in Nat /\ block \in 0..Len(B.blocks)
  BY FieldType, LengthType DEF Exact, Typed, BlockIds
<1>2. "UNUSED" \in block_br BY DEF block_br
<1>3. Undecided(old) /\ old.br = "UNUSED" BY Zenon DEF Wired, Undecided
<1> HIDE DEF old
<1>4. /\ b \in bb /\ b.br = "UNUSED" /\ b.predecessors = old.predecessors
      /\ b.block_true = old.block_true /\ b.block_false = old.block_false
  BY <1>1, <1>2, Zenon DEF bb
<1> HIDE DEF b
<1>5. Undecided(b) /\ Targets(b) = Targets(old) BY <1>3, <1>4, Zenon DEF Undecided, Targets
<1>6. Wired(D) BY <1>1, <1>4, <1>5, RewiredTargets DEF old
<1>7. D \in builder BY <1>1, <1>4, SetBlock DEF Typed
<1> HIDE DEF D
<1>8. SameBlocks(D, WithCurrent(D, block)) BY <1>1, <1>7, SetCurrent
<1>9. Wired(WithCurrent(D, block)) BY <1>6, <1>8, SameWired, Zenon
<1>10. "block != NULL" \in failure /\ "current_block == NULL" \in failure BY DEF failure
<1> QED BY <1>1, <1>9, <1>10, CheckedWired, Zenon DEF start_block, D, b, old

\* The current block closed, with the edges it had or a target more
LEMMA ClosingWired ==
    ASSUME NEW B, Exact(B), Wired(B), B.current_block \in BlockIds(B), NEW b \in bb,
           Targets(B.blocks[B.current_block]) \subseteq Targets(b), b.br # "UNUSED",
           b.head = B.blocks[B.current_block].head,
           b.predecessors = B.blocks[B.current_block].predecessors
    PROVE  Wired(Closing(B, b))
<1> DEFINE D == WithBlock(B, B.current_block, b)
<1>1. Typed(B) /\ NULL \in Nat BY DEF Exact, NULL
<1>2. Undecided(b) BY CurrentIsOpen, Zenon DEF Undecided, Started
<1>3. Wired(D) BY <1>1, <1>2, RewiredTargets
<1>4. D \in builder BY <1>1, SetBlock DEF Typed
<1> HIDE DEF D
<1>5. SameBlocks(D, WithCurrent(D, NULL)) BY <1>1, <1>4, SetCurrent
<1>6. Wired(WithCurrent(D, NULL)) BY <1>3, <1>5, SameWired, Zenon
<1> QED BY <1>6 DEF Closing, D

LEMMA end_blockWired ==
    ASSUME NEW B, Exact(B), Wired(B)
    PROVE  Wired(end_block(B))
<1> DEFINE cur == B.blocks[B.current_block]
           b   == [cur EXCEPT !.next = last_ssa(B)]
<1>1. ASSUME B.current_block \in BlockIds(B), cur.br # "UNUSED" PROVE Wired(Closing(B, b))
  <2>1. cur \in bb /\ last_ssa(B) \in Nat
    BY <1>1, CurrentIsOpen, LengthType DEF Exact, Typed, last_ssa
  <2>2. /\ b \in bb /\ b.br = cur.br /\ b.predecessors = cur.predecessors
        /\ b.block_true = cur.block_true /\ b.block_false = cur.block_false
        /\ b.head = cur.head
    BY <2>1, Zenon DEF bb
  <2> HIDE DEF b
  <2>3. Targets(b) = Targets(cur) BY <2>2, Zenon DEF Targets
  <2> QED BY <1>1, <2>2, <2>3, ClosingWired
<1>2. Typed(B) /\ "is_not_empty" \in failure
      /\ "current_block->br != block_br::UNUSED" \in failure BY DEF failure, Exact
<1> QED BY <1>1, <1>2, InBlockWired, CheckedWired, Zenon DEF end_block

LEMMA end_block_toWired ==
    ASSUME NEW B, Exact(B), Wired(B), NEW next \in BlockIds(B)
    PROVE  Wired(end_block_to(B, next))
<1> DEFINE cur == B.blocks[B.current_block]
           b   == [cur EXCEPT !.next = last_ssa(B), !.br = "unconditional",
                              !.block_true = next]
<1>1. ASSUME B.current_block \in BlockIds(B), cur.br = "UNUSED" PROVE Wired(Closing(B, b))
  <2>1. cur \in bb /\ last_ssa(B) \in Nat /\ next \in Nat
    BY <1>1, CurrentIsOpen, LengthType DEF Exact, Typed, last_ssa, BlockIds
  <2>2. "unconditional" \in block_br BY DEF block_br
  <2>3. /\ b \in bb /\ b.br = "unconditional" /\ b.predecessors = cur.predecessors
        /\ b.head = cur.head
    BY <2>1, <2>2, Zenon DEF bb
  <2> HIDE DEF b
  <2>4. Targets(cur) = {} BY <1>1 DEF Wired, Undecided, Targets
  <2> QED BY <1>1, <2>3, <2>4, ClosingWired
<1>2. /\ Typed(B) /\ "is_not_empty" \in failure
      /\ "current_block->br == block_br::UNUSED" \in failure
      /\ "block->block_true == NULL" \in failure /\ "block->block_false == NULL" \in failure
  BY DEF failure, Exact
<1> QED BY <1>1, <1>2, InBlockWired, CheckedWired, Zenon DEF end_block_to

\* Records with the fields of a builder, and its blocks
SameRecord(B, C) == DOMAIN C = DOMAIN B /\ SameBlocks(B, C)

LEMMA SameRecordUpdates ==
    ASSUME NEW B \in builder, NEW C, SameRecord(B, C), NEW x
    PROVE  /\ SameRecord(B, [C EXCEPT !.fault = x]) /\ SameRecord(B, [C EXCEPT !.phi_start = x])
           /\ SameRecord(B, [C EXCEPT !.phi_lists = x]) /\ SameRecord(B, [C EXCEPT !.ssas = x])
<1>1. "blocks" \in DOMAIN B BY Zenon DEF builder
<1> QED BY <1>1, Zenon DEF SameRecord, SameBlocks

\* Phi functions leave the blocks alone.
LEMMA PhiBlocks ==
    ASSUME NEW B, Typed(B), NEW s
    PROVE  /\ SameBlocks(B, start_phi(B)) /\ SameBlocks(B, push_phi(B, s))
           /\ SameBlocks(B, end_phi(B))
<1>1. B \in builder /\ SameRecord(B, B) BY DEF Typed, SameRecord, SameBlocks
<1>2. SameRecord(B, start_phi(B)) /\ SameRecord(B, push_phi(B, s))
  BY <1>1, SameRecordUpdates, Zenon DEF start_phi, push_phi, Checked, Then
<1>3. \A t : SameRecord(B, alloc_ssa(B, t))
  BY <1>1, SameRecordUpdates, Zenon DEF alloc_ssa, Checked, Then
<1>4. SameRecord(B, end_phi(B))
  BY <1>1, <1>3, SameRecordUpdates, Zenon DEF end_phi, Checked, Then
<1> QED BY <1>2, <1>4, Zenon DEF SameRecord

LEMMA InstructionsWired ==
    ASSUME NEW B, Exact(B), Wired(B), NEW l \in Nat, NEW r \in Nat
    PROVE  /\ Wired(DBG(B)) /\ Wired(nop(B)) /\ Wired(literal(B, l))
           /\ Wired(add(B, l, r)) /\ Wired(sub(B, l, r))
<1>1. /\ {"dbg", "nop", "i", "add", "sub"} \subseteq opcode
      /\ {"no_value"} \in SUBSET ssa_prop /\ {"const_val"} \in SUBSET ssa_prop
      /\ {} \in SUBSET ssa_prop /\ NULL \in Nat /\ 0 \in Nat
  BY DEF opcode, ssa_prop, NULL
<1>2. \A o \in {"dbg", "nop", "i", "add", "sub"}, flags \in SUBSET ssa_prop, x, y \in Nat :
         Wired(emit(B, o, flags, x, y))
  BY <1>1, emitSound, SameWired, Zenon
<1> QED BY <1>1, <1>2 DEF DBG, nop, literal, add, sub

\* The current block rewritten while it is open, without losing a target
LEMMA CurrentWired ==
    ASSUME NEW B, Exact(B), Wired(B), B.current_block \in BlockIds(B), NEW b \in bb,
           Targets(B.blocks[B.current_block]) \subseteq Targets(b), b.br # "UNUSED",
           b.head = B.blocks[B.current_block].head,
           b.predecessors = B.blocks[B.current_block].predecessors
    PROVE  Wired(WithBlock(B, B.current_block, b))
<1>1. Undecided(b) BY CurrentIsOpen, Zenon DEF Undecided, Started
<1> QED BY <1>1, RewiredTargets, Zenon DEF Exact

LEMMA retWired ==
    ASSUME NEW B, Exact(B), Wired(B), NEW val \in Nat
    PROVE  Wired(ret(B, val))
<1> DEFINE B1  == emit(B, "ret", {"no_value"}, val, NULL)
           cur == B.blocks[B.current_block]
           b   == [cur EXCEPT !.br = "unconditional"]
<1>1. "ret" \in opcode /\ {"no_value"} \in SUBSET ssa_prop /\ NULL \in Nat
  BY DEF opcode, ssa_prop, NULL
<1>2. /\ Sound(B, B1) /\ SameBlocks(B, B1) /\ Wired(B1)
      /\ Typed(B) /\ Extends(B, B1)
  BY <1>1, emitSound, emitExtends, SameWired, Zenon DEF Exact
<1>3. ASSUME B1.fault = NoFault PROVE B.current_block \in BlockIds(B)
  BY <1>2, <1>3, InOpenBlockPasses, Zenon DEF emit
<1> HIDE DEF B1
<1>4. ASSUME B1.fault = NoFault PROVE Wired(WithBlock(B1, B.current_block, b))
  <2>1. /\ Exact(B1) /\ B1.current_block = B.current_block
        /\ B1.blocks[B.current_block] = cur /\ B.current_block \in BlockIds(B1)
    BY <1>2, <1>3, <1>4, Zenon DEF Sound, Extends, SameBlocks, BlockIds
  <2>2. cur \in bb BY <2>1, CurrentIsOpen, Zenon
  <2>3. "unconditional" \in block_br /\ "unconditional" # "UNUSED" BY DEF block_br
  <2> HIDE DEF cur
  <2>4. /\ b \in bb /\ b.br = "unconditional" /\ b.predecessors = cur.predecessors
        /\ b.block_true = cur.block_true /\ b.block_false = cur.block_false
        /\ b.head = cur.head
    BY <2>2, <2>3, Zenon DEF bb
  <2> HIDE DEF b
  <2>5. Targets(cur) \subseteq Targets(b) BY <2>4, Zenon DEF Targets
  <2> QED BY <1>2, <2>1, <2>3, <2>4, <2>5, CurrentWired, Zenon
<1> QED BY <1>2, <1>4, Zenon DEF ret, B1, Then

-----------------------------------------------------------------------------
(***************************************************************************)
(* Branches: the targets are written first, then each target learns its    *)
(* predecessor.                                                            *)
(***************************************************************************)
LEMMA push_predecessorWired ==
    ASSUME NEW B, Exact(B), Wired(B), NEW target \in BlockIds(B),
           BranchesTo(B, B.current_block, target)
    PROVE  /\ Wired(push_predecessor(B, target))
           /\ \A p, d : BranchesTo(B, p, d) => BranchesTo(push_predecessor(B, target), p, d)
<1> DEFINE old == B.blocks[target]
           b   == [old EXCEPT !.predecessors = Append(@, B.current_block)]
           C   == WithBlock(B, target, b)
           D   == [B EXCEPT !.fault = "next < max"]
<1>1. B \in builder /\ Typed(B) /\ old \in bb /\ B.current_block \in Nat
      /\ Undecided(old)
  BY FieldType DEF Exact, Typed, Wired
<1>2. old.predecessors \in Seq(Nat) BY <1>1 DEF bb
<1>3. /\ Append(old.predecessors, B.current_block) \in Seq(Nat)
      /\ \A k \in 1..Len(Append(old.predecessors, B.current_block)) :
            \/ /\ k \in 1..Len(old.predecessors)
               /\ Append(old.predecessors, B.current_block)[k] = old.predecessors[k]
            \/ Append(old.predecessors, B.current_block)[k] = B.current_block
  BY <1>1, <1>2
<1> HIDE DEF old
<1>4. /\ b \in bb /\ b.predecessors = Append(old.predecessors, B.current_block)
      /\ b.br = old.br /\ b.head = old.head
      /\ b.block_true = old.block_true /\ b.block_false = old.block_false
  BY <1>1, <1>3, Zenon DEF bb
<1> HIDE DEF b
<1>5. Undecided(b) /\ Targets(b) = Targets(old)
  BY <1>1, <1>4, Zenon DEF Undecided, Targets, Started
<1>6. C = WithBlock(B, target, b) OBVIOUS
<1> HIDE DEF C
<1>7. /\ Len(C.blocks) = Len(B.blocks) /\ C.blocks[target] = b
      /\ \A d \in BlockIds(B) : d # target => C.blocks[d] = B.blocks[d]
  BY <1>1, <1>4, <1>6, SetBlock
<1>8. BlockIds(C) = BlockIds(B) BY <1>7, Zenon DEF BlockIds
<1>9. \A p, d : BranchesTo(B, p, d) => BranchesTo(C, p, d)
  BY <1>5, <1>7, <1>8, Zenon DEF BranchesTo, old
<1>10. Wired(C)
  <2>1. BranchesTo(C, B.current_block, target) BY <1>9, Zenon
  <2>2. \A k \in 1..Len(b.predecessors) :
           \/ /\ k \in 1..Len(old.predecessors)
              /\ b.predecessors[k] = old.predecessors[k]
           \/ BranchesTo(C, b.predecessors[k], target)
    BY <1>3, <1>4, <2>1, Zenon
  <2>3. Undecided(C.blocks[target]) /\ Targets(old) \subseteq Targets(C.blocks[target])
    BY <1>5, <1>7, Zenon
  <2> QED BY <1>7, <1>8, <2>2, <2>3, Rewired DEF old
<1>11. "next < max" \in failure BY DEF failure
<1>12. \A p, d : BranchesTo(B, p, d) => BranchesTo(D, p, d)
  BY <1>1, <1>11, SetFault, Zenon DEF BranchesTo, SameBlocks, BlockIds
<1>13. Wired(D) BY <1>1, <1>11, SetFaultWired, Zenon
<1> HIDE DEF D
<1> QED
  BY <1>6, <1>9, <1>10, <1>12, <1>13, Zenon DEF push_predecessor, Checked, Then, D, b, old

LEMMA unconditional_branchWired ==
    ASSUME NEW B, Exact(B), Wired(B), NEW next_block \in BlockIds(B)
    PROVE  Wired(unconditional_branch(B, next_block))
<1> DEFINE cur == B.blocks[B.current_block]
           b   == [cur EXCEPT !.br = "unconditional", !.block_true = next_block]
           C   == WithBlock(B, B.current_block, b)
<1>1. ASSUME B.current_block \in BlockIds(B), cur.br = "UNUSED"
      PROVE  Wired(push_predecessor(C, next_block))
  <2>1. B \in builder /\ Typed(B) /\ cur \in bb /\ BlockInBounds(B, cur)
    BY <1>1, CurrentIsOpen, Zenon DEF Exact, Typed
  <2>2. "unconditional" \in block_br /\ "unconditional" # "UNUSED" BY DEF block_br
  <2>3. b \in bb /\ BlockInBounds(B, b) BY <2>1, <2>2, RetargetTyped
  <2>4. Targets(cur) = {} /\ next_block # NULL
    BY <1>1, LengthType DEF Wired, Undecided, Targets, Exact, Typed, BlockIds, NULL
  <2>5. /\ b.br = "unconditional" /\ b.predecessors = cur.predecessors
        /\ b.head = cur.head /\ b.next = cur.next /\ b.block_true = next_block
    BY <2>1 DEF bb
  <2> HIDE DEF b, cur
  <2>6. Targets(cur) \subseteq Targets(b) /\ next_block \in Targets(b)
    BY <2>4, <2>5, Zenon DEF Targets
  <2>7. C = WithBlock(B, B.current_block, b) OBVIOUS
  <2> HIDE DEF C
  <2>8. Sound(B, C) BY <1>1, <2>3, <2>5, <2>7, RewrittenSound, Zenon DEF cur
  <2>9. Wired(C) BY <1>1, <2>2, <2>3, <2>5, <2>6, <2>7, CurrentWired, Zenon DEF cur
  <2>10. C.blocks[B.current_block] = b /\ C.current_block = B.current_block
         /\ BlockIds(C) = BlockIds(B)
    BY <1>1, <2>1, <2>3, <2>7, SetBlock DEF SameMode, BlockIds
  <2>11. BranchesTo(C, C.current_block, next_block)
    BY <1>1, <2>6, <2>10, Zenon DEF BranchesTo
  <2> QED BY <2>8, <2>9, <2>10, <2>11, push_predecessorWired, Zenon DEF Sound
<1> QED BY <1>1, InOpenBlockWired, Zenon DEF unconditional_branch

LEMMA alloc_blockOrNot ==
    ASSUME NEW B, Exact(B), Wired(B), NEW C, C = B \/ C = alloc_block(B)
    PROVE  Keeps(B, C) /\ Wired(C)
BY alloc_blockKeeps, KeepsItself, alloc_blockWired, Zenon

\* A branch conditional in br: UNUSED is not among the Conditions.
LEMMA branchWired ==
    ASSUME NEW B, Exact(B), Wired(B), NEW br \in block_br, br # "UNUSED",
           NEW when_true \in BlockIds(B) \cup {NULL}, NEW when_false \in BlockIds(B) \cup {NULL}
    PROVE  Wired(branch(B, br, when_true, when_false))
<1> DEFINE B1 == IF when_true = NULL THEN alloc_block(B) ELSE B
           t  == IF when_true = NULL THEN last_block(B1) ELSE when_true
           B2 == IF when_false = NULL THEN alloc_block(B1) ELSE B1
           f  == IF when_false = NULL THEN last_block(B2) ELSE when_false
           cur == B.blocks[B.current_block]
           b  == [cur EXCEPT !.br = br, !.block_true = t, !.block_false = f]
           C  == WithBlock(B2, B.current_block, b)
           B3 == Then(B2, C)
           B4 == Then(B3, push_predecessor(B3, t))
           B5 == Then(B4, push_predecessor(B4, f))
<1>1. /\ Keeps(B, B1) /\ Wired(B1) /\ (B1.fault = NoFault => t \in BlockIds(B1))
  BY alloc_blockOrNot, AllocBlockExtends, Zenon DEF Exact
<1> HIDE DEF B1, t
<1>2. Exact(B1) /\ Typed(B1) /\ BlockIds(B) \subseteq BlockIds(B1)
  BY <1>1, BlockIdsGrow, Zenon DEF Keeps, Sound, Exact
<1>3. Keeps(B1, B2) /\ Wired(B2) /\ (B2.fault = NoFault => f \in BlockIds(B2))
  BY <1>1, <1>2, alloc_blockOrNot, AllocBlockExtends, Zenon
<1> HIDE DEF B2, f
<1>4. /\ Keeps(B, B2) /\ Exact(B2) /\ Typed(B2)
      /\ B2.fault = NoFault => t \in BlockIds(B2) /\ f \in BlockIds(B2)
  <2>1. Exact(B2) /\ Typed(B2) /\ (B2.fault = NoFault => B1.fault = NoFault)
    BY <1>3, Zenon DEF Keeps, Sound, Exact, Extends
  <2>2. BlockIds(B1) \subseteq BlockIds(B2) BY <1>2, <1>3, BlockIdsGrow, Zenon DEF Keeps
  <2>3. Keeps(B, B2) BY <1>1, <1>3, KeepsTransitive, Zenon
  <2> QED BY <1>1, <1>3, <2>1, <2>2, <2>3, Zenon
<1>5. ASSUME B.current_block \in BlockIds(B), cur.br = "UNUSED" PROVE Wired(B5)
  <2>1. /\ B2.current_block = B.current_block
        /\ B.current_block \in BlockIds(B2) /\ B2.blocks[B.current_block] = cur
    <3>1. BlockIds(B) \subseteq BlockIds(B2) BY <1>4, BlockIdsGrow, Zenon DEF Keeps, Exact
    <3> QED BY <1>4, <1>5, <3>1, Zenon DEF Keeps, Extends
  <2>2. Targets(cur) = {} BY <1>5 DEF Wired, Undecided, Targets
  <2>3. cur \in bb /\ BlockInBounds(B2, cur) BY <1>4, <2>1, CurrentIsOpen, Zenon
  <2> HIDE DEF cur
  <2>4. CASE B2.fault # NoFault
    <3>1. B5 = B2 BY <2>4, Zenon DEF Then
    <3> QED BY <1>3, <3>1, Zenon
  <2>5. CASE B2.fault = NoFault
    <3>1. t \in BlockIds(B2) /\ f \in BlockIds(B2) BY <1>4, <2>5, Zenon
    <3>2. b \in bb /\ BlockInBounds(B2, b) BY <1>4, <2>3, <3>1, RetargetTyped
    <3>3. /\ b.br = br /\ b.predecessors = cur.predecessors /\ b.head = cur.head
          /\ b.next = cur.next /\ b.block_true = t /\ b.block_false = f
      <4>1. t \in Nat /\ f \in Nat BY <3>1 DEF BlockIds
      <4> QED BY <2>3, <4>1 DEF bb
    <3> HIDE DEF b
    <3>4. t \in Targets(b) /\ f \in Targets(b) /\ Targets(cur) \subseteq Targets(b)
      <4>1. t # NULL /\ f # NULL BY <3>1 DEF BlockIds, NULL
      <4> QED BY <2>2, <3>3, <4>1, Zenon DEF Targets
    <3>5. C = WithBlock(B2, B2.current_block, b) BY <2>1, Zenon
    <3> HIDE DEF C
    <3>6. Sound(B2, C) BY <1>4, <2>1, <3>2, <3>3, <3>5, RewrittenSound, Zenon
    <3>7. Wired(C) BY <1>3, <1>4, <2>1, <3>2, <3>3, <3>4, <3>5, CurrentWired, Zenon
    <3>8. /\ BlockIds(C) = BlockIds(B2) /\ C.current_block = B2.current_block
          /\ C.blocks[B2.current_block] = b /\ C.fault = NoFault
      <4>1. B2 \in builder BY <1>4 DEF Typed
      <4> QED BY <2>1, <2>5, <3>2, <3>5, <4>1, SetBlock DEF BlockIds, SameMode
    <3>9. B3 = C BY <2>5, Zenon DEF Then
    <3>10. /\ BranchesTo(B3, B3.current_block, t) /\ BranchesTo(B3, B3.current_block, f)
           /\ t \in BlockIds(B3) /\ f \in BlockIds(B3)
      BY <2>1, <3>1, <3>4, <3>8, <3>9, Zenon DEF BranchesTo
    <3>11. Exact(B3) /\ Typed(B3) /\ Wired(B3) BY <3>6, <3>7, <3>9, Zenon DEF Sound, Exact
    <3> HIDE DEF B3
    <3>12. /\ Wired(B4) /\ Exact(B4)
           /\ \A p, d : BranchesTo(B3, p, d) => BranchesTo(B4, p, d)
      BY <3>10, <3>11, push_predecessorWired, push_predecessorSound, Zenon DEF Then, Sound
    <3>13. B4.current_block = B3.current_block /\ BlockIds(B3) \subseteq BlockIds(B4)
      BY <3>10, <3>11, push_predecessorExtends, ExtendsItself, BlockIdsGrow, Zenon
         DEF Then, Extends
    <3> HIDE DEF B4
    <3> QED BY <3>10, <3>12, <3>13, push_predecessorWired, Zenon DEF Then
  <2> QED BY <2>4, <2>5
<1> HIDE DEF B5
<1>6. Wired(InOpenBlock(B, B5)) BY <1>5, InOpenBlockWired, Zenon
<1> QED BY <1>6 DEF branch, B1, t, B2, f, cur, b, C, B3, B4, B5

LEMMA add_final_valueWired ==
    ASSUME NEW B, Exact(B), Wired(B), B.current_block \in BlockIds(B),
           NEW sym \in Symbols, NEW value \in Nat
    PROVE  Wired(add_final_value(B, sym, value))
<1> DEFINE cur == B.blocks[B.current_block]
           b   == [cur EXCEPT !.final_values[sym] = value]
<1>1. Typed(B) /\ cur \in bb /\ Undecided(cur) BY CurrentIsOpen, Zenon DEF Wired, Exact
<1> HIDE DEF cur
<1>2. /\ b \in bb /\ b.predecessors = cur.predecessors /\ b.br = cur.br /\ b.head = cur.head
      /\ b.block_true = cur.block_true /\ b.block_false = cur.block_false
  BY <1>1 DEF bb
<1> HIDE DEF b
<1>3. Undecided(b) /\ Targets(b) = Targets(cur)
  BY <1>1, <1>2, Zenon DEF Undecided, Targets, Started
<1>4. Wired(WithBlock(B, B.current_block, b))
  BY <1>1, <1>2, <1>3, RewiredTargets, Zenon DEF cur
<1>5. "Attempt to add duplicate key" \in failure BY DEF failure
<1> QED BY <1>1, <1>4, <1>5, CheckedWired, Zenon DEF add_final_value, cur, b

-----------------------------------------------------------------------------
(***************************************************************************)
(* The specification.                                                      *)
(***************************************************************************)
LEMMA NewBuilderWired ==
    Wired(NewBuilder) /\ \A why \in failure : Wired([NewBuilder EXCEPT !.fault = why])
<1>1. NewBuilder.blocks = <<>> BY DEF NewBuilder
<1>2. Wired(NewBuilder) BY <1>1 DEF Wired, PredecessorsBranchHere, BlockIds
<1> QED BY <1>2, NewBuilderTyped, SetFaultWired, Zenon

-----------------------------------------------------------------------------
(***************************************************************************)
(* Phi lists.                                                              *)
(***************************************************************************)

\* The instructions any list names exist, that of the list in progress too.
Sliced(B) == /\ PhisOwnTheirSlice(B)
             /\ \A k \in 1..Len(B.phi_lists) : B.phi_lists[k] \in SsaIds(B)

\* Neither instructions nor lists change.
SamePhis(B, C) == /\ DOMAIN C = DOMAIN B
                  /\ C.ssas = B.ssas /\ C.phi_lists = B.phi_lists /\ C.phi_start = B.phi_start

LEMMA SameSliced ==
    ASSUME NEW B, Sliced(B), NEW C, SamePhis(B, C)
    PROVE  Sliced(C)
<1>1. C.ssas = B.ssas /\ C.phi_lists = B.phi_lists /\ C.phi_start = B.phi_start
  BY DEF SamePhis
<1>2. SsaIds(C) = SsaIds(B) BY <1>1, Zenon DEF SsaIds
<1>3. Phis(C) = Phis(B) /\ \A s : PhiSlice(C, s) = PhiSlice(B, s)
  BY <1>1, <1>2, Zenon DEF Phis, PhiSlice
<1> QED BY <1>1, <1>2, <1>3, Zenon DEF Sliced, PhisOwnTheirSlice

LEMMA SamePhisUpdates ==
    ASSUME NEW B \in builder, NEW C, SamePhis(B, C), NEW x, NEW y
    PROVE  /\ SamePhis(B, [C EXCEPT !.fault = x]) /\ SamePhis(B, WithBlock(C, x, y))
           /\ SamePhis(B, WithCurrent(C, x))
           /\ SamePhis(B, [C EXCEPT !.blocks = Append(@, FreshBlock)])
<1>1. "ssas" \in DOMAIN B /\ "phi_lists" \in DOMAIN B /\ "phi_start" \in DOMAIN B
  BY Zenon DEF builder
<1> QED BY <1>1, Zenon DEF SamePhis, WithBlock, WithCurrent

\* The functions that add no instruction, whatever they return
LEMMA SamePhisOperations ==
    ASSUME NEW B \in builder, NEW C, SamePhis(B, C), NEW x, NEW y, NEW z
    PROVE  /\ SamePhis(B, alloc_block(C)) /\ SamePhis(B, push_predecessor(C, x))
           /\ SamePhis(B, start_block(C, x, y)) /\ SamePhis(B, end_block(C))
           /\ SamePhis(B, end_block_to(C, x)) /\ SamePhis(B, add_final_value(C, x, y))
           /\ SamePhis(B, unconditional_branch(C, x)) /\ SamePhis(B, branch(C, x, y, z))
<1>1. \A D, ok, why, next : SamePhis(B, D) /\ SamePhis(B, next) =>
         SamePhis(B, Checked(D, ok, why, next)) /\ SamePhis(B, Then(D, next))
  BY SamePhisUpdates, Zenon DEF Checked, Then
<1>2. \A D, next : SamePhis(B, D) /\ SamePhis(B, next) =>
         SamePhis(B, InBlock(D, next)) /\ SamePhis(B, InOpenBlock(D, next))
  BY <1>1, Zenon DEF InBlock, InOpenBlock
<1>3. \A D, b : SamePhis(B, D) => SamePhis(B, Closing(D, b))
  BY SamePhisUpdates, Zenon DEF Closing
<1>4. \A D : SamePhis(B, D) => SamePhis(B, alloc_block(D))
  BY <1>1, SamePhisUpdates, Zenon DEF alloc_block
<1>5. \A D, target : SamePhis(B, D) => SamePhis(B, push_predecessor(D, target))
  BY <1>1, SamePhisUpdates, Zenon DEF push_predecessor
<1>6. SamePhis(B, start_block(C, x, y))
  BY <1>1, SamePhisUpdates, Zenon DEF start_block
<1>7. SamePhis(B, end_block(C)) BY <1>1, <1>2, <1>3, Zenon DEF end_block
<1>8. SamePhis(B, end_block_to(C, x)) BY <1>1, <1>2, <1>3, Zenon DEF end_block_to
<1>9. SamePhis(B, add_final_value(C, x, y))
  BY <1>1, SamePhisUpdates, Zenon DEF add_final_value
<1>10. SamePhis(B, unconditional_branch(C, x))
  BY <1>2, <1>5, SamePhisUpdates, Zenon DEF unconditional_branch
<1>11. SamePhis(B, branch(C, x, y, z))
  <2> DEFINE B1 == IF y = NULL THEN alloc_block(C) ELSE C
             t  == IF y = NULL THEN last_block(B1) ELSE y
             B2 == IF z = NULL THEN alloc_block(B1) ELSE B1
             f  == IF z = NULL THEN last_block(B2) ELSE z
             b  == [C.blocks[C.current_block] EXCEPT !.br = x, !.block_true = t,
                                                     !.block_false = f]
             B3 == Then(B2, WithBlock(B2, C.current_block, b))
             B4 == Then(B3, push_predecessor(B3, t))
  <2>1. SamePhis(B, B1) BY <1>4, Zenon
  <2> HIDE DEF B1, t
  <2>2. SamePhis(B, B2) BY <1>4, <2>1, Zenon
  <2> HIDE DEF B2, f, b
  <2>3. SamePhis(B, B3) BY <1>1, <2>2, SamePhisUpdates, Zenon
  <2> HIDE DEF B3
  <2>4. SamePhis(B, B4) BY <1>1, <1>5, <2>3, Zenon
  <2> HIDE DEF B4
  <2>5. SamePhis(B, Then(B4, push_predecessor(B4, f))) BY <1>1, <1>5, <2>4, Zenon
  <2>6. SamePhis(B, InOpenBlock(C, Then(B4, push_predecessor(B4, f)))) BY <1>2, <2>5, Zenon
  <2> QED BY <2>6 DEF branch, B1, t, B2, f, b, B3, B4
<1> QED BY <1>4, <1>5, <1>6, <1>7, <1>8, <1>9, <1>10, <1>11, Zenon

\* A new instruction other than a phi, or a phi of its own slice
LEMMA AppendedSliced ==
    ASSUME NEW B, Typed(B), Sliced(B), NEW C, Len(C.ssas) = Len(B.ssas) + 1,
           \A t \in SsaIds(B) : C.ssas[t] = B.ssas[t],
           C.phi_lists = B.phi_lists,
           \/ C.phi_start = B.phi_start /\ C.ssas[Len(C.ssas)].op # "phi"
           \/ /\ B.phi_start # NULL /\ C.phi_start = NULL
              /\ PhiSlice(C, Len(C.ssas)) = B.phi_start..Len(B.phi_lists)
              /\ B.phi_start <= Len(B.phi_lists)
    PROVE  Sliced(C)
<1> DEFINE n == Len(B.ssas) + 1
<1>1. /\ Len(B.ssas) \in Nat /\ Len(B.phi_lists) \in Nat
      /\ B.phi_start \in 0..Len(B.phi_lists) + 1
  BY LengthType DEF Typed, PointersInBounds
<1>2. SsaIds(C) = SsaIds(B) \cup {n} /\ SsaIds(B) = 1..n - 1 /\ n \in Nat
  BY <1>1 DEF SsaIds
<1>3. Len(C.ssas) = n /\ n \notin SsaIds(B) BY <1>1 DEF SsaIds
<1> HIDE DEF n
<1>4. \A t \in SsaIds(B) : PhiSlice(C, t) = PhiSlice(B, t)
  BY Zenon DEF PhiSlice
<1>5. Phis(B) \subseteq SsaIds(B) /\ Phis(C) \subseteq Phis(B) \cup {n}
      /\ (n \in Phis(C) => C.ssas[n].op = "phi")
  BY <1>2, Zenon DEF Phis
<1>6. \A k \in 1..Len(C.phi_lists) : C.phi_lists[k] \in SsaIds(C)
  BY <1>2 DEF Sliced
<1>7. ASSUME NEW s \in Phis(B)
      PROVE  /\ PhiSlice(C, s) # {} /\ PhiSlice(C, s) \subseteq 1..Len(C.phi_lists)
             /\ \A k \in PhiSlice(C, s) : C.phi_lists[k] \in 1..s - 1
             /\ C.phi_start # NULL => \A k \in PhiSlice(C, s) : k < C.phi_start
             /\ \A t \in Phis(B) : t # s => PhiSlice(C, s) \cap PhiSlice(C, t) = {}
             /\ n \in Phis(C) => PhiSlice(C, s) \cap PhiSlice(C, n) = {}
  <2>1. /\ PhiSlice(B, s) # {} /\ PhiSlice(B, s) \subseteq 1..Len(B.phi_lists)
        /\ \A k \in PhiSlice(B, s) : B.phi_lists[k] \in 1..s - 1
        /\ B.phi_start # NULL => \A k \in PhiSlice(B, s) : k < B.phi_start
        /\ \A t \in Phis(B) : t # s => PhiSlice(B, s) \cap PhiSlice(B, t) = {}
    BY Zenon DEF Sliced, PhisOwnTheirSlice
  <2>2. PhiSlice(C, s) = PhiSlice(B, s) /\ \A t \in Phis(B) : PhiSlice(C, t) = PhiSlice(B, t)
    BY <1>4, <1>5
  <2>3. C.phi_start # NULL => \A k \in PhiSlice(B, s) : k < C.phi_start
    BY <2>1, Zenon
  <2>4. ASSUME n \in Phis(C) PROVE PhiSlice(B, s) \cap PhiSlice(C, n) = {}
    <3>1. /\ B.phi_start # NULL /\ PhiSlice(C, n) = B.phi_start..Len(B.phi_lists)
      BY <1>3, <1>5, <2>4, Zenon
    <3>2. \A k \in PhiSlice(B, s) : k \in Nat /\ k < B.phi_start BY <2>1, <3>1
    <3> QED BY <1>1, <3>1, <3>2
  <2> QED BY <2>1, <2>2, <2>3, <2>4, Zenon
<1>8. ASSUME n \in Phis(C)
      PROVE  /\ PhiSlice(C, n) # {} /\ PhiSlice(C, n) \subseteq 1..Len(C.phi_lists)
             /\ \A k \in PhiSlice(C, n) : C.phi_lists[k] \in 1..n - 1
             /\ C.phi_start # NULL => \A k \in PhiSlice(C, n) : k < C.phi_start
  <2>1. /\ C.phi_start = NULL /\ B.phi_start # NULL
        /\ PhiSlice(C, n) = B.phi_start..Len(B.phi_lists)
        /\ B.phi_start <= Len(B.phi_lists)
    BY <1>3, <1>5, <1>8, Zenon
  <2>2. PhiSlice(C, n) # {} /\ PhiSlice(C, n) \subseteq 1..Len(B.phi_lists)
    BY <1>1, <2>1 DEF NULL
  <2> QED BY <1>2, <2>1, <2>2 DEF Sliced
<1>9. PhisOwnTheirSlice(C)
  <2>1. ASSUME NEW s \in Phis(C)
        PROVE  /\ PhiSlice(C, s) # {} /\ PhiSlice(C, s) \subseteq 1..Len(C.phi_lists)
               /\ \A k \in PhiSlice(C, s) : C.phi_lists[k] \in 1..s - 1
               /\ C.phi_start # NULL => \A k \in PhiSlice(C, s) : k < C.phi_start
    BY <1>5, <1>7, <1>8
  <2>2. ASSUME NEW s \in Phis(C), NEW t \in Phis(C), t # s
        PROVE  PhiSlice(C, s) \cap PhiSlice(C, t) = {}
    <3>1. CASE s \in Phis(B) /\ t \in Phis(B) BY <1>7, <2>2, <3>1, Zenon
    <3>2. CASE s \in Phis(B) /\ t = n BY <1>7, <2>2, <3>2, Zenon
    <3>3. CASE s = n /\ t \in Phis(B) BY <1>7, <2>2, <3>3
    <3> QED BY <1>5, <2>2, <3>1, <3>2, <3>3
  <2> QED BY <2>1, <2>2, Zenon DEF PhisOwnTheirSlice
<1> QED BY <1>6, <1>9, Zenon DEF Sliced

LEMMA CheckedSliced ==
    ASSUME NEW B, Typed(B), Sliced(B), NEW ok, NEW why \in failure, NEW next,
           ok => Sliced(next)
    PROVE  Sliced(Checked(B, ok, why, next))
<1>1. B \in builder /\ SamePhis(B, B) BY DEF Typed, SamePhis
<1>2. Sliced([B EXCEPT !.fault = why]) BY <1>1, SamePhisUpdates, SameSliced, Zenon
<1> QED BY <1>2, Zenon DEF Checked, Then

LEMMA emitSliced ==
    ASSUME NEW B, Typed(B), Sliced(B), NEW o \in opcode, o # "phi", NEW flags \in SUBSET ssa_prop,
           NEW left \in Nat, NEW right \in Nat
    PROVE  Sliced(emit(B, o, flags, left, right))
<1> DEFINE s == [op |-> o, flags |-> flags, block |-> B.current_block,
                 left |-> left, right |-> right]
           C == [B EXCEPT !.ssas = Append(@, s)]
<1>1. s \in ssa /\ s.op = o /\ s.block \in 0..Len(B.blocks)
  BY DEF Typed, PointersInBounds, builder, ssa
<1> HIDE DEF s
<1>6. C = [B EXCEPT !.ssas = Append(@, s)] OBVIOUS
<1> HIDE DEF C
<1>2. SsaAppended(B, s, C) /\ C.phi_lists = B.phi_lists
  BY <1>1, <1>6, AppendingSsa, Zenon DEF Typed, builder
<1>3. Sliced(C) BY <1>1, <1>2, AppendedSliced, Zenon DEF SsaAppended, SameMode
<1>4. /\ "Arena reached max capacity" \in failure /\ "current_block != NULL" \in failure
      /\ "current_block->br == block_br::UNUSED" \in failure
  BY DEF failure
<1>5. Sliced(alloc_ssa(B, s)) BY <1>3, <1>4, CheckedSliced, Zenon DEF alloc_ssa, C
<1> QED BY <1>4, <1>5, CheckedSliced, Zenon DEF emit, InOpenBlock, InBlock, s

LEMMA InstructionsSliced ==
    ASSUME NEW B, Typed(B), Sliced(B), NEW l \in Nat, NEW r \in Nat
    PROVE  /\ Sliced(DBG(B)) /\ Sliced(nop(B)) /\ Sliced(literal(B, l))
           /\ Sliced(add(B, l, r)) /\ Sliced(sub(B, l, r)) /\ Sliced(ret(B, l))
<1>1. /\ {"dbg", "nop", "i", "add", "sub", "ret"} \subseteq opcode \ {"phi"}
      /\ {"no_value"} \in SUBSET ssa_prop /\ {"const_val"} \in SUBSET ssa_prop
      /\ {} \in SUBSET ssa_prop /\ NULL \in Nat /\ 0 \in Nat
  BY DEF opcode, ssa_prop, NULL
<1>2. \A o \in {"dbg", "nop", "i", "add", "sub", "ret"}, flags \in SUBSET ssa_prop, x, y \in Nat :
         Sliced(emit(B, o, flags, x, y))
  BY <1>1, emitSliced, Zenon
<1>3. Sliced(ret(B, l))
  <2> DEFINE B1 == emit(B, "ret", {"no_value"}, l, NULL)
  <2>1. Sliced(B1) /\ B1 \in builder /\ SamePhis(B1, B1)
    BY <1>1, <1>2, emitExtends DEF Extends, Typed, SamePhis
  <2> HIDE DEF B1
  <2>2. \A x, y : Sliced(WithBlock(B1, x, y)) BY <2>1, SamePhisUpdates, SameSliced, Zenon
  <2> QED BY <2>1, <2>2, Zenon DEF ret, B1, Then
<1> QED BY <1>1, <1>2, <1>3 DEF DBG, nop, literal, add, sub

\* The list in progress starts after every list, and grows at the end.
LEMMA start_phiSliced ==
    ASSUME NEW B, Typed(B), Sliced(B)
    PROVE  Sliced(start_phi(B))
<1> DEFINE n == Len(B.phi_lists) + 1
           C == [B EXCEPT !.phi_start = n]
<1>1. B \in builder /\ Len(B.phi_lists) \in Nat BY LengthType DEF Typed
<1>2. C.ssas = B.ssas /\ C.phi_lists = B.phi_lists /\ C.phi_start = n
  BY <1>1, Zenon DEF builder
<1> HIDE DEF C
<1>3. SsaIds(C) = SsaIds(B) BY <1>2, Zenon DEF SsaIds
<1>4. Phis(C) = Phis(B) /\ \A s : PhiSlice(C, s) = PhiSlice(B, s)
  BY <1>2, <1>3, Zenon DEF Phis, PhiSlice
<1>5. \A k \in 1..Len(B.phi_lists) : k < n BY <1>1
<1>6. \A s \in Phis(B) : \A k \in PhiSlice(B, s) : k < n
  BY <1>5, Zenon DEF Sliced, PhisOwnTheirSlice
<1>7. Sliced(C)
  <2>1. PhisOwnTheirSlice(B) /\ \A k \in 1..Len(B.phi_lists) : B.phi_lists[k] \in SsaIds(B)
    BY DEF Sliced
  <2>2. PhisOwnTheirSlice(C) BY <1>2, <1>4, <1>6, <2>1 DEF PhisOwnTheirSlice
  <2> QED BY <1>2, <1>3, <2>1, <2>2, Zenon DEF Sliced
<1>8. "phi_start == NULL" \in failure BY DEF failure
<1> QED BY <1>7, <1>8, CheckedSliced, Zenon DEF start_phi, C

LEMMA push_phiSliced ==
    ASSUME NEW B, Typed(B), Sliced(B), NEW s \in SsaIds(B)
    PROVE  Sliced(push_phi(B, s))
<1> DEFINE lists == Append(B.phi_lists, s)
           C == [B EXCEPT !.phi_lists = lists]
<1>1. /\ B \in builder /\ B.phi_lists \in Seq(Nat) /\ Len(B.phi_lists) \in Nat /\ s \in Nat
  BY FieldType, LengthType DEF Typed, SsaIds
<1>2. /\ Len(lists) = Len(B.phi_lists) + 1 /\ lists[Len(B.phi_lists) + 1] = s
      /\ \A k \in 1..Len(B.phi_lists) : lists[k] = B.phi_lists[k]
  BY <1>1
<1>3. C.ssas = B.ssas /\ C.phi_lists = lists /\ C.phi_start = B.phi_start
  BY <1>1, Zenon DEF builder
<1> HIDE DEF lists
<1>4. /\ 1..Len(B.phi_lists) \subseteq 1..Len(lists)
      /\ \A k \in 1..Len(lists) : k \in 1..Len(B.phi_lists) \/ k = Len(B.phi_lists) + 1
  BY <1>1, <1>2
<1> HIDE DEF C
<1>5. SsaIds(C) = SsaIds(B) BY <1>3, Zenon DEF SsaIds
<1>6. Phis(C) = Phis(B) /\ \A t : PhiSlice(C, t) = PhiSlice(B, t)
  BY <1>3, <1>5, Zenon DEF Phis, PhiSlice
<1>7. \A k \in 1..Len(lists) : lists[k] \in SsaIds(B) BY <1>2, <1>4, Zenon DEF Sliced
<1>8. \A t \in Phis(B) : \A k \in PhiSlice(B, t) : lists[k] = B.phi_lists[k]
  BY <1>2, Zenon DEF Sliced, PhisOwnTheirSlice
<1>9. \A t \in Phis(B) : PhiSlice(B, t) \subseteq 1..Len(lists)
  BY <1>4, Zenon DEF Sliced, PhisOwnTheirSlice
<1>10. PhisOwnTheirSlice(C)
  BY <1>3, <1>6, <1>8, <1>9, Zenon DEF Sliced, PhisOwnTheirSlice
<1>11. Sliced(C) BY <1>3, <1>5, <1>7, <1>10, Zenon DEF Sliced
<1>12. "phi_start != NULL" \in failure /\ "Arena reached max capacity" \in failure
  BY DEF failure
<1> QED BY <1>11, <1>12, CheckedSliced, Zenon DEF push_phi, C, lists

\* The phi takes the list in progress, which names older instructions only.
LEMMA end_phiSliced ==
    ASSUME NEW B, Typed(B), Sliced(B)
    PROVE  Sliced(end_phi(B))
<1> DEFINE size == Len(B.phi_lists) + 1 - B.phi_start
           s    == [op |-> "phi", flags |-> {}, block |-> B.current_block,
                    left |-> B.phi_start, right |-> size]
           B1   == [B EXCEPT !.ssas = Append(@, s)]
           C    == [B1 EXCEPT !.phi_start = NULL]
           full == [B EXCEPT !.fault = "Arena reached max capacity"]
<1>1. ASSUME size > 0, B.phi_start # NULL PROVE Sliced(C)
  <2>1. /\ B.phi_start \in Nat /\ B.phi_start <= Len(B.phi_lists) /\ size \in Nat
        /\ Len(B.phi_lists) \in Nat
        /\ B.phi_start..B.phi_start + size - 1 = B.phi_start..Len(B.phi_lists)
    BY <1>1, LengthType, SMTT(30) DEF Typed, PointersInBounds
  <2> HIDE DEF size
  <2>2. s \in ssa /\ s.block \in 0..Len(B.blocks) /\ s.left = B.phi_start /\ s.right = size
    BY <2>1 DEF Typed, PointersInBounds, builder, ssa, opcode
  <2> HIDE DEF s
  <2>3. B1 = [B EXCEPT !.ssas = Append(@, s)] OBVIOUS
  <2> HIDE DEF B1
  <2>4. /\ B1 \in builder /\ B1.phi_lists = B.phi_lists
        /\ Len(B1.ssas) = Len(B.ssas) + 1 /\ B1.ssas[Len(B.ssas) + 1] = s
        /\ \A t \in SsaIds(B) : B1.ssas[t] = B.ssas[t]
    <3>1. SsaAppended(B, s, B1) BY <2>2, <2>3, AppendingSsa, Zenon
    <3> QED BY <2>3, <3>1, Zenon DEF SsaAppended, Typed, builder
  <2>5. C.ssas = B1.ssas /\ C.phi_lists = B1.phi_lists /\ C.phi_start = NULL
    BY <2>4, Zenon DEF builder
  <2> HIDE DEF C
  <2>6. PhiSlice(C, Len(C.ssas)) = B.phi_start..Len(B.phi_lists)
    BY <2>1, <2>2, <2>4, <2>5, Zenon DEF PhiSlice
  <2> QED BY <1>1, <2>1, <2>4, <2>5, <2>6, AppendedSliced
<1>2. /\ "phi_start != NULL" \in failure /\ "size > 0" \in failure
      /\ "Arena reached max capacity" \in failure
  BY DEF failure
<1>3. B \in builder /\ SamePhis(B, B) BY DEF Typed, SamePhis
<1>4. Sliced(full) /\ full.fault # NoFault
  <2>1. full.fault = "Arena reached max capacity" BY <1>3, Zenon DEF builder
  <2>2. Sliced(full) BY <1>3, SamePhisUpdates, SameSliced, Zenon
  <2> QED BY <2>1, <2>2 DEF NoFault
<1> DEFINE B2 == alloc_ssa(B, s)
<1>5. \/ B2 = B1 /\ B1.fault = NoFault
      \/ B2 = full
      \/ B2 = B /\ B.fault # NoFault
  BY <1>3, Zenon DEF alloc_ssa, Checked, Then, builder
<1> HIDE DEF C, B1, B2, full, s, size
<1>6. ASSUME size > 0, B.phi_start # NULL
      PROVE  Sliced(Then(B2, [B2 EXCEPT !.phi_start = NULL]))
  <2>1. CASE B2 = B1 /\ B1.fault = NoFault BY <1>1, <1>6, <2>1, Zenon DEF Then, C
  <2>2. CASE B2 = full BY <1>4, <2>2, Zenon DEF Then
  <2>3. CASE B2 = B /\ B.fault # NoFault BY <2>3, Zenon DEF Then
  <2> QED BY <1>5, <2>1, <2>2, <2>3
<1>7. ASSUME B.phi_start # NULL
      PROVE  Sliced(Checked(B, size > 0, "size > 0",
                            Then(B2, [B2 EXCEPT !.phi_start = NULL])))
  BY <1>2, <1>6, <1>7, CheckedSliced, Zenon
<1> QED BY <1>2, <1>7, CheckedSliced, Zenon DEF end_phi, B2, s, size

-----------------------------------------------------------------------------
LEMMA NewBuilderSliced ==
    Sliced(NewBuilder) /\ \A why \in failure : Sliced([NewBuilder EXCEPT !.fault = why])
<1>1. NewBuilder.ssas = <<>> /\ NewBuilder.phi_lists = <<>> BY DEF NewBuilder
<1>2. Sliced(NewBuilder) BY <1>1 DEF Sliced, PhisOwnTheirSlice, Phis, SsaIds
<1>3. NewBuilder \in builder /\ SamePhis(NewBuilder, NewBuilder)
  BY NewBuilderTyped DEF Typed, SamePhis
<1> QED BY <1>2, <1>3, SamePhisUpdates, SameSliced, Zenon

=============================================================================
