---------------------------- MODULE InterpProofs -----------------------------
(***************************************************************************)
(* Proofs about the interpreter, for every width of a value and for any    *)
(* code of the right shape: as many blocks and instructions as one likes,  *)
(* with any operands and any loops.                                        *)
(***************************************************************************)
EXTENDS MCInterp, WellFoundedInduction, TLAPS

Kinds    == {"UNUSED", "unconditional"} \cup Conditions
Ops      == {"i", "add", "sub", "mul", "div", "phi", "ret", "nop", "dbg"}
Slots(c) == 1..Len(c.ssas)

\* What ir::builder makes of any sequence of calls, and more: a block without
\* instructions has no head, any other a range of its own (RangesExact,
\* in IrBuilderProofs), and a branch goes to blocks.  Operands are anything.
ShapedBlock(c, b) ==
    /\ b.br \in Kinds
    /\ b.block_true \in 0..Len(c.blocks) /\ b.block_false \in 0..Len(c.blocks)
    /\ b.head # NULL => b.head \in Slots(c) /\ b.next \in Slots(c) /\ b.head <= b.next

ShapedIns(c, i) ==
    /\ i.op \in Ops
    /\ i.op = "i"   => i.left \in Nat
    /\ i.op = "ret" => i.left \in 0..Len(c.ssas)

OwnRange(c, b, d) ==
    c.blocks[b].head # NULL /\ c.blocks[d].head # NULL =>
        c.blocks[b].next < c.blocks[d].head \/ c.blocks[d].next < c.blocks[b].head

Shaped(c) ==
    /\ Len(c.blocks) \in Nat /\ Len(c.ssas) \in Nat
    /\ \A b, d \in 1..Len(c.blocks) : b # d => OwnRange(c, b, d)
    /\ \A b \in 1..Len(c.blocks) : ShapedBlock(c, c.blocks[b])
    /\ \A s \in Slots(c) : ShapedIns(c, c.ssas[s])

Typed(c, values) == values \in [Slots(c) -> Value \cup {Unset}]

\* The inductive invariant: between two blocks there are values to read.
IInv ==
    /\ Shaped(ir)
    /\ ctx \in [block : 0..Len(ir.blocks), return_value : 0..Len(ir.ssas)]
    /\ ssa_values # <<>> => Typed(ir, ssa_values)
    /\ ctx.block # NULL => Typed(ir, ssa_values)
    /\ cur \in 0..Len(ir.blocks)
    /\ pc # NULL => /\ Typed(ir, ssa_values) /\ ctx.block = NULL /\ cur # NULL
                    /\ ir.blocks[cur].head # NULL
                    /\ pc \in ir.blocks[cur].head .. ir.blocks[cur].next + 1

-----------------------------------------------------------------------------
(***************************************************************************)
(* Numbers of a width.                                                     *)
(***************************************************************************)
LEMMA LeastNumber ==
    ASSUME NEW N \in SUBSET Nat, N # {}
    PROVE  \E n \in N : \A m \in N : n <= m
<1> DEFINE R == {ss \in Nat \X Nat : ss[1] < ss[2]}
<1>1. IsWellFoundedOn(R, Nat) BY NatLessThanWellFounded DEF OpToRel
<1>2. \A n, m \in Nat : <<n, m>> \in R <=> n < m OBVIOUS
<1> HIDE DEF R
<1>3. PICK n \in N : \A m \in N : ~ (<<m, n>> \in R) BY <1>1, WFMin
<1>4. \A m \in N : m \in Nat /\ n \in Nat /\ ~ (m < n) BY <1>2, <1>3
<1>5. \A m \in N : n <= m BY <1>4
<1> QED BY <1>5

LEMMA Given == \A n \in Nat : \A k : k \in 0..n /\ k # NULL => k \in 1..n
BY DEF NULL

LEMMA Remainder == \A i \in Int : i % Modulus \in Value
BY ModulusAssumption DEF Value

LEMMA Quotient == \A l \in Value, r \in Value : r # 0 => l \div r \in Value
<1> SUFFICES ASSUME NEW l \in Value, NEW r \in Value, r # 0 PROVE l \div r \in Value
  OBVIOUS
<1>1. l \in Nat /\ r \in Nat /\ r >= 1 /\ Modulus \in Nat BY ModulusAssumption DEF Value
<1> DEFINE q == l \div r
<1>2. q \in Nat /\ r * q <= l BY <1>1
<1>3. q <= r * q BY <1>1, <1>2
<1> HIDE DEF q
<1>4. q <= l BY <1>1, <1>2, <1>3
<1> QED BY <1>1, <1>2, <1>4 DEF Value, q

LEMMA Values ==
    /\ Unset \notin Value /\ Default \in Value /\ Value \subseteq Int /\ 0 \in Value
    /\ \A v \in Value : v # 0 <=> v > 0
BY ModulusAssumption DEF Value, Unset, Default

\* One multiple of Modulus, at most, is taken off or put on.
LEMMA SmallRemainder ==
    \A i \in Int : /\ 0 <= i /\ i < Modulus => i % Modulus = i
                   /\ -Modulus <= i /\ i < 0 => i % Modulus = i + Modulus
                   /\ Modulus <= i /\ i < 2 * Modulus => i % Modulus = i - Modulus
BY ModulusAssumption

LEMMA SubtractionUndone ==
    ASSUME NEW l \in Value, NEW r \in Value
    PROVE  (((l - r) % Modulus) + r) % Modulus = l
<1>1. l \in Nat /\ r \in Nat /\ l < Modulus /\ r < Modulus /\ Modulus \in Nat
  BY ModulusAssumption DEF Value
<1> DEFINE v == (l - r) % Modulus
<1>2. CASE l >= r
  <2>1. v = l - r BY <1>1, <1>2, SmallRemainder
  <2> HIDE DEF v
  <2>2. v + r = l BY <1>1, <2>1
  <2> QED BY <1>1, <2>2, SmallRemainder DEF v
<1>3. CASE l < r
  <2>1. v = l - r + Modulus BY <1>1, <1>3, SmallRemainder
  <2> HIDE DEF v
  <2>2. v + r = l + Modulus /\ v + r \in Int BY <1>1, <2>1
  <2>3. (v + r) % Modulus = (v + r) - Modulus BY <1>1, <2>2, SmallRemainder
  <2>4. (v + r) % Modulus = l BY <1>1, <2>2, <2>3
  <2> QED BY <2>4 DEF v
<1> QED BY <1>1, <1>2, <1>3

LEMMA QuotientBounds ==
    ASSUME NEW l \in Value, NEW r \in Value, r # 0
    PROVE  r * (l \div r) <= l /\ l < r * ((l \div r) + 1)
BY ModulusAssumption DEF Value

\* What Arithmetic computes
Result(op, l, r) == CASE op = "add" -> (l + r) % Modulus
                      [] op = "sub" -> (l - r) % Modulus
                      [] op = "mul" -> (l * r) % Modulus
                      [] op = "div" -> l \div r

LEMMA ResultSolves ==
    ASSUME NEW op \in {"add", "sub", "mul", "div"}, NEW l \in Value, NEW r \in Value,
           ~ (op = "div" /\ r = 0)
    PROVE  Result(op, l, r) \in Value /\ Equation(op, Result(op, l, r), l, r)
<1>1. l \in Int /\ r \in Int BY Values
<1>2. /\ (l + r) % Modulus \in Value /\ (l - r) % Modulus \in Value
      /\ (l * r) % Modulus \in Value
  <2>1. l + r \in Int /\ l - r \in Int /\ l * r \in Int BY <1>1
  <2> QED BY <2>1, Remainder
<1>3. CASE op = "add" BY <1>2, <1>3 DEF Equation, Result
<1>4. CASE op = "sub" BY <1>2, <1>4, SubtractionUndone DEF Equation, Result
<1>5. CASE op = "mul" BY <1>2, <1>5 DEF Equation, Result
<1>6. CASE op = "div"
  <2>1. l \div r \in Value BY <1>6, Quotient
  <2>2. r * (l \div r) <= l /\ l < r * ((l \div r) + 1) BY <1>6, QuotientBounds
  <2> QED BY <1>6, <2>1, <2>2 DEF Equation, Result
<1> QED BY <1>3, <1>4, <1>5, <1>6

LEMMA OperandValue ==
    ASSUME Typed(ir, ssa_values)
    PROVE  /\ \A s : has_value(s) => ssa_values[s] \in Value
           /\ \A s : operand(s) \in Value
BY Values DEF Typed, operand, has_value

-----------------------------------------------------------------------------
(***************************************************************************)
(* Within a block.                                                         *)
(***************************************************************************)
\* The interpreter is at an instruction of the block it is in.
Inside == IInv /\ fault = NoFault /\ pc # NULL /\ pc <= ir.blocks[cur].next

LEMMA InsideFacts ==
    ASSUME Inside
    PROVE  /\ Typed(ir, ssa_values) /\ ctx.block = NULL
           /\ pc \in Slots(ir) /\ ShapedIns(ir, instruction)
           /\ pc + 1 # NULL /\ pc + 1 \in ir.blocks[cur].head .. ir.blocks[cur].next + 1
<1>1. /\ Shaped(ir) /\ cur \in 1..Len(ir.blocks) /\ ir.blocks[cur].head # NULL
      /\ pc \in ir.blocks[cur].head .. ir.blocks[cur].next + 1
      /\ Typed(ir, ssa_values) /\ ctx.block = NULL
  BY DEF Inside, IInv, Shaped, NULL
<1>2. ShapedBlock(ir, ir.blocks[cur]) /\ Len(ir.ssas) \in Nat BY <1>1 DEF Shaped
<1>3. pc \in Slots(ir) BY <1>1, <1>2 DEF Inside, ShapedBlock, Slots
<1>4. ShapedIns(ir, instruction) BY <1>1, <1>3 DEF Shaped, instruction
<1>5. pc + 1 # NULL /\ pc + 1 \in ir.blocks[cur].head .. ir.blocks[cur].next + 1
  BY <1>1, <1>2, <1>3 DEF Inside, ShapedBlock, Slots, NULL
<1> QED BY <1>1, <1>3, <1>4, <1>5

\* The argument a phi takes has a value.
LEMMA PhiValue ==
    ASSUME Inside, NEW list, Computed(list) # {}
    PROVE  ssa_values[list[PhiChoice(list)]] \in Value
<1>1. PhiChoice(list) \in Computed(list)
  <2>1. Computed(list) \in SUBSET Nat BY DEF Computed
  <2>2. \E k \in Computed(list) : \A j \in Computed(list) : k <= j BY <2>1, LeastNumber
  <2> QED BY <2>2 DEF PhiChoice
<1>2. has_value(list[PhiChoice(list)]) BY <1>1 DEF Computed
<1> QED BY <1>2, InsideFacts, OperandValue

\* A failed assertion changes nothing else.
LEMMA FailureKeeps ==
    ASSUME IInv, NEW why, why # NoFault, Fails(why), UNCHANGED ir
    PROVE  IInv'
BY DEF IInv, Fails

LEMMA AdvanceKeeps ==
    ASSUME Inside, pc' = pc + 1, UNCHANGED <<ir, fault, cur>>, Typed(ir, ssa_values'),
           ctx' \in [block : 0..Len(ir.blocks), return_value : 0..Len(ir.ssas)],
           ctx'.block = NULL
    PROVE  IInv'
<1>1. pc + 1 # NULL /\ pc + 1 \in ir.blocks[cur].head .. ir.blocks[cur].next + 1
  BY InsideFacts
<1>2. /\ Shaped(ir') /\ cur' \in 0..Len(ir'.blocks) /\ cur' # NULL
      /\ ir'.blocks[cur'].head # NULL
  BY DEF Inside, IInv
<1> QED BY <1>1, <1>2 DEF IInv

LEMMA DefineKeeps ==
    ASSUME Inside, NEW v \in Value, Define(v), UNCHANGED ir
    PROVE  IInv'
<1>1. CASE has_value(pc)
  <2>1. Fails("Attempt to add duplicate key") BY <1>1 DEF Define
  <2> QED BY <2>1, FailureKeeps DEF Inside, NoFault
<1>2. CASE ~ has_value(pc)
  <2>1. /\ ssa_values' = [ssa_values EXCEPT ![pc] = v] /\ pc' = pc + 1
        /\ UNCHANGED <<fault, ctx, cur>>
    BY <1>2 DEF Define
  <2>2. Typed(ir, ssa_values') BY <2>1, InsideFacts DEF Typed
  <2>3. /\ ctx \in [block : 0..Len(ir.blocks), return_value : 0..Len(ir.ssas)]
        /\ ctx.block = NULL
    BY InsideFacts DEF Inside, IInv
  <2> QED BY <2>1, <2>2, <2>3, AdvanceKeeps
<1> QED BY <1>1, <1>2

LEMMA LiteralKeeps == ASSUME IInv, Literal PROVE IInv'
<1>1. Inside /\ UNCHANGED ir /\ instruction.op = "i" /\ Define(instruction.left % Modulus)
  BY DEF Literal, At, Inside
<1>2. instruction.left \in Int BY <1>1, InsideFacts DEF ShapedIns
<1> QED BY <1>1, <1>2, Remainder, DefineKeeps

LEMMA ArithmeticKeeps == ASSUME IInv, Arithmetic PROVE IInv'
<1> DEFINE l == operand(instruction.left)
           r == operand(instruction.right)
           v == Result(instruction.op, l, r)
           zero == instruction.op = "div" /\ r = 0
<1>1. /\ Inside /\ UNCHANGED ir /\ instruction.op \in {"add", "sub", "mul", "div"}
      /\ IF zero THEN Fails("SIGFPE") ELSE Define(v)
  BY DEF Arithmetic, At, Inside, Result
<1>2. CASE zero
  <2>1. Fails("SIGFPE") BY <1>1, <1>2
  <2> QED BY <1>1, <2>1, FailureKeeps DEF NoFault
<1>3. CASE ~ zero
  <2>1. l \in Value /\ r \in Value BY <1>1, InsideFacts, OperandValue
  <2> HIDE DEF l, r
  <2>2. v \in Value BY <1>1, <1>3, <2>1, ResultSolves
  <2>3. Define(v) BY <1>1, <1>3
  <2> HIDE DEF v
  <2> QED BY <1>1, <2>2, <2>3, DefineKeeps
<1> QED BY <1>2, <1>3

LEMMA PhiKeeps == ASSUME IInv, Phi PROVE IInv'
<1> DEFINE list == SubSeq(ir.phi_lists, instruction.left,
                          instruction.left + instruction.right - 1)
<1>1. /\ Inside /\ UNCHANGED ir
      /\ \/ \E why \in {"x != NULL", "found_phi"} : Fails(why)
         \/ Computed(list) # {} /\ Define(ssa_values[list[PhiChoice(list)]])
  BY DEF Phi, At, Inside
<1> HIDE DEF list
<1>2. ASSUME NEW why \in {"x != NULL", "found_phi"}, Fails(why) PROVE IInv'
  BY <1>1, <1>2, FailureKeeps DEF NoFault
<1>3. ASSUME Computed(list) # {}, Define(ssa_values[list[PhiChoice(list)]]) PROVE IInv'
  <2>1. ssa_values[list[PhiChoice(list)]] \in Value BY <1>1, <1>3, PhiValue
  <2> QED BY <1>1, <1>3, <2>1, DefineKeeps
<1> QED BY <1>1, <1>2, <1>3

LEMMA ReturnKeeps == ASSUME IInv, Return PROVE IInv'
<1>1. /\ Inside /\ UNCHANGED <<ir, fault, cur, ssa_values>> /\ instruction.op = "ret"
      /\ pc' = pc + 1 /\ ctx' = [ctx EXCEPT !.return_value = instruction.left]
  BY DEF Return, At, Inside
<1>2. instruction.left \in 0..Len(ir.ssas) /\ ctx.block = NULL /\ Typed(ir, ssa_values)
  BY <1>1, InsideFacts DEF ShapedIns
<1>3. ctx \in [block : 0..Len(ir.blocks), return_value : 0..Len(ir.ssas)] BY DEF IInv
<1>4. /\ ctx' \in [block : 0..Len(ir.blocks), return_value : 0..Len(ir.ssas)]
      /\ ctx'.block = NULL
  BY <1>1, <1>2, <1>3
<1> QED BY <1>1, <1>2, <1>4, AdvanceKeeps

LEMMA SkipKeeps == ASSUME IInv, Skip PROVE IInv'
<1>1. Inside /\ UNCHANGED <<ir, fault, ctx, cur, ssa_values>> /\ pc' = pc + 1
  BY DEF Skip, At, Inside
<1>2. ctx.block = NULL /\ Typed(ir, ssa_values) BY <1>1, InsideFacts
<1>3. ctx \in [block : 0..Len(ir.blocks), return_value : 0..Len(ir.ssas)] BY DEF IInv
<1> QED BY <1>1, <1>2, <1>3, AdvanceKeeps

-----------------------------------------------------------------------------
(***************************************************************************)
(* Between blocks, and between execs.                                      *)
(***************************************************************************)
LEMMA EnterKeeps == ASSUME IInv, Enter PROVE IInv'
<1> DEFINE b == ir.blocks[ctx.block]
<1>1. /\ pc = NULL /\ ctx.block # NULL /\ UNCHANGED ir
      /\ IF b.head = NULL THEN Fails("ctx.block->head != NULL")
         ELSE /\ cur' = ctx.block /\ pc' = b.head /\ ctx' = [ctx EXCEPT !.block = NULL]
              /\ UNCHANGED <<fault, ssa_values>>
  BY DEF Enter
<1>2. CASE b.head = NULL
  <2>1. Fails("ctx.block->head != NULL") BY <1>1, <1>2
  <2> QED BY <1>1, <2>1, FailureKeeps DEF NoFault
<1>3. CASE b.head # NULL
  <2>1. /\ cur' = ctx.block /\ pc' = b.head /\ ctx' = [ctx EXCEPT !.block = NULL]
        /\ UNCHANGED <<ir, fault, ssa_values>>
    BY <1>1, <1>3
  <2>2. /\ Shaped(ir) /\ Typed(ir, ssa_values) /\ Len(ir.blocks) \in Nat
        /\ ctx \in [block : 0..Len(ir.blocks), return_value : 0..Len(ir.ssas)]
    BY <1>1 DEF IInv, Shaped
  <2>3. ctx.block \in 1..Len(ir.blocks) /\ ctx.block \in 0..Len(ir.blocks)
    <3>1. ctx.block \in 0..Len(ir.blocks) BY <2>2
    <3> QED BY <1>1, <2>2, <3>1, Given
  <2>4. b.head \in Slots(ir) /\ b.next \in Slots(ir) /\ b.head <= b.next
    BY <1>3, <2>2, <2>3 DEF Shaped, ShapedBlock
  <2> HIDE DEF b
  <2>5. b.head # NULL /\ b.head \in b.head .. b.next + 1 BY <2>4 DEF Slots, NULL
  <2>6. pc' # NULL /\ ctx'.block = NULL /\ ir'.blocks[cur'] = b
        /\ ctx' \in [block : 0..Len(ir.blocks), return_value : 0..Len(ir.ssas)]
    BY <2>1, <2>2, <2>5 DEF b, NULL
  <2> QED BY <1>1, <2>1, <2>2, <2>3, <2>5, <2>6 DEF IInv
<1> QED BY <1>2, <1>3

LEMMA LeaveKeeps == ASSUME IInv, Leave PROVE IInv'
<1> DEFINE b == ir.blocks[cur]
           goto(t) == /\ ctx' = [ctx EXCEPT !.block = t] /\ pc' = NULL
                      /\ UNCHANGED <<fault, cur, ssa_values>>
<1>1. /\ pc # NULL /\ UNCHANGED ir
      /\ \/ \E why \in {"Invalid block branch", "ssa_values.try_get(block->next)"} : Fails(why)
         \/ \E t \in {b.block_true, b.block_false} : goto(t)
  BY DEF Leave
<1>2. ASSUME NEW why \in {"Invalid block branch", "ssa_values.try_get(block->next)"}, Fails(why)
      PROVE  IInv'
  BY <1>1, <1>2, FailureKeeps DEF NoFault
<1>3. ASSUME NEW t \in {b.block_true, b.block_false}, goto(t) PROVE IInv'
  <2>1. /\ Shaped(ir) /\ Typed(ir, ssa_values) /\ cur # NULL /\ cur \in 0..Len(ir.blocks)
        /\ ctx \in [block : 0..Len(ir.blocks), return_value : 0..Len(ir.ssas)]
    BY <1>1 DEF IInv
  <2>2. cur \in 1..Len(ir.blocks) BY <2>1, Given DEF Shaped
  <2>3. b.block_true \in 0..Len(ir.blocks) /\ b.block_false \in 0..Len(ir.blocks)
    BY <2>1, <2>2 DEF Shaped, ShapedBlock
  <2>4. /\ ctx' \in [block : 0..Len(ir.blocks), return_value : 0..Len(ir.ssas)]
        /\ pc' = NULL /\ UNCHANGED <<ir, cur, ssa_values>>
    BY <1>1, <1>3, <2>1, <2>3
  <2> QED BY <2>1, <2>4 DEF IInv
<1> HIDE DEF b, goto
<1> QED BY <1>1, <1>2, <1>3

LEMMA ExecKeeps == ASSUME IInv, Exec PROVE IInv'
<1>1. PICK b \in 0..Len(ir.blocks) : Start(b) BY DEF Exec
<1>2. pc = NULL BY DEF Exec, Running
<1>3. CASE b = NULL
  <2>1. Fails("block != NULL") /\ UNCHANGED ir BY <1>1, <1>3 DEF Start
  <2> QED BY <2>1, FailureKeeps DEF NoFault
<1>4. CASE b # NULL
  <2>1. /\ ctx' = [block |-> b, return_value |-> NULL] /\ cur' = NULL
        /\ ssa_values' = [s \in 1..Len(ir.ssas) |-> IF has_value(s) THEN ssa_values[s] ELSE Unset]
        /\ UNCHANGED <<ir, fault, pc>>
    BY <1>1, <1>4 DEF Start
  <2>2. \A s : has_value(s) => ssa_values[s] \in Value
    <3>1. CASE ssa_values = <<>> BY <3>1 DEF has_value
    <3>2. CASE ssa_values # <<>> BY <3>2, OperandValue DEF IInv
    <3> QED BY <3>1, <3>2
  <2>3. Typed(ir, ssa_values') BY <2>1, <2>2 DEF Typed, Slots
  <2>4. /\ Shaped(ir) /\ Len(ir.blocks) \in Nat /\ Len(ir.ssas) \in Nat BY DEF IInv, Shaped
  <2>5. ctx' \in [block : 0..Len(ir.blocks), return_value : 0..Len(ir.ssas)]
    BY <2>1, <2>4 DEF NULL
  <2>6. 0 \in 0..Len(ir.blocks) BY <2>4
  <2> QED BY <1>2, <2>1, <2>3, <2>4, <2>5, <2>6 DEF IInv, NULL
<1> QED BY <1>3, <1>4

LEMMA NextKeeps == ASSUME IInv, [Next]_mcVars PROVE IInv'
<1>1. CASE Exec BY <1>1, ExecKeeps
<1>2. CASE Execution
  BY <1>2, EnterKeeps, LiteralKeeps, ArithmeticKeeps, PhiKeeps, ReturnKeeps, SkipKeeps, LeaveKeeps
     DEF Execution, Step
<1>3. CASE Idle \/ UNCHANGED mcVars
  <2>1. UNCHANGED <<ir, fault, ctx, cur, pc, ssa_values>> BY <1>3 DEF Idle, mcVars, interpVars
  <2>2. Typed(ir', ssa_values') <=> Typed(ir, ssa_values) BY <2>1
  <2> QED BY <2>1, <2>2 DEF IInv
<1> QED BY <1>1, <1>2, <1>3 DEF Next

LEMMA Initially ==
    ASSUME Shaped(ir), InterpInit PROVE IInv
<1>1. 0 \in 0..Len(ir.blocks) /\ 0 \in 0..Len(ir.ssas) BY DEF Shaped
<1> QED BY <1>1 DEF InterpInit, IInv, NULL

-----------------------------------------------------------------------------
(***************************************************************************)
(* The values of a first exec.  When control reaches a block, every block  *)
(* that all paths to it pass has run to its end; in the block, all before  *)
(* pc has.  So the operands of well-formed code have values.               *)
(***************************************************************************)
AllComputed(b)     == \A s \in Body(b) : defines(s) => has_value(s)
ComputedUpTo(b, n) == \A s \in Body(b) : defines(s) /\ s < n => has_value(s)

\* Every block that all paths to b pass has run.
Passed(b) == /\ b \in ReachedAround({})
             /\ \A d \in 1..Len(ir.blocks) \ {b} : b \notin ReachedAround({d}) => AllComputed(d)

Solved(s) == /\ \A o \in operands(s) : has_value(o)
             /\ Equation(ir.ssas[s].op, ssa_values[s],
                         ssa_values[ir.ssas[s].left], ssa_values[ir.ssas[s].right])
AllSolved == \A s \in 1..Len(ir.ssas) : has_value(s) /\ arithmetic(s) => Solved(s)

FirstExec == execs = 1 /\ entry # NULL /\ WellFormed

\* The inductive invariant, with IInv
VInv == /\ execs \in Nat /\ entry \in 0..Len(ir.blocks)
        /\ execs = 0 => ssa_values = <<>> /\ pc = NULL /\ ctx.block = NULL
        /\ FirstExec =>
              /\ AllSolved
              /\ fault = NoFault /\ pc = NULL /\ ctx.block # NULL => Passed(ctx.block)
              /\ fault = NoFault /\ pc # NULL => Passed(cur) /\ ComputedUpTo(cur, pc)

LEMMA SuccessorReached ==
    ASSUME NEW A, NEW b \in ReachedAround(A),
           NEW x \in 1..Len(ir.blocks), x \in Successors(b), x \notin A
    PROVE  x \in ReachedAround(A)
BY DEF ReachedAround

LEMMA ReachedIsBlock == \A A : ReachedAround(A) \subseteq 1..Len(ir.blocks) \ A
BY DEF ReachedAround

\* What all paths to x pass, all paths to b pass as well, or it is b.
LEMMA PassedOn ==
    ASSUME NEW b, Passed(b), AllComputed(b), NEW x \in 1..Len(ir.blocks), x \in Successors(b)
    PROVE  Passed(x)
<1>1. x \in ReachedAround({}) BY SuccessorReached DEF Passed
<1>2. ASSUME NEW d \in 1..Len(ir.blocks) \ {x}, x \notin ReachedAround({d}) PROVE AllComputed(d)
  <2>1. CASE d = b BY <2>1
  <2>2. CASE d # b
    <3>1. b \in 1..Len(ir.blocks) BY ReachedIsBlock DEF Passed
    <3>2. x \notin {d} BY <1>2
    <3>3. b \notin ReachedAround({d}) BY <1>2, <3>2, SuccessorReached
    <3> QED BY <1>2, <2>2, <3>3 DEF Passed
  <2> QED BY <2>1, <2>2
<1> QED BY <1>1, <1>2 DEF Passed

LEMMA OperandsComputed ==
    ASSUME WellFormed, Passed(cur), ComputedUpTo(cur, pc),
           pc \in Body(cur), pc \in 1..Len(ir.ssas),
           arithmetic(pc), NEW o \in operands(pc)
    PROVE  has_value(o)
<1>1. ComputedBefore(o, pc, cur) BY DEF WellFormed, Passed
<1> QED BY <1>1 DEF ComputedBefore, Passed, AllComputed, ComputedUpTo

\* No value is replaced: what depends on values that are there stays true.
Grown == \A s : has_value(s) => has_value(s)' /\ ssa_values'[s] = ssa_values[s]

LEMMA PassedStays ==
    ASSUME UNCHANGED <<ir, entry>>, Grown, NEW b, Passed(b)
    PROVE  Passed(b)'
<1>1. \A d : AllComputed(d) => AllComputed(d)' BY DEF AllComputed, Body, defines, Grown
<1>2. \A A : ReachedAround(A)' = ReachedAround(A) BY DEF ReachedAround, Successors
<1> QED BY <1>1, <1>2 DEF Passed

LEMMA FirstStays ==
    ASSUME UNCHANGED <<ir, entry, execs>>
    PROVE  FirstExec' <=> FirstExec
<1>1. \A A : ReachedAround(A)' = ReachedAround(A) BY DEF ReachedAround, Successors
<1>2. /\ \A b : Body(b)' = Body(b)
      /\ \A s : /\ defines(s)' = defines(s) /\ arithmetic(s)' = arithmetic(s)
                 /\ operands(s)' = operands(s)
  BY DEF Body, defines, arithmetic, operands
<1>3. \A o, s, b : ComputedBefore(o, s, b)' <=> ComputedBefore(o, s, b)
  BY <1>1, <1>2 DEF ComputedBefore
<1>4. WellFormed' <=> WellFormed BY <1>1, <1>2, <1>3 DEF WellFormed
<1> QED BY <1>4 DEF FirstExec

LEMMA SolvedStays ==
    ASSUME UNCHANGED ir, Grown, NEW s, has_value(s), Solved(s)
    PROVE  Solved(s)'
<1>1. ir.ssas[s].left \in operands(s) /\ ir.ssas[s].right \in operands(s) BY DEF operands
<1>2. /\ ssa_values'[s] = ssa_values[s]
      /\ ssa_values'[ir.ssas[s].left] = ssa_values[ir.ssas[s].left]
      /\ ssa_values'[ir.ssas[s].right] = ssa_values[ir.ssas[s].right]
      /\ \A o \in operands(s) : has_value(o)'
  BY <1>1 DEF Grown, Solved
<1>3. operands(s)' = operands(s) BY DEF operands
<1>4. \A op, v, l, r : Equation(op, v, l, r)' <=> Equation(op, v, l, r) BY DEF Equation
<1> QED BY <1>2, <1>3, <1>4 DEF Solved

\* A step that leaves the values as they are
LEMMA SameValues ==
    ASSUME VInv, UNCHANGED <<ir, entry, execs, ssa_values>>, execs # 0,
           FirstExec /\ AllSolved =>
                 /\ fault' = NoFault /\ pc' = NULL /\ ctx'.block # NULL => Passed(ctx'.block)
                 /\ fault' = NoFault /\ pc' # NULL => Passed(cur') /\ ComputedUpTo(cur', pc')
    PROVE  VInv'
<1>1. Grown BY DEF Grown, has_value
<1>2. FirstExec' <=> FirstExec BY FirstStays
<1>3. AllSolved => AllSolved' BY <1>1, SolvedStays DEF AllSolved, has_value, arithmetic
<1>4. ASSUME NEW b, Passed(b) PROVE Passed(b)' BY <1>1, <1>4, PassedStays
<1>5. \A b, n : ComputedUpTo(b, n) <=> ComputedUpTo(b, n)'
  BY DEF ComputedUpTo, has_value, Body, defines
<1> QED BY <1>1, <1>2, <1>3, <1>4, <1>5 DEF VInv

\* A step of the interpreter, within one exec
Executing == IInv /\ VInv /\ UNCHANGED <<ir, entry, execs>>

LEMMA Started ==
    ASSUME Executing, fault = NoFault, pc # NULL \/ ctx.block # NULL
    PROVE  execs # 0
BY DEF Executing, VInv

LEMMA FailureStays ==
    ASSUME Executing, execs # 0, NEW why, why # NoFault, Fails(why)
    PROVE  VInv'
BY SameValues DEF Executing, Fails

LEMMA EnterStays == ASSUME Executing, Enter PROVE VInv'
<1> DEFINE b == ir.blocks[ctx.block]
<1>1. /\ fault = NoFault /\ pc = NULL /\ ctx.block # NULL
      /\ IF b.head = NULL THEN Fails("ctx.block->head != NULL")
         ELSE /\ cur' = ctx.block /\ pc' = b.head /\ UNCHANGED <<fault, ssa_values>>
  BY DEF Enter
<1>2. execs # 0 BY <1>1, Started
<1>3. CASE b.head = NULL
  <2>1. Fails("ctx.block->head != NULL") BY <1>1, <1>3
  <2> QED BY <1>2, <2>1, FailureStays DEF NoFault
<1>4. CASE b.head # NULL
  <2>1. cur' = ctx.block /\ pc' = b.head /\ UNCHANGED <<fault, ssa_values>> BY <1>1, <1>4
  <2>2. b.head \in Nat /\ b.next \in Nat
    <3>1. /\ Shaped(ir) /\ Len(ir.blocks) \in Nat
          /\ ctx \in [block : 0..Len(ir.blocks), return_value : 0..Len(ir.ssas)]
      BY DEF Executing, IInv, Shaped
    <3>2. ctx.block \in 0..Len(ir.blocks) BY <3>1
    <3>3. ctx.block \in 1..Len(ir.blocks) BY <1>1, <3>1, <3>2, Given
    <3>4. ShapedBlock(ir, b) BY <3>1, <3>3 DEF Shaped
    <3> HIDE DEF b
    <3>5. b.head \in Slots(ir) /\ b.next \in Slots(ir) BY <1>4, <3>4 DEF ShapedBlock
    <3> QED BY <3>5 DEF Slots
  <2>3. ComputedUpTo(ctx.block, b.head)
    <3>1. Body(ctx.block) = b.head .. b.next BY <1>4 DEF Body
    <3> HIDE DEF b
    <3>2. \A s \in Body(ctx.block) : ~ (s < b.head) BY <2>2, <3>1
    <3> QED BY <3>2 DEF ComputedUpTo
  <2>4. FirstExec => Passed(ctx.block) BY <1>1 DEF Executing, VInv
  <2> HIDE DEF b
  <2> QED BY <1>2, <1>4, <2>1, <2>3, <2>4, SameValues DEF Executing
<1> QED BY <1>3, <1>4

LEMMA LeaveStays == ASSUME Executing, Leave PROVE VInv'
<1> DEFINE b == ir.blocks[cur]
           goto(target) == /\ ctx' = [ctx EXCEPT !.block = target]
                           /\ pc' = NULL
                           /\ UNCHANGED <<fault, cur, ssa_values>>
<1>1. /\ fault = NoFault /\ pc # NULL /\ pc > b.next
      /\ \/ \E why \in {"Invalid block branch", "ssa_values.try_get(block->next)"} : Fails(why)
         \/ \E target \in {b.block_true, b.block_false} : goto(target)
  BY DEF Leave
<1>2. execs # 0 BY <1>1, Started
<1>3. ASSUME NEW why \in {"Invalid block branch", "ssa_values.try_get(block->next)"}, Fails(why)
      PROVE  VInv'
  BY <1>2, <1>3, FailureStays DEF NoFault
<1>4. ASSUME NEW target \in {b.block_true, b.block_false}, goto(target) PROVE VInv'
  <2>1. /\ Shaped(ir) /\ cur \in 1..Len(ir.blocks) /\ b.head # NULL
        /\ ctx \in [block : 0..Len(ir.blocks), return_value : 0..Len(ir.ssas)]
    <3>1. /\ Shaped(ir) /\ Len(ir.blocks) \in Nat /\ cur # NULL /\ cur \in 0..Len(ir.blocks)
          /\ b.head # NULL
          /\ ctx \in [block : 0..Len(ir.blocks), return_value : 0..Len(ir.ssas)]
      BY <1>1 DEF Executing, IInv, Shaped
    <3>2. cur \in 1..Len(ir.blocks) BY <3>1, Given
    <3> QED BY <3>1, <3>2
  <2>2. ShapedBlock(ir, b) BY <2>1 DEF Shaped
  <2>3. ctx'.block = target /\ pc' = NULL /\ UNCHANGED <<fault, ssa_values>> BY <1>4, <2>1
  <2>4. ASSUME FirstExec, target # NULL PROVE Passed(target)
    <3>1. target \in Successors(cur) BY <2>4 DEF Successors
    <3>2. target \in 1..Len(ir.blocks)
      <4>1. target \in 0..Len(ir.blocks) /\ Len(ir.blocks) \in Nat
        BY <1>4, <2>1, <2>2 DEF ShapedBlock, Shaped
      <4> QED BY <2>4, <4>1, Given
    <3>3. Passed(cur) /\ ComputedUpTo(cur, pc) BY <1>1, <2>4 DEF Executing, VInv
    <3>4. AllComputed(cur)
      <4>1. Body(cur) = b.head .. b.next BY <2>1 DEF Body
      <4>2. b.head \in Int /\ b.next \in Int BY <2>1, <2>2 DEF ShapedBlock, Slots
      <4>3. pc \in b.head .. b.next + 1 /\ pc > b.next BY <1>1 DEF Executing, IInv
      <4> HIDE DEF b
      <4>4. \A s \in Body(cur) : s < pc BY <4>1, <4>2, <4>3
      <4> QED BY <3>3, <4>4 DEF AllComputed, ComputedUpTo
    <3> QED BY <3>1, <3>2, <3>3, <3>4, PassedOn
  <2> HIDE DEF b, goto
  <2> QED BY <1>2, <2>3, <2>4, SameValues DEF Executing
<1> HIDE DEF goto, b
<1> QED BY <1>1, <1>3, <1>4

LEMMA BodyNumbers ==
    ASSUME Inside
    PROVE  /\ pc \in Int /\ pc \in Body(cur)
           /\ \A s \in Body(cur) : s \in Int /\ (s < pc + 1 => s < pc \/ s = pc)
<1>1. pc \in Int BY InsideFacts DEF Slots
<1>2. pc \in Body(cur) /\ \A s \in Body(cur) : s \in Int
  <2>1. Shaped(ir) /\ Len(ir.blocks) \in Nat /\ cur # NULL /\ cur \in 0..Len(ir.blocks)
        /\ ir.blocks[cur].head # NULL
    BY DEF Inside, IInv, Shaped
  <2>2. cur \in 1..Len(ir.blocks) BY <2>1, Given
  <2>3. ShapedBlock(ir, ir.blocks[cur]) BY <2>1, <2>2 DEF Shaped
  <2>4. ir.blocks[cur].head \in Int /\ ir.blocks[cur].next \in Int
    BY <2>1, <2>3 DEF ShapedBlock, Slots
  <2>5. pc \in ir.blocks[cur].head .. ir.blocks[cur].next + 1 /\ pc <= ir.blocks[cur].next
    BY DEF Inside, IInv
  <2>6. Body(cur) = ir.blocks[cur].head .. ir.blocks[cur].next BY <2>1 DEF Body
  <2> QED BY <2>4, <2>5, <2>6
<1>3. \A s \in Body(cur) : s < pc + 1 => s < pc \/ s = pc BY <1>1, <1>2
<1> QED BY <1>1, <1>2, <1>3

\* An instruction without a value
LEMMA NothingDefined ==
    ASSUME Executing, Inside, ~ defines(pc), pc' = pc + 1, UNCHANGED <<fault, cur, ssa_values>>,
           ctx'.block = NULL
    PROVE  VInv'
<1>1. execs # 0 BY Started DEF Inside
<1>2. pc + 1 # NULL BY InsideFacts
<1>3. FirstExec => Passed(cur) /\ ComputedUpTo(cur, pc) BY DEF Executing, VInv, Inside
<1>4. FirstExec => ComputedUpTo(cur, pc + 1) BY <1>3, BodyNumbers DEF ComputedUpTo
<1> QED BY <1>1, <1>2, <1>3, <1>4, SameValues DEF Executing

\* A new value solves its equation, and those that were there still do.
LEMMA DefineStays ==
    ASSUME Executing, Inside, NEW v \in Value, Define(v),
           FirstExec /\ arithmetic(pc) =>
               /\ \A o \in operands(pc) : has_value(o)
               /\ Equation(instruction.op, v, ssa_values[instruction.left],
                           ssa_values[instruction.right])
    PROVE  VInv'
<1>1. execs # 0 BY Started DEF Inside
<1>2. CASE has_value(pc)
  <2>1. Fails("Attempt to add duplicate key") BY <1>2 DEF Define
  <2> QED BY <1>1, <2>1, FailureStays DEF NoFault
<1>3. CASE ~ has_value(pc)
  <2>1. /\ ssa_values' = [ssa_values EXCEPT ![pc] = v] /\ pc' = pc + 1
        /\ UNCHANGED <<fault, ctx, cur>>
    BY <1>3 DEF Define
  <2>2. /\ Typed(ir, ssa_values) /\ pc \in Slots(ir) /\ pc + 1 # NULL /\ ctx.block = NULL
    BY InsideFacts
  <2>3. \A s : s = pc => has_value(s)' /\ ssa_values'[s] = v
    BY <2>1, <2>2, Values DEF has_value, Typed
  <2>4. \A s : s # pc => (has_value(s)' <=> has_value(s)) /\ ssa_values'[s] = ssa_values[s]
    BY <2>1, <2>2 DEF has_value, Typed
  <2>5. Grown BY <1>3, <2>4 DEF Grown
  <2>6. UNCHANGED <<ir, entry, execs>> BY DEF Executing
  <2>7. FirstExec' <=> FirstExec BY <2>6, FirstStays
  <2>8. ASSUME FirstExec PROVE AllSolved'
    <3>1. AllSolved BY <2>8 DEF Executing, VInv
    <3>2. ASSUME NEW s \in 1..Len(ir.ssas), has_value(s)', arithmetic(s) PROVE Solved(s)'
      <4>1. CASE s = pc
        <5>1. /\ \A o \in operands(pc) : has_value(o)
              /\ Equation(instruction.op, v, ssa_values[instruction.left],
                          ssa_values[instruction.right])
          BY <2>8, <3>2, <4>1
        <5>2. instruction.left \in operands(pc) /\ instruction.right \in operands(pc)
          BY DEF operands, instruction
        <5>3. /\ \A o \in operands(pc) : has_value(o)'
              /\ ssa_values'[instruction.left] = ssa_values[instruction.left]
              /\ ssa_values'[instruction.right] = ssa_values[instruction.right]
          BY <2>5, <5>1, <5>2 DEF Grown
        <5>4. Equation(ir.ssas[s].op, ssa_values'[s], ssa_values'[ir.ssas[s].left],
                       ssa_values'[ir.ssas[s].right])
          BY <2>3, <4>1, <5>1, <5>3 DEF instruction
        <5>5. \A o \in {ir.ssas[s].left, ir.ssas[s].right} : has_value(o)'
          BY <4>1, <5>3 DEF operands
        <5>6. \A op, x, l, r : Equation(op, x, l, r)' <=> Equation(op, x, l, r) BY DEF Equation
        <5> QED BY <2>6, <5>4, <5>5, <5>6 DEF Solved, operands
      <4>2. CASE s # pc
        <5>1. has_value(s) BY <2>4, <3>2, <4>2
        <5>2. Solved(s) BY <3>1, <3>2, <5>1 DEF AllSolved
        <5> QED BY <2>5, <2>6, <5>1, <5>2, SolvedStays
      <4> QED BY <4>1, <4>2
    <3>3. \A s : arithmetic(s)' <=> arithmetic(s) BY <2>6 DEF arithmetic
    <3> QED BY <2>6, <3>2, <3>3 DEF AllSolved
  <2>9. ASSUME FirstExec PROVE Passed(cur)' /\ ComputedUpTo(cur, pc)'
    <3>1. Passed(cur) /\ ComputedUpTo(cur, pc) BY <2>9 DEF Executing, VInv, Inside
    <3>2. ASSUME NEW b, Passed(b) PROVE Passed(b)' BY <2>5, <2>6, <3>2, PassedStays
    <3>3. pc \in Int /\ \A s \in Body(cur) : s \in Int /\ (s < pc + 1 => s < pc \/ s = pc)
      BY BodyNumbers
    <3>4. \A s \in Body(cur) : defines(s) /\ s < pc + 1 => has_value(s)'
      BY <2>3, <2>5, <3>1, <3>3 DEF ComputedUpTo, Grown
    <3>5. /\ \A b : Body(b)' = Body(b)
          /\ \A s : defines(s)' <=> defines(s)
      BY <2>6 DEF Body, defines
    <3>6. \A b : b = cur => ComputedUpTo(b, pc)' BY <2>1, <3>4, <3>5 DEF ComputedUpTo
    <3> QED BY <2>1, <3>1, <3>2, <3>6
  <2>10. execs' \in Nat /\ entry' \in 0..Len(ir'.blocks) /\ execs' # 0 /\ pc' # NULL
    BY <1>1, <2>1, <2>2, <2>6 DEF Executing, VInv
  <2> QED BY <2>7, <2>8, <2>9, <2>10 DEF VInv
<1> QED BY <1>2, <1>3

LEMMA LiteralStays == ASSUME Executing, Literal PROVE VInv'
<1>1. Inside /\ instruction.op = "i" /\ Define(instruction.left % Modulus)
  BY DEF Literal, At, Inside, Executing
<1>2. instruction.left \in Int BY <1>1, InsideFacts DEF ShapedIns
<1>3. ~ arithmetic(pc) BY <1>1 DEF arithmetic, instruction
<1> QED BY <1>1, <1>2, <1>3, Remainder, DefineStays

LEMMA PhiStays == ASSUME Executing, Phi PROVE VInv'
<1> DEFINE list == SubSeq(ir.phi_lists, instruction.left,
                          instruction.left + instruction.right - 1)
<1>1. /\ Inside /\ instruction.op = "phi"
      /\ \/ \E why \in {"x != NULL", "found_phi"} : Fails(why)
         \/ Computed(list) # {} /\ Define(ssa_values[list[PhiChoice(list)]])
  BY DEF Phi, At, Inside, Executing
<1> HIDE DEF list
<1>2. ASSUME NEW why \in {"x != NULL", "found_phi"}, Fails(why) PROVE VInv'
  <2>1. execs # 0 BY <1>1, Started DEF Inside
  <2> QED BY <1>2, <2>1, FailureStays DEF NoFault
<1>3. ASSUME Computed(list) # {}, Define(ssa_values[list[PhiChoice(list)]]) PROVE VInv'
  <2>1. ssa_values[list[PhiChoice(list)]] \in Value BY <1>1, <1>3, PhiValue
  <2>2. ~ arithmetic(pc) BY <1>1 DEF arithmetic, instruction
  <2> QED BY <1>1, <1>3, <2>1, <2>2, DefineStays
<1> QED BY <1>1, <1>2, <1>3

\* In well-formed code the operands have values, and the result is right.
LEMMA ArithmeticStays == ASSUME Executing, Arithmetic PROVE VInv'
<1> DEFINE l == operand(instruction.left)
           r == operand(instruction.right)
           v == Result(instruction.op, l, r)
           zero == instruction.op = "div" /\ r = 0
<1>1. /\ Inside /\ instruction.op \in {"add", "sub", "mul", "div"}
      /\ IF zero THEN Fails("SIGFPE") ELSE Define(v)
  BY DEF Arithmetic, At, Inside, Executing, Result
<1>2. CASE zero
  <2>1. Fails("SIGFPE") BY <1>1, <1>2
  <2>2. execs # 0 BY <1>1, Started DEF Inside
  <2> QED BY <2>1, <2>2, FailureStays DEF NoFault
<1>3. CASE ~ zero
  <2>1. l \in Value /\ r \in Value BY <1>1, InsideFacts, OperandValue
  <2>2. v \in Value /\ Equation(instruction.op, v, l, r)
    <3> HIDE DEF l, r
    <3> QED BY <1>1, <1>3, <2>1, ResultSolves
  <2>3. Define(v) BY <1>1, <1>3
  <2>4. ASSUME FirstExec
        PROVE  /\ \A o \in operands(pc) : has_value(o)
               /\ Equation(instruction.op, v, ssa_values[instruction.left],
                           ssa_values[instruction.right])
    <3>1. Passed(cur) /\ ComputedUpTo(cur, pc) BY <1>1, <2>4 DEF Executing, VInv, Inside
    <3>2. pc \in Body(cur) /\ pc \in 1..Len(ir.ssas) BY <1>1, BodyNumbers, InsideFacts DEF Slots
    <3>3. arithmetic(pc) BY <1>1 DEF arithmetic, instruction
    <3>4. \A o \in operands(pc) : has_value(o)
      BY <2>4, <3>1, <3>2, <3>3, OperandsComputed DEF FirstExec
    <3>5. instruction.left \in operands(pc) /\ instruction.right \in operands(pc)
      BY DEF operands, instruction
    <3>6. l = ssa_values[instruction.left] /\ r = ssa_values[instruction.right]
      BY <3>4, <3>5 DEF operand
    <3> HIDE DEF v, l, r
    <3> QED BY <2>2, <3>4, <3>6
  <2> HIDE DEF v
  <2> QED BY <1>1, <2>2, <2>3, <2>4, DefineStays
<1> QED BY <1>2, <1>3

LEMMA ReturnStays == ASSUME Executing, Return PROVE VInv'
<1>1. /\ Inside /\ UNCHANGED <<fault, cur, ssa_values>> /\ instruction.op = "ret"
      /\ pc' = pc + 1 /\ ctx' = [ctx EXCEPT !.return_value = instruction.left]
  BY DEF Return, At, Inside, Executing
<1>2. ctx.block = NULL /\ ctx \in [block : 0..Len(ir.blocks), return_value : 0..Len(ir.ssas)]
  BY <1>1, InsideFacts DEF Inside, IInv
<1>3. ctx'.block = NULL BY <1>1, <1>2
<1>4. ~ defines(pc) BY <1>1 DEF defines, instruction
<1> QED BY <1>1, <1>3, <1>4, NothingDefined

LEMMA SkipStays == ASSUME Executing, Skip PROVE VInv'
<1>1. /\ Inside /\ UNCHANGED <<fault, ctx, cur, ssa_values>> /\ pc' = pc + 1
      /\ instruction.op \in {"nop", "dbg"}
  BY DEF Skip, At, Inside, Executing
<1>2. ctx'.block = NULL BY <1>1, InsideFacts
<1>3. ~ defines(pc) BY <1>1 DEF defines, instruction
<1> QED BY <1>1, <1>2, <1>3, NothingDefined

\* The first exec begins with no values, at a block that nothing precedes.
LEMMA ExecStays == ASSUME IInv, VInv, Exec PROVE VInv'
<1>1. PICK b \in 0..Len(ir.blocks) : Start(b) /\ entry' = b BY DEF Exec
<1>2. pc = NULL /\ execs' = execs + 1 /\ fault = NoFault BY DEF Exec, Running
<1>3. execs \in Nat /\ UNCHANGED ir BY <1>1 DEF VInv, Start
<1>4. ASSUME FirstExec'
      PROVE  /\ ctx'.block = entry' /\ pc' = NULL
             /\ AllSolved' /\ Passed(entry)'
  <2>1. execs' = 1 /\ entry' # NULL BY <1>4 DEF FirstExec
  <2>2. execs = 0 /\ b # NULL BY <1>1, <1>2, <1>3, <2>1
  <2>3. ssa_values = <<>> BY <2>2 DEF VInv
  <2>4. /\ ctx' = [block |-> b, return_value |-> NULL] /\ UNCHANGED <<fault, pc>>
        /\ ssa_values' = [s \in 1..Len(ir.ssas) |-> IF has_value(s) THEN ssa_values[s] ELSE Unset]
    BY <1>1, <2>2 DEF Start
  <2>5. \A s : ~ has_value(s) BY <2>3 DEF has_value
  <2>6. \A s : ~ has_value(s)' BY <2>4, <2>5 DEF has_value
  <2>7. AllSolved' BY <2>6 DEF AllSolved
  <2>8. b \in 1..Len(ir.blocks)
    <3>1. Len(ir.blocks) \in Nat BY DEF IInv, Shaped
    <3> QED BY <2>2, <3>1, Given
  <2>9. \A x : x = b => \A A : x \notin A => x \in ReachedAround(A)'
    BY <1>1, <1>3, <2>8 DEF ReachedAround
  <2>10. \A x : x = b => Passed(x)' BY <2>9 DEF Passed
  <2> QED BY <1>1, <1>2, <2>4, <2>7, <2>10
<1>5. entry' \in 0..Len(ir'.blocks) /\ execs' \in Nat /\ execs' # 0 BY <1>1, <1>2, <1>3
<1>6. ASSUME FirstExec', ctx'.block = entry', Passed(entry)' PROVE Passed(ctx.block)'
  BY <1>6
<1> QED BY <1>4, <1>5, <1>6 DEF VInv

LEMMA ValuesInvariant == ASSUME IInv, VInv, [Next]_mcVars PROVE VInv'
<1>1. CASE Exec BY <1>1, ExecStays
<1>2. CASE Execution
  <2>1. Executing BY <1>2 DEF Executing, Execution, Step, Enter, Literal, Arithmetic, Phi, Return,
                               Skip, Leave, At
  <2> QED BY <1>2, <2>1, EnterStays, LiteralStays, ArithmeticStays, PhiStays, ReturnStays,
             SkipStays, LeaveStays DEF Execution, Step
<1>3. CASE Idle \/ UNCHANGED mcVars
  <2>1. UNCHANGED <<ir, fault, ctx, cur, pc, ssa_values, entry, execs>>
    BY <1>3 DEF Idle, mcVars, interpVars
  <2>2. CASE execs = 0
    <3>1. ~ FirstExec' /\ execs' = 0 BY <2>1, <2>2 DEF FirstExec
    <3> QED BY <2>1, <2>2, <3>1 DEF VInv
  <2>3. CASE execs # 0
    <3>1. FirstExec =>
             /\ fault' = NoFault /\ pc' = NULL /\ ctx'.block # NULL => Passed(ctx'.block)
             /\ fault' = NoFault /\ pc' # NULL => Passed(cur') /\ ComputedUpTo(cur', pc')
      BY <2>1 DEF VInv
    <3> QED BY <2>1, <2>3, <3>1, SameValues
  <2> QED BY <2>2, <2>3
<1> QED BY <1>1, <1>2, <1>3 DEF Next

-----------------------------------------------------------------------------
(***************************************************************************)
(* Any exec, of any code: blocks run once and whole, and the path control  *)
(* takes in a first exec is the one its values tell.                       *)
(***************************************************************************)
\* The kinds of step, by what they do to the values
FailStep  == \E why : why # NoFault /\ Fails(why)
EnterStep == /\ pc = NULL /\ ctx.block # NULL /\ ctx.block \in 1..Len(ir.blocks)
             /\ ir.blocks[ctx.block].head # NULL
             /\ cur' = ctx.block /\ pc' = ir.blocks[ctx.block].head
             /\ UNCHANGED ssa_values
SkipStep  == Inside /\ ~ defines(pc) /\ pc' = pc + 1 /\ UNCHANGED <<cur, ssa_values>>
ValueStep == /\ Inside /\ defines(pc) /\ ~ has_value(pc)
             /\ \E v \in Value : ssa_values' = [ssa_values EXCEPT ![pc] = v]
             /\ pc' = pc + 1 /\ UNCHANGED cur
LeaveStep == /\ pc # NULL /\ pc > ir.blocks[cur].next
             /\ ir.blocks[cur].br \in Conditions => has_value(ir.blocks[cur].next)
             /\ pc' = NULL /\ ctx'.block = SentTo(cur)
             /\ UNCHANGED ssa_values

LEMMA DefineStep ==
    ASSUME IInv, Inside, defines(pc), NEW v \in Value, Define(v)
    PROVE  FailStep \/ ValueStep
<1>1. CASE has_value(pc)
  <2>1. Fails("Attempt to add duplicate key") BY <1>1 DEF Define
  <2> QED BY <2>1 DEF FailStep, NoFault
<1>2. CASE ~ has_value(pc) BY <1>2 DEF Define, ValueStep
<1> QED BY <1>1, <1>2

LEMMA LeaveKind == ASSUME IInv, Leave PROVE FailStep \/ LeaveStep
<1> DEFINE b == ir.blocks[cur]
           target == IF Holds(b.br, ssa_values[b.next]) THEN b.block_true ELSE b.block_false
           goto(t) == /\ ctx' = [ctx EXCEPT !.block = t] /\ pc' = NULL
                      /\ UNCHANGED <<fault, cur, ssa_values>>
<1>1. /\ pc # NULL /\ pc > b.next
      /\ \/ \E why \in {"Invalid block branch", "ssa_values.try_get(block->next)"} : Fails(why)
         \/ b.br = "unconditional" /\ goto(b.block_true)
         \/ b.br \notin {"UNUSED", "unconditional"} /\ has_value(b.next) /\ goto(target)
  BY DEF Leave
<1>2. b.br \in Kinds
  <2>1. Shaped(ir) /\ cur # NULL /\ cur \in 0..Len(ir.blocks) BY <1>1 DEF IInv
  <2>2. cur \in 1..Len(ir.blocks) BY <2>1, Given DEF Shaped
  <2> QED BY <2>1, <2>2 DEF Shaped, ShapedBlock
<1>3. ctx \in [block : 0..Len(ir.blocks), return_value : 0..Len(ir.ssas)] BY DEF IInv
<1>4. ASSUME NEW why \in {"Invalid block branch", "ssa_values.try_get(block->next)"}, Fails(why)
      PROVE  FailStep
  BY <1>4 DEF FailStep, NoFault
<1>5. ASSUME b.br = "unconditional", goto(b.block_true) PROVE LeaveStep
  <2>1. b.br \notin Conditions BY <1>5 DEF Conditions
  <2>2. ctx'.block = b.block_true /\ pc' = NULL /\ UNCHANGED ssa_values BY <1>3, <1>5
  <2>3. SentTo(cur) = b.block_true BY <1>5, <2>1 DEF SentTo
  <2> QED BY <1>1, <2>1, <2>2, <2>3 DEF LeaveStep
<1>6. ASSUME b.br \notin {"UNUSED", "unconditional"}, has_value(b.next), goto(target)
      PROVE  LeaveStep
  <2>1. b.br \in Conditions /\ b.br # "unconditional" BY <1>2, <1>6 DEF Kinds
  <2>2. SentTo(cur) = target BY <1>6, <2>1 DEF SentTo
  <2>3. ctx'.block = target /\ pc' = NULL /\ UNCHANGED ssa_values BY <1>3, <1>6
  <2> QED BY <1>1, <1>6, <2>2, <2>3 DEF LeaveStep
<1> HIDE DEF b, target, goto
<1> QED BY <1>1, <1>4, <1>5, <1>6

LEMMA StepKinds ==
    ASSUME IInv, Step
    PROVE  FailStep \/ EnterStep \/ SkipStep \/ ValueStep \/ LeaveStep
<1>1. CASE Enter
  <2>1. ctx.block \in 1..Len(ir.blocks)
    <3>1. ctx.block \in 0..Len(ir.blocks) /\ ctx.block # NULL /\ Len(ir.blocks) \in Nat
      BY <1>1 DEF IInv, Shaped, Enter
    <3> QED BY <3>1, Given
  <2> QED BY <1>1, <2>1 DEF Enter, EnterStep, FailStep, NoFault
<1>2. CASE Literal
  <2>1. Inside /\ instruction.op = "i" /\ Define(instruction.left % Modulus)
    BY <1>2 DEF Literal, At, Inside
  <2>2. instruction.left \in Int BY <2>1, InsideFacts DEF ShapedIns
  <2>3. defines(pc) BY <2>1 DEF defines, instruction
  <2> QED BY <2>1, <2>2, <2>3, Remainder, DefineStep
<1>3. CASE Arithmetic
  <2> DEFINE l == operand(instruction.left)
             r == operand(instruction.right)
             v == Result(instruction.op, l, r)
             zero == instruction.op = "div" /\ r = 0
  <2>1. /\ Inside /\ instruction.op \in {"add", "sub", "mul", "div"}
        /\ IF zero THEN Fails("SIGFPE") ELSE Define(v)
    BY <1>3 DEF Arithmetic, At, Inside, Result
  <2>2. CASE zero
    <3>1. Fails("SIGFPE") BY <2>1, <2>2
    <3> QED BY <3>1 DEF FailStep, NoFault
  <2>3. CASE ~ zero
    <3>1. l \in Value /\ r \in Value BY <2>1, InsideFacts, OperandValue
    <3>2. defines(pc) BY <2>1 DEF defines, instruction
    <3> HIDE DEF l, r
    <3>3. v \in Value BY <2>1, <2>3, <3>1, ResultSolves
    <3>4. Define(v) BY <2>1, <2>3
    <3> HIDE DEF v
    <3> QED BY <2>1, <3>2, <3>3, <3>4, DefineStep
  <2> QED BY <2>2, <2>3
<1>4. CASE Phi
  <2> DEFINE list == SubSeq(ir.phi_lists, instruction.left,
                            instruction.left + instruction.right - 1)
             v == ssa_values[list[PhiChoice(list)]]
  <2>1. /\ Inside /\ instruction.op = "phi"
        /\ \/ \E why \in {"x != NULL", "found_phi"} : Fails(why)
           \/ Computed(list) # {} /\ Define(v)
    BY <1>4 DEF Phi, At, Inside
  <2> HIDE DEF list
  <2>2. ASSUME NEW why \in {"x != NULL", "found_phi"}, Fails(why) PROVE FailStep
    BY <2>2 DEF FailStep, NoFault
  <2>3. ASSUME Computed(list) # {}, Define(v) PROVE FailStep \/ ValueStep
    <3>1. v \in Value BY <2>1, <2>3, PhiValue
    <3>2. defines(pc) BY <2>1 DEF defines, instruction
    <3> QED BY <2>1, <2>3, <3>1, <3>2, DefineStep
  <2> QED BY <2>1, <2>2, <2>3
<1>5. CASE Return \/ Skip
  <2>1. /\ Inside /\ instruction.op \in {"nop", "dbg", "ret"}
        /\ pc' = pc + 1 /\ UNCHANGED <<cur, ssa_values>>
    BY <1>5 DEF Return, Skip, At, Inside
  <2>2. ~ defines(pc) BY <2>1 DEF defines, instruction
  <2> QED BY <2>1, <2>2 DEF SkipStep
<1>6. CASE Leave BY <1>6, LeaveKind
<1> QED BY <1>1, <1>2, <1>3, <1>4, <1>5, <1>6 DEF Step

\* An instruction is in the body of one block.
LEMMA OneBody ==
    ASSUME Inside, NEW b \in 1..Len(ir.blocks), b # cur
    PROVE  pc \notin Body(b)
<1>1. /\ Shaped(ir) /\ cur # NULL /\ cur \in 0..Len(ir.blocks) /\ ir.blocks[cur].head # NULL
      /\ pc \in ir.blocks[cur].head .. ir.blocks[cur].next + 1 /\ pc <= ir.blocks[cur].next
  BY DEF Inside, IInv
<1>2. cur \in 1..Len(ir.blocks) BY <1>1, Given DEF Shaped
<1>3. CASE ir.blocks[b].head = NULL BY <1>3 DEF Body
<1>4. CASE ir.blocks[b].head # NULL
  <2>1. ShapedBlock(ir, ir.blocks[b]) /\ ShapedBlock(ir, ir.blocks[cur]) /\ OwnRange(ir, b, cur)
    BY <1>1, <1>2 DEF Shaped
  <2> DEFINE x == ir.blocks[b]
             y == ir.blocks[cur]
  <2>2. /\ x.head \in Int /\ x.next \in Int /\ y.head \in Int /\ y.next \in Int
        /\ (x.next < y.head \/ y.next < x.head) /\ Body(b) = x.head .. x.next
        /\ pc \in y.head .. y.next + 1 /\ pc <= y.next
    BY <1>1, <1>4, <2>1 DEF ShapedBlock, OwnRange, Slots, Body
  <2> HIDE DEF x, y
  <2> QED BY <2>2
<1> QED BY <1>3, <1>4

\* What a new value changes
LEMMA NewValue ==
    ASSUME IInv, ValueStep
    PROVE  \A s : has_value(s)' <=> has_value(s) \/ s = pc
<1>1. Typed(ir, ssa_values) /\ pc \in Slots(ir) BY InsideFacts DEF ValueStep
<1>2. PICK v \in Value : ssa_values' = [ssa_values EXCEPT ![pc] = v] BY DEF ValueStep
<1> QED BY <1>1, <1>2, Values DEF has_value, Typed

-----------------------------------------------------------------------------
\* Of a block, what lies before pc has a value and nothing else; of any other,
\* all or nothing has.
AllOrNone(b) == (\A s \in Defining(b) : has_value(s)) \/ (\A s \in Defining(b) : ~ has_value(s))
PartRun(b)   == /\ pc # NULL /\ b = cur
                /\ \A s \in Defining(b) : has_value(s) <=> s < pc
NoneRun(b)   == pc # NULL /\ b = cur => \A s \in Defining(b) : ~ (s < pc)
OneRun(b)    == PartRun(b) \/ (NoneRun(b) /\ AllOrNone(b))

\* The inductive invariant, with IInv
RInv == fault = NoFault => \A b \in 1..Len(ir.blocks) : OneRun(b)

LEMMA RunOnce == ASSUME RInv PROVE BlocksRunOnce
<1> SUFFICES ASSUME fault = NoFault, NEW b \in 1..Len(ir.blocks)
             PROVE  LET done == {s \in Defining(b) : pc # NULL /\ b = cur /\ s < pc}
                    IN  IF done = {} THEN Valued(b) \in {{}, Defining(b)} ELSE Valued(b) = done
  BY DEF BlocksRunOnce
<1>1. OneRun(b) BY DEF RInv
<1>2. CASE PartRun(b) BY <1>2 DEF PartRun, Valued
<1>3. CASE NoneRun(b) /\ AllOrNone(b) BY <1>3 DEF NoneRun, AllOrNone, Valued
<1> QED BY <1>1, <1>2, <1>3 DEF OneRun

\* A block that is left has run to its end.
LEMMA RanWhole ==
    ASSUME IInv, RInv, fault = NoFault, LeaveStep
    PROVE  \A s \in Defining(cur) : has_value(s)
<1>1. /\ Shaped(ir) /\ cur # NULL /\ cur \in 0..Len(ir.blocks) /\ ir.blocks[cur].head # NULL
      /\ pc \in ir.blocks[cur].head .. ir.blocks[cur].next + 1 /\ pc > ir.blocks[cur].next
      /\ pc # NULL
  BY DEF IInv, LeaveStep
<1>2. cur \in 1..Len(ir.blocks) BY <1>1, Given DEF Shaped
<1>3. ir.blocks[cur].head \in Int /\ ir.blocks[cur].next \in Int
  BY <1>1, <1>2 DEF Shaped, ShapedBlock, Slots
<1>4. \A s \in Defining(cur) : s < pc BY <1>1, <1>3 DEF Defining, Body
<1>5. OneRun(cur) BY <1>2 DEF RInv
<1> QED BY <1>1, <1>4, <1>5 DEF OneRun, PartRun, NoneRun

LEMMA RInvStep == ASSUME IInv, RInv, Step, UNCHANGED ir PROVE RInv'
<1> SUFFICES ASSUME NEW b \in 1..Len(ir.blocks), fault' = NoFault, fault = NoFault PROVE OneRun(b)'
  <2>1. fault' = NoFault => fault = NoFault
    BY DEF Step, Enter, Literal, Arithmetic, Phi, Return, Skip, Leave, At
  <2>2. 1..Len(ir'.blocks) = 1..Len(ir.blocks) OBVIOUS
  <2> QED BY <2>1, <2>2 DEF RInv
<1>1. OneRun(b) BY DEF RInv
<1>2. Defining(b)' = Defining(b) BY DEF Defining, Body, defines
<1>3. ASSUME UNCHANGED ssa_values PROVE \A s : has_value(s)' <=> has_value(s)
  BY <1>3 DEF has_value
<1>4. CASE FailStep BY <1>4 DEF FailStep, Fails
<1>5. CASE EnterStep
  <2>1. NoneRun(b)'
    <3>1. ASSUME b = ctx.block, NEW s \in Defining(b) PROVE ~ (s < ir.blocks[ctx.block].head)
      <4>1. /\ Shaped(ir) /\ ctx.block \in 1..Len(ir.blocks) /\ ir.blocks[b].head # NULL
        BY <1>5, <3>1 DEF EnterStep, IInv
      <4>2. ir.blocks[b].head \in Int /\ ir.blocks[b].next \in Int
        BY <4>1 DEF Shaped, ShapedBlock, Slots
      <4>3. s \in ir.blocks[b].head .. ir.blocks[b].next BY <4>1, <3>1 DEF Defining, Body
      <4> QED BY <3>1, <4>2, <4>3
    <3> QED BY <1>2, <1>5, <3>1 DEF NoneRun, EnterStep
  <2>2. AllOrNone(b) BY <1>1, <1>5 DEF OneRun, PartRun, EnterStep
  <2> QED BY <1>2, <1>3, <1>5, <2>1, <2>2 DEF OneRun, AllOrNone, EnterStep
<1>6. CASE LeaveStep
  <2>1. AllOrNone(b)
    <3>1. CASE PartRun(b)
      <4>1. \A s \in Defining(cur) : has_value(s) BY <1>6, RanWhole
      <4> QED BY <3>1, <4>1 DEF PartRun, AllOrNone
    <3> QED BY <1>1, <3>1 DEF OneRun
  <2>2. NoneRun(b)' BY <1>6 DEF NoneRun, LeaveStep
  <2> QED BY <1>2, <1>3, <1>6, <2>1, <2>2 DEF OneRun, AllOrNone, LeaveStep
<1>7. CASE SkipStep
  <2>1. Inside /\ ~ defines(pc) /\ pc' = pc + 1 /\ UNCHANGED <<cur, ssa_values>>
    BY <1>7 DEF SkipStep
  <2>2. pc + 1 # NULL BY <2>1, InsideFacts
  <2>3. pc # NULL BY <2>1 DEF Inside
  <2>4. b = cur => \A s \in Defining(b) : s < pc + 1 <=> s < pc
    <3>1. ASSUME b = cur, NEW s \in Defining(b) PROVE s \in Int /\ pc \in Int /\ s # pc
      BY <2>1, <3>1, BodyNumbers DEF Defining
    <3> QED BY <3>1
  <2>5. PartRun(b) => PartRun(b)' BY <1>2, <1>3, <2>1, <2>2, <2>4 DEF PartRun
  <2>6. NoneRun(b) => NoneRun(b)' BY <1>2, <2>1, <2>3, <2>4 DEF NoneRun
  <2>7. AllOrNone(b) => AllOrNone(b)' BY <1>2, <1>3, <2>1 DEF AllOrNone
  <2> QED BY <1>1, <2>5, <2>6, <2>7 DEF OneRun
<1>8. CASE ValueStep
  <2>1. Inside /\ defines(pc) /\ ~ has_value(pc) /\ pc' = pc + 1 /\ UNCHANGED cur
    BY <1>8 DEF ValueStep
  <2>2. pc + 1 # NULL BY <2>1, InsideFacts
  <2>3. pc # NULL BY <2>1 DEF Inside
  <2>4. \A s : has_value(s)' <=> has_value(s) \/ s = pc BY <1>8, NewValue
  <2>5. CASE b = cur
    <3>1. /\ pc \in Defining(b) /\ pc \in Int
          /\ \A s \in Defining(b) : s \in Int
      BY <2>1, <2>5, BodyNumbers DEF Defining
    <3>2. \A s \in Defining(b) : has_value(s) <=> s < pc
      <4>1. CASE PartRun(b) BY <4>1 DEF PartRun
      <4>2. CASE NoneRun(b) /\ AllOrNone(b)
        BY <2>1, <2>3, <2>5, <3>1, <4>2 DEF NoneRun, AllOrNone
      <4> QED BY <1>1, <4>1, <4>2 DEF OneRun
    <3>3. \A s \in Defining(b) : s < pc + 1 <=> s < pc \/ s = pc BY <3>1
    <3>4. \A s \in Defining(b) : has_value(s)' <=> s < pc + 1 BY <2>4, <3>2, <3>3
    <3>5. PartRun(b)' BY <1>2, <2>1, <2>2, <2>5, <3>4 DEF PartRun
    <3> QED BY <3>5 DEF OneRun
  <2>6. CASE b # cur
    <3>1. pc \notin Defining(b) BY <2>1, <2>6, OneBody DEF Defining
    <3>2. \A s \in Defining(b) : has_value(s)' <=> has_value(s) BY <2>4, <3>1
    <3>3. AllOrNone(b) BY <1>1, <2>6 DEF OneRun, PartRun
    <3>4. AllOrNone(b)' BY <1>2, <3>2, <3>3 DEF AllOrNone
    <3>5. NoneRun(b)' BY <2>1, <2>6 DEF NoneRun
    <3> QED BY <3>4, <3>5 DEF OneRun
  <2> QED BY <2>5, <2>6
<1> QED BY <1>4, <1>5, <1>6, <1>7, <1>8, StepKinds

LEMMA RInvNext == ASSUME IInv, RInv, [Next]_mcVars PROVE RInv'
<1>1. CASE Execution
  <2>1. UNCHANGED ir
    BY <1>1 DEF Execution, Step, Enter, Literal, Arithmetic, Phi, Return, Skip, Leave, At
  <2> QED BY <1>1, <2>1, RInvStep DEF Execution
<1>2. CASE Exec
  <2>1. PICK b0 : Start(b0) BY <1>2 DEF Exec
  <2>2. pc = NULL /\ fault = NoFault /\ UNCHANGED ir BY <1>2, <2>1 DEF Exec, Running, Start
  <2>3. UNCHANGED pc /\ \A s \in Slots(ir) : has_value(s)' <=> has_value(s)
    BY <2>1 DEF Start, Fails, has_value, Slots
  <2>4. ASSUME NEW b \in 1..Len(ir.blocks) PROVE OneRun(b)'
    <3>1. AllOrNone(b) BY <2>2, <2>4 DEF RInv, OneRun, PartRun
    <3>2. Defining(b)' = Defining(b) BY <2>2 DEF Defining, Body, defines
    <3>3. Defining(b) \subseteq Slots(ir)
      <4>1. Shaped(ir) BY DEF IInv
      <4>2. ShapedBlock(ir, ir.blocks[b]) /\ Len(ir.ssas) \in Nat BY <4>1 DEF Shaped
      <4> QED BY <4>2 DEF ShapedBlock, Defining, Body, Slots
    <3>4. AllOrNone(b)' BY <2>3, <3>1, <3>2, <3>3 DEF AllOrNone
    <3>5. NoneRun(b)' BY <2>2, <2>3 DEF NoneRun
    <3> QED BY <3>4, <3>5 DEF OneRun
  <2>5. 1..Len(ir'.blocks) = 1..Len(ir.blocks) BY <2>2
  <2> QED BY <2>4, <2>5 DEF RInv
<1>3. CASE Idle \/ UNCHANGED mcVars
  <2>1. UNCHANGED <<ir, fault, cur, pc, ssa_values>> BY <1>3 DEF Idle, mcVars, interpVars
  <2>2. \A b : Defining(b)' = Defining(b) BY <2>1 DEF Defining, Body, defines
  <2>3. \A s : has_value(s)' <=> has_value(s) BY <2>1 DEF has_value
  <2>4. \A b : OneRun(b)' <=> OneRun(b)
    BY <2>1, <2>2, <2>3 DEF OneRun, PartRun, NoneRun, AllOrNone
  <2> QED BY <2>1, <2>4 DEF RInv
<1> QED BY <1>1, <1>2, <1>3 DEF Next

-----------------------------------------------------------------------------
\* The block control is in, or goes to next
Here == IF pc # NULL THEN cur ELSE ctx.block

\* b has run, and control has gone on to a block of V, or ended
Left(b, V) == /\ \A s \in Defining(b) : has_value(s)
              /\ ir.blocks[b].br \in Conditions => has_value(ir.blocks[b].next)
              /\ SentTo(b) \in V \cup {NULL}

\* V are the blocks control has reached: all on the path that the values tell,
\* and all but the last left for another of them.
Visited(V) ==
    /\ V \in SUBSET (1..Len(ir.blocks)) /\ entry \in V
    /\ \A b \in V : b \in ValuesPath
    /\ \A b \in 1..Len(ir.blocks) : Valued(b) # {} => b \in V
    /\ fault = NoFault => /\ Here # NULL => Here \in V
                          /\ \A b \in V : b = Here \/ Left(b, V)

\* The inductive invariant, with IInv
PInv == /\ execs \in Nat /\ entry \in 0..Len(ir.blocks)
        /\ execs = 0 => ssa_values = <<>> /\ pc = NULL /\ ctx.block = NULL
        /\ execs = 1 /\ entry # NULL => \E V : Visited(V)

LEMMA PathTold == ASSUME PInv PROVE ValuesTellThePath
<1> SUFFICES ASSUME execs = 1, entry # NULL
             PROVE  /\ \A b \in 1..Len(ir.blocks) : Valued(b) # {} => b \in ValuesPath
                    /\ fault = NoFault /\ ~ Running =>
                          \A b \in ValuesPath : Valued(b) = Defining(b)
  BY DEF ValuesTellThePath
<1>1. PICK V : Visited(V) BY DEF PInv
<1>2. ASSUME fault = NoFault, ~ Running, NEW b \in ValuesPath PROVE Valued(b) = Defining(b)
  <2>1. pc = NULL /\ ctx.block = NULL BY <1>2 DEF Running
  <2>2. NULL \notin V BY <1>1 DEF Visited, NULL
  <2>3. \A d \in V : Left(d, V) BY <1>1, <1>2, <2>1, <2>2 DEF Visited, Here
  <2>4. \A d \in V : SentTo(d) \in V \cup {NULL} BY <2>3 DEF Left
  <2>5. b \in V BY <1>1, <2>4 DEF Visited, ValuesPath
  <2> QED BY <2>3, <2>5 DEF Left, Valued
<1> QED BY <1>1, <1>2 DEF Visited

\* Where control goes is on the path.
LEMMA PathGoesOn ==
    ASSUME NEW b \in ValuesPath, SentTo(b) \in 1..Len(ir.blocks)
    PROVE  SentTo(b) \in ValuesPath
BY DEF ValuesPath, NULL

\* New values leave the blocks of the path on it.
LEMMA PathStays ==
    ASSUME UNCHANGED <<ir, entry>>, Grown
    PROVE  /\ \A b : \/ ir.blocks[b].br \in Conditions /\ ~ has_value(ir.blocks[b].next)
                     \/ SentTo(b)' = SentTo(b)
           /\ \A b \in ValuesPath : b \in ValuesPath'
<1>1. \A br, v : Holds(br, v)' = Holds(br, v) BY DEF Holds
<1>2. ASSUME NEW b PROVE \/ ir.blocks[b].br \in Conditions /\ ~ has_value(ir.blocks[b].next)
                         \/ SentTo(b)' = SentTo(b)
  <2>1. CASE ir.blocks[b].br \in Conditions /\ has_value(ir.blocks[b].next)
    <3>1. /\ has_value(ir.blocks[b].next)'
          /\ ssa_values'[ir.blocks[b].next] = ssa_values[ir.blocks[b].next]
      BY <2>1 DEF Grown
    <3>2. ir.blocks[b].br # "unconditional" BY <2>1 DEF Conditions
    <3> QED BY <1>1, <2>1, <3>1, <3>2 DEF SentTo
  <2>2. CASE ir.blocks[b].br \notin Conditions BY <2>2 DEF SentTo
  <2> QED BY <2>1, <2>2
<1>3. \A b : ir.blocks[b].br \in Conditions /\ ~ has_value(ir.blocks[b].next) => SentTo(b) = NULL
  BY DEF SentTo, Conditions
<1>4. \A b : SentTo(b) = NULL \/ SentTo(b)' = SentTo(b) BY <1>2, <1>3
<1>5. ASSUME NEW b \in ValuesPath PROVE b \in ValuesPath'
  <2>1. ASSUME NEW R \in SUBSET (1..Len(ir.blocks)), entry \in R,
               \A x \in R : SentTo(x)' \in R \cup {NULL}
        PROVE  b \in R
    <3>1. \A x \in R : SentTo(x) \in R \cup {NULL} BY <1>4, <2>1
    <3> QED BY <2>1, <3>1 DEF ValuesPath
  <2>2. b \in 1..Len(ir.blocks) BY DEF ValuesPath
  <2> QED BY <2>1, <2>2 DEF ValuesPath
<1> QED BY <1>2, <1>5

LEMMA LeftStays ==
    ASSUME UNCHANGED <<ir, entry>>, Grown, NEW b, NEW V, NEW W, V \subseteq W, Left(b, V)
    PROVE  Left(b, W)'
<1>1. Defining(b)' = Defining(b) BY DEF Defining, Body, defines
<1>2. SentTo(b)' = SentTo(b) BY PathStays DEF Left
<1>3. SentTo(b)' \in W \cup {NULL} BY <1>2 DEF Left
<1> QED BY <1>1, <1>3 DEF Left, Grown

\* Control stays in the blocks it has reached, or reaches one more.
LEMMA VisitedStays ==
    ASSUME UNCHANGED <<ir, entry>>, Grown, NEW V, NEW W, Visited(V), V \subseteq W,
           W \in SUBSET (1..Len(ir.blocks)), \A b \in W \ V : b \in ValuesPath,
           \A b \in 1..Len(ir.blocks) : \A s \in Defining(b) :
               has_value(s)' => has_value(s) \/ b \in V,
           fault' = NoFault => /\ fault = NoFault
                               /\ Here' # NULL => Here' \in W
                               /\ \A b \in W : b = Here' \/ Left(b, V) \/ Left(b, W)'
    PROVE  Visited(W)'
<1>1. \A b \in W : b \in ValuesPath' BY PathStays DEF Visited
<1>2. \A b : Defining(b)' = Defining(b) BY DEF Defining, Body, defines
<1>3. ASSUME NEW b \in 1..Len(ir.blocks), NEW s \in Defining(b), has_value(s)' PROVE b \in W
  BY <1>3 DEF Visited, Valued
<1>4. ASSUME NEW b \in 1..Len(ir.blocks), Valued(b)' # {} PROVE b \in W
  BY <1>2, <1>3, <1>4 DEF Valued
<1>5. ASSUME fault' = NoFault
      PROVE  (Here' # NULL => Here' \in W) /\ \A b \in W : b = Here' \/ Left(b, W)'
  <2>1. ASSUME NEW b \in W PROVE b = Here' \/ Left(b, W)'
    <3>1. ASSUME Left(b, V) PROVE Left(b, W)' BY <3>1, LeftStays
    <3> QED BY <1>5, <3>1
  <2> QED BY <1>5, <2>1
<1>6. W \in SUBSET (1..Len(ir'.blocks)) /\ entry' \in W BY DEF Visited
<1> QED BY <1>1, <1>4, <1>5, <1>6 DEF Visited

LEMMA VisitedStep ==
    ASSUME IInv, RInv, Step, UNCHANGED <<ir, entry>>, NEW V, Visited(V)
    PROVE  \E W : Visited(W)'
<1>1. fault = NoFault BY DEF Step, Enter, Literal, Arithmetic, Phi, Return, Skip, Leave, At
<1>2. /\ Here # NULL => Here \in V
      /\ \A b \in V : b = Here \/ Left(b, V)
      /\ V \in SUBSET (1..Len(ir.blocks)) /\ \A b \in V : b \in ValuesPath
  BY <1>1 DEF Visited
<1>3. ASSUME UNCHANGED ssa_values PROVE Grown /\ \A s : has_value(s)' <=> has_value(s)
  BY <1>3 DEF has_value, Grown
<1>4. CASE FailStep
  <2>1. fault' # NoFault /\ UNCHANGED ssa_values BY <1>4 DEF FailStep, Fails
  <2> QED BY <1>2, <1>3, <2>1, VisitedStays
<1>5. CASE EnterStep
  <2>1. UNCHANGED ssa_values BY <1>5 DEF EnterStep
  <2>2. Here' = Here
    <3>1. pc' # NULL
      <4>1. Shaped(ir) BY DEF IInv
      <4> QED BY <1>5, <4>1 DEF EnterStep, Shaped, ShapedBlock, Slots, NULL
    <3> QED BY <1>5, <3>1 DEF Here, EnterStep
  <2> QED BY <1>1, <1>2, <1>3, <2>1, <2>2, VisitedStays
<1>6. CASE SkipStep
  <2>1. UNCHANGED ssa_values BY <1>6 DEF SkipStep
  <2>2. Here' = Here
    <3>1. pc # NULL /\ pc + 1 # NULL BY <1>6, InsideFacts DEF SkipStep, Inside
    <3> QED BY <1>6, <3>1 DEF Here, SkipStep
  <2> QED BY <1>1, <1>2, <1>3, <2>1, <2>2, VisitedStays
<1>7. CASE ValueStep
  <2>1. Inside /\ pc # NULL /\ pc + 1 # NULL BY <1>7, InsideFacts DEF ValueStep, Inside
  <2>2. Here' = Here /\ Here = cur BY <1>7, <2>1 DEF Here, ValueStep
  <2>3. \A s : has_value(s)' <=> has_value(s) \/ s = pc BY <1>7, NewValue
  <2>4. Grown
    <3>1. ~ has_value(pc) /\ Typed(ir, ssa_values) BY <1>7, <2>1, InsideFacts DEF ValueStep
    <3>2. \A s : s # pc => ssa_values'[s] = ssa_values[s]
      BY <1>7, <3>1 DEF ValueStep, Typed
    <3> QED BY <2>3, <3>1, <3>2 DEF Grown
  <2>5. cur \in V BY <1>2, <2>1, <2>2 DEF Inside, IInv
  <2>6. ASSUME NEW b \in 1..Len(ir.blocks), NEW s \in Defining(b), has_value(s)'
        PROVE  has_value(s) \/ b \in V
    <3>1. CASE b = cur BY <2>5, <3>1
    <3>2. CASE b # cur
      <4>1. s # pc BY <2>1, <3>2, OneBody DEF Defining
      <4> QED BY <2>3, <2>6, <4>1
    <3> QED BY <3>1, <3>2
  <2> QED BY <1>1, <1>2, <2>2, <2>4, <2>6, VisitedStays
<1>8. CASE LeaveStep
  <2> PICK target : target = SentTo(cur) OBVIOUS
  <2> DEFINE W == IF target = NULL THEN V ELSE V \cup {target}
  <2>1. /\ pc # NULL /\ pc' = NULL /\ ctx'.block = target /\ UNCHANGED ssa_values
        /\ ir.blocks[cur].br \in Conditions => has_value(ir.blocks[cur].next)
    BY <1>8 DEF LeaveStep
  <2>2. Here' = target /\ Here = cur BY <2>1 DEF Here
  <2>3. cur # NULL /\ cur \in V BY <1>2, <2>1, <2>2 DEF IInv
  <2>4. target # NULL => target \in 1..Len(ir.blocks)
    <3>1. Shaped(ir) /\ cur \in 1..Len(ir.blocks) BY <1>2, <2>3 DEF IInv
    <3>2. /\ ir.blocks[cur].block_true \in 0..Len(ir.blocks)
          /\ ir.blocks[cur].block_false \in 0..Len(ir.blocks) /\ Len(ir.blocks) \in Nat
      BY <3>1 DEF Shaped, ShapedBlock
    <3>3. target \in {ir.blocks[cur].block_true, ir.blocks[cur].block_false, NULL}
      BY DEF SentTo
    <3>4. target \in 0..Len(ir.blocks) BY <3>2, <3>3 DEF NULL
    <3> QED BY <3>2, <3>4, Given
  <2>5. target # NULL => target \in ValuesPath BY <1>2, <2>3, <2>4, PathGoesOn
  <2>6. \A s \in Defining(cur) : has_value(s) BY <1>1, <1>8, RanWhole
  <2>7. /\ V \subseteq W /\ W \in SUBSET (1..Len(ir.blocks))
        /\ \A b \in W \ V : b \in ValuesPath
        /\ target # NULL => target \in W
    BY <1>2, <2>4, <2>5
  <2>8. target \in W \cup {NULL} OBVIOUS
  <2> HIDE DEF W
  <2>9. Left(cur, W) BY <2>1, <2>6, <2>8 DEF Left
  <2>10. \A c : c = cur => Left(c, W)'
    <3>1. ASSUME NEW c, c = cur PROVE Left(c, W)'
      <4>1. Left(c, W) BY <2>9, <3>1
      <4> QED BY <1>3, <2>1, <4>1, LeftStays
    <3> QED BY <3>1
  <2>11. ASSUME NEW b \in W PROVE b = Here' \/ Left(b, V) \/ Left(b, W)'
    <3>1. CASE b \in V
      <4>1. b = cur \/ Left(b, V) BY <1>2, <2>2, <3>1
      <4> QED BY <2>10, <4>1
    <3>2. CASE b \notin V
      <4>1. b = target BY <2>11, <3>2 DEF W
      <4> QED BY <2>2, <4>1
    <3> QED BY <3>1, <3>2
  <2>12. Grown /\ \A b \in 1..Len(ir.blocks) : \A s \in Defining(b) :
                     has_value(s)' => has_value(s) \/ b \in V
    BY <1>3, <2>1
  <2>13. Here' # NULL => Here' \in W BY <2>2, <2>7
  <2>14. Visited(W)' BY <1>1, <2>7, <2>11, <2>12, <2>13, VisitedStays
  <2> QED BY <2>14
<1> QED BY <1>4, <1>5, <1>6, <1>7, <1>8, StepKinds

LEMMA PInvNext == ASSUME IInv, RInv, PInv, [Next]_mcVars PROVE PInv'
<1>1. CASE Execution
  <2>1. UNCHANGED <<ir, entry, execs>> /\ Step /\ (pc # NULL \/ ctx.block # NULL)
    BY <1>1 DEF Execution, Step, Enter, Literal, Arithmetic, Phi, Return, Skip, Leave, At
  <2>2. execs # 0 BY <2>1 DEF PInv
  <2>3. ASSUME execs = 1, entry # NULL PROVE \E W : Visited(W)'
    <3>1. PICK V : Visited(V) BY <2>3 DEF PInv
    <3> QED BY <2>1, <3>1, VisitedStep
  <2>4. execs' = execs /\ entry' = entry /\ entry' \in 0..Len(ir'.blocks) BY <2>1 DEF PInv
  <2> QED BY <2>2, <2>3, <2>4 DEF PInv
<1>2. CASE Exec
  <2>1. PICK b \in 0..Len(ir.blocks) : Start(b) /\ entry' = b BY <1>2 DEF Exec
  <2>2. pc = NULL /\ execs' = execs + 1 /\ UNCHANGED ir /\ execs \in Nat
    BY <1>2, <2>1 DEF Exec, Running, Start, PInv
  <2>3. ASSUME execs' = 1, entry' # NULL PROVE Visited({entry})'
    <3>1. execs = 0 /\ b # NULL /\ ssa_values = <<>> BY <2>1, <2>2, <2>3 DEF PInv
    <3>2. /\ ctx' = [block |-> b, return_value |-> NULL] /\ UNCHANGED <<fault, pc>>
          /\ ssa_values' = [s \in 1..Len(ir.ssas) |-> IF has_value(s) THEN ssa_values[s] ELSE Unset]
      BY <2>1, <3>1 DEF Start
    <3>3. \A s : ~ has_value(s)' BY <3>1, <3>2 DEF has_value
    <3>4. \A d : Valued(d)' = {} BY <3>3 DEF Valued
    <3>5. Here' = entry' BY <2>1, <2>2, <3>2 DEF Here
    <3>6. b \in 1..Len(ir'.blocks)
      <4>1. Len(ir.blocks) \in Nat BY DEF IInv, Shaped
      <4> QED BY <2>2, <3>1, <4>1, Given
    <3>7. \A x : x = entry' => x \in ValuesPath' BY <2>1, <3>6 DEF ValuesPath
    <3> QED BY <2>1, <3>4, <3>5, <3>6, <3>7 DEF Visited
  <2>4. entry' \in 0..Len(ir'.blocks) /\ execs' \in Nat /\ execs' # 0 BY <2>1, <2>2
  <2>5. execs' = 1 /\ entry' # NULL => \E W : Visited(W)' BY <2>3
  <2> QED BY <2>4, <2>5 DEF PInv
<1>3. CASE Idle \/ UNCHANGED mcVars
  <2>1. UNCHANGED <<ir, fault, ctx, cur, pc, ssa_values, entry, execs>>
    BY <1>3 DEF Idle, mcVars, interpVars
  <2>2. Grown /\ Here' = Here /\ \A s : has_value(s)' <=> has_value(s)
    BY <2>1 DEF Grown, Here, has_value
  <2>3. ASSUME NEW V, Visited(V) PROVE Visited(V)'
    <3>1. /\ V \in SUBSET (1..Len(ir.blocks))
          /\ fault = NoFault => (Here # NULL => Here \in V) /\ \A b \in V : b = Here \/ Left(b, V)
      BY <2>3 DEF Visited
    <3> QED BY <2>1, <2>2, <2>3, <3>1, VisitedStays
  <2>4. execs' = execs /\ entry' = entry /\ entry' \in 0..Len(ir'.blocks) /\ execs' \in Nat
    BY <2>1 DEF PInv
  <2>5. execs' = 0 => ssa_values' = <<>> /\ pc' = NULL /\ ctx'.block = NULL BY <2>1 DEF PInv
  <2>6. execs' = 1 /\ entry' # NULL => \E V : Visited(V)' BY <2>1, <2>3 DEF PInv
  <2> QED BY <2>4, <2>5, <2>6 DEF PInv
<1> QED BY <1>1, <1>2, <1>3 DEF Next

-----------------------------------------------------------------------------
(***************************************************************************)
(* The theorems.                                                           *)
(***************************************************************************)
LEMMA ProgramsShaped == \A c \in Programs : Shaped(c)
<1> SUFFICES ASSUME NEW c \in Programs PROVE Shaped(c) OBVIOUS
<1>1. PICK e1 \in Ends1, e2 \in Ends2, e3 \in Ends3,
           i1 \in Ins1, i2 \in Ins2, i3 \in Ins3, i4 \in Ins4, i5 \in Ins5 :
         c = [blocks |-> Blocks(e1, e2, e3), ssas |-> <<i1, i2, i3, i4, i5>>,
              phi_lists |-> <<3, 2, 1, NULL>>]
  BY DEF Programs
<1>2. c.blocks = Blocks(e1, e2, e3) /\ c.ssas = <<i1, i2, i3, i4, i5>> BY <1>1
<1>3. \A e \in {e1, e2, e3, end("UNUSED", NULL, NULL)} :
         e.br \in Kinds /\ e.block_true \in 0..4 /\ e.block_false \in 0..4
  <2>1. \A b \in Kinds, t, f \in {0, 1, 2, 3, 4} :
           LET e == end(b, t, f)
           IN  e.br \in Kinds /\ e.block_true \in 0..4 /\ e.block_false \in 0..4
    BY DEF end
  <2>2. e1.br \in Kinds /\ e1.block_true \in 0..4 /\ e1.block_false \in 0..4
    <3>1. PICK k \in Conditions : e1 = end(k, 2, 3) BY DEF Ends1
    <3> QED BY <2>1, <3>1 DEF Kinds
  <2>3. e2.br \in Kinds /\ e2.block_true \in 0..4 /\ e2.block_false \in 0..4
    BY DEF Ends2, end, Kinds, Conditions, NULL
  <2>4. e3.br \in Kinds /\ e3.block_true \in 0..4 /\ e3.block_false \in 0..4
    BY DEF Ends3, end, Kinds, NULL
  <2> QED BY <2>1, <2>2, <2>3, <2>4 DEF Kinds, NULL
<1>4. \A i \in {i1, i2, i3, i4, i5} :
         i.op \in Ops /\ (i.op = "i" => i.left \in Nat) /\ (i.op = "ret" => i.left \in 0..5)
  BY DEF ins, Ops, Ins1, Ins2, Ins3, Ins4, Ins5
<1>5. Len(c.blocks) = 4 /\ Len(c.ssas) = 5 BY <1>2 DEF Blocks
<1>6. ASSUME NEW s \in Slots(c) PROVE ShapedIns(c, c.ssas[s])
  <2>1. s \in 1..5 BY <1>5 DEF Slots
  <2>2. c.ssas[s] \in {i1, i2, i3, i4, i5} BY <1>2, <2>1
  <2> QED BY <1>4, <1>5, <2>2 DEF ShapedIns
<1>7. ASSUME NEW h, NEW n, h # NULL => h \in 1..5 /\ n \in 1..5 /\ h <= n,
             NEW e \in {e1, e2, e3, end("UNUSED", NULL, NULL)}
      PROVE  ShapedBlock(c, block(h, n, e))
  <2>1. /\ block(h, n, e).head = h /\ block(h, n, e).next = n /\ block(h, n, e).br = e.br
        /\ block(h, n, e).block_true = e.block_true /\ block(h, n, e).block_false = e.block_false
    BY DEF block
  <2> QED BY <1>3, <1>5, <1>7, <2>1 DEF ShapedBlock, Slots
<1>8. ASSUME NEW b \in 1..Len(c.blocks) PROVE ShapedBlock(c, c.blocks[b])
  <2>1. b \in 1..4 BY <1>5
  <2>2. c.blocks[b] \in {block(1, 2, e1), block(3, 3, e2), block(4, 5, e3),
                         block(NULL, NULL, end("UNUSED", NULL, NULL))}
    BY <1>2, <2>1 DEF Blocks
  <2> QED BY <1>7, <2>2 DEF NULL
<1>9. ASSUME NEW b \in 1..Len(c.blocks), NEW d \in 1..Len(c.blocks), b # d
      PROVE  OwnRange(c, b, d)
  <2>1. b \in 1..4 /\ d \in 1..4 BY <1>5
  <2>2. /\ c.blocks[1].head = 1 /\ c.blocks[1].next = 2
        /\ c.blocks[2].head = 3 /\ c.blocks[2].next = 3
        /\ c.blocks[3].head = 4 /\ c.blocks[3].next = 5
        /\ c.blocks[4].head = NULL
    BY <1>2 DEF Blocks, block
  <2> QED BY <1>9, <2>1, <2>2 DEF OwnRange
<1> QED BY <1>5, <1>6, <1>8, <1>9 DEF Shaped

\* The interpreter of any code of the right shape, which the runs check for
\* the codes of Programs
Fresh   == Shaped(ir) /\ fault = NoFault /\ InterpInit /\ entry = NULL /\ execs = 0
AnyCode == Fresh /\ [][Next]_mcVars

LEMMA IInvHolds == Spec \/ AnyCode => []IInv
<1>1. Init => IInv BY ProgramsShaped, Initially DEF Init
<1>2. Fresh => IInv BY Initially DEF Fresh
<1> QED BY <1>1, <1>2, NextKeeps, PTL DEF Spec, AnyCode

LEMMA Types == ASSUME IInv PROVE TypeOK
<1>1. /\ ctx.block \in 0..Len(ir.blocks) /\ ctx.return_value \in 0..Len(ir.ssas) BY DEF IInv
<1>2. ssa_values # <<>> => ssa_values \in [1..Len(ir.ssas) -> Value \cup {Unset}]
  BY DEF IInv, Typed, Slots
<1>3. ASSUME pc # NULL PROVE pc \in Body(cur) \cup {ir.blocks[cur].next + 1} /\ ctx.block = NULL
  <2>1. /\ ir.blocks[cur].head # NULL /\ ctx.block = NULL /\ Shaped(ir) /\ cur # NULL
        /\ pc \in ir.blocks[cur].head .. ir.blocks[cur].next + 1 /\ cur \in 0..Len(ir.blocks)
    BY <1>3 DEF IInv
  <2>2. cur \in 1..Len(ir.blocks) BY <2>1, Given DEF Shaped
  <2>3. ir.blocks[cur].head \in Slots(ir) /\ ir.blocks[cur].next \in Slots(ir)
    BY <2>1, <2>2 DEF Shaped, ShapedBlock
  <2> QED BY <2>1, <2>3 DEF Body, Slots
<1> QED BY <1>1, <1>2, <1>3 DEF TypeOK

\* Whatever the code computes with, each value has its width, and the
\* interpreter is at an instruction of its block or just past the last one.
THEOREM InterpTypeCorrect == Spec \/ AnyCode => []TypeOK
BY IInvHolds, Types, PTL

\* Whatever the code, loops and further execs included, a block that computes
\* anything computes all of it, once.
THEOREM BlocksRun == Spec \/ AnyCode => []BlocksRunOnce
<1>1. Fresh => IInv /\ RInv
  <2>1. ASSUME InterpInit PROVE RInv
    BY <2>1 DEF InterpInit, RInv, OneRun, NoneRun, AllOrNone, has_value
  <2> QED BY <2>1, Initially DEF Fresh
<1>2. Init => Fresh BY ProgramsShaped DEF Init, Fresh
<1> QED BY <1>1, <1>2, RunOnce, NextKeeps, RInvNext, PTL DEF Spec, AnyCode

\* Whatever the code, the values a first exec leaves tell the path it took: all
\* that has values lies on the path they lead along, and if exec returns, all of
\* that path has.
THEOREM PathIsTold == Spec \/ AnyCode => []ValuesTellThePath
<1>1. Fresh => IInv /\ RInv /\ PInv
  <2>1. ASSUME InterpInit PROVE RInv
    BY <2>1 DEF InterpInit, RInv, OneRun, NoneRun, AllOrNone, has_value
  <2>2. ASSUME IInv, InterpInit, entry = NULL, execs = 0 PROVE PInv
    BY <2>2 DEF PInv, IInv, Shaped, InterpInit, NULL
  <2> QED BY <2>1, <2>2, Initially DEF Fresh
<1>2. Init => Fresh BY ProgramsShaped DEF Init, Fresh
<1> QED BY <1>1, <1>2, PathTold, NextKeeps, RInvNext, PInvNext, PTL DEF Spec, AnyCode

\* In well-formed code no result of the first exec comes from a missing
\* operand, and the values found, on whatever path, solve the code read as
\* equations, loops included.
THEOREM ValuesAreSolutions == Spec \/ AnyCode => []ValuesSolveTheCode
<1>1. Fresh => IInv /\ VInv
  <2>1. ASSUME IInv, InterpInit, entry = NULL, execs = 0 PROVE VInv
    BY <2>1 DEF VInv, IInv, Shaped, InterpInit, FirstExec, NULL
  <2> QED BY <2>1, Initially DEF Fresh
<1>2. Init => Fresh BY ProgramsShaped DEF Init, Fresh
<1>3. IInv /\ VInv => ValuesSolveTheCode
  BY DEF VInv, ValuesSolveTheCode, AllSolved, Solved, FirstExec
<1> QED BY <1>1, <1>2, <1>3, NextKeeps, ValuesInvariant, PTL DEF Spec, AnyCode

=============================================================================
