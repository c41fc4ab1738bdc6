--------------------------- MODULE CompilerProofs ---------------------------
(***************************************************************************)
(* Which assertions of the emitter can fail, and what its finished code    *)
(* promises the interpreter, for every capacity and every tree.  The       *)
(* handlers are gone through once more, on top of what IrEmitProofs shows  *)
(* of them.                                                                *)
(***************************************************************************)
EXTENDS IrEmitProofs, Compiler

-----------------------------------------------------------------------------
(***************************************************************************)
(* Failures.  The assertions the emitter may run into are those that guard *)
(* against a program it does not support, or one too large for an arena.   *)
(***************************************************************************)
\* A record with a fault, and that fault is none or an allowed one
Allowed(x) == "fault" \in DOMAIN x /\ x.fault \in Refusals \cup {NoFault}

\* A check passes, or fails with a message that is allowed.
LEMMA CheckedAllows ==
    ASSUME NEW x, Allowed(x), NEW ok, NEW why, ok \/ why \in Refusals,
           NEW next, x.fault = NoFault /\ ok => Allowed(next)
    PROVE  Allowed(Checked(x, ok, why, next))
<1>1. Allowed([x EXCEPT !.fault = why]) \/ ok BY DEF Allowed
<1> QED BY <1>1, Zenon DEF Checked, Then

LEMMA ThenAllows ==
    ASSUME NEW x, Allowed(x), NEW next, x.fault = NoFault => Allowed(next)
    PROVE  Allowed(Then(x, next))
BY Zenon DEF Then

LEMMA CodeAllows ==
    ASSUME NEW B, Code(B)
    PROVE  Allowed(B)
<1>1. B.fault = NoFault /\ B \in builder BY CodeTyped, Zenon
<1>2. "fault" \in DOMAIN B BY <1>1 DEF builder
<1> QED BY <1>1, <1>2 DEF Allowed

-----------------------------------------------------------------------------
(***************************************************************************)
(* The calls into the builder that fail with no other message.             *)
(***************************************************************************)
LEMMA UpdatesAllow ==
    ASSUME NEW B, Allowed(B), NEW x, NEW y
    PROVE  /\ Allowed([B EXCEPT !.blocks = x]) /\ Allowed([B EXCEPT !.ssas = x])
           /\ Allowed([B EXCEPT !.phi_lists = x]) /\ Allowed([B EXCEPT !.phi_start = x])
           /\ Allowed(WithBlock(B, x, y)) /\ Allowed(WithCurrent(B, x))
BY DEF Allowed, WithBlock, WithCurrent

LEMMA alloc_blockAllows ==
    ASSUME NEW B, Allowed(B)
    PROVE  Allowed(alloc_block(B))
<1>1. Allowed([B EXCEPT !.blocks = Append(@, FreshBlock)])
  <2>1. [B EXCEPT !.blocks = Append(@, FreshBlock)] = [B EXCEPT !.blocks = Append(B.blocks, FreshBlock)]
    OBVIOUS
  <2> QED BY <2>1, UpdatesAllow, Zenon
<1>2. "Arena reached max capacity" \in Refusals BY DEF Refusals
<1> QED BY <1>1, <1>2, CheckedAllows, Zenon DEF alloc_block

LEMMA alloc_ssaAllows ==
    ASSUME NEW B, Allowed(B), NEW s
    PROVE  Allowed(alloc_ssa(B, s))
<1>1. Allowed([B EXCEPT !.ssas = Append(@, s)])
  <2>1. [B EXCEPT !.ssas = Append(@, s)] = [B EXCEPT !.ssas = Append(B.ssas, s)]
    OBVIOUS
  <2> QED BY <2>1, UpdatesAllow, Zenon
<1>2. "Arena reached max capacity" \in Refusals BY DEF Refusals
<1> QED BY <1>1, <1>2, CheckedAllows, Zenon DEF alloc_ssa

LEMMA InBlockAllows ==
    ASSUME NEW B, Allowed(B), B.current_block # NULL, NEW next, Allowed(next)
    PROVE  Allowed(InBlock(B, next))
BY CheckedAllows, Zenon DEF InBlock

LEMMA InOpenBlockAllows ==
    ASSUME NEW B, Allowed(B), B.current_block # NULL, NEW next, Allowed(next)
    PROVE  Allowed(InOpenBlock(B, next))
<1>1. "current_block->br == block_br::UNUSED" \in Refusals BY DEF Refusals
<1> QED BY <1>1, CheckedAllows, InBlockAllows, Zenon DEF InOpenBlock

LEMMA emitAllows ==
    ASSUME NEW B, Allowed(B), B.current_block # NULL, NEW o, NEW flags, NEW l, NEW r
    PROVE  Allowed(emit(B, o, flags, l, r))
BY alloc_ssaAllows, InOpenBlockAllows, Zenon DEF emit

LEMMA retAllows ==
    ASSUME NEW B, Allowed(B), B.current_block # NULL, NEW val
    PROVE  Allowed(ret(B, val))
BY emitAllows, UpdatesAllow, ThenAllows, Zenon DEF ret

LEMMA push_predecessorAllows ==
    ASSUME NEW B, Allowed(B), NEW t
    PROVE  Allowed(push_predecessor(B, t))
<1>1. "next < max" \in Refusals BY DEF Refusals
<1> QED BY <1>1, CheckedAllows, UpdatesAllow, Zenon DEF push_predecessor

LEMMA unconditional_branchAllows ==
    ASSUME NEW B, Allowed(B), B.current_block # NULL, NEW t
    PROVE  Allowed(unconditional_branch(B, t))
BY InOpenBlockAllows, UpdatesAllow, push_predecessorAllows, Zenon DEF unconditional_branch

LEMMA branchAllows ==
    ASSUME NEW B, Allowed(B), B.current_block # NULL
    PROVE  Allowed(branch(B, "eq", NULL, NULL))
<1> DEFINE B1 == alloc_block(B)
           t  == last_block(B1)
           B2 == alloc_block(B1)
           f  == last_block(B2)
           b  == [B.blocks[B.current_block] EXCEPT !.br = "eq", !.block_true = t, !.block_false = f]
           B3 == Then(B2, WithBlock(B2, B.current_block, b))
           B4 == Then(B3, push_predecessor(B3, t))
           B5 == Then(B4, push_predecessor(B4, f))
<1>1. branch(B, "eq", NULL, NULL) = InOpenBlock(B, B5) BY Zenon DEF branch
<1>2. Allowed(B2) BY alloc_blockAllows, Zenon
<1>3. Allowed(B3) BY <1>2, UpdatesAllow, ThenAllows, Zenon
<1> HIDE DEF B3
<1>4. Allowed(B4) BY <1>3, push_predecessorAllows, ThenAllows, Zenon
<1> HIDE DEF B4
<1>5. Allowed(B5) BY <1>4, push_predecessorAllows, ThenAllows, Zenon
<1> QED BY <1>1, <1>5, InOpenBlockAllows, Zenon

LEMMA end_blockAllows ==
    ASSUME NEW B, Allowed(B),
           B.fault = NoFault => B.current_block # NULL /\ B.blocks[B.current_block].br # "UNUSED"
    PROVE  Allowed(end_block(B))
<1>1. "is_not_empty" \in Refusals BY DEF Refusals
<1>2. CASE B.fault = NoFault
  BY <1>1, <1>2, CheckedAllows, InBlockAllows, UpdatesAllow, Zenon DEF end_block, Closing
<1>3. CASE B.fault # NoFault BY <1>3, Zenon DEF end_block, InBlock, Checked, Then
<1> QED BY <1>2, <1>3

LEMMA start_blockAllows ==
    ASSUME NEW B, Allowed(B), B.current_block = NULL, NEW t, t # NULL, NEW scope
    PROVE  Allowed(start_block(B, t, scope))
BY CheckedAllows, UpdatesAllow, Zenon DEF start_block

LEMMA add_final_valueAllows ==
    ASSUME NEW B, Allowed(B), NEW sym, NEW value
    PROVE  Allowed(add_final_value(B, sym, value))
<1>1. "Attempt to add duplicate key" \in Refusals BY DEF Refusals
<1> QED BY <1>1, CheckedAllows, UpdatesAllow, Zenon DEF add_final_value

-----------------------------------------------------------------------------
(***************************************************************************)
(* A phi takes the list that was written for it.                           *)
(***************************************************************************)

\* D has the lists of B and the first k of the values after them.
Written(B, values, k, D) ==
    /\ Allowed(D) /\ Typed(D) /\ D.ssas = B.ssas
    /\ D.fault = NoFault =>
          /\ D.phi_start = Len(B.phi_lists) + 1
          /\ Len(D.phi_lists) = Len(B.phi_lists) + k
          /\ \A j \in 1..Len(B.phi_lists) : D.phi_lists[j] = B.phi_lists[j]
          /\ \A j \in 1..k : D.phi_lists[Len(B.phi_lists) + j] = values[j]

LEMMA start_phiWrites ==
    ASSUME NEW B, Code(B), NEW values
    PROVE  Written(B, values, 0, start_phi(B))
<1> DEFINE C == [B EXCEPT !.phi_start = Len(B.phi_lists) + 1]
<1>1. /\ B.phi_start = NULL /\ B.fault = NoFault /\ Typed(B) /\ B \in builder /\ Allowed(B)
  BY CodeTyped, CodeAllows, Zenon
<1>2. start_phi(B) = C BY <1>1, Zenon DEF start_phi, Checked, Then
<1>3. Typed(C) BY <1>1, <1>2, start_phiTyped, Zenon
<1>4. Allowed(C) BY <1>1, UpdatesAllow, Zenon
<1>5. /\ C.ssas = B.ssas /\ C.phi_lists = B.phi_lists /\ C.phi_start = Len(B.phi_lists) + 1
  BY <1>1 DEF builder
<1>6. Len(B.phi_lists) \in Nat BY <1>1, LengthType
<1> HIDE DEF C
<1> QED BY <1>2, <1>3, <1>4, <1>5, <1>6 DEF Written

LEMMA push_phiWrites ==
    ASSUME NEW B, NEW values, NEW k \in Nat, NEW D, Written(B, values, k, D),
           values[k + 1] \in Nat, Len(B.phi_lists) \in Nat
    PROVE  Written(B, values, k + 1, push_phi(D, values[k + 1]))
<1> DEFINE v == values[k + 1]
           n == Len(B.phi_lists)
           C == [D EXCEPT !.phi_lists = Append(D.phi_lists, v)]
           P == push_phi(D, v)
<1>1. Allowed(D) /\ Typed(D) /\ D.ssas = B.ssas BY Zenon DEF Written
<1>2. Typed(P) BY <1>1, push_phiTyped, Zenon
<1>3. CASE D.fault # NoFault
  <2>1. P = D BY <1>3, Zenon DEF push_phi, Checked, Then
  <2> QED BY <1>1, <1>3, <2>1, Zenon DEF Written
<1>4. CASE D.fault = NoFault
  <2>1. /\ D.phi_start = n + 1 /\ Len(D.phi_lists) = n + k
        /\ \A j \in 1..n : D.phi_lists[j] = B.phi_lists[j]
        /\ \A j \in 1..k : D.phi_lists[n + j] = values[j]
    BY <1>4, Zenon DEF Written
  <2>2. D.phi_start # NULL BY <2>1 DEF NULL
  <2>3. D \in builder /\ D.phi_lists \in Seq(Nat) BY <1>1, FieldType, Zenon DEF Typed
  <2>4. "Arena reached max capacity" \in Refusals BY DEF Refusals
  <2>5. P = Checked(D, Len(D.phi_lists) < MaxPhiArgs, "Arena reached max capacity", C)
    <3>1. [D EXCEPT !.phi_lists = Append(@, v)] = C OBVIOUS
    <3> QED BY <1>4, <2>2, <3>1, Zenon DEF push_phi, Checked, Then
  <2>6. Allowed(C) BY <1>1, UpdatesAllow, Zenon
  <2>7. Allowed(P) BY <1>1, <2>4, <2>5, <2>6, CheckedAllows, Zenon
  <2>8. P.ssas = B.ssas
    <3>1. C.ssas = D.ssas BY <2>3 DEF builder
    <3>2. [D EXCEPT !.fault = "Arena reached max capacity"].ssas = D.ssas BY <2>3 DEF builder
    <3> QED BY <1>1, <2>5, <3>1, <3>2, Zenon DEF Checked, Then
  <2>9. ASSUME P.fault = NoFault
        PROVE  /\ P.phi_start = n + 1 /\ Len(P.phi_lists) = n + (k + 1)
               /\ \A j \in 1..n : P.phi_lists[j] = B.phi_lists[j]
               /\ \A j \in 1..(k + 1) : P.phi_lists[n + j] = values[j]
    <3>0. "Arena reached max capacity" \in failure BY DEF failure
    <3>1. P = C
      <4> HIDE DEF C, P
      <4> QED BY <2>3, <2>5, <2>9, <3>0, CheckedPasses, Zenon
    <3>2. C.phi_start = D.phi_start /\ C.phi_lists = Append(D.phi_lists, v) BY <2>3 DEF builder
    <3> HIDE DEF C, P
    <3>3. v \in Nat OBVIOUS
    <3> HIDE DEF C, P, v
    <3>4. /\ Len(P.phi_lists) = Len(D.phi_lists) + 1
          /\ P.phi_lists[Len(D.phi_lists) + 1] = v
          /\ \A j \in 1..Len(D.phi_lists) : P.phi_lists[j] = D.phi_lists[j]
      BY <2>3, <3>1, <3>2, <3>3
    <3>5. P.phi_start = n + 1 BY <2>1, <3>1, <3>2
    <3>6. Len(D.phi_lists) = n + k /\ n \in Nat BY <2>1
    <3>7. Len(P.phi_lists) = n + (k + 1)
      <4> DEFINE d == Len(D.phi_lists)
                 p == Len(P.phi_lists)
      <4>1. p = d + 1 /\ d = n + k /\ n \in Nat BY <3>4, <3>6
      <4> HIDE DEF d, p, n
      <4>2. p = n + (k + 1) BY <4>1
      <4> QED BY <4>2 DEF p
    <3>8. \A j \in 1..n : P.phi_lists[j] = B.phi_lists[j]
      <4> HIDE DEF n
      <4> QED BY <2>1, <3>4, <3>6
    <3>9. ASSUME NEW j \in 1..(k + 1) PROVE P.phi_lists[n + j] = values[j]
      <4> HIDE DEF n
      <4>1. CASE j = k + 1
        <5>1. n + j = Len(D.phi_lists) + 1 BY <3>6, <4>1
        <5>2. values[j] = v BY <4>1 DEF v
        <5> QED BY <3>4, <5>1, <5>2
      <4>2. CASE j # k + 1
        <5>1. j \in 1..k /\ n + j \in 1..Len(D.phi_lists) BY <3>6, <4>2
        <5> QED BY <2>1, <3>4, <5>1
      <4> QED BY <4>1, <4>2
    <3> QED BY <3>5, <3>7, <3>8, <3>9
  <2> HIDE DEF C, P
  <2>10. P = push_phi(D, values[k + 1]) BY DEF P
  <2> QED BY <1>2, <2>7, <2>8, <2>9, <2>10, Zenon DEF Written
<1> QED BY <1>3, <1>4

\* The phi that was made lies last, and its slice of the lists is the values.
Lists(B, values, C) ==
    /\ Len(C.phi_lists) = Len(B.phi_lists) + Len(values)
    /\ \A j \in 1..Len(B.phi_lists) : C.phi_lists[j] = B.phi_lists[j]
    /\ \A j \in 1..Len(values) : C.phi_lists[Len(B.phi_lists) + j] = values[j]
    /\ C.ssas[Len(C.ssas)].left = Len(B.phi_lists) + 1
    /\ C.ssas[Len(C.ssas)].right = Len(values)

LEMMA AppendedAny ==
    ASSUME NEW S, NEW q \in Seq(S), NEW x, NEW r, r = Append(q, x)
    PROVE  Len(r) = Len(q) + 1 /\ r[Len(r)] = x
OBVIOUS

LEMMA end_phiWrites ==
    ASSUME NEW B, NEW values, Len(values) \in Nat \ {0}, NEW D, Written(B, values, Len(values), D),
           Len(B.phi_lists) \in Nat
    PROVE  /\ Allowed(end_phi(D))
           /\ end_phi(D).fault = NoFault => Lists(B, values, end_phi(D))
<1> DEFINE size == Len(D.phi_lists) + 1 - D.phi_start
           i    == [op |-> "phi", flags |-> {}, block |-> D.current_block,
                    left |-> D.phi_start, right |-> size]
           A    == alloc_ssa(D, i)
           R    == Then(A, [A EXCEPT !.phi_start = NULL])
           E    == end_phi(D)
<1>1. Allowed(D) /\ Typed(D) /\ D.ssas = B.ssas BY Zenon DEF Written
<1>2. CASE D.fault # NoFault
  <2>1. E = D BY <1>2, Zenon DEF end_phi, Checked, Then
  <2> HIDE DEF E
  <2>2. E = end_phi(D) BY DEF E
  <2> QED BY <1>1, <1>2, <2>1, <2>2, Zenon
<1>3. CASE D.fault = NoFault
  <2>1. /\ D.phi_start = Len(B.phi_lists) + 1 /\ Len(D.phi_lists) = Len(B.phi_lists) + Len(values)
        /\ \A j \in 1..Len(B.phi_lists) : D.phi_lists[j] = B.phi_lists[j]
        /\ \A j \in 1..Len(values) : D.phi_lists[Len(B.phi_lists) + j] = values[j]
    BY <1>3, Zenon DEF Written
  <2>2. D.phi_start # NULL /\ size = Len(values) /\ size > 0 BY <2>1 DEF NULL
  <2>3. E = R
    <3>1. E = Checked(D, D.phi_start # NULL, "phi_start != NULL", Checked(D, size > 0, "size > 0", R))
      BY Zenon DEF end_phi
    <3> HIDE DEF E, R, size
    <3> QED BY <1>3, <2>2, <3>1, Zenon DEF Checked, Then
  <2>4. Allowed(A) BY <1>1, alloc_ssaAllows, Zenon
  <2>5. Allowed(R)
    <3> HIDE DEF A
    <3> QED BY <2>4, UpdatesAllow, ThenAllows, Zenon
  <2>6. ASSUME E.fault = NoFault PROVE Lists(B, values, E)
    <3>1. D \in builder /\ D.ssas \in Seq(ssa) BY <1>1, FieldType, Zenon DEF Typed
    <3>2. R.fault = NoFault
      <4> HIDE DEF R, E
      <4> QED BY <2>3, <2>6
    <3>3. A.fault = NoFault /\ R = [A EXCEPT !.phi_start = NULL]
      <4> HIDE DEF A
      <4> QED BY <3>2, ThenPasses, Zenon
    <3>4. A = [D EXCEPT !.ssas = Append(@, i)]
      <4> HIDE DEF i
      <4> QED BY <3>1, <3>3, alloc_ssaPasses, Zenon
    <3>5. /\ R.phi_lists = D.phi_lists /\ R.ssas = Append(D.ssas, i)
      <4> HIDE DEF i
      <4>1. A.phi_lists = D.phi_lists /\ A.ssas = Append(D.ssas, i) /\ DOMAIN A = DOMAIN D
        BY <3>1, <3>4 DEF builder
      <4>2. DOMAIN A = DOMAIN D BY <4>1
      <4> HIDE DEF A, R
      <4> QED BY <3>1, <3>3, <4>1 DEF builder
    <3>6. R.ssas[Len(R.ssas)] = i
      <4> HIDE DEF i, R
      <4> QED BY <3>1, <3>5, AppendedAny
    <3>7. i.left = Len(B.phi_lists) + 1 /\ i.right = Len(values) BY <2>1, <2>2
    <3> HIDE DEF i, R, E
    <3> QED BY <2>1, <2>3, <3>5, <3>6, <3>7 DEF Lists
  <2> HIDE DEF E, R
  <2>7. E = end_phi(D) BY DEF E
  <2> QED BY <2>3, <2>5, <2>6, <2>7, Zenon
<1> QED BY <1>2, <1>3

LEMMA PhiOfWrites ==
    ASSUME NEW B, Code(B), NEW values \in Seq(Nat), values # <<>>
    PROVE  /\ Allowed(PhiOf(B, values))
           /\ PhiOf(B, values).fault = NoFault => Lists(B, values, PhiOf(B, values))
<1>1. Typed(B) /\ B \in builder BY CodeTyped, Zenon
<1>2. PICK pushed :
        /\ pushed[0] = start_phi(B)
        /\ \A k \in 1..Len(values) : pushed[k] = push_phi(pushed[k - 1], values[k])
        /\ PhiOf(B, values) = end_phi(pushed[Len(values)])
  BY <1>1, PhiOfUnfolds, Zenon
<1>3. Len(values) \in Nat \ {0} OBVIOUS
<1>4. Len(B.phi_lists) \in Nat BY <1>1, LengthType
<1> DEFINE S == {k \in 0..Len(values) : Written(B, values, k, pushed[k])}
<1>5. 0 \in S
  <2>1. Written(B, values, 0, pushed[0]) BY <1>2, start_phiWrites, Zenon
  <2> QED BY <1>3, <2>1
<1>6. ASSUME NEW k \in 1..Len(values), k - 1 \in S PROVE k \in S
  <2>1. k - 1 \in Nat /\ (k - 1) + 1 = k /\ k \in 0..Len(values) BY <1>3
  <2>2. Written(B, values, k - 1, pushed[k - 1]) BY <1>6
  <2>3. values[(k - 1) + 1] \in Nat BY <2>1
  <2>4. Written(B, values, (k - 1) + 1, push_phi(pushed[k - 1], values[(k - 1) + 1]))
    BY <1>4, <2>1, <2>2, <2>3, push_phiWrites, Zenon
  <2>5. pushed[k] = push_phi(pushed[k - 1], values[k]) BY <1>2
  <2>6. Written(B, values, k, pushed[k]) BY <2>1, <2>4, <2>5
  <2> QED BY <2>1, <2>6
<1> HIDE DEF S
<1>7. \A k \in 0..Len(values) : k \in S BY <1>3, <1>5, <1>6, UpTo
<1>8. Written(B, values, Len(values), pushed[Len(values)])
  <2>1. Len(values) \in S BY <1>3, <1>7
  <2> QED BY <2>1 DEF S
<1> QED BY <1>2, <1>3, <1>4, <1>8, end_phiWrites, Zenon

-----------------------------------------------------------------------------
(***************************************************************************)
(* What the code under construction promises whoever runs it.              *)
(***************************************************************************)

\* The entry block is the first, and no branch leads back to it.
Entry(B) == 1 \in BlockIds(B) /\ Started(B.blocks[1]) /\ B.blocks[1].predecessors = <<>>

\* The instructions that the emitter uses, and those of them without a value
KnownOp(i) == /\ i.op \in {"i", "add", "sub", "phi", "nop", "ret"}
              /\ has_flag(i, "no_value") <=> i.op \in {"nop", "ret"}

Known(B) == \A s \in SsaIds(B) : KnownOp(B.ssas[s])

ArgBlocks(B, s) == {B.ssas[B.phi_lists[k]].block : k \in PhiSlice(B, s)}

\* C holds the block of the phi s and, of each of its blocks but those that
\* compute an argument, all predecessors: going back from s along any path, one
\* meets an argument before one leaves C, and before the entry.
Cover(B, s, C) ==
    /\ C \subseteq BlockIds(B) \ Unstarted(B)
    /\ B.ssas[s].block \in C
    /\ \A c \in C : c \in ArgBlocks(B, s) \/ (c # 1 /\ Preds(B, c) \subseteq C)

\* Wherever control came from, the phi s finds an argument that has a value.
Finds(B, s) == /\ \A k \in PhiSlice(B, s) : ~ has_flag(B.ssas[B.phi_lists[k]], "no_value")
               /\ \E C : Cover(B, s, C)

\* A block that returns goes nowhere else, and returns once.
Returns(B) ==
    \A s \in SsaIds(B) : B.ssas[s].op = "ret" =>
        /\ B.ssas[s].block \in BlockIds(B)
        /\ B.blocks[B.ssas[s].block].br = "unconditional"
        /\ Targets(B.blocks[B.ssas[s].block]) = {}
        /\ \A t \in SsaIds(B) : B.ssas[t].op = "ret" /\ B.ssas[t].block = B.ssas[s].block => t = s

\* A conditional branch tests its last instruction, which has a value.
Tested(B) ==
    \A b \in BlockIds(B) : B.blocks[b].br \notin {"UNUSED", "unconditional"} =>
        EndOf(B, b) \in SsaIds(B) /\ ~ has_flag(B.ssas[EndOf(B, b)], "no_value")

Proper(B) == /\ Entry(B) /\ Known(B) /\ Returns(B) /\ Tested(B)
             /\ \A s \in Phis(B) : Finds(B, s)

\* Predecessors of started blocks stay.
LEMMA StartedStay ==
    ASSUME NEW B, NEW C, Settled(B, C), NEW b \in BlockIds(B) \ Unstarted(B)
    PROVE  b \in BlockIds(C) \ Unstarted(C) /\ Preds(C, b) = Preds(B, b)
BY PredsKept, Zenon DEF Settled, Unstarted

LEMMA EntryStays ==
    ASSUME NEW B, NEW C, Settled(B, C), Entry(B)
    PROVE  Entry(C)
BY DEF Entry, Settled

\* A phi goes on finding its arguments while the code grows.
LEMMA FindsStays ==
    ASSUME NEW B, Sliced(B), NEW C, Settled(B, C), NEW s \in Phis(B), Finds(B, s),
           \A t \in SsaIds(B) : C.ssas[t] = B.ssas[t],
           \A k \in 1..Len(B.phi_lists) : C.phi_lists[k] = B.phi_lists[k]
    PROVE  Finds(C, s)
<1>1. s \in SsaIds(B) BY DEF Phis
<1>2. C.ssas[s] = B.ssas[s] /\ PhiSlice(C, s) = PhiSlice(B, s) BY <1>1, Zenon DEF PhiSlice
<1>3. ASSUME NEW k \in PhiSlice(B, s)
      PROVE  C.phi_lists[k] = B.phi_lists[k] /\ C.ssas[C.phi_lists[k]] = B.ssas[B.phi_lists[k]]
  <2>1. k \in 1..Len(B.phi_lists) BY Zenon DEF Sliced, PhisOwnTheirSlice
  <2>2. B.phi_lists[k] \in SsaIds(B) BY <2>1, Zenon DEF Sliced
  <2> QED BY <2>1, <2>2, Zenon
<1>4. ArgBlocks(C, s) = ArgBlocks(B, s) BY <1>2, <1>3 DEF ArgBlocks
<1>5. PICK X : Cover(B, s, X) BY Zenon DEF Finds
<1>6. Cover(C, s, X)
  <2>1. X \subseteq BlockIds(B) \ Unstarted(B) /\ B.ssas[s].block \in X
    BY <1>5, Zenon DEF Cover
  <2>2. \A c \in X : c \in BlockIds(C) \ Unstarted(C) /\ Preds(C, c) = Preds(B, c)
    BY <2>1, StartedStay, Zenon
  <2>3. \A c \in X : c \in ArgBlocks(C, s) \/ (c # 1 /\ Preds(C, c) \subseteq X)
    BY <1>4, <1>5, <2>2, Zenon DEF Cover
  <2> QED BY <1>2, <2>1, <2>2, <2>3, Zenon DEF Cover
<1>7. \A k \in PhiSlice(C, s) : ~ has_flag(C.ssas[C.phi_lists[k]], "no_value")
  BY <1>2, <1>3, Zenon DEF Finds
<1> QED BY <1>6, <1>7, Zenon DEF Finds

\* From B to C the open block keeps its branch, or chooses one: a conditional
\* one only after an instruction that has a value.
Steers(B, C) ==
    LET n == B.current_block
    IN  n \in BlockIds(B) =>
            \/ /\ C.blocks[n].br = B.blocks[n].br
               /\ Targets(C.blocks[n]) = Targets(B.blocks[n])
            \/ /\ B.blocks[n].br = "UNUSED"
               /\ \/ C.blocks[n].br = "unconditional"
                  \/ last_ssa(B) # NULL /\ ~ has_flag(B.ssas[last_ssa(B)], "no_value")

\* The range of the open block extends to the newest instruction.
LEMMA OpenEnd ==
    ASSUME NEW B, Code(B), B.current_block \in BlockIds(B)
    PROVE  EndOf(B, B.current_block) = last_ssa(B)
<1>1. B.current_block # NULL BY DEF BlockIds, NULL
<1>2. ~ Ended(B.blocks[B.current_block]) BY <1>1, CurrentTyped, Zenon
<1> QED BY <1>2 DEF EndOf, last_ssa

LEMMA BlocksProper ==
    ASSUME NEW B, Code(B), Proper(B), NEW C, Settled(B, C), SameSsas(B, C),
           Moves(B, C), Steers(B, C)
    PROVE  Proper(C)
<1> DEFINE n == B.current_block
<1>1. /\ Entry(B) /\ Known(B) /\ Returns(B) /\ Tested(B) /\ Sliced(B)
      /\ \A s \in Phis(B) : Finds(B, s)
  BY CodeTyped, Zenon DEF Proper
<1>2. /\ C.ssas = B.ssas /\ C.phi_lists = B.phi_lists
      /\ SsaIds(C) = SsaIds(B) /\ Phis(C) = Phis(B)
  BY DEF SameSsas, SsaIds, Phis
<1>3. Entry(C) BY <1>1, EntryStays, Zenon
<1>4. Known(C) BY <1>1, <1>2, Zenon DEF Known
<1>5. ASSUME NEW s \in Phis(C) PROVE Finds(C, s)
  BY <1>1, <1>2, FindsStays
<1>6. \A d \in BlockIds(B) : d # n => /\ C.blocks[d].br = B.blocks[d].br
                                       /\ Targets(C.blocks[d]) = Targets(B.blocks[d])
  BY Zenon DEF Moves
<1>7. Returns(C)
  <2>1. ASSUME NEW s \in SsaIds(B), B.ssas[s].op = "ret", NEW b, b = B.ssas[s].block
        PROVE  /\ b \in BlockIds(C) /\ C.blocks[b].br = "unconditional" /\ Targets(C.blocks[b]) = {}
               /\ \A t \in SsaIds(B) : B.ssas[t].op = "ret" /\ B.ssas[t].block = b => t = s
    <3>1. /\ b \in BlockIds(B) /\ B.blocks[b].br = "unconditional" /\ Targets(B.blocks[b]) = {}
          /\ \A t \in SsaIds(B) : B.ssas[t].op = "ret" /\ B.ssas[t].block = b => t = s
      BY <1>1, <2>1, Zenon DEF Returns
    <3>2. b \in BlockIds(C) BY <3>1, Zenon DEF Moves
    <3>3. C.blocks[b].br = B.blocks[b].br /\ Targets(C.blocks[b]) = Targets(B.blocks[b])
      <4>1. CASE b = n BY <3>1, <4>1 DEF Steers
      <4>2. CASE b # n BY <1>6, <3>1, <4>2, Zenon
      <4> QED BY <4>1, <4>2
    <3> QED BY <3>1, <3>2, <3>3
  <2> QED BY <1>2, <2>1 DEF Returns
<1>8. Tested(C)
  <2>1. ASSUME NEW b \in BlockIds(C), C.blocks[b].br \notin {"UNUSED", "unconditional"}
        PROVE  EndOf(C, b) \in SsaIds(C) /\ ~ has_flag(C.ssas[EndOf(C, b)], "no_value")
    <3>1. b \in BlockIds(B) BY <2>1, Zenon DEF Moves
    <3>2. EndOf(C, b) = EndOf(B, b) BY <3>1, Zenon DEF Moves
    <3>3. CASE C.blocks[b].br = B.blocks[b].br
      <4>1. EndOf(B, b) \in SsaIds(B) /\ ~ has_flag(B.ssas[EndOf(B, b)], "no_value")
        BY <1>1, <2>1, <3>1, <3>3, Zenon DEF Tested
      <4> QED BY <1>2, <3>2, <4>1, Zenon
    <3>4. CASE C.blocks[b].br # B.blocks[b].br
      <4>1. b = n BY <1>6, <3>1, <3>4, Zenon
      <4>2. last_ssa(B) # NULL /\ ~ has_flag(B.ssas[last_ssa(B)], "no_value")
        BY <2>1, <3>1, <3>4, <4>1, Zenon DEF Steers
      <4>3. EndOf(B, b) = last_ssa(B) BY <3>1, <4>1, OpenEnd, Zenon
      <4>4. last_ssa(B) \in SsaIds(B)
        <5>1. Len(B.ssas) \in Nat BY CodeTyped, Zenon
        <5> QED BY <4>2, <5>1 DEF last_ssa, SsaIds, NULL
      <4> QED BY <1>2, <3>2, <4>2, <4>3, <4>4, Zenon
    <3> QED BY <3>3, <3>4
  <2> QED BY <2>1, Zenon DEF Tested
<1> QED BY <1>3, <1>4, <1>5, <1>7, <1>8, Zenon DEF Proper

\* The instruction i more, in the open block, which it may make return: the
\* other blocks and the older lists stay.
Writes(B, i, C) ==
    LET n == B.current_block
    IN  /\ Emitted(B, i, C) /\ n \in BlockIds(B) /\ i.block = n
        /\ KnownOp(i) /\ (i.op # "phi" => B.blocks[n].br = "UNUSED")
        /\ \A k \in 1..Len(B.phi_lists) : C.phi_lists[k] = B.phi_lists[k]
        /\ \A b \in BlockIds(B) : b # n => /\ C.blocks[b].br = B.blocks[b].br
                                           /\ Targets(C.blocks[b]) = Targets(B.blocks[b])
        /\ Targets(C.blocks[n]) = Targets(B.blocks[n])
        /\ C.blocks[n].br = IF i.op = "ret" THEN "unconditional" ELSE B.blocks[n].br

LEMMA InstructionProper ==
    ASSUME NEW B, Code(B), Proper(B), NEW i, NEW C, Writes(B, i, C),
           i.op = "phi" => Finds(C, last_ssa(C))
    PROVE  Proper(C)
<1> DEFINE n == B.current_block
<1>1. /\ Entry(B) /\ Known(B) /\ Returns(B) /\ Tested(B) /\ Sliced(B) /\ Wired(B)
      /\ \A s \in Phis(B) : Finds(B, s)
  BY CodeTyped, Zenon DEF Proper
<1>2. /\ Settled(B, C) /\ Frozen(B, C) /\ BlockIds(C) = BlockIds(B) /\ Code(C)
      /\ C.current_block = n /\ n \in BlockIds(B) /\ i.block = n
      /\ Len(C.ssas) = Len(B.ssas) + 1 /\ C.ssas[Len(C.ssas)] = i
      /\ \A s \in SsaIds(B) : s \in SsaIds(C) /\ C.ssas[s] = B.ssas[s]
  BY Zenon DEF Writes, Emitted, Follows, Longer
<1>3. /\ Len(B.ssas) \in Nat /\ SsaIds(C) = SsaIds(B) \cup {last_ssa(C)}
      /\ last_ssa(C) \notin SsaIds(B) /\ C.ssas[last_ssa(C)] = i /\ last_ssa(C) \in SsaIds(C)
  <2>1. Len(B.ssas) \in Nat BY CodeTyped, Zenon
  <2> QED BY <1>2, <2>1 DEF SsaIds, last_ssa
<1>4. Entry(C) BY <1>1, <1>2, EntryStays, Zenon
<1>5. Known(C)
  <2>1. KnownOp(i) BY Zenon DEF Writes
  <2> QED BY <1>1, <1>2, <1>3, <2>1, Zenon DEF Known
<1>6. ASSUME NEW s \in Phis(C) PROVE Finds(C, s)
  <2>1. CASE s = last_ssa(C)
    <3>1. i.op = "phi" BY <1>3, <2>1, Zenon DEF Phis
    <3> QED BY <2>1, <3>1
  <2>2. CASE s # last_ssa(C)
    <3>1. s \in SsaIds(B) /\ C.ssas[s].op = "phi" BY <1>3, <2>2, Zenon DEF Phis
    <3>2. s \in Phis(B) BY <1>2, <3>1, Zenon DEF Phis
    <3>3. \A k \in 1..Len(B.phi_lists) : C.phi_lists[k] = B.phi_lists[k] BY Zenon DEF Writes
    <3> QED BY <1>1, <1>2, <3>2, <3>3, FindsStays, Zenon
  <2> QED BY <2>1, <2>2
<1>7. \A b \in BlockIds(B) : b # n => /\ C.blocks[b].br = B.blocks[b].br
                                       /\ Targets(C.blocks[b]) = Targets(B.blocks[b])
  BY Zenon DEF Writes
<1>8. /\ Targets(C.blocks[n]) = Targets(B.blocks[n])
      /\ C.blocks[n].br = IF i.op = "ret" THEN "unconditional" ELSE B.blocks[n].br
      /\ i.op # "phi" => B.blocks[n].br = "UNUSED"
  BY Zenon DEF Writes
\* A block that has returned has a branch.
<1>9. ASSUME NEW s \in SsaIds(B), B.ssas[s].op = "ret", i.op = "ret" PROVE B.ssas[s].block # n
  <2>1. B.blocks[B.ssas[s].block].br = "unconditional" BY <1>1, <1>9, Zenon DEF Returns
  <2> QED BY <1>8, <1>9, <2>1
<1>10. Returns(C)
  <2>1. ASSUME NEW s \in SsaIds(B), B.ssas[s].op = "ret", NEW b, b = B.ssas[s].block
        PROVE  /\ b \in BlockIds(C) /\ C.blocks[b].br = "unconditional" /\ Targets(C.blocks[b]) = {}
               /\ \A t \in SsaIds(C) : C.ssas[t].op = "ret" /\ C.ssas[t].block = b => t = s
    <3>1. /\ b \in BlockIds(B) /\ B.blocks[b].br = "unconditional" /\ Targets(B.blocks[b]) = {}
          /\ \A t \in SsaIds(B) : B.ssas[t].op = "ret" /\ B.ssas[t].block = b => t = s
      BY <1>1, <2>1, Zenon DEF Returns
    <3>2. C.blocks[b].br = B.blocks[b].br /\ Targets(C.blocks[b]) = Targets(B.blocks[b])
      <4>1. CASE b = n
        <5>1. C.blocks[n].br = "unconditional" BY <1>8, <3>1, <4>1
        <5> QED BY <1>8, <3>1, <4>1, <5>1
      <4>2. CASE b # n BY <1>7, <3>1, <4>2, Zenon
      <4> QED BY <4>1, <4>2
    <3>3. ASSUME NEW t \in SsaIds(C), C.ssas[t].op = "ret", C.ssas[t].block = b PROVE t = s
      <4>1. CASE t = last_ssa(C)
        <5>1. i.op = "ret" /\ b = n BY <1>2, <1>3, <3>3, <4>1, Zenon
        <5> QED BY <1>9, <2>1, <5>1, Zenon
      <4>2. CASE t # last_ssa(C)
        <5>1. t \in SsaIds(B) BY <1>3, <4>2, Zenon
        <5>2. C.ssas[t] = B.ssas[t] BY <1>2, <5>1, Zenon
        <5> QED BY <3>1, <3>3, <5>1, <5>2
      <4> QED BY <4>1, <4>2
    <3> QED BY <1>2, <3>1, <3>2, <3>3, Zenon
  <2>2. ASSUME i.op = "ret"
        PROVE  /\ n \in BlockIds(C) /\ C.blocks[n].br = "unconditional" /\ Targets(C.blocks[n]) = {}
               /\ \A t \in SsaIds(C) : C.ssas[t].op = "ret" /\ C.ssas[t].block = n => t = last_ssa(C)
    <3>1. B.blocks[n].br = "UNUSED" BY <1>8, <2>2
    <3>2. Targets(B.blocks[n]) = {}
      <4>1. Undecided(B.blocks[n]) BY <1>1, <1>2, Zenon DEF Wired
      <4> QED BY <3>1, <4>1 DEF Undecided, Targets
    <3>3. ASSUME NEW t \in SsaIds(C), C.ssas[t].op = "ret", C.ssas[t].block = n PROVE t = last_ssa(C)
      <4>1. SUFFICES ASSUME t # last_ssa(C) PROVE FALSE OBVIOUS
      <4>2. t \in SsaIds(B) BY <1>3, <4>1, Zenon
      <4>3. C.ssas[t] = B.ssas[t] BY <1>2, <4>2, Zenon
      <4> QED BY <1>9, <2>2, <3>3, <4>2, <4>3, Zenon
    <3> QED BY <1>2, <1>8, <2>2, <3>2, <3>3
  <2>3. ASSUME NEW s \in SsaIds(C), C.ssas[s].op = "ret"
        PROVE  /\ C.ssas[s].block \in BlockIds(C)
               /\ C.blocks[C.ssas[s].block].br = "unconditional"
               /\ Targets(C.blocks[C.ssas[s].block]) = {}
               /\ \A t \in SsaIds(C) :
                      C.ssas[t].op = "ret" /\ C.ssas[t].block = C.ssas[s].block => t = s
    <3>1. CASE s = last_ssa(C)
      <4>1. i.op = "ret" /\ C.ssas[s].block = n BY <1>2, <1>3, <2>3, <3>1, Zenon
      <4> QED BY <2>2, <3>1, <4>1
    <3>2. CASE s # last_ssa(C)
      <4>1. s \in SsaIds(B) BY <1>3, <3>2, Zenon
      <4>2. C.ssas[s] = B.ssas[s] BY <1>2, <4>1, Zenon
      <4> QED BY <2>1, <2>3, <4>1, <4>2, Zenon
    <3> QED BY <3>1, <3>2
  <2> QED BY <2>3, Zenon DEF Returns
<1>11. Tested(C)
  <2>1. ASSUME NEW b \in BlockIds(C), C.blocks[b].br \notin {"UNUSED", "unconditional"}
        PROVE  EndOf(C, b) \in SsaIds(C) /\ ~ has_flag(C.ssas[EndOf(C, b)], "no_value")
    <3>1. C.blocks[b].br = B.blocks[b].br
      <4>1. CASE b = n BY <1>8, <2>1, <4>1
      <4>2. CASE b # n BY <1>2, <1>7, <2>1, <4>2, Zenon
      <4> QED BY <4>1, <4>2
    <3>2. CASE b = n
      <4>1. i.op = "phi" BY <1>8, <2>1, <3>1, <3>2, Zenon
      <4>2. ~ has_flag(i, "no_value") BY <4>1 DEF Writes, KnownOp
      <4>3. EndOf(C, b) = last_ssa(C) BY <1>2, <3>2, OpenEnd, Zenon
      <4> QED BY <1>3, <4>2, <4>3, Zenon
    <3>3. CASE b # n
      <4>1. EndOf(B, b) \in SsaIds(B) /\ ~ has_flag(B.ssas[EndOf(B, b)], "no_value")
        BY <1>1, <1>2, <2>1, <3>1, Zenon DEF Tested
      <4>2. EndOf(C, b) = EndOf(B, b)
        <5>1. Started(B.blocks[b])
          <6>1. Undecided(B.blocks[b]) BY <1>1, <1>2, <2>1, Zenon DEF Wired
          <6>2. B.blocks[b].br # "UNUSED" BY <2>1, <3>1
          <6> QED BY <6>1, <6>2, Zenon DEF Undecided
        <5>2. Ended(B.blocks[b])
          <6>1. OneOpenBlock(B) BY CodeTyped, Zenon DEF Exact
          <6>2. b \in BlockIds(B) BY <1>2, <2>1
          <6> QED BY <3>3, <5>1, <6>1, <6>2, Zenon DEF OneOpenBlock
        <5>3. C.blocks[b].next = B.blocks[b].next
          BY <1>2, <2>1, <5>2, Zenon DEF Frozen, SameButPredecessors
        <5> QED BY <5>2, <5>3, Zenon DEF EndOf, Ended
      <4> QED BY <1>2, <4>1, <4>2, Zenon
    <3> QED BY <3>2, <3>3
  <2> QED BY <2>1, Zenon DEF Tested
<1> QED BY <1>4, <1>5, <1>6, <1>10, <1>11, Zenon DEF Proper

-----------------------------------------------------------------------------
(***************************************************************************)
(* The region of an ifs.  The join J of an ifs is the first block it       *)
(* allocates: what it allocates later, its arms and all within, is entered *)
(* only from its dominator D or from within.                               *)
(***************************************************************************)
Region(B, D, J) ==
    /\ D \in BlockIds(B) /\ J \in BlockIds(B)
    /\ \A b \in BlockIds(B) : b >= J => \A p \in Preds(B, b) : p = D \/ p >= J
    /\ B.current_block \in {NULL, D} \/ B.current_block >= J

\* Every region of B whose join satisfies the bound is a region of C.
Carried(B, C) == \A D, J : Region(B, D, J) => Region(C, D, J)
CarriedTo(B, C, t) == \A D, J : Region(B, D, J) /\ J <= t => Region(C, D, J)

LEMMA CarriedOn ==
    ASSUME NEW B, NEW C, NEW D, Carried(B, C), Carried(C, D)
    PROVE  Carried(B, D)
BY Zenon DEF Carried

\* The open block may gain successors, and end.
LEMMA Carries ==
    ASSUME NEW B, NEW C, BlockIds(B) \subseteq BlockIds(C),
           C.current_block = NULL \/ C.current_block = B.current_block,
           \A d \in BlockIds(C) : \A p \in Preds(C, d) :
               \/ p = B.current_block /\ p \in BlockIds(B)
               \/ d \in BlockIds(B) /\ p \in Preds(B, d)
    PROVE  Carried(B, C)
<1> SUFFICES ASSUME NEW D, NEW J, Region(B, D, J) PROVE Region(C, D, J)
  BY Zenon DEF Carried
<1>1. /\ D \in BlockIds(B) /\ J \in BlockIds(B)
      /\ \A b \in BlockIds(B) : b >= J => \A p \in Preds(B, b) : p = D \/ p >= J
      /\ B.current_block \in {NULL, D} \/ B.current_block >= J
  BY Zenon DEF Region
<1>2. ASSUME NEW b \in BlockIds(C), b >= J, NEW p \in Preds(C, b) PROVE p = D \/ p >= J
  <2>1. CASE p = B.current_block /\ p \in BlockIds(B)
    <3>1. p # NULL BY <2>1 DEF BlockIds, NULL
    <3> QED BY <1>1, <2>1, <3>1
  <2>2. CASE b \in BlockIds(B) /\ p \in Preds(B, b) BY <1>1, <1>2, <2>2, Zenon
  <2> QED BY <1>2, <2>1, <2>2, Zenon
<1>3. C.current_block \in {NULL, D} \/ C.current_block >= J BY <1>1
<1> QED BY <1>1, <1>2, <1>3, Zenon DEF Region

LEMMA MovesCarries ==
    ASSUME NEW B, NEW C, Moves(B, C),
           C.current_block = NULL \/ C.current_block = B.current_block
    PROVE  Carried(B, C)
<1>1. BlockIds(B) \subseteq BlockIds(C) BY Zenon DEF Moves
<1>2. \A d \in BlockIds(C) : \A p \in Preds(C, d) :
          \/ p = B.current_block /\ p \in BlockIds(B)
          \/ d \in BlockIds(B) /\ p \in Preds(B, d)
  BY Zenon DEF Moves
<1> QED BY <1>1, <1>2, Carries, Zenon

\* The block t opened lies in each region whose join is not after it.
LEMMA OpeningCarries ==
    ASSUME NEW B, NEW C, Moves(B, C), B.current_block = NULL, NEW t, C.current_block = t
    PROVE  CarriedTo(B, C, t)
<1> SUFFICES ASSUME NEW D, NEW J, Region(B, D, J), J <= t PROVE Region(C, D, J)
  BY Zenon DEF CarriedTo
<1>1. /\ D \in BlockIds(B) /\ J \in BlockIds(B)
      /\ \A b \in BlockIds(B) : b >= J => \A p \in Preds(B, b) : p = D \/ p >= J
  BY Zenon DEF Region
<1>2. D \in BlockIds(C) /\ J \in BlockIds(C) BY <1>1, Zenon DEF Moves
<1>3. B.current_block \notin BlockIds(B) BY DEF BlockIds, NULL
<1>4. ASSUME NEW b \in BlockIds(C), b >= J, NEW p \in Preds(C, b) PROVE p = D \/ p >= J
  <2>1. b \in BlockIds(B) /\ p \in Preds(B, b) BY <1>3, <1>4, Zenon DEF Moves
  <2> QED BY <1>1, <1>4, <2>1, Zenon
<1>5. t >= J BY <1>1 DEF BlockIds
<1> QED BY <1>2, <1>4, <1>5, Zenon DEF Region

-----------------------------------------------------------------------------
(***************************************************************************)
(* What the tasks on the stack wait for.                                   *)
(***************************************************************************)

\* Task k merges in a region of its own, and the tasks above it open blocks of
\* that region.
Merges(B, T, k) ==
    /\ Region(B, T[k].arg1, T[k].merge_block)
    /\ \A j \in 1..Len(T) : j > k =>
          /\ Opens(T[j]) # NULL => Opens(T[j]) >= T[k].merge_block
          /\ T[j].merge_block # NULL => T[j].merge_block >= T[k].merge_block

Sits(B, T) ==
    \A k \in 1..Len(T) : /\ T[k].func # "emit_stmt_ifs" => T[k].merge_block = NULL
                         /\ Merging(T[k]) => Merges(B, T, k)

\* Task t may be pushed on the tasks T.
Fits(B, T, t) ==
    /\ t.func # "emit_stmt_ifs" => t.merge_block = NULL
    /\ Merging(t) => Region(B, t.arg1, t.merge_block)
    /\ \A k \in 1..Len(T) : Merging(T[k]) =>
          /\ Opens(t) # NULL => Opens(t) >= T[k].merge_block
          /\ t.merge_block # NULL => t.merge_block >= T[k].merge_block

LEMMA SitsPushed ==
    ASSUME NEW B, NEW T \in Seq(Task), NEW t \in Task, Sits(B, T), Fits(B, T, t)
    PROVE  Sits(B, Append(T, t))
<1> DEFINE U == Append(T, t)
           n == Len(T)
<1>1. n \in Nat /\ Len(U) = n + 1 /\ U[n + 1] = t /\ \A k \in 1..n : U[k] = T[k] OBVIOUS
<1> HIDE DEF U, n
<1>2. ASSUME NEW k \in 1..Len(U), U[k].func # "emit_stmt_ifs" PROVE U[k].merge_block = NULL
  <2>1. CASE k \in 1..n BY <1>1, <1>2, <2>1 DEF Sits, n
  <2>2. CASE k = n + 1 BY <1>1, <1>2, <2>2 DEF Fits
  <2> QED BY <1>1, <2>1, <2>2
<1>3. ASSUME NEW k \in 1..n, Merging(U[k]) PROVE Merges(B, U, k)
  <2>1. U[k] = T[k] /\ Merges(B, T, k) BY <1>1, <1>3, Zenon DEF Sits, n
  <2>2. ASSUME NEW j \in 1..Len(U), j > k
        PROVE  /\ Opens(U[j]) # NULL => Opens(U[j]) >= U[k].merge_block
               /\ U[j].merge_block # NULL => U[j].merge_block >= U[k].merge_block
    <3>1. CASE j \in 1..n
      <4>1. U[j] = T[j] BY <1>1, <3>1
      <4> QED BY <2>1, <2>2, <3>1, <4>1, Zenon DEF Merges, n
    <3>2. CASE j = n + 1
      <4>1. U[j] = t /\ Merging(T[k]) BY <1>1, <1>3, <2>1, <3>2
      <4> QED BY <2>1, <4>1, Zenon DEF Fits, n
    <3> QED BY <1>1, <3>1, <3>2
  <2> QED BY <2>1, <2>2, Zenon DEF Merges
<1>4. ASSUME Merging(U[n + 1]) PROVE Merges(B, U, n + 1)
  <2>1. Region(B, t.arg1, t.merge_block) BY <1>1, <1>4 DEF Fits
  <2>2. \A j \in 1..Len(U) : ~ (j > n + 1) BY <1>1
  <2> QED BY <1>1, <2>1, <2>2 DEF Merges
<1>5. \A k \in 1..Len(U) : k \in 1..n \/ k = n + 1 BY <1>1
<1> QED BY <1>2, <1>3, <1>4, <1>5, Zenon DEF Sits, U

LEMMA SitsPopped ==
    ASSUME NEW B, NEW T \in Seq(Task), NEW t \in Task, Sits(B, Append(T, t))
    PROVE  Sits(B, T) /\ Fits(B, T, t)
<1> DEFINE U == Append(T, t)
           n == Len(T)
<1>1. n \in Nat /\ Len(U) = n + 1 /\ U[n + 1] = t /\ \A k \in 1..n : U[k] = T[k] OBVIOUS
<1>2. Sits(B, U) OBVIOUS
<1> HIDE DEF U, n
<1>3. \A k \in 1..n : k \in 1..Len(U) /\ n + 1 > k BY <1>1
<1>4. n + 1 \in 1..Len(U) BY <1>1
<1>5. ASSUME NEW k \in 1..n, T[k].func # "emit_stmt_ifs" PROVE T[k].merge_block = NULL
  BY <1>1, <1>2, <1>3, <1>5, Zenon DEF Sits
<1>6. ASSUME NEW k \in 1..n, Merging(T[k])
      PROVE  /\ Merges(B, T, k)
             /\ Opens(t) # NULL => Opens(t) >= T[k].merge_block
             /\ t.merge_block # NULL => t.merge_block >= T[k].merge_block
  <2>1. U[k] = T[k] /\ Merges(B, U, k) BY <1>1, <1>2, <1>3, <1>6, Zenon DEF Sits
  <2>2. \A j \in 1..n : U[j] = T[j] /\ j \in 1..Len(U) BY <1>1, <1>3
  <2>3. Merges(B, T, k) BY <2>1, <2>2, Zenon DEF Merges, n
  <2> QED BY <1>1, <1>3, <1>4, <2>1, <2>3, Zenon DEF Merges
<1>7. /\ t.func # "emit_stmt_ifs" => t.merge_block = NULL
      /\ Merging(t) => Region(B, t.arg1, t.merge_block)
  BY <1>1, <1>2, <1>4, Zenon DEF Sits, Merges
<1> QED BY <1>5, <1>6, <1>7, Zenon DEF Sits, Fits, n

LEMMA SitsCarried ==
    ASSUME NEW B, NEW C, Carried(B, C), NEW T, Sits(B, T)
    PROVE  Sits(C, T)
BY Zenon DEF Carried, Sits, Merges

\* The joins of the tasks T are not after block t.
JoinsUpTo(T, t) == \A k \in 1..Len(T) : Merging(T[k]) => T[k].merge_block <= t

LEMMA SitsOpened ==
    ASSUME NEW B, NEW C, NEW t, CarriedTo(B, C, t), NEW T, Sits(B, T), JoinsUpTo(T, t)
    PROVE  Sits(C, T)
BY Zenon DEF CarriedTo, JoinsUpTo, Sits, Merges

\* A new block comes after the join of every ifs that waits.
LEMMA JoinsBefore ==
    ASSUME NEW B, NEW T, Sits(B, T), NEW t \in Nat, t \notin BlockIds(B), t # NULL
    PROVE  JoinsUpTo(T, t)
<1> SUFFICES ASSUME NEW k \in 1..Len(T), Merging(T[k]) PROVE T[k].merge_block <= t
  BY DEF JoinsUpTo
<1>1. T[k].merge_block \in BlockIds(B) BY Zenon DEF Sits, Merges, Region
<1> QED BY <1>1 DEF BlockIds, NULL

LEMMA SimpleFits ==
    ASSUME NEW B, NEW T, NEW t, t.func \notin {"emit_stmt_ifs"}, t.merge_block = NULL
    PROVE  Fits(B, T, t)
<1>1. ~ Merging(t) /\ Opens(t) = NULL BY DEF Merging, ClosesArm, Is, Opens
<1> QED BY <1>1, Zenon DEF Fits

-----------------------------------------------------------------------------
(***************************************************************************)
(* The machine: what its calls leave.                                      *)
(***************************************************************************)
Steady(B, L, T) ==
    Running(B, L, T) /\ Proper(B) /\ Sits(B, T) /\ Len(T) <= MaxTasks

\* A machine that has failed with an allowed message, or goes on properly
Decent(m) ==
    /\ Allowed(m)
    /\ m.fault = NoFault =>
          Proper(m.ir) /\ Sits(m.ir, m.tasks) /\ Len(m.tasks) <= MaxTasks

LEMMA MachineAllowed ==
    ASSUME NEW B, NEW L, NEW T
    PROVE  Allowed(machine(B, L, T))
BY DEF machine, Allowed

LEMMA MachineDecent ==
    ASSUME NEW B, NEW L, NEW T, Proper(B), Sits(B, T), Len(T) <= MaxTasks
    PROVE  Decent(machine(B, L, T))
BY MachineAllowed, MachineFields DEF Decent

LEMMA FailDecent ==
    ASSUME NEW m, Allowed(m), NEW why \in Refusals
    PROVE  Decent([m EXCEPT !.fault = why])
<1>1. [m EXCEPT !.fault = why].fault = why BY DEF Allowed
<1>2. "fault" \in DOMAIN [m EXCEPT !.fault = why] BY DEF Allowed
<1>3. why # NoFault BY DEF Refusals, NoFault
<1> HIDE DEF Refusals
<1> QED BY <1>1, <1>2, <1>3, Zenon DEF Decent, Allowed

LEMMA CheckedDecent ==
    ASSUME NEW m, Allowed(m), NEW ok, NEW why, ok \/ why \in Refusals,
           NEW next, m.fault = NoFault /\ ok => Decent(next),
           NEW r, r = Checked(m, ok, why, next)
    PROVE  Decent(r)
<1>1. m.fault # NoFault => Decent(m) BY Zenon DEF Decent
<1>2. ok \/ Decent([m EXCEPT !.fault = why]) BY FailDecent, Zenon
<1> QED BY <1>1, <1>2, Zenon DEF Checked, Then

LEMMA ThenDecent ==
    ASSUME NEW m, Allowed(m), NEW next, m.fault = NoFault => Decent(next), NEW r, r = Then(m, next)
    PROVE  Decent(r)
<1>1. m.fault # NoFault => Decent(m) BY Zenon DEF Decent
<1> QED BY <1>1, Zenon DEF Then

LEMMA CallsAllow ==
    ASSUME NEW m, Allowed(m), NEW x, Allowed(x)
    PROVE  Allowed(Ir(m, x)) /\ Allowed(Local(m, x))
<1>1. Allowed([m EXCEPT !.ir = x, !.fault = x.fault]) BY DEF Allowed
<1>2. Allowed([m EXCEPT !.locals = x, !.fault = x.fault]) BY DEF Allowed
<1> QED BY <1>1, <1>2, Zenon DEF Ir, Local, Then

LEMMA PushAllows ==
    ASSUME NEW m, Allowed(m), NEW ts
    PROVE  Allowed(push_tasks(m, ts))
<1>1. Allowed([m EXCEPT !.tasks = @ \o ts]) BY DEF Allowed
<1>2. "task stack full" \in Refusals BY DEF Refusals
<1> QED BY <1>1, <1>2, CheckedAllows, Zenon DEF push_tasks

LEMMA PushBound ==
    ASSUME NEW B, NEW L, NEW T \in Seq(Task), NEW ts \in Seq(Task),
           push_tasks(machine(B, L, T), ts).fault = NoFault
    PROVE  Len(T \o ts) <= MaxTasks
<1>1. SUFFICES ASSUME ~ (Len(T) + Len(ts) <= MaxTasks) PROVE FALSE
  BY EmitBounds
<1> DEFINE m == machine(B, L, T)
<1>2. m.tasks = T /\ m.fault = NoFault BY MachineFields
<1>3. "task stack full" # NoFault BY DEF NoFault
<1>4. [m EXCEPT !.fault = "task stack full"].fault # NoFault BY <1>3, MachineFails
<1>5. push_tasks(m, ts).fault = NoFault OBVIOUS
<1> HIDE DEF m
<1>6. push_tasks(m, ts) = [m EXCEPT !.fault = "task stack full"]
  BY <1>1, <1>2 DEF push_tasks, Checked, Then
<1> QED BY <1>4, <1>5, <1>6

LEMMA IrDecent ==
    ASSUME NEW B, NEW L, NEW T, Len(T) <= MaxTasks, NEW C, Allowed(C),
           C.fault = NoFault => Proper(C) /\ Sits(C, T),
           NEW r, r = Ir(machine(B, L, T), C)
    PROVE  Decent(r)
<1>1. Allowed(r) BY MachineAllowed, CallsAllow, Zenon
<1>2. ASSUME r.fault = NoFault PROVE Decent(r)
  <2>1. C.fault = NoFault /\ r = machine(C, L, T) BY <1>2, IrCall
  <2> QED BY <2>1, MachineDecent, Zenon
<1> QED BY <1>1, <1>2, Zenon DEF Decent

LEMMA LocalDecent ==
    ASSUME NEW B, NEW L, NEW T, Len(T) <= MaxTasks, Proper(B), Sits(B, T), NEW M, Allowed(M),
           NEW r, r = Local(machine(B, L, T), M)
    PROVE  Decent(r)
<1>1. Allowed(r) BY MachineAllowed, CallsAllow, Zenon
<1>2. ASSUME r.fault = NoFault PROVE Decent(r)
  <2>1. r = machine(B, M, T) BY <1>2, LocalCall
  <2> QED BY <2>1, MachineDecent, Zenon
<1> QED BY <1>1, <1>2, Zenon DEF Decent

\* Tasks are pushed, then the handler goes on.
LEMMA PushesDecent ==
    ASSUME NEW B, NEW L, NEW T \in Seq(Task), NEW ts \in Seq(Task),
           NEW m1, m1 = push_tasks(machine(B, L, T), ts), NEW next,
           m1 = machine(B, L, T \o ts) /\ Len(T \o ts) <= MaxTasks => Decent(next),
           NEW r, r = Then(m1, next)
    PROVE  Decent(r)
<1>1. Allowed(m1) BY MachineAllowed, PushAllows, Zenon
<1>2. ASSUME m1.fault = NoFault PROVE Decent(next)
  BY <1>2, PushCall, PushBound, Zenon
<1> QED BY <1>1, <1>2, ThenDecent, Zenon

LEMMA PushDecent ==
    ASSUME NEW B, NEW L, NEW T \in Seq(Task), NEW t \in Task,
           NEW m1, m1 = push_task(machine(B, L, T), t), NEW next,
           m1 = machine(B, L, Append(T, t)) /\ Len(Append(T, t)) <= MaxTasks => Decent(next),
           NEW r, r = Then(m1, next)
    PROVE  Decent(r)
<1>1. <<t>> \in Seq(Task) /\ T \o <<t>> = Append(T, t) OBVIOUS
<1>2. m1 = push_tasks(machine(B, L, T), <<t>>) BY Zenon DEF push_task
<1> QED BY <1>1, <1>2, PushesDecent, Zenon

LEMMA SteadyDecent ==
    ASSUME NEW B, NEW L, NEW T, Steady(B, L, T)
    PROVE  Decent(machine(B, L, T))
BY MachineDecent, Zenon DEF Steady

LEMMA SteadyTyped ==
    ASSUME NEW B, NEW L, NEW T, Steady(B, L, T)
    PROVE  /\ Running(B, L, T) /\ Proper(B) /\ Sits(B, T) /\ Len(T) <= MaxTasks
           /\ Code(B) /\ Allowed(B) /\ B.current_block # NULL /\ B.current_block \in BlockIds(B)
           /\ T \in Seq(Task)
BY RunningTyped, CodeAllows, Zenon DEF Steady

-----------------------------------------------------------------------------
(***************************************************************************)
(* Instructions and final values.                                          *)
(***************************************************************************)

\* The open block rewritten, but for its edges and its range
LEMMA RewrittenMoves ==
    ASSUME NEW B, Code(B), NEW n, n = B.current_block, n \in BlockIds(B), NEW c \in bb,
           c.next = B.blocks[n].next, c.br = B.blocks[n].br,
           c.predecessors = B.blocks[n].predecessors,
           c.block_true = B.blocks[n].block_true, c.block_false = B.blocks[n].block_false,
           NEW C, C = WithBlock(B, n, c)
    PROVE  Moves(B, C) /\ Steers(B, C) /\ Carried(B, C)
<1>1. B \in builder BY CodeTyped, Zenon
<1>2. /\ SameSsas(B, C) /\ SameMode(B, C) /\ BlockIds(C) = BlockIds(B)
      /\ C.blocks[n] = c /\ \A d \in BlockIds(B) : d # n => C.blocks[d] = B.blocks[d]
  <2>1. /\ SameSsas(B, C) /\ SameMode(B, C) /\ Len(C.blocks) = Len(B.blocks)
        /\ C.blocks[n] = c /\ \A d \in BlockIds(B) : d # n => C.blocks[d] = B.blocks[d]
    BY <1>1, SetBlock
  <2> QED BY <2>1, Zenon DEF BlockIds
<1>3. Targets(c) = Targets(B.blocks[n]) BY DEF Targets
<1>4. ASSUME NEW d \in BlockIds(B)
      PROVE  /\ C.blocks[d].next = B.blocks[d].next /\ C.blocks[d].br = B.blocks[d].br
             /\ C.blocks[d].predecessors = B.blocks[d].predecessors
             /\ Targets(C.blocks[d]) = Targets(B.blocks[d])
  BY <1>2, <1>3, Zenon
<1>5. ASSUME NEW d \in BlockIds(B)
      PROVE  EndOf(C, d) = EndOf(B, d) /\ Preds(C, d) = Preds(B, d)
  BY <1>2, <1>4, SameEnd, PredsKept, Zenon
<1>6. Moves(B, C) BY <1>2, <1>4, <1>5, Zenon DEF Moves
<1>7. Steers(B, C) BY <1>4, Zenon DEF Steers
<1> QED BY <1>2, <1>6, <1>7, MovesCarries, Zenon DEF SameMode

LEMMA FinalProper ==
    ASSUME NEW B, Code(B), Proper(B), B.current_block # NULL, NEW sym \in Symbols, NEW value,
           ValueOf(B, B.current_block, value),
           NEW C, C = add_final_value(B, sym, value), C.fault = NoFault
    PROVE  Proper(C) /\ Carried(B, C)
<1> DEFINE n == B.current_block
           open == B.blocks[n]
           c == [open EXCEPT !.final_values[sym] = value]
<1>1. /\ n \in BlockIds(B) /\ open \in bb /\ B \in builder
  BY CodeTyped, CurrentTyped, Zenon
<1>2. C = WithBlock(B, n, c)
  <2> DEFINE fresh == ~ try_get(open, sym)
             why   == "Attempt to add duplicate key"
             next  == WithBlock(B, n, c)
  <2>1. why \in failure BY DEF failure
  <2>2. C = Checked(B, fresh, why, next) BY Zenon DEF add_final_value
  <2> HIDE DEF c, open, n, fresh, why, next
  <2>3. B \in builder /\ Checked(B, fresh, why, next).fault = NoFault BY <1>1, <2>2
  <2>4. Checked(B, fresh, why, next) = next BY <2>1, <2>3, CheckedPasses
  <2> QED BY <2>2, <2>4, Zenon DEF next
<1>3. value \in Nat
  <2>1. Len(B.ssas) \in Nat BY CodeTyped, Zenon
  <2> QED BY <2>1 DEF ValueOf, SsaIds
<1>4. /\ c \in bb /\ c.next = open.next /\ c.br = open.br /\ c.predecessors = open.predecessors
      /\ c.block_true = open.block_true /\ c.block_false = open.block_false
  <2> HIDE DEF open
  <2>1. [open.final_values EXCEPT ![sym] = value] \in [Symbols -> Nat] BY <1>1, <1>3 DEF bb
  <2>2. c = [open EXCEPT !.final_values = [open.final_values EXCEPT ![sym] = value]] BY <1>1 DEF bb
  <2> HIDE DEF c
  <2> QED BY <1>1, <2>1, <2>2 DEF bb
<1> HIDE DEF c
<1>5. Moves(B, C) /\ Steers(B, C) /\ Carried(B, C)
  BY <1>1, <1>2, <1>4, RewrittenMoves, Zenon
<1>6. Follows(B, C) /\ SameSsas(B, C) BY add_final_valuePasses, Zenon
<1> QED BY <1>5, <1>6, BlocksProper, Zenon DEF Follows

\* Instructions other than a phi leave the lists alone.
KeepsLists(B, C) == DOMAIN C = DOMAIN B /\ C.phi_lists = B.phi_lists

LEMMA KeepsListsUpdates ==
    ASSUME NEW B \in builder, NEW C, KeepsLists(B, C), NEW x, NEW y
    PROVE  /\ KeepsLists(B, [C EXCEPT !.fault = x]) /\ KeepsLists(B, [C EXCEPT !.ssas = x])
           /\ KeepsLists(B, WithBlock(C, x, y))
<1>1. "phi_lists" \in DOMAIN C BY DEF KeepsLists, builder
<1> QED BY <1>1 DEF KeepsLists, WithBlock

LEMMA InstructionLists ==
    ASSUME NEW B \in builder, NEW o, NEW flags, NEW l, NEW r, NEW val
    PROVE  KeepsLists(B, emit(B, o, flags, l, r)) /\ KeepsLists(B, ret(B, val))
<1>1. KeepsLists(B, B) BY DEF KeepsLists
<1>2. ASSUME NEW i PROVE KeepsLists(B, alloc_ssa(B, i))
  <2>1. [B EXCEPT !.ssas = Append(@, i)] = [B EXCEPT !.ssas = Append(B.ssas, i)] OBVIOUS
  <2> QED BY <1>1, <2>1, KeepsListsUpdates, Zenon DEF alloc_ssa, Checked, Then
<1>3. ASSUME NEW p, NEW f, NEW u, NEW v PROVE KeepsLists(B, emit(B, p, f, u, v))
  BY <1>1, <1>2, KeepsListsUpdates, Zenon DEF emit, InOpenBlock, InBlock, Checked, Then
<1>4. KeepsLists(B, ret(B, val))
  BY <1>3, KeepsListsUpdates, Zenon DEF ret, Then
<1> QED BY <1>3, <1>4

\* An instruction of the emitter's that reads no list, in the open block
LEMMA emitProper ==
    ASSUME NEW B, Code(B), Proper(B), NEW o \in {"i", "add", "sub", "nop"}, NEW flags \in SUBSET ssa_prop,
           "no_value" \in flags <=> o = "nop", NEW l \in Nat, NEW r \in Nat,
           OperandsExist(B, instruction(B, o, flags, l, r)),
           NEW C, C = emit(B, o, flags, l, r), C.fault = NoFault
    PROVE  Proper(C) /\ Carried(B, C)
<1> DEFINE i == instruction(B, o, flags, l, r)
<1>1. o \in opcode /\ o # "phi" BY DEF opcode
<1>2. /\ Emitted(B, i, C) /\ SameBlocks(B, C)
      /\ B.current_block \in BlockIds(B) /\ B.blocks[B.current_block].br = "UNUSED"
  BY <1>1, emitPasses
<1>3. i.op = o /\ i.flags = flags /\ i.block = B.current_block BY DEF instruction
<1> HIDE DEF i
<1>4. KnownOp(i) BY <1>3 DEF KnownOp, has_flag
<1>5. C.phi_lists = B.phi_lists
  <2>1. B \in builder BY CodeTyped, Zenon
  <2> QED BY <2>1, InstructionLists DEF KeepsLists
<1>6. C.blocks = B.blocks /\ C.current_block = B.current_block /\ BlockIds(C) = BlockIds(B)
  BY <1>2, Zenon DEF SameBlocks, Emitted
<1>7. Writes(B, i, C) BY <1>1, <1>2, <1>3, <1>4, <1>5, <1>6 DEF Writes
<1>8. i.op # "phi" BY <1>1, <1>3
<1>9. Proper(C) BY <1>7, <1>8, InstructionProper, Zenon
<1>10. \A d \in BlockIds(C) : Preds(C, d) = Preds(B, d) BY <1>6, PredsKept, Zenon
<1> QED BY <1>6, <1>9, <1>10, Carries, Zenon

LEMMA retProper ==
    ASSUME NEW B, Code(B), Proper(B), NEW val \in Nat,
           val # NULL => ValueOf(B, B.current_block, val),
           NEW C, C = ret(B, val), C.fault = NoFault
    PROVE  Proper(C) /\ Carried(B, C)
<1> DEFINE B1 == emit(B, "ret", {"no_value"}, val, NULL)
           i == instruction(B, "ret", {"no_value"}, val, NULL)
           n == B.current_block
           b == [B.blocks[n] EXCEPT !.br = "unconditional"]
<1>1. C = Then(B1, WithBlock(B1, n, b)) BY Zenon DEF ret
<1>2. B1.fault = NoFault /\ C = WithBlock(B1, n, b) BY <1>1, ThenPasses, Zenon
<1>3. OperandsExist(B, i) BY DEF OperandsExist, OperandsOf, instruction
<1>4. "ret" \in opcode /\ {"no_value"} \in SUBSET ssa_prop /\ NULL \in Nat /\ "ret" # "phi"
  BY DEF opcode, ssa_prop, NULL
<1>5. KeepsLists(B, C)
  <2>1. B \in builder BY CodeTyped, Zenon
  <2> QED BY <2>1, InstructionLists, Zenon
<1> HIDE DEF B1
<1>6. Emitted(B, i, B1) /\ SameBlocks(B, B1) /\ n \in BlockIds(B) /\ B.blocks[n].br = "UNUSED"
  BY <1>2, <1>3, <1>4, emitPasses, Zenon DEF B1
<1>7. /\ B.blocks[n] \in bb /\ b \in bb /\ b.br = "unconditional"
      /\ b.block_true = B.blocks[n].block_true /\ b.block_false = B.blocks[n].block_false
      /\ b.predecessors = B.blocks[n].predecessors
  <2>1. B.blocks[n] \in bb BY <1>6, CodeTyped, FieldType, Zenon
  <2> QED BY <2>1, Zenon DEF bb, block_br
<1>8. i.op = "ret" /\ i.flags = {"no_value"} /\ i.block = n BY DEF instruction
<1> HIDE DEF b
<1>9. Emitted(B, i, C) BY <1>4, retPasses
<1> HIDE DEF i
<1>10. /\ C.blocks[n] = b /\ \A d \in BlockIds(B) : d # n => C.blocks[d] = B.blocks[d]
       /\ C.current_block = n /\ BlockIds(C) = BlockIds(B)
  <2>1. B1 \in builder /\ BlockIds(B1) = BlockIds(B) /\ B1.blocks = B.blocks
    BY <1>6, CodeTyped, Zenon DEF Emitted, SameBlocks
  <2>2. C.blocks[n] = b /\ \A d \in BlockIds(B1) : d # n => C.blocks[d] = B1.blocks[d]
    BY <1>2, <1>6, <1>7, <2>1, SetBlock
  <2> QED BY <1>9, <2>1, <2>2, Zenon DEF Emitted
<1>11. Targets(C.blocks[n]) = Targets(B.blocks[n]) /\ C.blocks[n].br = "unconditional"
  BY <1>7, <1>10 DEF Targets
<1>12. KnownOp(i) BY <1>8 DEF KnownOp, has_flag
<1>13. C.phi_lists = B.phi_lists BY <1>5, Zenon DEF KeepsLists
<1>14. Writes(B, i, C) BY <1>6, <1>8, <1>9, <1>10, <1>11, <1>12, <1>13 DEF Writes
<1>15. i.op # "phi" BY <1>4, <1>8
<1>16. Proper(C) BY <1>14, <1>15, InstructionProper, Zenon
<1>17. ASSUME NEW d \in BlockIds(C) PROVE Preds(C, d) = Preds(B, d)
  <2>1. C.blocks[d].predecessors = B.blocks[d].predecessors BY <1>7, <1>10
  <2> QED BY <2>1, PredsKept, Zenon
<1> QED BY <1>10, <1>16, <1>17, Carries, Zenon

\* Every path back from the open block meets one of the values before it
\* leaves the blocks X.
Crosses(B, values, X) ==
    /\ X \subseteq BlockIds(B) \ Unstarted(B) /\ B.current_block \in X
    /\ \A c \in X : \/ \E k \in 1..Len(values) : B.ssas[values[k]].block = c
                    \/ c # 1 /\ Preds(B, c) \subseteq X

LEMMA PhiProper ==
    ASSUME NEW B, Code(B), Proper(B), NEW values \in Seq(SsaIds(B)), values # <<>>,
           \A k \in 1..Len(values) : ~ has_flag(B.ssas[values[k]], "no_value"),
           NEW X, Crosses(B, values, X),
           NEW C, C = PhiOf(B, values), C.fault = NoFault
    PROVE  Proper(C) /\ Carried(B, C)
<1>1. /\ values \in Seq(Nat) /\ \A k \in 1..Len(values) : values[k] \in SsaIds(B)
      /\ Len(values) \in Nat
  <2>1. SsaIds(B) \subseteq Nat BY DEF SsaIds
  <2> HIDE DEF SsaIds
  <2> QED BY <2>1
<1>2. Lists(B, values, C) BY <1>1, PhiOfWrites, Zenon
<1>3. SameBlocks(B, C) BY <1>1, PhiOfPasses
<1>4. PICK i : i.op = "phi" /\ i.flags = {} /\ i.block = B.current_block /\ Emitted(B, i, C)
  BY <1>1, PhiOfPasses, Zenon
<1> DEFINE n == B.current_block
           s == last_ssa(C)
           f == Len(B.phi_lists)
<1>5. /\ C.blocks = B.blocks /\ C.current_block = n /\ BlockIds(C) = BlockIds(B)
      /\ Unstarted(C) = Unstarted(B) /\ C.ssas[s] = i
      /\ \A t \in SsaIds(B) : C.ssas[t] = B.ssas[t]
  BY <1>3, <1>4, Zenon DEF SameBlocks, Emitted, Longer, last_ssa
<1>6. /\ \A j \in 1..f : C.phi_lists[j] = B.phi_lists[j]
      /\ \A j \in 1..Len(values) : C.phi_lists[f + j] = values[j]
      /\ C.ssas[s].left = f + 1 /\ C.ssas[s].right = Len(values)
  BY <1>2, Zenon DEF Lists, last_ssa
<1>7. f \in Nat
  <2>1. B \in builder BY CodeTyped, Zenon
  <2> QED BY <2>1, LengthType
<1> HIDE DEF f, s
<1>8. \A j \in 1..Len(values) : f + j \in PhiSlice(C, s) BY <1>1, <1>6, <1>7 DEF PhiSlice
<1>9. ASSUME NEW k \in PhiSlice(C, s)
      PROVE  \E j \in 1..Len(values) : k = f + j /\ C.phi_lists[k] = values[j]
  <2>1. k \in Int /\ f + 1 <= k /\ k <= f + 1 + Len(values) - 1 BY <1>1, <1>6, <1>7, <1>9 DEF PhiSlice
  <2>2. k - f \in 1..Len(values) /\ k = f + (k - f) BY <1>1, <1>7, <2>1
  <2> QED BY <1>6, <2>2
<1>10. ASSUME NEW k \in PhiSlice(C, s) PROVE ~ has_flag(C.ssas[C.phi_lists[k]], "no_value")
  BY <1>1, <1>5, <1>9
<1>11. ASSUME NEW j \in 1..Len(values) PROVE B.ssas[values[j]].block \in ArgBlocks(C, s)
  <2>1. f + j \in PhiSlice(C, s) /\ C.phi_lists[f + j] = values[j] BY <1>6, <1>8
  <2>2. C.ssas[C.phi_lists[f + j]].block = B.ssas[values[j]].block BY <1>1, <1>5, <2>1
  <2> QED BY <2>1, <2>2 DEF ArgBlocks
<1>12. \A c \in BlockIds(B) : Preds(C, c) = Preds(B, c) BY <1>5, PredsKept, Zenon
<1>13. Cover(C, s, X)
  <2>1. X \subseteq BlockIds(C) \ Unstarted(C) /\ C.ssas[s].block \in X
    BY <1>4, <1>5, Zenon DEF Crosses
  <2>2. ASSUME NEW c \in X PROVE c \in ArgBlocks(C, s) \/ (c # 1 /\ Preds(C, c) \subseteq X)
    <3>1. c \in BlockIds(B) BY <1>5, <2>1
    <3>2. CASE \E k \in 1..Len(values) : B.ssas[values[k]].block = c BY <1>11, <3>2
    <3>3. CASE c # 1 /\ Preds(B, c) \subseteq X BY <1>12, <3>1, <3>3
    <3> QED BY <3>2, <3>3, Zenon DEF Crosses
  <2> QED BY <2>1, <2>2, Zenon DEF Cover
<1>14. Finds(C, s) BY <1>10, <1>13, Zenon DEF Finds
<1>15. n \in BlockIds(B)
  BY Zenon DEF Crosses
<1>16. KnownOp(i) BY <1>4 DEF KnownOp, has_flag
<1>17. \A j \in 1..Len(B.phi_lists) : C.phi_lists[j] = B.phi_lists[j] BY <1>6 DEF f
<1>18. Writes(B, i, C)
  <2>1. i.op # "ret" /\ i.op = "phi" BY <1>4
  <2> QED BY <1>4, <1>5, <1>15, <1>16, <1>17, <2>1, Zenon DEF Writes
<1>19. Proper(C) BY <1>14, <1>18, InstructionProper, Zenon DEF s
<1> QED BY <1>5, <1>12, <1>19, Carries, Zenon

-----------------------------------------------------------------------------
(***************************************************************************)
(* Expressions.                                                            *)
(***************************************************************************)

\* Whoever branches has been started.
LEMMA PredsStarted ==
    ASSUME NEW B, Code(B), NEW b \in BlockIds(B)
    PROVE  Preds(B, b) \subseteq BlockIds(B) \ Unstarted(B)
<1> SUFFICES ASSUME NEW p \in Preds(B, b) PROVE p \in BlockIds(B) /\ Started(B.blocks[p])
  BY Zenon DEF Unstarted
<1>1. p \in BlockIds(B) /\ b \in Targets(B.blocks[p])
  BY CodeTyped, Zenon DEF Preds, PredecessorsBranchHere
<1>2. Undecided(B.blocks[p]) BY <1>1, CodeTyped, Zenon DEF Wired
<1>3. B.blocks[p].br # "UNUSED" BY <1>1, <1>2 DEF Undecided, Targets
<1> QED BY <1>1, <1>2, <1>3, Zenon DEF Undecided

\* The search for a final value goes up the only path there is.
LEMMA LookupCrosses ==
    ASSUME NEW B, Code(B), Entry(B), B.current_block # NULL, NEW sym \in Symbols, NEW found,
           found = Lookup(B, sym, B.current_block), try_get(found, sym),
           NEW values, values = <<found.final_values[sym]>>
    PROVE  /\ values \in Seq(SsaIds(B)) /\ values # <<>>
           /\ \A k \in 1..Len(values) : ~ has_flag(B.ssas[values[k]], "no_value")
           /\ \E X : Crosses(B, values, X)
<1> DEFINE n == B.current_block
           v == found.final_values[sym]
<1>1. n \in BlockIds(B) \ Unstarted(B) BY CurrentTyped, Zenon
<1>2. PICK from :
        /\ Lookup(B, sym, n) = B.blocks[from[n]]
        /\ \A c \in BlockIds(B) :
              /\ from[c] \in BlockIds(B)
              /\ from[c] = IF GoesUp(B, sym, c) THEN from[B.blocks[c].predecessors[1]] ELSE c
  BY <1>1, LookupFollows
<1>3. ValueOf(B, from[n], v)
  BY <1>1, <1>2, Zenon DEF Code, FinalsLocal
<1>4. values = <<v>> OBVIOUS
<1> HIDE DEF v
<1>5. Len(values) = 1 /\ values[1] = v /\ values # <<>> BY <1>4
<1>6. v \in SsaIds(B) /\ B.ssas[v].block = from[n] /\ ~ has_flag(B.ssas[v], "no_value")
  BY <1>3, Zenon DEF ValueOf
<1>7. values \in Seq(SsaIds(B))
  <2> HIDE DEF SsaIds
  <2> QED BY <1>4, <1>6
<1> DEFINE X == {c \in BlockIds(B) \ Unstarted(B) : from[c] = from[n]}
<1>8. ASSUME NEW c \in X
      PROVE  \/ \E k \in 1..Len(values) : B.ssas[values[k]].block = c
             \/ c # 1 /\ Preds(B, c) \subseteq X
  <2>1. c \in BlockIds(B) OBVIOUS
  <2>2. CASE GoesUp(B, sym, c)
    <3> DEFINE p == B.blocks[c].predecessors[1]
    <3>1. Len(B.blocks[c].predecessors) = 1 /\ from[c] = from[p]
      BY <1>2, <2>1, <2>2, Zenon DEF GoesUp
    <3>2. c # 1
      <4>1. Len(B.blocks[1].predecessors) = 0 BY DEF Entry
      <4> QED BY <3>1, <4>1
    <3>3. Preds(B, c) = {p} BY <3>1 DEF Preds
    <3>4. p \in BlockIds(B) \ Unstarted(B) BY <2>1, <3>3, PredsStarted, Zenon
    <3> HIDE DEF p
    <3> QED BY <3>1, <3>2, <3>3, <3>4
  <2>3. CASE ~ GoesUp(B, sym, c)
    <3>1. from[c] = c BY <1>2, <2>1, <2>3, Zenon
    <3>2. B.ssas[values[1]].block = c BY <1>5, <1>6, <3>1
    <3> QED BY <1>5, <3>2
  <2> QED BY <2>2, <2>3
<1>9. Crosses(B, values, X)
  <2>1. n \in X BY <1>1
  <2>2. X \subseteq BlockIds(B) \ Unstarted(B) OBVIOUS
  <2> HIDE DEF X
  <2> QED BY <1>8, <2>1, <2>2, Zenon DEF Crosses
<1> QED BY <1>5, <1>6, <1>7, <1>9

LEMMA ReadIdentDecent ==
    ASSUME NEW B, NEW L, NEW T, Steady(B, L, T), NEW sym \in Symbols,
           NEW r, r = ReadIdent(machine(B, L, T), sym)
    PROVE  Decent(r)
<1> DEFINE m == machine(B, L, T)
           found == Lookup(B, sym, B.current_block)
           values == <<found.final_values[sym]>>
           C == PhiOf(B, values)
<1>1. /\ Code(B) /\ Proper(B) /\ Sits(B, T) /\ Len(T) <= MaxTasks /\ B.current_block # NULL
      /\ Entry(B)
  BY SteadyTyped, Zenon DEF Proper
<1>2. m.ir = B /\ m.fault = NoFault BY MachineFields
<1>3. CASE try_get(found, sym)
  <2>1. r = Ir(m, C) BY <1>2, <1>3, Zenon DEF ReadIdent
  <2>2. /\ values \in Seq(SsaIds(B)) /\ values # <<>>
        /\ \A k \in 1..Len(values) : ~ has_flag(B.ssas[values[k]], "no_value")
        /\ \E X : Crosses(B, values, X)
    BY <1>1, <1>3, LookupCrosses, Zenon
  <2> HIDE DEF values
  <2>3. values \in Seq(Nat)
    <3>1. SsaIds(B) \subseteq Nat BY DEF SsaIds
    <3> QED BY <2>2, <3>1
  <2>4. Allowed(C) BY <1>1, <2>2, <2>3, PhiOfWrites, Zenon
  <2>5. C.fault = NoFault => Proper(C) /\ Sits(C, T)
    BY <1>1, <2>2, PhiProper, SitsCarried, Zenon
  <2> QED BY <1>1, <2>1, <2>4, <2>5, IrDecent, Zenon
<1>4. CASE ~ try_get(found, sym)
  <2>1. r = Checked(m, found.predecessors # <<>>, "undeclared?",
                    Checked(m, FALSE, "should have a phi", m))
    BY <1>2, <1>4, Zenon DEF ReadIdent
  <2>2. "undeclared?" \in Refusals /\ "should have a phi" \in Refusals BY DEF Refusals
  <2>3. Allowed(m) BY MachineAllowed, Zenon
  <2> HIDE DEF m, found
  <2>4. Decent(Checked(m, FALSE, "should have a phi", m)) BY <2>2, <2>3, CheckedDecent, Zenon
  <2> QED BY <2>1, <2>2, <2>3, <2>4, CheckedDecent, Zenon
<1> QED BY <1>3, <1>4

LEMMA emit_exp_identDecent ==
    ASSUME NEW B, NEW L, NEW T, Steady(B, L, T), NEW e, NEW mode, NEW ssa_write,
           mode = "READ" \/ ValueOf(B, B.current_block, ssa_write),
           NEW r, r = emit_exp_ident(machine(B, L, T), e, mode, ssa_write)
    PROVE  Decent(r)
<1> DEFINE m == machine(B, L, T)
           sym == resolve(e.name)
           C == add_final_value(B, sym, ssa_write)
           written == Ir(m, C)
           unflagged == Checked(m, ~ has_flag(B.ssas[ssa_write], "no_value"),
                                "!ssa_write->has_flag(no_value)", written)
           checked == Checked(m, ssa_write # NULL, "ssa_write != NULL", unflagged)
           next == IF mode = "READ" THEN ReadIdent(m, sym) ELSE checked
<1>1. /\ Code(B) /\ Proper(B) /\ Sits(B, T) /\ Len(T) <= MaxTasks /\ B.current_block # NULL
      /\ Allowed(B)
  BY SteadyTyped, Zenon
<1>2. m.ir = B BY MachineFields
<1>3. Allowed(m) BY MachineAllowed, Zenon
<1>4. "sym != NOT_RESOLVED" \in Refusals BY DEF Refusals
<1>5. r = Checked(m, sym # NOT_RESOLVED, "sym != NOT_RESOLVED", next)
  BY <1>2, Zenon DEF emit_exp_ident
<1> HIDE DEF next, m
<1>6. ASSUME sym # NOT_RESOLVED PROVE Decent(next)
  <2>1. sym \in Symbols BY <1>6, Resolved
  <2> HIDE DEF sym
  <2>2. CASE mode = "READ"
    <3>1. next = ReadIdent(machine(B, L, T), sym) BY <2>2, Zenon DEF next, m
    <3> QED BY <2>1, <3>1, ReadIdentDecent, Zenon
  <2>3. CASE mode # "READ"
    <3>1. next = checked BY <2>3, Zenon DEF next
    <3>2. ssa_write # NULL /\ ~ has_flag(B.ssas[ssa_write], "no_value")
      BY <2>3 DEF ValueOf, SsaIds, NULL
    <3>3. Allowed(C) BY <1>1, add_final_valueAllows, Zenon
    <3>4. C.fault = NoFault => Proper(C) /\ Sits(C, T)
      BY <1>1, <2>1, <2>3, FinalProper, SitsCarried, Zenon
    <3> HIDE DEF C
    <3>5. Decent(written) BY <1>1, <3>3, <3>4, IrDecent, Zenon DEF m
    <3> HIDE DEF written
    <3>6. Decent(unflagged) BY <1>3, <3>2, <3>5, CheckedDecent, Zenon
    <3> HIDE DEF unflagged
    <3>7. Decent(checked) BY <1>3, <3>2, <3>6, CheckedDecent, Zenon
    <3> QED BY <3>1, <3>7
  <2> QED BY <2>2, <2>3
<1> HIDE DEF sym
<1> QED BY <1>3, <1>4, <1>5, <1>6, CheckedDecent, Zenon

\* An instruction that reads no list
LEMMA emitDecent ==
    ASSUME NEW B, NEW L, NEW T, Steady(B, L, T), NEW o \in {"i", "add", "sub", "nop"},
           NEW flags \in SUBSET ssa_prop, "no_value" \in flags <=> o = "nop",
           NEW l \in Nat, NEW r \in Nat, OperandsExist(B, instruction(B, o, flags, l, r)),
           NEW m, m = Ir(machine(B, L, T), emit(B, o, flags, l, r))
    PROVE  Decent(m)
<1> DEFINE C == emit(B, o, flags, l, r)
<1>1. /\ Code(B) /\ Proper(B) /\ Sits(B, T) /\ Len(T) <= MaxTasks /\ B.current_block # NULL
      /\ Allowed(B)
  BY SteadyTyped, Zenon
<1>2. Allowed(C) BY <1>1, emitAllows, Zenon
<1>3. C = emit(B, o, flags, l, r) OBVIOUS
<1> HIDE DEF C
<1>4. ASSUME C.fault = NoFault PROVE Proper(C) /\ Sits(C, T)
  <2>1. Proper(C) /\ Carried(B, C) BY <1>1, <1>3, <1>4, emitProper
  <2> QED BY <1>1, <2>1, SitsCarried, Zenon
<1> QED BY <1>1, <1>2, <1>3, <1>4, IrDecent, Zenon

LEMMA emit_exp_literalDecent ==
    ASSUME NEW B, NEW L, NEW T, Steady(B, L, T), NEW e, e.val_u64 \in Nat, NEW mode,
           NEW r, r = emit_exp_literal(machine(B, L, T), e, mode)
    PROVE  Decent(r)
<1> DEFINE m == machine(B, L, T)
           i == instruction(B, "i", {"const_val"}, e.val_u64, 0)
           next == Ir(m, literal(B, e.val_u64))
<1>1. m.ir = B BY MachineFields
<1>2. r = Checked(m, mode = "READ", "mode == READ", next)
  BY <1>1, Zenon DEF emit_exp_literal
<1>3. /\ {"const_val"} \in SUBSET ssa_prop /\ "no_value" \notin {"const_val"} /\ 0 \in Nat
      /\ "i" # "nop"
  BY DEF ssa_prop
<1>4. OperandsExist(B, i)
  <2>1. i.op \notin {"add", "sub", "ret"} BY DEF instruction
  <2> QED BY <2>1, NoOperands
<1>5. next = Ir(machine(B, L, T), emit(B, "i", {"const_val"}, e.val_u64, 0)) BY DEF literal
<1> HIDE DEF next
<1>6. Decent(next) BY <1>3, <1>4, <1>5, emitDecent, Zenon
<1>7. Allowed(m) BY MachineAllowed, Zenon
<1>8. "mode == READ" \in Refusals BY DEF Refusals
<1> DEFINE ok == mode = "READ"
<1>9. r = Checked(m, ok, "mode == READ", next) BY <1>2
<1> HIDE DEF m, ok
<1> QED BY <1>6, <1>7, <1>8, <1>9, CheckedDecent, Zenon

\* Tasks that belong to no ifs, on any stack
LEMMA SitsSimply ==
    ASSUME NEW B, NEW T \in Seq(Task), Sits(B, T), NEW ts \in Seq(Task),
           \A k \in 1..Len(ts) : ts[k].func # "emit_stmt_ifs" /\ ts[k].merge_block = NULL
    PROVE  T \o ts \in Seq(Task) /\ Sits(B, T \o ts)
<1> DEFINE P == {U \in Seq(Task) : Sits(B, U)}
           Q == {t \in Task : t.func # "emit_stmt_ifs" /\ t.merge_block = NULL}
<1>1. \A k \in 1..Len(ts) : ts[k] \in Q OBVIOUS
<1>2. ts \in Seq(Q)
  <2> HIDE DEF Q
  <2> QED BY <1>1
<1>3. ASSUME NEW U \in P, NEW t \in Q PROVE Append(U, t) \in P
  <2>1. U \in Seq(Task) /\ Sits(B, U) OBVIOUS
  <2>2. t \in Task /\ t.func \notin {"emit_stmt_ifs"} /\ t.merge_block = NULL OBVIOUS
  <2>3. Sits(B, Append(U, t)) BY <2>1, <2>2, SimpleFits, SitsPushed, Zenon
  <2> QED BY <2>1, <2>2, <2>3
<1>4. P \in SUBSET Seq(Task) /\ Q \subseteq Task /\ T \in P OBVIOUS
<1> HIDE DEF P, Q
<1>5. T \o ts \in P BY <1>2, <1>3, <1>4, AppendAll, Zenon
<1> QED BY <1>5 DEF P

LEMMA emit_expDecent ==
    ASSUME NEW B, NEW L, NEW T, Steady(B, L, T), NEW e \in AnyExp, NEW mode, NEW ssa_write,
           mode = "READ" \/ ValueOf(B, B.current_block, ssa_write),
           NEW r, r = emit_exp(machine(B, L, T), e, mode, ssa_write)
    PROVE  Decent(r)
<1> DEFINE m == machine(B, L, T)
           spine == LeftSpine(e)
           binary == [d \in 1..Len(spine) - 1 |->
                         task("emit_exp_binary", 1, spine[d], last_ssa(m.ir), NULL)]
           leaf == spine[Len(spine)]
           m1 == IF binary = <<>> THEN m
                 ELSE Checked(m, mode = "READ", "mode == READ", push_tasks(m, binary))
           mode1 == IF binary = <<>> THEN mode ELSE "READ"
<1>1. m.ir = B /\ m.fault = NoFault BY MachineFields
<1>2. /\ spine \in Seq(AnyExp) /\ Len(spine) \in Nat \ {0} /\ leaf \in AnyExp
      /\ \A d \in 1..Len(spine) - 1 : spine[d] \in AnyExp /\ spine[d].kind = "exp_binary"
  BY LeftSpineDescends
<1>3. r = CASE leaf.kind = "exp_ident"   -> Then(m1, emit_exp_ident(m1, leaf, mode1, ssa_write))
            [] leaf.kind = "exp_literal" -> Then(m1, emit_exp_literal(m1, leaf, mode1))
            [] OTHER                     -> m1
  BY Zenon DEF emit_exp
<1>4. /\ Running(B, L, T) /\ Proper(B) /\ Sits(B, T) /\ Len(T) <= MaxTasks /\ T \in Seq(Task)
      /\ Len(B.ssas) \in Nat
  BY SteadyTyped, RunningTyped, Zenon
<1>5. Allowed(m) BY MachineAllowed, Zenon
<1> HIDE DEF spine, leaf
<1>6. Allowed(m1)
  <2>1. "mode == READ" \in Refusals BY DEF Refusals
  <2>2. Allowed(push_tasks(m, binary)) BY <1>5, PushAllows, Zenon
  <2> HIDE DEF m, binary
  <2> QED BY <1>5, <2>1, <2>2, CheckedAllows, Zenon
<1>7. ASSUME m1.fault = NoFault
      PROVE  \E U : /\ m1 = machine(B, L, U) /\ Steady(B, L, U)
                    /\ mode1 = "READ" \/ ValueOf(B, B.current_block, ssa_write)
  <2>1. CASE binary = <<>>
    <3>1. m1 = machine(B, L, T) /\ mode1 = mode BY <2>1, Zenon
    <3> QED BY <3>1, Zenon
  <2>2. CASE binary # <<>>
    <3>1. "mode == READ" # NoFault BY DEF NoFault
    <3>2. [m EXCEPT !.fault = "mode == READ"].fault # NoFault BY <3>1, MachineFails, Zenon
    <3>3. mode1 = "READ" /\ m1 = Checked(m, mode = "READ", "mode == READ", push_tasks(m, binary))
      BY <2>2, Zenon
    <3>4. binary = [d \in 1..Len(spine) - 1 |->
                       task("emit_exp_binary", 1, spine[d], last_ssa(B), NULL)]
      BY <1>1, Zenon
    <3>5. Running(B, L, T \o binary) BY <1>2, <1>4, <3>4, BinaryTasks, Zenon
    <3>6. /\ binary \in Seq(Task) /\ \A k \in 1..Len(binary) :
                binary[k].func # "emit_stmt_ifs" /\ binary[k].merge_block = NULL
      <4>1. ASSUME NEW d \in 1..Len(spine) - 1, NEW t,
                   t = task("emit_exp_binary", 1, spine[d], last_ssa(B), NULL)
            PROVE  t \in Task /\ t.func # "emit_stmt_ifs" /\ t.merge_block = NULL
        <5>1. "emit_exp_binary" \in Handlers /\ 1 \in Nat /\ spine[d] \in Stmts \cup AnyExp
              /\ last_ssa(B) \in Nat /\ NULL \in Nat
          BY <1>2, <1>4 DEF Handlers, last_ssa, NULL
        <5>2. t \in Task /\ t.func = "emit_exp_binary" /\ t.merge_block = NULL
          BY <4>1, <5>1 DEF Task, task
        <5> QED BY <5>2
      <4> HIDE DEF binary
      <4>2. Len(spine) - 1 \in Nat BY <1>2
      <4>3. \A d \in 1..Len(spine) - 1 : /\ binary[d] \in Task
                /\ binary[d].func # "emit_stmt_ifs" /\ binary[d].merge_block = NULL
        BY <3>4, <4>1
      <4>4. Len(binary) = Len(spine) - 1 /\ binary \in Seq(Task) BY <3>4, <4>2, <4>3
      <4> QED BY <4>3, <4>4
    <3> HIDE DEF m1, binary, mode1
    <3>7. m1 = push_tasks(machine(B, L, T), binary)
      <4> HIDE DEF m
      <4>1. m1 = push_tasks(m, binary) BY <1>1, <1>7, <3>2, <3>3, Zenon DEF Checked, Then
      <4> QED BY <4>1 DEF m
    <3>8. m1 = machine(B, L, T \o binary) BY <1>7, <3>7, PushCall
    <3>9. Sits(B, T \o binary) BY <1>4, <3>6, SitsSimply, Zenon
    <3>10. Len(T \o binary) <= MaxTasks BY <1>4, <1>7, <3>6, <3>7, PushBound, Zenon
    <3>11. Steady(B, L, T \o binary) BY <1>4, <3>5, <3>9, <3>10, Zenon DEF Steady
    <3> QED BY <3>3, <3>8, <3>11, Zenon
  <2> QED BY <2>1, <2>2, Zenon
<1> HIDE DEF m1, mode1, binary, m
<1>8. SUFFICES ASSUME m1.fault = NoFault PROVE Decent(r)
  <2>1. CASE m1.fault = NoFault BY <1>8, <2>1
  <2>2. CASE m1.fault # NoFault
    <3>1. r = m1 BY <1>3, <2>2, Zenon DEF Then
    <3> QED BY <1>6, <2>2, <3>1, Zenon DEF Decent
  <2> QED BY <2>1, <2>2
<1>9. PICK U : /\ m1 = machine(B, L, U) /\ Steady(B, L, U)
               /\ mode1 = "READ" \/ ValueOf(B, B.current_block, ssa_write)
  BY <1>7, <1>8
<1>10. CASE leaf.kind = "exp_ident"
  <2>1. r = emit_exp_ident(machine(B, L, U), leaf, mode1, ssa_write)
    BY <1>3, <1>8, <1>9, <1>10, Zenon DEF Then
  <2> QED BY <1>9, <2>1, emit_exp_identDecent
<1>11. CASE leaf.kind = "exp_literal"
  <2>0. leaf.kind # "exp_ident" BY <1>11
  <2>1. r = emit_exp_literal(machine(B, L, U), leaf, mode1)
    BY <1>3, <1>8, <1>9, <1>11, <2>0 DEF Then
  <2>2. leaf.val_u64 \in Nat BY <1>2, <1>11, AnyExpression
  <2> QED BY <1>9, <2>1, <2>2, emit_exp_literalDecent
<1>12. CASE leaf.kind \notin {"exp_ident", "exp_literal"}
  <2>1. r = machine(B, L, U) BY <1>3, <1>9, <1>12
  <2> QED BY <1>9, <2>1, SteadyDecent
<1> QED BY <1>10, <1>11, <1>12

LEMMA SimpleSteady ==
    ASSUME NEW B, NEW L, NEW T, Steady(B, L, T), NEW t \in Task, t.func # "emit_stmt_ifs",
           t.merge_block = NULL, NEW U, U = Append(T, t), Running(B, L, U), Len(U) <= MaxTasks
    PROVE  Steady(B, L, U)
<1>1. Proper(B) /\ Sits(B, T) /\ T \in Seq(Task) BY SteadyTyped, Zenon
<1>2. t.func \notin {"emit_stmt_ifs"} OBVIOUS
<1>3. Sits(B, U) BY <1>1, <1>2, SimpleFits, SitsPushed, Zenon
<1> QED BY <1>1, <1>3, Zenon DEF Steady

LEMMA emit_exp_binary_1Decent ==
    ASSUME NEW B, NEW L, NEW T, Steady(B, L, T), NEW t \in Task, ValuesSince(B, t),
           t.node \in AnyExp, t.node.kind = "exp_binary",
           NEW r, r = emit_exp_binary_1(machine(B, L, T), t)
    PROVE  Decent(r)
<1> DEFINE m == machine(B, L, T)
           t2 == task("emit_exp_binary", 2, t.node, last_ssa(m.ir), NULL)
           m1 == push_task(m, t2)
           next == emit_exp(m1, t.node.right, "READ", NULL)
           on == Then(m1, next)
           newer == Checked(m, t.arg1 # last_ssa(m.ir), "ssa_before != ssa_left", on)
<1>1. Running(B, L, T) /\ T \in Seq(Task) BY SteadyTyped, Zenon
<1>2. m.ir = B /\ Allowed(m) BY MachineFields, MachineAllowed
<1>3. r = Checked(m, last_ssa(m.ir) # NULL, "arena not empty", newer)
  BY Zenon DEF emit_exp_binary_1
<1>4. ASSUME t.arg1 # last_ssa(B) PROVE Decent(on)
  <2>1. ValueOf(B, B.current_block, last_ssa(B)) /\ last_ssa(B) # NULL /\ last_ssa(B) \in Nat
    BY <1>1, <1>4, NewValue
  <2>2. /\ t2 \in Task /\ t2.func = "emit_exp_binary" /\ t2.step = 2 /\ t2.node = t.node
        /\ t2.arg1 = last_ssa(B) /\ t2.merge_block = NULL
    <3>1. t.node \in Stmts \cup AnyExp OBVIOUS
    <3>2. NULL \in Nat /\ "emit_exp_binary" \in Handlers BY DEF NULL, Handlers
    <3>3. t2 = task("emit_exp_binary", 2, t.node, last_ssa(B), NULL) BY <1>2
    <3> HIDE DEF t2
    <3> QED BY <2>1, <3>1, <3>2, <3>3 DEF Task, task
  <2> HIDE DEF t2
  <2>3. ValuesSince(B, t2)
    <3>1. Len(B.ssas) \in Nat BY <1>1, RunningTyped
    <3>2. \A s \in SsaIds(B) : last_ssa(B) < s \/ last_ssa(B) = s => s = last_ssa(B)
      BY <3>1 DEF SsaIds, last_ssa
    <3>3. t2.arg1 <= Len(B.ssas) BY <2>2, <3>1 DEF last_ssa
    <3> QED BY <2>1, <2>2, <3>2, <3>3 DEF ValuesSince
  <2>4. Running(B, L, Append(T, t2))
    <3>1. Shaped(B, t2) /\ Simple(t2) BY <2>2 DEF Shaped, Simple
    <3> QED BY <1>1, <2>2, <2>3, <3>1, SimplePushed, Zenon
  <2>5. ASSUME m1 = machine(B, L, Append(T, t2)) /\ Len(Append(T, t2)) <= MaxTasks
        PROVE  Decent(next)
    <3>1. t.node.right \in AnyExp BY AnyExpression
    <3>2. t2.func # "emit_stmt_ifs" BY <2>2
    <3>3. Steady(B, L, Append(T, t2)) BY <2>2, <2>4, <2>5, <3>2, SimpleSteady, Zenon
    <3> HIDE DEF m1
    <3> QED BY <2>5, <3>1, <3>3, emit_expDecent
  <2>6. m1 = push_task(machine(B, L, T), t2) OBVIOUS
  <2> HIDE DEF m, m1, next
  <2> QED BY <1>1, <2>2, <2>5, <2>6, PushDecent
<1>5. "arena not empty" \in Refusals /\ "ssa_before != ssa_left" \in Refusals BY DEF Refusals
<1> HIDE DEF m, on
<1>6. Decent(newer) BY <1>2, <1>4, <1>5, CheckedDecent, Zenon
<1> HIDE DEF newer
<1> QED BY <1>2, <1>3, <1>5, <1>6, CheckedDecent, Zenon

LEMMA emit_exp_binary_2Decent ==
    ASSUME NEW B, NEW L, NEW T, Steady(B, L, T), NEW t \in Task, ValuesSince(B, t), t.step = 2,
           NEW r, r = emit_exp_binary_2(machine(B, L, T), t)
    PROVE  Decent(r)
<1> DEFINE m == machine(B, L, T)
           right == last_ssa(m.ir)
           on == CASE t.node.op = "add"    -> Ir(m, add(m.ir, t.arg1, right))
                   [] t.node.op = "equals" -> Ir(m, sub(m.ir, t.arg1, right))
                   [] OTHER                -> m
<1>1. Running(B, L, T) BY SteadyTyped, Zenon
<1>2. m.ir = B /\ Allowed(m) BY MachineFields, MachineAllowed
<1>3. r = Checked(m, t.arg1 # right, "ssa_before != ssa_right", on)
  BY Zenon DEF emit_exp_binary_2
<1>4. right = last_ssa(B) BY <1>2
<1>5. ASSUME t.arg1 # right PROVE Decent(on)
  <2> HIDE DEF right
  <2>1. ValueOf(B, B.current_block, right) /\ right \in Nat BY <1>1, <1>4, <1>5, NewValue
  <2>2. ValueOf(B, B.current_block, t.arg1) /\ t.arg1 \in Nat
    <3>1. t.arg1 \in Nat BY DEF Task
    <3>2. Len(B.ssas) \in Nat BY <1>1, RunningTyped
    <3>3. t.arg1 \in SsaIds(B) BY <3>1, <3>2 DEF ValuesSince, SsaIds, NULL
    <3> QED BY <3>1, <3>3 DEF ValuesSince
  <2>3. ASSUME NEW o \in {"add", "sub"} PROVE Decent(Ir(m, emit(B, o, {}, t.arg1, right)))
    <3>1. {} \in SUBSET ssa_prop /\ ("no_value" \in {} <=> o = "nop") OBVIOUS
    <3> DEFINE i == instruction(B, o, {}, t.arg1, right)
    <3>2. i.op = o /\ i.block = B.current_block /\ i.left = t.arg1 /\ i.right = right
      BY DEF instruction
    <3> HIDE DEF i
    <3>3. OperandsExist(B, i) BY <2>1, <2>2, <3>2 DEF OperandsExist, OperandsOf
    <3>4. o \in {"i", "add", "sub", "nop"} OBVIOUS
    <3> HIDE DEF m
    <3> QED BY <2>1, <2>2, <3>1, <3>3, <3>4, emitDecent, Zenon DEF i, m
  <2> HIDE DEF m
  <2>4. CASE t.node.op = "add"
    <3>1. on = Ir(m, emit(B, "add", {}, t.arg1, right)) BY <1>2, <2>4, Zenon DEF add
    <3> QED BY <2>3, <3>1
  <2>5. CASE t.node.op = "equals"
    <3>0. t.node.op # "add" BY <2>5
    <3>1. on = Ir(m, emit(B, "sub", {}, t.arg1, right)) BY <1>2, <2>5, <3>0 DEF sub
    <3> QED BY <2>3, <3>1
  <2>6. CASE t.node.op \notin {"add", "equals"}
    <3>1. on = machine(B, L, T) BY <2>6 DEF m
    <3> QED BY <3>1, SteadyDecent
  <2> QED BY <2>4, <2>5, <2>6
<1>6. "ssa_before != ssa_right" \in Refusals BY DEF Refusals
<1> HIDE DEF m, on, right
<1> QED BY <1>2, <1>3, <1>5, <1>6, CheckedDecent, Zenon

-----------------------------------------------------------------------------
(***************************************************************************)
(* Statements that evaluate an expression.                                 *)
(***************************************************************************)
LEMMA EvaluateThenDecent ==
    ASSUME NEW B, NEW L, NEW T, Steady(B, L, T), NoneEvaluating(T), NEW s \in Stmts, NEW func,
           \/ func = "emit_stmt_assign" /\ s.kind = "stmt_assign"
           \/ func \in {"emit_stmt_local_decl", "emit_stmt_return"},
           NEW e \in AnyExp, NEW r, r = EvaluateThen(machine(B, L, T), func, s, e)
    PROVE  Decent(r)
<1> DEFINE m == machine(B, L, T)
           t == task(func, 1, s, last_ssa(m.ir), NULL)
           m1 == push_task(m, t)
           next == emit_exp(m1, e, "READ", NULL)
<1>1. m.ir = B BY MachineFields
<1>2. r = Then(m1, next) BY Zenon DEF EvaluateThen
<1>3. Len(B.ssas) \in Nat /\ T \in Seq(Task) /\ Running(B, L, T) BY SteadyTyped, RunningTyped
<1>4. /\ t \in Task /\ t.func = func /\ t.step = 1 /\ t.node = s /\ t.arg1 = last_ssa(B)
      /\ t.merge_block = NULL
  <2>1. s \in Stmts \cup AnyExp /\ last_ssa(B) \in Nat /\ NULL \in Nat BY <1>3 DEF last_ssa, NULL
  <2>2. func \in Handlers BY DEF Handlers
  <2>3. t = task(func, 1, s, last_ssa(B), NULL) BY <1>1
  <2> HIDE DEF t
  <2> QED BY <2>1, <2>2, <2>3 DEF Task, task
<1>5. m1 = push_task(machine(B, L, T), t) OBVIOUS
<1> HIDE DEF m, t
<1>6. Running(B, L, Append(T, t))
  <2>1. Shaped(B, t) BY <1>4 DEF Shaped, Is
  <2>2. Simple(t) BY <1>4 DEF Simple
  <2>3. ValuesSince(B, t) BY <1>3, <1>4, NoneSince
  <2> QED BY <1>3, <1>4, <2>1, <2>2, <2>3, SimplePushed, Zenon
<1> HIDE DEF m1
<1>7. ASSUME m1 = machine(B, L, Append(T, t)) /\ Len(Append(T, t)) <= MaxTasks
      PROVE  Decent(next)
  <2>1. t.func # "emit_stmt_ifs" BY <1>4
  <2>2. Steady(B, L, Append(T, t)) BY <1>4, <1>6, <1>7, <2>1, SimpleSteady, Zenon
  <2> QED BY <1>7, <2>2, emit_expDecent
<1> HIDE DEF next
<1> QED BY <1>2, <1>3, <1>4, <1>5, <1>7, PushDecent

LEMMA WithValueDecent ==
    ASSUME NEW B, NEW L, NEW T, Steady(B, L, T), NEW before, NEW next,
           last_ssa(B) # before => Decent(next),
           NEW r, r = WithValue(machine(B, L, T), before, next)
    PROVE  Decent(r)
<1> DEFINE m == machine(B, L, T)
           flagged == has_flag(m.ir.ssas[last_ssa(m.ir)], "no_value")
           unflagged == Checked(m, ~ flagged, "!val->has_flag(no_value)", next)
           newer == Checked(m, last_ssa(m.ir) # before, "val != ssa_before", unflagged)
<1>1. m.ir = B /\ Allowed(m) BY MachineFields, MachineAllowed
<1>2. r = Checked(m, last_ssa(m.ir) # NULL, "arena not empty", newer) BY Zenon DEF WithValue
<1>3. /\ "arena not empty" \in Refusals /\ "val != ssa_before" \in Refusals
      /\ "!val->has_flag(no_value)" \in Refusals
  BY DEF Refusals
<1> HIDE DEF m, flagged
<1>4. last_ssa(m.ir) # before => Decent(unflagged) BY <1>1, <1>3, CheckedDecent, Zenon
<1> HIDE DEF unflagged
<1>5. Decent(newer) BY <1>1, <1>3, <1>4, CheckedDecent, Zenon
<1> HIDE DEF newer
<1> QED BY <1>1, <1>2, <1>3, <1>5, CheckedDecent, Zenon

LEMMA emit_stmt_assign_1Decent ==
    ASSUME NEW B, NEW L, NEW T, Steady(B, L, T), NEW t \in Task, ValuesSince(B, t),
           t.node \in Stmts, t.node.kind = "stmt_assign",
           NEW r, r = emit_stmt_assign_1(machine(B, L, T), t)
    PROVE  Decent(r)
<1> DEFINE m == machine(B, L, T)
           next == emit_exp(m, t.node.left, "WRITE", last_ssa(m.ir))
<1>1. m.ir = B /\ Running(B, L, T) BY MachineFields, SteadyTyped
<1>2. r = WithValue(m, t.arg1, next) BY Zenon DEF emit_stmt_assign_1
<1>3. t.node.left \in AnyExp BY Statements DEF WellFormed
<1>4. next = emit_exp(machine(B, L, T), t.node.left, "WRITE", last_ssa(B)) BY <1>1
<1> HIDE DEF next
<1>5. ASSUME last_ssa(B) # t.arg1 PROVE Decent(next)
  <2>1. ValueOf(B, B.current_block, last_ssa(B)) BY <1>1, <1>5, NewValue
  <2> QED BY <1>3, <1>4, <2>1, emit_expDecent
<1> QED BY <1>2, <1>5, WithValueDecent

LEMMA emit_stmt_local_decl_1Decent ==
    ASSUME NEW B, NEW L, NEW T, Steady(B, L, T), NEW t \in Task, ValuesSince(B, t),
           NEW r, r = emit_stmt_local_decl_1(machine(B, L, T), t)
    PROVE  Decent(r)
<1> DEFINE m == machine(B, L, T)
           sym == resolve(t.node.name)
           C == add_final_value(B, sym, last_ssa(B))
           call == Ir(m, C)
           next == Checked(m, sym # NOT_RESOLVED, "sym != NOT_RESOLVED", call)
<1>1. /\ m.ir = B /\ Allowed(m) /\ Running(B, L, T) /\ Allowed(B) /\ Code(B) /\ Proper(B)
      /\ Sits(B, T) /\ Len(T) <= MaxTasks /\ B.current_block # NULL
  BY MachineFields, MachineAllowed, SteadyTyped
<1>2. r = WithValue(m, t.arg1, next) BY <1>1, Zenon DEF emit_stmt_local_decl_1
<1>3. call = Ir(machine(B, L, T), C) OBVIOUS
<1>4. C = add_final_value(B, sym, last_ssa(B)) OBVIOUS
<1>5. sym # NOT_RESOLVED => sym \in Symbols BY Resolved
<1> HIDE DEF m, sym, C, call
<1>6. ASSUME last_ssa(B) # t.arg1, sym # NOT_RESOLVED PROVE Decent(call)
  <2>1. ValueOf(B, B.current_block, last_ssa(B)) BY <1>1, <1>6, NewValue
  <2>2. Allowed(C) BY <1>1, <1>4, add_final_valueAllows
  <2>3. ASSUME C.fault = NoFault PROVE Proper(C) /\ Sits(C, T)
    <3>1. Proper(C) /\ Carried(B, C) BY <1>1, <1>4, <1>5, <1>6, <2>1, <2>3, FinalProper
    <3> QED BY <1>1, <3>1, SitsCarried
  <2> QED BY <1>1, <1>3, <2>2, <2>3, IrDecent
<1>7. "sym != NOT_RESOLVED" \in Refusals BY DEF Refusals
<1>8. ASSUME last_ssa(B) # t.arg1 PROVE Decent(next)
  BY <1>1, <1>6, <1>7, <1>8, CheckedDecent, Zenon
<1> HIDE DEF next
<1>9. r = WithValue(machine(B, L, T), t.arg1, next) BY <1>2 DEF m
<1> QED BY <1>8, <1>9, WithValueDecent

LEMMA retDecent ==
    ASSUME NEW B, NEW L, NEW T, Steady(B, L, T), NEW val \in Nat,
           val # NULL => ValueOf(B, B.current_block, val),
           NEW r, r = Ir(machine(B, L, T), ret(B, val))
    PROVE  Decent(r)
<1> DEFINE C == ret(B, val)
<1>1. /\ Allowed(B) /\ Code(B) /\ Proper(B) /\ Sits(B, T) /\ Len(T) <= MaxTasks
      /\ B.current_block # NULL
  BY SteadyTyped
<1>2. C = ret(B, val) /\ r = Ir(machine(B, L, T), C) OBVIOUS
<1> HIDE DEF C
<1>3. Allowed(C) BY <1>1, <1>2, retAllows
<1>4. ASSUME C.fault = NoFault PROVE Proper(C) /\ Sits(C, T)
  <2>1. Proper(C) /\ Carried(B, C) BY <1>1, <1>2, <1>4, retProper
  <2> QED BY <1>1, <2>1, SitsCarried
<1> QED BY <1>1, <1>2, <1>3, <1>4, IrDecent

LEMMA emit_stmt_return_1Decent ==
    ASSUME NEW B, NEW L, NEW T, Steady(B, L, T), NEW t \in Task, ValuesSince(B, t),
           NEW r, r = emit_stmt_return_1(machine(B, L, T), t)
    PROVE  Decent(r)
<1> DEFINE m == machine(B, L, T)
           next == Ir(m, ret(m.ir, last_ssa(m.ir)))
<1>1. m.ir = B /\ Running(B, L, T) BY MachineFields, SteadyTyped
<1>2. r = WithValue(m, t.arg1, next) BY Zenon DEF emit_stmt_return_1
<1>3. next = Ir(machine(B, L, T), ret(B, last_ssa(B))) BY <1>1
<1> HIDE DEF next
<1>4. ASSUME last_ssa(B) # t.arg1 PROVE Decent(next)
  <2>1. ValueOf(B, B.current_block, last_ssa(B)) /\ last_ssa(B) \in Nat
    BY <1>1, <1>4, NewValue
  <2> QED BY <1>3, <2>1, retDecent
<1> QED BY <1>2, <1>4, WithValueDecent

LEMMA emit_stmt_return_0Decent ==
    ASSUME NEW B, NEW L, NEW T, Steady(B, L, T), NoneEvaluating(T), NEW s \in Stmts,
           s.kind = "stmt_return", NEW r, r = emit_stmt_return_0(machine(B, L, T), s)
    PROVE  Decent(r)
<1>1. machine(B, L, T).ir = B BY MachineFields
<1>2. CASE s.maybe_expression = NoExp
  <2>1. r = Ir(machine(B, L, T), ret(B, NULL)) BY <1>1, <1>2 DEF emit_stmt_return_0
  <2>2. NULL \in Nat BY DEF NULL
  <2> QED BY <2>1, <2>2, retDecent
<1>3. CASE s.maybe_expression # NoExp
  <2>1. r = EvaluateThen(machine(B, L, T), "emit_stmt_return", s, s.maybe_expression)
    BY <1>3, Zenon DEF emit_stmt_return_0
  <2>2. s.maybe_expression \in AnyExp BY <1>3, Statements DEF WellFormed
  <2> QED BY <2>1, <2>2, EvaluateThenDecent
<1> QED BY <1>2, <1>3

\* The symbol table: a full arena refuses, and the root scope is never closed.
LEMMA ScopedAllows ==
    ASSUME NEW L, Scoped(L)
    PROVE  Allowed(L)
<1>1. L \in running_table /\ L.fault = NoFault BY DEF Scoped
<1>2. "fault" \in DOMAIN L BY <1>1 DEF running_table
<1> QED BY <1>1, <1>2 DEF Allowed

LEMMA TableAllows ==
    ASSUME NEW L, Scoped(L)
    PROVE  /\ Allowed(new_scope(L)) /\ Allowed(new_symbol(L))
           /\ Depth(L) # 1 => Allowed(end_scope(L))
<1>1. L \in running_table /\ L.fault = NoFault /\ Allowed(L) BY ScopedAllows DEF Scoped
<1>2. "Arena reached max capacity" \in Refusals /\ "next < max" \in Refusals BY DEF Refusals
<1>3. Allowed(new_scope(L))
  <2> DEFINE next == [L EXCEPT !.scopes = Append(@, [parent |-> L.current_scope,
                                                     decl_symbols |-> <<>>]),
                               !.current_scope = Len(L.scopes) + 1]
  <2>1. Allowed(next) BY <1>1 DEF Allowed
  <2>2. new_scope(L) = Checked(L, Len(L.scopes) < MaxScopes, "Arena reached max capacity", next)
    BY DEF new_scope
  <2> HIDE DEF next
  <2> QED BY <1>1, <1>2, <2>1, <2>2, CheckedAllows, Zenon
<1>4. Allowed(new_symbol(L))
  <2> DEFINE next == [L EXCEPT !.symbols = Append(@, [scope_decl |-> L.current_scope]),
                               !.scopes[L.current_scope].decl_symbols =
                                   Append(@, Len(L.symbols) + 1)]
             room == Checked(L, Len(L.scopes[L.current_scope].decl_symbols) < MaxDecls,
                             "next < max", next)
  <2>1. Allowed(next) BY <1>1 DEF Allowed
  <2>2. new_symbol(L) = Checked(L, Len(L.symbols) < MaxSymbols, "Arena reached max capacity", room)
    BY Zenon DEF new_symbol
  <2> HIDE DEF next
  <2>3. Allowed(room) BY <1>1, <1>2, <2>1, CheckedAllows, Zenon
  <2> HIDE DEF room
  <2> QED BY <1>1, <1>2, <2>2, <2>3, CheckedAllows, Zenon
<1>5. ASSUME Depth(L) # 1 PROVE Allowed(end_scope(L))
  <2> DEFINE p == L.scopes[L.current_scope].parent
             next == [L EXCEPT !.current_scope = p]
             ok == p # NULL
  <2>1. Allowed(next) BY <1>1 DEF Allowed
  <2>2. end_scope(L) = Checked(L, ok, "current_scope->parent != NULL", next)
    BY Zenon DEF end_scope
  <2>3. ok
    <3>1. PICK d : Depths(L, d) /\ Depth(L) = d[L.current_scope] BY DepthUnfolds
    <3>2. L.current_scope \in ScopeIds(L) BY DEF Scoped
    <3>3. d[L.current_scope] = 1 + d[p] /\ d[0] = 0 BY <3>1, <3>2, Zenon DEF Depths
    <3> QED BY <1>5, <3>1, <3>3 DEF NULL
  <2> HIDE DEF next, ok
  <2> QED BY <1>1, <2>1, <2>2, <2>3, CheckedAllows, Zenon
<1> QED BY <1>3, <1>4, <1>5

LEMMA emit_stmt_local_decl_0Decent ==
    ASSUME NEW B, NEW L, NEW T, Steady(B, L, T), NoneEvaluating(T), NEW s \in Stmts,
           s.kind = "stmt_local_decl", NEW r, r = emit_stmt_local_decl_0(machine(B, L, T), s)
    PROVE  Decent(r)
<1> DEFINE m == machine(B, L, T)
           M == new_symbol(L)
           m1 == Local(m, new_symbol(m.locals))
           next == EvaluateThen(m1, "emit_stmt_local_decl", s, s.maybe_expression)
<1>1. m.locals = L BY MachineFields
<1>2. r = IF s.maybe_expression = NoExp THEN m1 ELSE Then(m1, next)
  BY Zenon DEF emit_stmt_local_decl_0
<1>3. m1 = Local(machine(B, L, T), M) /\ M = new_symbol(L) BY <1>1
<1>4. /\ Running(B, L, T) /\ Scoped(L) /\ Proper(B) /\ Sits(B, T) /\ Len(T) <= MaxTasks
  BY SteadyTyped, RunningTyped
<1> HIDE DEF m, m1, M
<1>5. Decent(m1)
  <2>1. Allowed(M) BY <1>3, <1>4, TableAllows
  <2> QED BY <1>3, <1>4, <2>1, LocalDecent
<1>6. CASE s.maybe_expression = NoExp BY <1>2, <1>5, <1>6
<1>7. CASE s.maybe_expression # NoExp
  <2>1. r = Then(m1, next) BY <1>2, <1>7
  <2>2. s.maybe_expression \in AnyExp BY <1>7, Statements DEF WellFormed
  <2>3. ASSUME m1.fault = NoFault PROVE Decent(next)
    <3>1. M.fault = NoFault /\ m1 = machine(B, M, T) BY <1>3, <2>3, LocalCall
    <3>2. Scoped(M) /\ Depth(M) = Depth(L) BY <1>3, <1>4, <3>1, new_symbolPasses
    <3>3. Running(B, M, T) BY <1>4, <3>2, LocalRuns
    <3>4. Steady(B, M, T) BY <1>4, <3>3 DEF Steady
    <3> QED BY <2>2, <3>1, <3>4, EvaluateThenDecent
  <2> HIDE DEF next
  <2>4. Allowed(m1) BY <1>5 DEF Decent
  <2> QED BY <2>1, <2>3, <2>4, ThenDecent
<1> QED BY <1>6, <1>7

-----------------------------------------------------------------------------
(***************************************************************************)
(* The calls that move from block to block.                                *)
(***************************************************************************)
LEMMA alloc_blockProper ==
    ASSUME NEW B, Code(B), Proper(B), NEW C, C = alloc_block(B), C.fault = NoFault
    PROVE  Proper(C) /\ Carried(B, C)
<1>1. /\ Code(C) /\ Follows(B, C) /\ SameSsas(B, C) /\ SameMode(B, C)
      /\ BlockIds(C) = BlockIds(B) \cup {last_block(C)}
      /\ C.blocks[last_block(C)] = FreshBlock
      /\ \A b \in BlockIds(B) : C.blocks[b] = B.blocks[b]
  BY alloc_blockPasses
<1>2. FreshBlock.br = "UNUSED" /\ FreshBlock.predecessors = <<>> BY DEF FreshBlock
<1>3. Moves(B, C)
  <2>1. ASSUME NEW d \in BlockIds(C), NEW p \in Preds(C, d) PROVE d \in BlockIds(B) /\ p \in Preds(B, d)
    <3>1. d # last_block(C) BY <1>1, <1>2, <2>1 DEF Preds
    <3> QED BY <1>1, <2>1, <3>1 DEF Preds
  <2>2. \A d \in BlockIds(B) : EndOf(C, d) = EndOf(B, d)
    BY <1>1, Zenon DEF EndOf, last_ssa, SameSsas
  <2> QED BY <1>1, <1>2, <2>1, <2>2, Zenon DEF Moves
<1>4. Steers(B, C) BY <1>1, Zenon DEF Steers
<1>5. Settled(B, C) BY <1>1 DEF Follows
<1>6. Proper(C) BY <1>1, <1>3, <1>4, <1>5, BlocksProper
<1>7. Carried(B, C) BY <1>1, <1>3, MovesCarries DEF SameMode
<1> QED BY <1>6, <1>7

LEMMA unconditional_branchProper ==
    ASSUME NEW B, Code(B), Proper(B), NEW t \in Unstarted(B),
           NEW C, C = unconditional_branch(B, t), C.fault = NoFault
    PROVE  Proper(C) /\ Carried(B, C)
<1>1. /\ Kept(B, C) /\ SameSsas(B, C) /\ SameMode(B, C) /\ Moves(B, C)
      /\ B.blocks[B.current_block].br = "UNUSED"
      /\ C.blocks[B.current_block].br = "unconditional"
  BY unconditional_branchPasses
<1>2. Steers(B, C) BY <1>1, Zenon DEF Steers
<1>3. Settled(B, C) BY <1>1 DEF Kept, Follows
<1>4. Proper(C) BY <1>1, <1>2, <1>3, BlocksProper
<1>5. Carried(B, C) BY <1>1, MovesCarries DEF SameMode
<1> QED BY <1>4, <1>5

LEMMA branchProper ==
    ASSUME NEW B, Code(B), Proper(B), last_ssa(B) # NULL, ~ has_flag(B.ssas[last_ssa(B)], "no_value"),
           NEW C, C = branch(B, "eq", NULL, NULL), C.fault = NoFault
    PROVE  Proper(C) /\ Carried(B, C)
<1>1. /\ Follows(B, C) /\ SameSsas(B, C) /\ SameMode(B, C) /\ Moves(B, C)
      /\ B.blocks[B.current_block].br = "UNUSED"
  BY branchPasses
<1>2. Steers(B, C) BY <1>1, Zenon DEF Steers
<1>3. Settled(B, C) BY <1>1 DEF Follows
<1>4. Proper(C) BY <1>1, <1>2, <1>3, BlocksProper
<1>5. Carried(B, C) BY <1>1, MovesCarries DEF SameMode
<1> QED BY <1>4, <1>5

LEMMA end_blockProper ==
    ASSUME NEW B, Code(B), Proper(B), NEW C, C = end_block(B), C.fault = NoFault
    PROVE  /\ Proper(C) /\ Carried(B, C) /\ Kept(B, C) /\ C.current_block = NULL
<1>1. /\ Kept(B, C) /\ SameSsas(B, C) /\ C.current_block = NULL /\ Moves(B, C)
      /\ C.blocks[B.current_block].br = B.blocks[B.current_block].br
      /\ Targets(C.blocks[B.current_block]) = Targets(B.blocks[B.current_block])
  BY end_blockPasses
<1>2. Steers(B, C) BY <1>1, Zenon DEF Steers
<1>3. Settled(B, C) BY <1>1 DEF Kept, Follows
<1>4. Proper(C) BY <1>1, <1>2, <1>3, BlocksProper
<1>5. Carried(B, C) BY <1>1, MovesCarries
<1> QED BY <1>1, <1>4, <1>5

LEMMA start_blockProper ==
    ASSUME NEW B, Code(B), Proper(B), NEW t \in Unstarted(B), NEW scope \in Nat,
           NEW C, C = start_block(B, t, scope), C.fault = NoFault
    PROVE  Proper(C) /\ CarriedTo(B, C, t)
<1>1. /\ Follows(B, C) /\ SameSsas(B, C) /\ Moves(B, C)
      /\ B.current_block = NULL /\ C.current_block = t
  BY start_blockPasses
<1>2. Steers(B, C) BY <1>1 DEF Steers, BlockIds, NULL
<1>3. Settled(B, C) BY <1>1 DEF Follows
<1>4. Proper(C) BY <1>1, <1>2, <1>3, BlocksProper
<1>5. CarriedTo(B, C, t) BY <1>1, OpeningCarries
<1> QED BY <1>4, <1>5

LEMMA nopDecent ==
    ASSUME NEW B, NEW L, NEW T, Steady(B, L, T), NEW r, r = Ir(machine(B, L, T), nop(B))
    PROVE  Decent(r)
<1>1. "nop" \in {"i", "add", "sub", "nop"} /\ {"no_value"} \in SUBSET ssa_prop /\ NULL \in Nat
      /\ "no_value" \in {"no_value"}
  BY DEF ssa_prop, NULL
<1> DEFINE i == instruction(B, "nop", {"no_value"}, NULL, NULL)
<1>2. i.op \notin {"add", "sub", "ret"} BY DEF instruction
<1>3. OperandsExist(B, i) BY <1>2, NoOperands
<1>4. r = Ir(machine(B, L, T), emit(B, "nop", {"no_value"}, NULL, NULL)) BY DEF nop
<1> QED BY <1>1, <1>3, <1>4, emitDecent

\* The calls that made J leave a block that can be ended, or fail.
Closable(J, T) ==
    /\ Allowed(J)
    /\ J.fault = NoFault => /\ Code(J) /\ Proper(J) /\ Sits(J, T) /\ J.current_block # NULL
                            /\ J.blocks[J.current_block].br # "UNUSED"

LEMMA CloseDecent ==
    ASSUME NEW B, NEW L, NEW T, Len(T) <= MaxTasks, NEW J, Closable(J, T), NEW M, Allowed(M),
           NEW r, r = Local(Ir(machine(B, L, T), end_block(J)), M)
    PROVE  /\ Decent(r)
           /\ r.fault = NoFault =>
                \E E : /\ r = machine(E, M, T) /\ Code(E) /\ Proper(E) /\ Sits(E, T)
                       /\ E.current_block = NULL /\ Unstarted(E) = Unstarted(J)
                       /\ J.fault = NoFault /\ M.fault = NoFault
<1> DEFINE E == end_block(J)
           n == Ir(machine(B, L, T), E)
<1>1. n = Ir(machine(B, L, T), E) /\ r = Local(n, M) /\ E = end_block(J) OBVIOUS
<1>2. E.fault = NoFault => J.fault = NoFault BY StillFailed
<1> HIDE DEF E, n
<1>3. Allowed(E) BY <1>1, end_blockAllows DEF Closable
<1>4. ASSUME E.fault = NoFault
      PROVE  /\ Code(E) /\ Proper(E) /\ Sits(E, T) /\ E.current_block = NULL
             /\ Unstarted(E) = Unstarted(J) /\ J.fault = NoFault
  <2>1. Code(J) /\ Proper(J) /\ Sits(J, T) /\ J.fault = NoFault BY <1>2, <1>4 DEF Closable
  <2>2. Proper(E) /\ Carried(J, E) /\ Kept(J, E) /\ E.current_block = NULL
    BY <1>1, <1>4, <2>1, end_blockProper
  <2> QED BY <2>1, <2>2, SitsCarried DEF Kept
<1>5. Decent(n) BY <1>1, <1>3, <1>4, IrDecent
<1>6. CASE n.fault = NoFault
  <2>1. E.fault = NoFault /\ n = machine(E, L, T) BY <1>1, <1>6, IrCall
  <2>2. Code(E) /\ Proper(E) /\ Sits(E, T) BY <1>4, <2>1
  <2>3. r = Local(machine(E, L, T), M) BY <1>1, <2>1
  <2>4. Decent(r) BY <2>2, <2>3, LocalDecent
  <2>5. r.fault = NoFault => M.fault = NoFault /\ r = machine(E, M, T) BY <2>3, LocalCall
  <2> QED BY <1>4, <2>1, <2>4, <2>5
<1>7. CASE n.fault # NoFault
  <2>1. r = n BY <1>1, <1>7, Zenon DEF Local, Then
  <2> QED BY <1>5, <1>7, <2>1
<1> QED BY <1>6, <1>7

LEMMA MoveDecent ==
    ASSUME NEW B, NEW L, NEW T, Len(T) <= MaxTasks, NEW J, Closable(J, T), NEW target,
           J.fault = NoFault => target \in Unstarted(J) /\ JoinsUpTo(T, target),
           NEW M, Allowed(M), MayScope(M),
           NEW m, m = Local(Ir(machine(B, L, T), end_block(J)), M),
           NEW r, r = Then(m, Ir(m, start_block(m.ir, target, M.current_scope)))
    PROVE  Decent(r)
<1> DEFINE next == Ir(m, start_block(m.ir, target, M.current_scope))
<1>1. /\ Decent(m)
      /\ m.fault = NoFault =>
            \E E : /\ m = machine(E, M, T) /\ Code(E) /\ Proper(E) /\ Sits(E, T)
                   /\ E.current_block = NULL /\ Unstarted(E) = Unstarted(J)
                   /\ J.fault = NoFault /\ M.fault = NoFault
  BY CloseDecent
<1>2. ASSUME m.fault = NoFault PROVE Decent(next)
  <2>1. PICK E : /\ m = machine(E, M, T) /\ Code(E) /\ Proper(E) /\ Sits(E, T)
                 /\ E.current_block = NULL /\ Unstarted(E) = Unstarted(J)
                 /\ J.fault = NoFault /\ M.fault = NoFault
    BY <1>1, <1>2
  <2> DEFINE C == start_block(E, target, M.current_scope)
  <2>2. next = Ir(machine(E, M, T), C)
    <3>1. m.ir = E BY <2>1, MachineFields
    <3> QED BY <2>1, <3>1
  <2>3. target \in Unstarted(E) /\ target # NULL /\ M.current_scope \in Nat /\ JoinsUpTo(T, target)
    <3>1. target \in Unstarted(E) /\ M.current_scope \in Nat /\ JoinsUpTo(T, target)
      BY <2>1 DEF MayScope
    <3>2. target # NULL BY <3>1 DEF Unstarted, BlockIds, NULL
    <3> QED BY <3>1, <3>2
  <2>4. C = start_block(E, target, M.current_scope) OBVIOUS
  <2> HIDE DEF next, C
  <2>5. Allowed(C)
    <3>1. Allowed(E) BY <2>1, CodeAllows
    <3> QED BY <2>1, <2>3, <2>4, <3>1, start_blockAllows
  <2>6. ASSUME C.fault = NoFault PROVE Proper(C) /\ Sits(C, T)
    <3>1. Proper(C) /\ CarriedTo(E, C, target) BY <2>1, <2>3, <2>4, <2>6, start_blockProper
    <3> QED BY <2>1, <2>3, <3>1, SitsOpened
  <2> QED BY <2>2, <2>5, <2>6, IrDecent
<1>3. Allowed(m) BY <1>1 DEF Decent
<1>4. r = Then(m, next) OBVIOUS
<1> HIDE DEF next
<1> QED BY <1>2, <1>3, <1>4, ThenDecent

-----------------------------------------------------------------------------
(***************************************************************************)
(* Nested blocks.                                                          *)
(***************************************************************************)
LEMMA JumpIntoDecent ==
    ASSUME NEW B, Code(B), Proper(B), B.current_block # NULL, NEW L, NEW T, Sits(B, T),
           Len(T) <= MaxTasks, NEW target \in Unstarted(B), JoinsUpTo(T, target),
           NEW M, Allowed(M), MayScope(M), NEW r, r = JumpInto(machine(B, L, T), target, M)
    PROVE  Decent(r)
<1> DEFINE J == unconditional_branch(B, target)
           m == Local(Ir(machine(B, L, T), end_block(J)), M)
<1>1. r = Then(m, Ir(m, start_block(m.ir, target, M.current_scope)))
  <2> DEFINE n == machine(B, L, T)
  <2>1. n.ir = B BY MachineFields
  <2> HIDE DEF n
  <2> QED BY <2>1, Zenon DEF JumpInto, n
<1>2. J = unconditional_branch(B, target) OBVIOUS
<1> HIDE DEF J
<1>3. Allowed(J)
  <2>1. Allowed(B) BY CodeAllows
  <2> QED BY <1>2, <2>1, unconditional_branchAllows
<1>4. ASSUME J.fault = NoFault
      PROVE  /\ Code(J) /\ Proper(J) /\ Sits(J, T) /\ J.current_block # NULL
             /\ J.blocks[J.current_block].br # "UNUSED" /\ target \in Unstarted(J)
  <2>1. /\ Kept(B, J) /\ SameMode(B, J) /\ J.blocks[B.current_block].br = "unconditional"
    BY <1>2, <1>4, unconditional_branchPasses
  <2>2. Proper(J) /\ Carried(B, J) BY <1>2, <1>4, unconditional_branchProper
  <2> QED BY <2>1, <2>2, SitsCarried DEF Kept, SameMode
<1>5. Closable(J, T) BY <1>3, <1>4 DEF Closable
<1>6. m = Local(Ir(machine(B, L, T), end_block(J)), M) OBVIOUS
<1> HIDE DEF m
<1> QED BY <1>1, <1>4, <1>5, <1>6, MoveDecent

\* A machine that runs
Machinery(m) == \E C, N, U : m = machine(C, N, U) /\ U \in Seq(Task)

LEMMA PushSimply ==
    ASSUME NEW m, Decent(m),
           m.fault = NoFault => Machinery(m),
           NEW ts \in Seq(Task),
           \A k \in 1..Len(ts) : ts[k].func # "emit_stmt_ifs" /\ ts[k].merge_block = NULL,
           NEW r, r = push_tasks(m, ts)
    PROVE  /\ Decent(r)
           /\ r.fault = NoFault => Machinery(r)
<1>1. Allowed(r) BY PushAllows DEF Decent
<1>2. SUFFICES ASSUME r.fault = NoFault
               PROVE  Decent(r) /\ Machinery(r)
  BY <1>1 DEF Decent
<1>3. m.fault = NoFault BY <1>2, StillFailed, Zenon
<1>4. PICK C, N, U : m = machine(C, N, U) /\ U \in Seq(Task) BY <1>3 DEF Machinery
<1>5. Proper(C) /\ Sits(C, U)
  <2>1. Proper(m.ir) /\ Sits(m.ir, m.tasks) BY <1>3, Zenon DEF Decent
  <2>2. m.ir = C /\ m.tasks = U BY <1>4, MachineFields
  <2> QED BY <2>1, <2>2
<1>6. r = push_tasks(machine(C, N, U), ts) BY <1>4
<1>7. r = machine(C, N, U \o ts) BY <1>2, <1>6, PushCall
<1>8. Len(U \o ts) <= MaxTasks BY <1>2, <1>4, <1>6, PushBound
<1>9. U \o ts \in Seq(Task) /\ Sits(C, U \o ts) BY <1>4, <1>5, SitsSimply
<1>10. Decent(r) BY <1>5, <1>7, <1>8, <1>9, MachineDecent
<1> QED BY <1>7, <1>9, <1>10 DEF Machinery

LEMMA StatementTasksSimple ==
    ASSUME NEW statements \in Seq(Stmts), NEW ts, ts = StatementTasks(statements)
    PROVE  /\ ts \in Seq(Task)
           /\ \A k \in 1..Len(ts) : ts[k].func # "emit_stmt_ifs" /\ ts[k].merge_block = NULL
<1> DEFINE n == Len(statements)
<1>1. n \in Nat OBVIOUS
<1>2. ASSUME NEW k \in 1..n
      PROVE  /\ Reverse(statements)[k] \in Stmts
             /\ StatementTask(Reverse(statements)[k]) \in Task
             /\ StatementTask(Reverse(statements)[k]).func # "emit_stmt_ifs"
             /\ StatementTask(Reverse(statements)[k]).merge_block = NULL
  <2>1. n - k + 1 \in 1..n BY <1>1
  <2>2. Reverse(statements)[k] = statements[n - k + 1] BY <1>1, <2>1 DEF Reverse
  <2> DEFINE s == Reverse(statements)[k]
  <2>3. s \in Stmts BY <2>1, <2>2
  <2> HIDE DEF s
  <2>4. NULL \in Nat /\ 0 \in Nat /\ "emit_stmt" \in Handlers BY DEF NULL, Handlers
  <2>5. StatementTask(s) \in Task BY <2>3, <2>4 DEF Task, task, StatementTask
  <2>6. StatementTask(s).func # "emit_stmt_ifs" /\ StatementTask(s).merge_block = NULL
    BY DEF task, StatementTask
  <2> QED BY <2>3, <2>5, <2>6 DEF s
<1>3. ts = [k \in 1..n |-> StatementTask(Reverse(statements)[k])] BY Zenon DEF StatementTasks
<1>4. Len(ts) = n /\ ts \in Seq(Task) BY <1>1, <1>2, <1>3
<1> QED BY <1>2, <1>3, <1>4

\* The block that a nested one gets, and the task that will close its scope
LEMMA NestedDecent ==
    ASSUME NEW B, NEW L, NEW T, Steady(B, L, T), NEW s \in Stmts,
           NEW A, A = Ir(machine(B, L, T), alloc_block(B)),
           NEW entered, entered = Then(A, JumpInto(A, last_block(A.ir), new_scope(L))),
           NEW r, r = push_task(entered, task("emit_stmt_block", 1, s, NULL, NULL))
    PROVE  /\ Decent(r)
           /\ r.fault = NoFault => Machinery(r)
<1> DEFINE D == alloc_block(B)
           M == new_scope(L)
           jump == JumpInto(A, last_block(A.ir), M)
<1>1. /\ Running(B, L, T) /\ Proper(B) /\ Sits(B, T) /\ Len(T) <= MaxTasks /\ Code(B)
      /\ Allowed(B) /\ B.current_block # NULL /\ T \in Seq(Task) /\ Scoped(L)
  BY SteadyTyped, RunningTyped
<1>2. A = Ir(machine(B, L, T), D) /\ D = alloc_block(B) /\ M = new_scope(L) OBVIOUS
<1>3. entered = Then(A, jump) OBVIOUS
<1> HIDE DEF D, M, jump
<1>4. Allowed(D) /\ Allowed(M) BY <1>1, <1>2, alloc_blockAllows, TableAllows
<1>5. Allowed(A) BY <1>2, <1>4, MachineAllowed, CallsAllow
<1>6. ASSUME A.fault = NoFault
      PROVE  Decent(jump) /\ (jump.fault = NoFault => \E C : jump = machine(C, M, T))
  <2>1. D.fault = NoFault /\ A = machine(D, L, T) BY <1>2, <1>6, IrCall
  <2>2. A.ir = D BY <2>1, MachineFields
  <2> DEFINE b == last_block(D)
  <2>3. /\ Code(D) /\ SameMode(B, D) /\ b \notin BlockIds(B) /\ b \in Unstarted(D)
        /\ b = last_block(B) + 1
    BY <1>1, <1>2, <2>1, alloc_blockPasses
  <2>4. Proper(D) /\ Sits(D, T)
    <3>1. Proper(D) /\ Carried(B, D) BY <1>1, <1>2, <2>1, alloc_blockProper
    <3> QED BY <1>1, <3>1, SitsCarried
  <2>5. b \in Nat /\ b # NULL BY <2>3 DEF Unstarted, BlockIds, NULL
  <2>6. jump = JumpInto(machine(D, L, T), b, M) BY <2>1, <2>2 DEF jump
  <2> HIDE DEF b
  <2>7. JoinsUpTo(T, b) BY <1>1, <2>3, <2>5, JoinsBefore
  <2>8. MayScope(M) BY <1>1, <1>2, new_scopePasses DEF MayScope
  <2>9. D.current_block # NULL BY <1>1, <2>3 DEF SameMode
  <2>10. Decent(jump)
    BY <1>1, <1>4, <2>3, <2>4, <2>6, <2>7, <2>8, <2>9, JumpIntoDecent
  <2>11. jump.fault = NoFault => \E C : jump = machine(C, M, T)
    BY <2>3, <2>6, <2>8, JumpPasses
  <2> QED BY <2>10, <2>11
<1>7. Decent(entered) BY <1>3, <1>5, <1>6, ThenDecent
<1>8. ASSUME entered.fault = NoFault
      PROVE  Machinery(entered)
  <2>1. A.fault = NoFault /\ entered = jump BY <1>3, <1>8, ThenPasses, Zenon
  <2>2. \E C : jump = machine(C, M, T) BY <1>6, <1>8, <2>1
  <2> QED BY <1>1, <2>1, <2>2 DEF Machinery
<1> DEFINE t == task("emit_stmt_block", 1, s, NULL, NULL)
<1>9. t \in Task /\ t.func # "emit_stmt_ifs" /\ t.merge_block = NULL
  <2>1. s \in Stmts \cup AnyExp OBVIOUS
  <2>2. NULL \in Nat /\ "emit_stmt_block" \in Handlers BY DEF NULL, Handlers
  <2> QED BY <2>1, <2>2 DEF Task, task
<1>10. r = push_tasks(entered, <<t>>) BY Zenon DEF push_task
<1> HIDE DEF t
<1>11. /\ <<t>> \in Seq(Task)
       /\ \A k \in 1..Len(<<t>>) : <<t>>[k].func # "emit_stmt_ifs" /\ <<t>>[k].merge_block = NULL
  BY <1>9
<1> DEFINE ts == <<t>>
<1>12. entered.fault = NoFault => Machinery(entered)
  BY <1>8
<1>13. /\ ts \in Seq(Task) /\ r = push_tasks(entered, ts)
       /\ \A k \in 1..Len(ts) : ts[k].func # "emit_stmt_ifs" /\ ts[k].merge_block = NULL
  BY <1>10, <1>11
<1> HIDE DEF ts
<1> QED BY <1>7, <1>12, <1>13, PushSimply, Zenon

LEMMA emit_stmt_block_0Decent ==
    ASSUME NEW B, NEW L, NEW T, Steady(B, L, T), NEW s \in Stmts,
           s.kind = "stmt_block", NEW r, r = emit_stmt_block_0(machine(B, L, T), s)
    PROVE  Decent(r)
<1> DEFINE m == machine(B, L, T)
           A == Ir(m, alloc_block(m.ir))
           entered == Then(A, JumpInto(A, last_block(A.ir), new_scope(m.locals)))
           nested == push_task(entered, task("emit_stmt_block", 1, s, NULL, NULL))
           m1 == IF is_not_empty(m.ir) THEN nested ELSE m
           ts == StatementTasks(s.statements)
<1>1. m.ir = B /\ m.locals = L /\ T \in Seq(Task) BY MachineFields, SteadyTyped
<1>2. r = IF s.statements = <<>> THEN Ir(m, nop(m.ir)) ELSE push_tasks(m1, ts)
  BY Zenon DEF emit_stmt_block_0
<1>3. s.statements \in Seq(Stmts) BY Statements DEF WellFormed
<1>4. CASE s.statements = <<>>
  <2>1. r = Ir(machine(B, L, T), nop(B)) BY <1>1, <1>2, <1>4
  <2> QED BY <2>1, nopDecent
<1>5. CASE s.statements # <<>>
  <2>1. r = push_tasks(m1, ts) BY <1>2, <1>5
  <2>2. /\ Decent(m1)
        /\ m1.fault = NoFault => Machinery(m1)
    <3>1. CASE ~ is_not_empty(m.ir)
      <4>1. m1 = machine(B, L, T) BY <3>1
      <4> HIDE DEF m1
      <4> QED BY <1>1, <4>1, SteadyDecent, Zenon DEF Machinery
    <3>2. CASE is_not_empty(m.ir)
      <4>1. m1 = nested BY <3>2
      <4>2. /\ A = Ir(machine(B, L, T), alloc_block(B))
            /\ entered = Then(A, JumpInto(A, last_block(A.ir), new_scope(L)))
        BY <1>1
      <4>3. nested = push_task(entered, task("emit_stmt_block", 1, s, NULL, NULL)) OBVIOUS
      <4> HIDE DEF m1, nested, entered, A
      <4> QED BY <4>1, <4>2, <4>3, NestedDecent
    <3> QED BY <3>1, <3>2
  <2>3. /\ ts \in Seq(Task)
        /\ \A k \in 1..Len(ts) : ts[k].func # "emit_stmt_ifs" /\ ts[k].merge_block = NULL
    BY <1>3, StatementTasksSimple
  <2> HIDE DEF m1, ts
  <2> QED BY <2>1, <2>2, <2>3, PushSimply
<1> QED BY <1>4, <1>5

\* The end of a nested block: the scope it closes is not the root.
LEMMA emit_stmt_block_1Decent ==
    ASSUME NEW B, NEW L, NEW T \in Seq(Task), NEW t \in Task, Is(t, "emit_stmt_block", 1),
           Good(B, L, Append(T, t)), Proper(B), Sits(B, T), Len(T) <= MaxTasks,
           NEW r, r = emit_stmt_block_1(machine(B, L, T))
    PROVE  Decent(r)
<1> DEFINE M == end_scope(L)
<1>1. ClosesScope(t) BY DEF ClosesScope
<1>2. r = Local(machine(B, L, T), M) BY MachineFields DEF emit_stmt_block_1
<1>3. /\ Scoped(L) /\ Cardinality(Closers(T)) \in Nat /\ Depth(L) = Cardinality(Closers(T)) + 2
  BY <1>1, TaskPopped, Zenon
<1>4. Allowed(M)
  <2>1. Depth(L) # 1 BY <1>3
  <2> QED BY <1>3, <2>1, TableAllows
<1> HIDE DEF M
<1> QED BY <1>2, <1>4, LocalDecent

-----------------------------------------------------------------------------
(***************************************************************************)
(* The tasks of an ifs, each within its region.                            *)
(***************************************************************************)

\* A task that may lie above the merge at J, and is no merge
Within(t, J) == /\ t \in Task /\ ~ Merging(t) /\ Opens(t) = NULL /\ t.merge_block \in {NULL, J}
                /\ t.func # "emit_stmt_ifs" => t.merge_block = NULL

\* Tasks that sit, and of which no merge is after the block J
SitsUpTo(B, U, J) == U \in Seq(Task) /\ Sits(B, U) /\ JoinsUpTo(U, J)

LEMMA WithinPushed ==
    ASSUME NEW B, NEW U, NEW J \in Nat, J # NULL, SitsUpTo(B, U, J), NEW t, Within(t, J)
    PROVE  SitsUpTo(B, Append(U, t), J)
<1>1. U \in Seq(Task) /\ Sits(B, U) /\ JoinsUpTo(U, J) /\ t \in Task
  BY DEF SitsUpTo, Within
<1>2. Fits(B, U, t)
  <2>1. \A k \in 1..Len(U) : Merging(U[k]) => J >= U[k].merge_block
    <3>1. ASSUME NEW k \in 1..Len(U), Merging(U[k]) PROVE J >= U[k].merge_block
      <4>1. U[k] \in Task BY <1>1
      <4>2. U[k].merge_block \in Nat BY <4>1 DEF Task
      <4> QED BY <1>1, <3>1, <4>2 DEF JoinsUpTo
    <3> QED BY <3>1
  <2> QED BY <2>1, Zenon DEF Within, Fits
<1> DEFINE V == Append(U, t)
<1>3. V \in Seq(Task) /\ Sits(B, V) BY <1>1, <1>2, SitsPushed
<1>4. \A k \in 1..Len(V) : V[k] = t \/ (k \in 1..Len(U) /\ V[k] = U[k]) BY <1>1, Appended
<1> HIDE DEF V
<1>5. JoinsUpTo(V, J) BY <1>1, <1>4, Zenon DEF JoinsUpTo, Within
<1> QED BY <1>3, <1>5 DEF SitsUpTo, V

LEMMA PairTasksSit ==
    ASSUME NEW B, NEW U, NEW J \in Nat, J # NULL, SitsUpTo(B, U, J), NEW s \in Stmts,
           s.kind = "stmt_ifs", NEW i \in 1..Len(s.pairs)
    PROVE  SitsUpTo(B, U \o PairTasks(s, i, J), J)
<1> DEFINE t == PairTask(s, i, J)
           c == s.pairs[i].maybe_condition
           u == ExpressionTask(c)
<1>1. U \in Seq(Task) BY DEF SitsUpTo
<1>2. Within(t, J)
  <2>1. /\ t \in Task /\ ~ Merging(t) /\ Opens(t) = NULL /\ t.merge_block = J BY PairTaskFields
  <2>2. t.func = "emit_stmt_ifs" BY DEF PairTask, task
  <2> HIDE DEF t
  <2> QED BY <2>1, <2>2 DEF Within
<1>3. PairTasks(s, i, J) = IF c = NoExp THEN <<t>> ELSE <<t, u>>
  BY DEF PairTasks, PairTask
<1>4. c # NoExp => Within(u, J)
  <2> SUFFICES ASSUME c # NoExp PROVE Within(u, J) OBVIOUS
  <2>1. c \in AnyExp BY Pairs
  <2> HIDE DEF c
  <2>2. 0 \in Nat /\ NULL \in Nat /\ "emit_exp" \in Handlers /\ c \in Stmts \cup AnyExp
    BY <2>1 DEF NULL, Handlers
  <2>3. u \in Task /\ u.func = "emit_exp" /\ u.merge_block = NULL
    BY <2>2 DEF Task, task, ExpressionTask
  <2> HIDE DEF u
  <2>4. ~ Merging(u) /\ Opens(u) = NULL BY <2>3 DEF Merging, ClosesArm, Is, Opens
  <2> QED BY <2>3, <2>4 DEF Within
<1> HIDE DEF t, u, c
<1>5. SitsUpTo(B, Append(U, t), J) BY <1>2, WithinPushed
<1>6. t \in Task BY <1>2 DEF Within
<1>7. CASE c = NoExp
  <2>1. U \o <<t>> = Append(U, t) BY <1>1, <1>6
  <2> QED BY <1>3, <1>5, <1>7, <2>1
<1>8. CASE c # NoExp
  <2>1. u \in Task BY <1>4, <1>8 DEF Within
  <2>2. U \o <<t, u>> = Append(Append(U, t), u) BY <1>1, <1>6, <2>1
  <2>3. SitsUpTo(B, Append(Append(U, t), u), J) BY <1>4, <1>5, <1>8, WithinPushed
  <2> QED BY <1>3, <1>8, <2>2, <2>3
<1> QED BY <1>7, <1>8

LEMMA IfsTasksSit ==
    ASSUME NEW B, NEW T \in Seq(Task), Sits(B, T), NEW D \in Nat, NEW J \in Nat, J # NULL,
           JoinsUpTo(T, J), Region(B, D, J), NEW s \in Stmts, s.kind = "stmt_ifs"
    PROVE  IfsTasks(s, D, J) \in Seq(Task) /\ Sits(B, T \o IfsTasks(s, D, J))
<1> DEFINE n == Len(s.pairs)
           t == MergeTask(s, D, J)
<1>1. n \in Nat \ {0} BY Pairs
<1>2. PICK pushed :
         /\ pushed[0] = <<MergeTask(s, D, J)>>
         /\ \A k \in 1..n : pushed[k] = pushed[k - 1] \o PairTasks(s, n - k + 1, J)
         /\ IfsTasks(s, D, J) = pushed[n]
  BY IfsTasksUnfold, Zenon
<1> DEFINE S == {k \in 0..n : SitsUpTo(B, T \o pushed[k], J) /\ pushed[k] \in Seq(Task)}
<1>3. 0 \in S
  <2>1. /\ t \in Task /\ Merging(t) /\ Opens(t) = J /\ t.arg1 = D /\ t.merge_block = J
        /\ t.func = "emit_stmt_ifs"
    <3>1. t.func = "emit_stmt_ifs" BY DEF MergeTask, task
    <3>2. t = MergeTask(s, D, J) OBVIOUS
    <3> HIDE DEF t
    <3> QED BY <3>1, <3>2, MergeTaskFields
  <2>2. pushed[0] = <<t>> BY <1>2
  <2> HIDE DEF t
  <2> DEFINE V == Append(T, t)
  <2>3. T \o pushed[0] = V /\ pushed[0] \in Seq(Task) BY <2>1, <2>2
  <2>4. \A k \in 1..Len(T) : Merging(T[k]) => J >= T[k].merge_block
    <3>1. ASSUME NEW k \in 1..Len(T), Merging(T[k]) PROVE J >= T[k].merge_block
      <4>1. T[k] \in Task OBVIOUS
      <4>2. T[k].merge_block \in Nat BY <4>1 DEF Task
      <4> QED BY <3>1, <4>2 DEF JoinsUpTo
    <3> QED BY <3>1
  <2>5. Fits(B, T, t) BY <2>1, <2>4, Zenon DEF Fits
  <2>6. V \in Seq(Task) /\ Sits(B, V) BY <2>1, <2>5, SitsPushed
  <2>7. \A k \in 1..Len(V) : V[k] = t \/ (k \in 1..Len(T) /\ V[k] = T[k]) BY <2>1, Appended
  <2> HIDE DEF V
  <2>8. J <= J OBVIOUS
  <2>9. JoinsUpTo(V, J)
    <3>1. ASSUME NEW k \in 1..Len(V), Merging(V[k]) PROVE V[k].merge_block <= J
      <4>1. CASE V[k] = t BY <2>1, <2>8, <4>1
      <4>2. CASE k \in 1..Len(T) /\ V[k] = T[k] BY <3>1, <4>2 DEF JoinsUpTo
      <4> QED BY <2>7, <4>1, <4>2
    <3> QED BY <3>1 DEF JoinsUpTo
  <2>10. 0 \in 0..n BY <1>1
  <2> QED BY <2>3, <2>6, <2>9, <2>10, Zenon DEF SitsUpTo
<1>4. ASSUME NEW k \in 1..n, k - 1 \in S PROVE k \in S
  <2> DEFINE ts == PairTasks(s, n - k + 1, J)
             p == pushed[k - 1]
  <2>1. SitsUpTo(B, T \o p, J) /\ p \in Seq(Task) BY <1>4
  <2>2. n - k + 1 \in 1..n /\ k \in 0..n BY <1>1
  <2>3. pushed[k] = p \o ts BY <1>2
  <2>4. SitsUpTo(B, (T \o p) \o ts, J) /\ ts \in Seq(Task)
    <3> HIDE DEF p, n
    <3> QED BY <2>1, <2>2, PairTasksSit, PairTasksTyped DEF n
  <2> HIDE DEF p, ts
  <2>5. (T \o p) \o ts = T \o (p \o ts) /\ p \o ts \in Seq(Task) BY <2>1, <2>4
  <2>6. SitsUpTo(B, T \o pushed[k], J) /\ pushed[k] \in Seq(Task) BY <2>3, <2>4, <2>5
  <2> QED BY <2>2, <2>6
<1>5. n \in S
  <2> HIDE DEF S, n
  <2>1. \A k \in 1..n : k - 1 \in S => k \in S BY <1>4
  <2>2. \A k \in 0..n : k \in S BY <1>1, <1>3, <2>1, UpTo
  <2> QED BY <1>1, <2>2
<1> QED BY <1>2, <1>5 DEF SitsUpTo

LEMMA emit_stmt_ifs_0Decent ==
    ASSUME NEW B, NEW L, NEW T, Steady(B, L, T), NEW s \in Stmts,
           s.kind = "stmt_ifs", NEW r, r = emit_stmt_ifs_0(machine(B, L, T), s)
    PROVE  Decent(r)
<1> DEFINE m == machine(B, L, T)
           A == alloc_block(m.ir)
           m1 == Ir(m, A)
           ts == IfsTasks(s, m.ir.current_block, last_block(m1.ir))
           next == push_tasks(m1, ts)
           ok1 == m.ir.current_block # NULL
           ok2 == s.pairs # <<>>
           filled == Checked(m, ok2, "s->count > 0", next)
<1>1. /\ m.ir = B /\ m.fault = NoFault /\ Allowed(m) BY MachineFields, MachineAllowed
<1>2. r = Checked(m, ok1, "current_block != NULL", filled) BY Zenon DEF emit_stmt_ifs_0
<1>3. /\ Code(B) /\ T \in Seq(Task) /\ B.current_block \in BlockIds(B) /\ B.current_block # NULL
      /\ Proper(B) /\ Sits(B, T) /\ Len(T) <= MaxTasks /\ Allowed(B) /\ Len(B.blocks) \in Nat
  BY SteadyTyped, CodeTyped
<1>4. ok1 /\ ok2 BY <1>1, <1>3, Pairs
<1>5. A = alloc_block(B) /\ m1 = Ir(machine(B, L, T), A) BY <1>1
<1>6. next = push_tasks(m1, ts) /\ ts = IfsTasks(s, B.current_block, last_block(m1.ir)) BY <1>1
<1> HIDE DEF m, A, m1, ts, next, ok1, ok2
<1>7. Allowed(m1)
  <2>1. Allowed(A) BY <1>3, <1>5, alloc_blockAllows
  <2> QED BY <1>5, <2>1, MachineAllowed, CallsAllow
<1>8. Allowed(next) BY <1>6, <1>7, PushAllows
<1>9. ASSUME next.fault = NoFault PROVE Decent(next)
  <2>1. m1.fault = NoFault BY <1>6, <1>9, StillFailed, Zenon
  <2>2. A.fault = NoFault /\ m1 = machine(A, L, T) BY <1>5, <2>1, IrCall
  <2> DEFINE b == last_block(A)
             D == B.current_block
  <2>3. /\ Code(A) /\ b \notin BlockIds(B) /\ SameMode(B, A) /\ b \in BlockIds(A)
        /\ BlockIds(A) = BlockIds(B) \cup {b} /\ A.blocks[b] = FreshBlock
        /\ b = last_block(B) + 1
    BY <1>3, <1>5, <2>2, alloc_blockPasses
  <2>4. Proper(A) /\ Sits(A, T)
    <3>1. Proper(A) /\ Carried(B, A) BY <1>3, <1>5, <2>2, alloc_blockProper
    <3> QED BY <1>3, <3>1, SitsCarried
  <2>5. b \in Nat /\ b # NULL /\ \A c \in BlockIds(B) : c < b
    BY <1>3, <2>3 DEF last_block, BlockIds, NULL
  <2>6. JoinsUpTo(T, b) BY <1>3, <2>3, <2>5, JoinsBefore
  <2>7. Region(A, D, b)
    <3>1. ASSUME NEW c \in BlockIds(A), c >= b PROVE Preds(A, c) = {}
      <4>1. c = b
        <5>1. c \notin BlockIds(B) BY <2>5, <3>1 DEF BlockIds
        <5> QED BY <2>3, <3>1, <5>1
      <4>2. A.blocks[c].predecessors = <<>> BY <2>3, <4>1 DEF FreshBlock
      <4> QED BY <4>2 DEF Preds
    <3> QED BY <1>3, <2>3, <3>1 DEF Region, SameMode
  <2>8. D \in Nat BY <1>3 DEF BlockIds
  <2>9. ts = IfsTasks(s, D, b) BY <1>6, <2>2, MachineFields
  <2> HIDE DEF b, D
  <2>10. ts \in Seq(Task) /\ Sits(A, T \o ts)
    BY <1>3, <2>4, <2>5, <2>6, <2>7, <2>8, <2>9, IfsTasksSit
  <2>11. next = push_tasks(machine(A, L, T), ts) BY <1>6, <2>2
  <2>12. next = machine(A, L, T \o ts) BY <1>9, <2>11, PushCall
  <2>13. Len(T \o ts) <= MaxTasks BY <1>3, <1>9, <2>10, <2>11, PushBound
  <2> QED BY <2>4, <2>10, <2>12, <2>13, MachineDecent
<1>10. Decent(next) BY <1>8, <1>9, Zenon DEF Decent
<1>11. Decent(filled) BY <1>1, <1>4, <1>10, CheckedDecent, Zenon
<1> HIDE DEF filled
<1> QED BY <1>1, <1>2, <1>4, <1>11, CheckedDecent, Zenon

\* The statement of a task, or of an arm
LEMMA emit_stmtDecent ==
    ASSUME NEW B, NEW L, NEW T, Steady(B, L, T), NoneEvaluating(T), NEW s \in Stmts,
           NEW r, r = emit_stmt(machine(B, L, T), s)
    PROVE  Decent(r)
<1> DEFINE m == machine(B, L, T)
<1>1. r = CASE s.kind = "stmt_assign"     -> emit_stmt_assign_0(m, s)
            [] s.kind = "stmt_block"      -> emit_stmt_block_0(m, s)
            [] s.kind = "stmt_ifs"        -> emit_stmt_ifs_0(m, s)
            [] s.kind = "stmt_local_decl" -> emit_stmt_local_decl_0(m, s)
            [] s.kind = "stmt_nop"        -> Ir(m, nop(m.ir))
            [] s.kind = "stmt_return"     -> emit_stmt_return_0(m, s)
            [] OTHER                      -> m
  BY Zenon DEF emit_stmt
<1>2. m.ir = B BY MachineFields
<1> HIDE DEF m
<1>3. CASE s.kind = "stmt_assign"
  <2>1. r = emit_stmt_assign_0(m, s) BY <1>1, <1>3
  <2>2. r = EvaluateThen(machine(B, L, T), "emit_stmt_assign", s, s.right)
    BY <2>1, Zenon DEF emit_stmt_assign_0, m
  <2>3. s.right \in AnyExp BY <1>3, Statements DEF WellFormed
  <2> QED BY <1>3, <2>2, <2>3, EvaluateThenDecent
<1>4. CASE s.kind = "stmt_block"
  <2>1. r = emit_stmt_block_0(machine(B, L, T), s) BY <1>1, <1>4 DEF m
  <2> QED BY <1>4, <2>1, emit_stmt_block_0Decent
<1>5. CASE s.kind = "stmt_ifs"
  <2>1. r = emit_stmt_ifs_0(machine(B, L, T), s) BY <1>1, <1>5 DEF m
  <2> QED BY <1>5, <2>1, emit_stmt_ifs_0Decent
<1>6. CASE s.kind = "stmt_local_decl"
  <2>1. r = emit_stmt_local_decl_0(machine(B, L, T), s) BY <1>1, <1>6 DEF m
  <2> QED BY <1>6, <2>1, emit_stmt_local_decl_0Decent
<1>7. CASE s.kind = "stmt_nop"
  <2>1. r = Ir(machine(B, L, T), nop(B)) BY <1>1, <1>2, <1>7 DEF m
  <2> QED BY <2>1, nopDecent
<1>8. CASE s.kind = "stmt_return"
  <2>1. r = emit_stmt_return_0(machine(B, L, T), s) BY <1>1, <1>8 DEF m
  <2> QED BY <1>8, <2>1, emit_stmt_return_0Decent
<1>9. CASE s.kind \notin {"stmt_assign", "stmt_block", "stmt_ifs", "stmt_local_decl", "stmt_nop",
                          "stmt_return"}
  <2>1. r = machine(B, L, T) BY <1>1, <1>9 DEF m
  <2> QED BY <2>1, SteadyDecent
<1> QED BY <1>3, <1>4, <1>5, <1>6, <1>7, <1>8, <1>9

-----------------------------------------------------------------------------
(***************************************************************************)
(* The arms of an ifs.                                                     *)
(***************************************************************************)
LEMMA FailedStays ==
    ASSUME NEW m, Allowed(m), m.fault # NoFault
    PROVE  /\ Decent(m) /\ \A x : Then(m, x) = m
           /\ \A t : push_task(m, t) = m
<1>1. \A x : Then(m, x) = m BY DEF Then
<1>2. \A ok, why, x : Checked(m, ok, why, x) = m
  <2> SUFFICES ASSUME NEW ok, NEW why, NEW x PROVE Checked(m, ok, why, x) = m OBVIOUS
  <2> DEFINE y == IF ok THEN x ELSE [m EXCEPT !.fault = why]
  <2>1. Then(m, y) = m BY <1>1
  <2> QED BY <2>1, Zenon DEF Checked
<1>3. \A t : push_task(m, t) = m BY <1>2, Zenon DEF push_task, push_tasks
<1> QED BY <1>1, <1>3, Zenon DEF Decent

LEMMA ArmDecent ==
    ASSUME NEW C, Code(C), C.current_block # NULL, NEW M, Scoped(M),
           NEW T, NEW X, Stacked(C, T, X), Depth(M) = Cardinality(Closers(T)) + 2,
           NoneEvaluating(T), NEW t \in Task, NEW f \in Nat, X = {f} \ {NULL},
           X \subseteq Unstarted(C), Joining(T, t, f = NULL), NEW s \in Stmts,
           Proper(C), Sits(C, T), Len(T) <= MaxTasks,
           f # NULL => JoinsUpTo(T, f), t.merge_block # NULL => JoinsUpTo(T, t.merge_block),
           NEW m, m = push_task(machine(C, M, T), ArmTask(t, f)),
           NEW r, r = Then(m, emit_stmt(m, s))
    PROVE  Decent(r)
<1> DEFINE u == ArmTask(t, f)
           U == Append(T, u)
           next == emit_stmt(m, s)
<1>1. u = ArmTask(t, f) /\ m = push_task(machine(C, M, T), u) OBVIOUS
<1>2. u.func = "emit_stmt_ifs" BY DEF ArmTask, task
<1>3. t.merge_block \in Nat BY DEF Task
<1> HIDE DEF u
<1>4. Running(C, M, U) /\ NoneEvaluating(U) /\ u \in Task /\ T \in Seq(Task)
  BY <1>1, ArmPushed
<1>5. ~ Merging(u) /\ Opens(u) = f /\ u.merge_block = t.merge_block BY <1>1, ArmTaskFields
<1>6. Fits(C, T, u)
  <2>1. ASSUME NEW k \in 1..Len(T), Merging(T[k])
        PROVE  /\ f # NULL => f >= T[k].merge_block
               /\ t.merge_block # NULL => t.merge_block >= T[k].merge_block
    <3>1. T[k] \in Task BY <1>4
    <3>2. T[k].merge_block \in Nat BY <3>1 DEF Task
    <3> QED BY <1>3, <2>1, <3>2 DEF JoinsUpTo
  <2> QED BY <1>2, <1>5, <2>1, Zenon DEF Fits
<1>7. ASSUME m = machine(C, M, Append(T, u)) /\ Len(Append(T, u)) <= MaxTasks
      PROVE  Decent(next)
  <2>1. Sits(C, U) BY <1>4, <1>6, SitsPushed
  <2>2. Steady(C, M, U) BY <1>4, <1>7, <2>1 DEF Steady
  <2> QED BY <1>4, <1>7, <2>2, emit_stmtDecent
<1>8. r = Then(m, next) OBVIOUS
<1> HIDE DEF next
<1> QED BY <1>1, <1>4, <1>7, <1>8, PushDecent

\* What the stack says of the arm t that was on top of it
LEMMA ArmFits ==
    ASSUME NEW B, NEW T \in Seq(Task), NEW t \in Task, Sits(B, Append(T, t))
    PROVE  /\ Sits(B, T)
           /\ t.merge_block # NULL => JoinsUpTo(T, t.merge_block)
           /\ Opens(t) # NULL => JoinsUpTo(T, Opens(t))
<1>1. Sits(B, T) /\ Fits(B, T, t) BY SitsPopped
<1>2. t.merge_block \in Nat /\ t.arg1 \in Nat BY DEF Task
<1>3. Opens(t) \in Nat BY <1>2 DEF Opens, NULL
<1>4. ASSUME NEW k \in 1..Len(T), Merging(T[k])
      PROVE  /\ t.merge_block # NULL => T[k].merge_block <= t.merge_block
             /\ Opens(t) # NULL => T[k].merge_block <= Opens(t)
  <2>1. T[k] \in Task OBVIOUS
  <2>2. T[k].merge_block \in Nat BY <2>1 DEF Task
  <2>3. /\ Opens(t) # NULL => Opens(t) >= T[k].merge_block
        /\ t.merge_block # NULL => t.merge_block >= T[k].merge_block
    BY <1>1, <1>4, Zenon DEF Fits
  <2> QED BY <1>2, <1>3, <2>2, <2>3
<1> QED BY <1>1, <1>4 DEF JoinsUpTo

LEMMA EnterElseDecent ==
    ASSUME NEW B, NEW L, NEW T \in Seq(Task), NEW t \in Task, IsArm(t), Good(B, L, Append(T, t)),
           Proper(B), Sits(B, Append(T, t)), Len(T) <= MaxTasks,
           t.node.pairs[t.arg1].maybe_condition = NoExp,
           NEW r, r = EnterElse(machine(B, L, T), t)
    PROVE  Decent(r)
<1> DEFINE m == machine(B, L, T)
           M == new_scope(m.locals)
           m1 == Local(m, M)
           m2 == Then(m1, [m1 EXCEPT !.ir.blocks[m.ir.current_block].scope = M.current_scope])
           m3 == push_task(m2, ArmTask(t, NULL))
           s == t.node.pairs[t.arg1].statement
           next == Then(m3, emit_stmt(m3, s))
           last == t.arg1 = Len(t.node.pairs)
           empty == ~ is_not_empty(m.ir)
           checked == Checked(m, empty, "block_empty", next)
<1>1. m.ir = B /\ m.locals = L /\ m.fault = NoFault /\ Allowed(m) BY MachineFields, MachineAllowed
<1>2. r = Checked(m, last, "t.arg1.index == s->count - 1", checked)
  BY Zenon DEF EnterElse, ArmTask
<1>3. /\ Code(B) /\ Scoped(L) /\ Stacked(B, T, {}) /\ NoneEvaluating(T)
      /\ Joining(T, t, t.arg1 = Len(t.node.pairs))
      /\ Cardinality(Closers(T)) \in Nat /\ Depth(L) = Cardinality(Closers(T)) + 1
      /\ B.current_block # NULL /\ B.current_block \in BlockIds(B) /\ s \in Stmts
      /\ UnderArm(t) => ~ is_not_empty(B)
  BY ArmPopped, Zenon
<1>4. empty
  <2>1. UnderArm(t) BY DEF UnderArm, IsElse
  <2> QED BY <1>1, <1>3, <2>1
<1>5. /\ Sits(B, T) /\ (t.merge_block # NULL => JoinsUpTo(T, t.merge_block)) BY ArmFits
<1>6. M = new_scope(L) BY <1>1
<1>7. m1 = Local(machine(B, L, T), M) OBVIOUS
<1>8. Allowed(m1)
  <2>1. Allowed(M) BY <1>3, <1>6, TableAllows
  <2> HIDE DEF M
  <2> QED BY <1>7, <2>1, MachineAllowed, CallsAllow
<1>9. /\ m2 = Then(m1, [m1 EXCEPT !.ir.blocks[m.ir.current_block].scope = M.current_scope])
      /\ m3 = push_task(m2, ArmTask(t, NULL)) /\ next = Then(m3, emit_stmt(m3, s))
  OBVIOUS
<1> HIDE DEF M, m1, m2, m3, m, s, next
<1>10. ASSUME last PROVE Decent(next)
  <2>1. CASE m1.fault = NoFault
    <3>1. M.fault = NoFault /\ m1 = machine(B, M, T) BY <1>7, <2>1, LocalCall
    <3>2. Scoped(M) /\ Depth(M) = Depth(L) + 1 /\ M.current_scope \in Nat
      BY <1>3, <1>6, <3>1, new_scopePasses
    <3> DEFINE c == B.current_block
               d == [B.blocks[c] EXCEPT !.scope = M.current_scope]
               C == WithBlock(B, c, d)
    <3>3. m2 = machine(C, M, T)
      <4>1. m2 = [m1 EXCEPT !.ir.blocks[m.ir.current_block].scope = M.current_scope]
        BY <1>9, <2>1, Zenon DEF Then
      <4>2. m2 = [machine(B, M, T) EXCEPT !.ir.blocks[c].scope = M.current_scope]
        BY <1>1, <3>1, <4>1
      <4> QED BY <4>2, Zenon DEF machine, WithBlock
    <3>4. /\ Code(C) /\ Follows(B, C) /\ SameMode(B, C)
          /\ BlockIds(C) = BlockIds(B) /\ Unstarted(C) = Unstarted(B)
      <4>1. C = WithBlock(B, B.current_block, [B.blocks[B.current_block] EXCEPT !.scope = M.current_scope])
        OBVIOUS
      <4> HIDE DEF C
      <4> QED BY <1>3, <3>2, <4>1, ScopeSet
    <3>5. Proper(C) /\ Carried(B, C)
      <4>1. B.blocks[c] \in bb /\ B \in builder
        <5>1. B \in builder BY <1>3, CodeTyped
        <5>2. B.blocks \in Seq(bb) BY <5>1 DEF builder
        <5> QED BY <1>3, <5>1, <5>2 DEF BlockIds
      <4>2. /\ d \in bb /\ d.next = B.blocks[c].next /\ d.br = B.blocks[c].br
            /\ d.predecessors = B.blocks[c].predecessors
            /\ d.block_true = B.blocks[c].block_true /\ d.block_false = B.blocks[c].block_false
        BY <3>2, <4>1 DEF bb
      <4>3. SameSsas(B, C) BY <4>1 DEF SameSsas, WithBlock, builder
      <4>4. C = WithBlock(B, c, d) OBVIOUS
      <4> HIDE DEF C, d, c
      <4>5. Moves(B, C) /\ Steers(B, C) /\ Carried(B, C)
        BY <1>3, <4>2, <4>4, RewrittenMoves DEF c
      <4>6. Settled(B, C) BY <3>4 DEF Follows
      <4> QED BY <1>3, <4>3, <4>5, <4>6, BlocksProper
    <3> HIDE DEF C
    <3>6. C.current_block # NULL /\ Stacked(C, T, {})
      <4>1. C.current_block = B.current_block BY <3>4 DEF SameMode
      <4>2. Unstarted(C) \ {} = Unstarted(B) \ {} BY <3>4
      <4> QED BY <1>3, <3>4, <4>1, <4>2, KeptStack
    <3>7. {} = {NULL} \ {NULL} /\ {} \subseteq Unstarted(C) /\ NULL \in Nat /\ Joining(T, t, NULL = NULL)
      BY <1>3, <1>10 DEF NULL, Joining
    <3>8. Depth(M) = Cardinality(Closers(T)) + 2 BY <1>3, <3>2
    <3>9. Sits(C, T) BY <1>5, <3>5, SitsCarried
    <3>10. m3 = push_task(machine(C, M, T), ArmTask(t, NULL)) BY <1>9, <3>3
    <3> QED BY <1>3, <1>5, <1>9, <3>2, <3>4, <3>5, <3>6, <3>7, <3>8, <3>9, <3>10, ArmDecent
  <2>2. CASE m1.fault # NoFault
    <3>1. m2 = m1 /\ Decent(m1) BY <1>8, <1>9, <2>2, FailedStays
    <3>2. m3 = m1 BY <1>8, <1>9, <2>2, <3>1, FailedStays
    <3>3. next = m1 BY <1>8, <1>9, <2>2, <3>2, FailedStays
    <3> QED BY <3>1, <3>3
  <2> QED BY <2>1, <2>2
<1>11. "t.arg1.index == s->count - 1" \in Refusals BY DEF Refusals
<1> HIDE DEF last, empty
<1>12. last => Decent(checked) BY <1>1, <1>4, <1>10, CheckedDecent, Zenon
<1> HIDE DEF checked
<1> QED BY <1>1, <1>2, <1>11, <1>12, CheckedDecent, Zenon

LEMMA EnterArmDecent ==
    ASSUME NEW B, NEW L, NEW T \in Seq(Task), NEW t \in Task, IsArm(t), Good(B, L, Append(T, t)),
           Proper(B), Sits(B, Append(T, t)), Len(T) <= MaxTasks,
           NEW r, r = EnterArm(machine(B, L, T), t)
    PROVE  Decent(r)
<1> DEFINE m == machine(B, L, T)
           condition == m.ir.ssas[last_ssa(m.ir)]
           J == branch(m.ir, "eq", NULL, NULL)
           M == new_scope(m.locals)
           m1 == Local(Ir(m, end_block(J)), M)
           m2 == Then(m1, Ir(m1, start_block(m1.ir, last_block(J) - 1, M.current_scope)))
           m3 == push_task(m2, ArmTask(t, last_block(J)))
           s == t.node.pairs[t.arg1].statement
           next == Then(m3, emit_stmt(m3, s))
           some == last_ssa(m.ir) # NULL
           valued == ~ has_flag(condition, "no_value")
           checked == Checked(m, valued, "!condition->has_flag(no_value)", next)
<1>1. m.ir = B /\ m.locals = L /\ m.fault = NoFault /\ Allowed(m) BY MachineFields, MachineAllowed
<1>2. r = Checked(m, some, "arena not empty", checked) BY Zenon DEF EnterArm, ArmTask
<1>3. /\ Code(B) /\ Scoped(L) /\ Stacked(B, T, {}) /\ NoneEvaluating(T)
      /\ Joining(T, t, t.arg1 = Len(t.node.pairs))
      /\ Cardinality(Closers(T)) \in Nat /\ Depth(L) = Cardinality(Closers(T)) + 1
      /\ B.current_block # NULL /\ B.current_block \in BlockIds(B) /\ s \in Stmts
  BY ArmPopped, Zenon
<1>4. /\ Sits(B, T) /\ (t.merge_block # NULL => JoinsUpTo(T, t.merge_block)) BY ArmFits
<1>5. M = new_scope(L) /\ J = branch(B, "eq", NULL, NULL) BY <1>1
<1>6. m1 = Local(Ir(machine(B, L, T), end_block(J)), M) OBVIOUS
<1>7. m2 = Then(m1, Ir(m1, start_block(m1.ir, last_block(J) - 1, M.current_scope))) OBVIOUS
<1>8. m3 = push_task(m2, ArmTask(t, last_block(J))) /\ next = Then(m3, emit_stmt(m3, s)) OBVIOUS
<1>9. /\ some => last_ssa(B) # NULL
      /\ valued => ~ has_flag(B.ssas[last_ssa(B)], "no_value")
  BY <1>1
<1> HIDE DEF m1, m2, m3, M, J, m, next, s, some, valued
<1> DEFINE f == last_block(J)
           target == f - 1
<1>10. J.fault = NoFault =>
         /\ Code(J) /\ Follows(B, J) /\ SameMode(B, J) /\ Moves(B, J)
         /\ target \in Nat /\ target # f /\ target \notin BlockIds(B) /\ f \notin BlockIds(B)
         /\ BlockIds(J) = BlockIds(B) \cup {target, f}
         /\ Unstarted(J) = Unstarted(B) \cup {target, f}
         /\ J.blocks[J.current_block].br # "UNUSED"
  <2> HIDE DEF f, target
  <2>1. ASSUME J.fault = NoFault
        PROVE  LET a == last_block(J)
                   b == a - 1
               IN  /\ Code(J) /\ Follows(B, J) /\ SameMode(B, J) /\ Moves(B, J)
                   /\ b \in Nat /\ b # a /\ b \notin BlockIds(B) /\ a \notin BlockIds(B)
                   /\ BlockIds(J) = BlockIds(B) \cup {b, a}
                   /\ Unstarted(J) = Unstarted(B) \cup {b, a}
    BY <1>3, <1>5, <2>1, branchPasses, Zenon
  <2>2. J.fault = NoFault => J.blocks[B.current_block].br # "UNUSED"
    BY <1>3, <1>5, branchPasses
  <2>3. J.fault = NoFault => J.current_block = B.current_block BY <2>1 DEF SameMode
  <2> QED BY <2>1, <2>2, <2>3, Zenon DEF f, target
<1>11. Allowed(J) BY <1>3, <1>5, CodeAllows, branchAllows
<1>12. Allowed(M) /\ MayScope(M)
  BY <1>3, <1>5, TableAllows, new_scopePasses DEF MayScope
<1>13. J.fault = NoFault =>
         /\ target \in Unstarted(J) /\ target # NULL /\ f \in Nat /\ f # NULL
         /\ JoinsUpTo(T, target) /\ JoinsUpTo(T, f)
  <2> HIDE DEF target, f
  <2> SUFFICES ASSUME J.fault = NoFault
               PROVE  /\ target \in Unstarted(J) /\ target # NULL /\ f \in Nat /\ f # NULL
                      /\ JoinsUpTo(T, target) /\ JoinsUpTo(T, f)
    OBVIOUS
  <2>1. target \in BlockIds(J) /\ f \in BlockIds(J) /\ target \in Unstarted(J) BY <1>10
  <2>2. target \in Nat /\ f \in Nat /\ target # NULL /\ f # NULL BY <2>1 DEF BlockIds, NULL
  <2> QED BY <1>4, <1>10, <2>1, <2>2, JoinsBefore
<1>14. m2 = Then(m1, Ir(m1, start_block(m1.ir, target, M.current_scope))) BY <1>7
<1>15. m3 = push_task(m2, ArmTask(t, f)) BY <1>8
<1> HIDE DEF target, f
<1>16. ASSUME some, valued PROVE Decent(next)
  <2>1. Closable(J, T)
    <3>1. ASSUME J.fault = NoFault
          PROVE  /\ Code(J) /\ Proper(J) /\ Sits(J, T) /\ J.current_block # NULL
                 /\ J.blocks[J.current_block].br # "UNUSED"
      <4>1. Proper(J) /\ Carried(B, J) BY <1>3, <1>5, <1>9, <1>16, <3>1, branchProper
      <4>2. Sits(J, T) BY <1>4, <4>1, SitsCarried
      <4>3. J.current_block # NULL BY <1>3, <1>10, <3>1 DEF SameMode
      <4> QED BY <1>10, <3>1, <4>1, <4>2, <4>3
    <3> QED BY <1>11, <3>1 DEF Closable
  <2>2. Decent(m2) BY <1>6, <1>12, <1>13, <1>14, <2>1, MoveDecent
  <2>3. CASE m2.fault = NoFault
    <3>1. May(B, J, target) BY <1>10, <1>13 DEF May
    <3>2. /\ \E C : m2 = machine(C, M, T) /\ Opened(B, J, target, C)
          /\ J.fault = NoFault /\ M.fault = NoFault
      BY <1>6, <1>12, <1>14, <2>3, <3>1, MovePasses
    <3>3. PICK C : m2 = machine(C, M, T) /\ Opened(B, J, target, C) BY <3>2
    <3>4. Scoped(M) /\ Depth(M) = Cardinality(Closers(T)) + 2
      <4>1. Scoped(M) /\ Depth(M) = Depth(L) + 1 BY <1>3, <1>5, <3>2, new_scopePasses
      <4> QED BY <1>3, <4>1
    <3>5. /\ Code(C) /\ Follows(B, C) /\ C.current_block # NULL
          /\ BlockIds(C) = BlockIds(B) \cup {target, f}
          /\ Unstarted(C) = Unstarted(B) \cup {f}
      <4>1. target \notin Unstarted(B) BY <1>10, <3>2 DEF Unstarted
      <4> QED BY <1>10, <3>2, <3>3, <4>1 DEF Opened
    <3>6. Stacked(C, T, {f})
      <4>1. f \notin Unstarted(B) BY <1>10, <3>2 DEF Unstarted
      <4>2. Unstarted(C) \ {f} = Unstarted(B) \ {} BY <3>5, <4>1
      <4> QED BY <1>3, <3>5, <4>2, KeptStack
    <3>7. m3 = push_task(machine(C, M, T), ArmTask(t, f)) BY <1>15, <3>3
    <3>8. /\ f \in Nat /\ f # NULL /\ {f} = {f} \ {NULL} /\ {f} \subseteq Unstarted(C)
          /\ Joining(T, t, f = NULL)
      BY <1>3, <1>13, <3>2, <3>5 DEF Joining
    <3>9. Proper(C) /\ Sits(C, T)
      <4>1. m2.ir = C /\ m2.tasks = T BY <3>3, MachineFields
      <4> QED BY <2>2, <2>3, <4>1 DEF Decent
    <3>10. JoinsUpTo(T, f) BY <1>13, <3>2
    <3> QED BY <1>3, <1>4, <1>8, <3>4, <3>5, <3>6, <3>7, <3>8, <3>9, <3>10, ArmDecent
  <2>4. CASE m2.fault # NoFault
    <3>1. Allowed(m2) BY <2>2 DEF Decent
    <3>2. m3 = m2 BY <1>15, <2>4, <3>1, FailedStays
    <3>3. next = m2 BY <1>8, <2>4, <3>1, <3>2, FailedStays
    <3> QED BY <2>2, <3>3
  <2> QED BY <2>3, <2>4
<1>17. "arena not empty" \in Refusals /\ "!condition->has_flag(no_value)" \in Refusals
  BY DEF Refusals
<1>18. some => Decent(checked)
  <2>1. ASSUME some PROVE Decent(checked)
    <3>1. valued => Decent(next) BY <1>16, <2>1
    <3> QED BY <1>1, <1>17, <3>1, CheckedDecent, Zenon
  <2> QED BY <2>1
<1> HIDE DEF checked
<1> QED BY <1>1, <1>2, <1>17, <1>18, CheckedDecent, Zenon

LEMMA emit_stmt_ifs_after_conditionDecent ==
    ASSUME NEW B, NEW L, NEW T \in Seq(Task), NEW t \in Task, IsArm(t), Good(B, L, Append(T, t)),
           Proper(B), Sits(B, Append(T, t)), Len(T) <= MaxTasks,
           NEW r, r = emit_stmt_ifs_after_condition(machine(B, L, T), t)
    PROVE  Decent(r)
<1>1. r = IF t.node.pairs[t.arg1].maybe_condition = NoExp THEN EnterElse(machine(B, L, T), t)
          ELSE EnterArm(machine(B, L, T), t)
  BY Zenon DEF emit_stmt_ifs_after_condition
<1>2. CASE t.node.pairs[t.arg1].maybe_condition = NoExp
  <2>1. r = EnterElse(machine(B, L, T), t) BY <1>1, <1>2
  <2> QED BY <1>2, <2>1, EnterElseDecent
<1>3. CASE t.node.pairs[t.arg1].maybe_condition # NoExp
  <2>1. r = EnterArm(machine(B, L, T), t) BY <1>1, <1>3
  <2> QED BY <2>1, EnterArmDecent
<1> QED BY <1>2, <1>3

\* The join that an arm leads to has not been entered.
LEMMA JoinWaits ==
    ASSUME NEW B, NEW T, NEW X, Stacked(B, T, X), NEW t, Joined(T, t)
    PROVE  t.merge_block \in Unstarted(B)
<1>1. T \in Seq(Task) /\ Waits(B, T, X) BY DEF Stacked
<1>2. PICK j \in 1..Len(T) : Merging(T[j]) /\ T[j].merge_block = t.merge_block BY DEF Joined
<1>3. Opens(T[j]) = t.merge_block BY <1>2 DEF Opens
<1>4. Shaped(B, T[j]) BY Zenon DEF Stacked
<1>5. T[j].func = "emit_stmt_ifs" /\ T[j].step = STEP_MERGE BY <1>2 DEF Merging, Is
<1>6. T[j].merge_block # NULL
  BY <1>4, <1>5 DEF Shaped, IsArm, ClosesArm, Is, STEP_MERGE, STEP_AFTER_CONDITION, STEP_AFTER_STATEMENT
<1> QED BY <1>1, <1>2, <1>3, <1>6 DEF Waits

LEMMA ArmCloses ==
    ASSUME NEW B, NEW T, NEW X, Stacked(B, T, X), NEW t, Joined(T, t), Code(B), Proper(B),
           Sits(B, T), B.current_block # NULL, NEW J, J = ArmJump(B, t)
    PROVE  Closable(J, T)
<1>1. t.merge_block \in Unstarted(B) BY JoinWaits
<1>2. CASE B.blocks[B.current_block].br = "UNUSED"
  <2>1. J = unconditional_branch(B, t.merge_block) BY <1>2 DEF ArmJump
  <2>2. Allowed(J) BY <2>1, CodeAllows, unconditional_branchAllows
  <2>3. ASSUME J.fault = NoFault
        PROVE  /\ Code(J) /\ Proper(J) /\ Sits(J, T) /\ J.current_block # NULL
               /\ J.blocks[J.current_block].br # "UNUSED"
    <3>1. /\ Kept(B, J) /\ SameMode(B, J)
          /\ J.blocks[B.current_block].br = "unconditional"
      BY <1>1, <2>1, <2>3, unconditional_branchPasses
    <3>2. Proper(J) /\ Carried(B, J) BY <1>1, <2>1, <2>3, unconditional_branchProper
    <3>3. Sits(J, T) BY <3>2, SitsCarried
    <3> QED BY <3>1, <3>2, <3>3 DEF Kept, SameMode
  <2> QED BY <2>2, <2>3 DEF Closable
<1>3. CASE B.blocks[B.current_block].br # "UNUSED"
  <2>1. J = B BY <1>3 DEF ArmJump
  <2>2. Allowed(B) BY CodeAllows
  <2> QED BY <1>3, <2>1, <2>2 DEF Closable
<1> QED BY <1>2, <1>3

\* The end of an arm: the scope it closes is not the root.
LEMMA emit_stmt_ifs_after_statementDecent ==
    ASSUME NEW B, NEW L, NEW T \in Seq(Task), NEW t \in Task, ClosesArm(t), Good(B, L, Append(T, t)),
           Proper(B), Sits(B, Append(T, t)), Len(T) <= MaxTasks,
           NEW r, r = emit_stmt_ifs_after_statement(machine(B, L, T), t)
    PROVE  Decent(r)
<1> DEFINE m == machine(B, L, T)
           J == ArmJump(m.ir, t)
           M == end_scope(m.locals)
           m1 == Local(Ir(m, end_block(J)), M)
           then == Then(m1, Ir(m1, start_block(m1.ir, t.arg1, m1.locals.current_scope)))
           moved == Then(m1, Ir(m1, start_block(m1.ir, t.arg1, M.current_scope)))
<1>1. m.ir = B /\ m.locals = L BY MachineFields
<1>2. r = IF t.arg1 = NULL THEN m1 ELSE then
  BY Zenon DEF emit_stmt_ifs_after_statement, LeaveArm, current, ArmJump
<1>3. /\ ~ Merging(t) /\ ClosesScope(t) /\ Opens(t) = t.arg1 /\ t.arg1 \in Nat
  BY DEF ClosesArm, Merging, ClosesScope, Opens, Is, Task, STEP_AFTER_STATEMENT, STEP_MERGE
<1>4. /\ Code(B) /\ Scoped(L) /\ Stacked(B, T, {t.arg1}) /\ Above(T, t)
      /\ t.arg1 # NULL => t.arg1 \in Unstarted(B)
      /\ Cardinality(Closers(T)) \in Nat /\ Depth(L) = Cardinality(Closers(T)) + 2
      /\ B.current_block # NULL
  BY <1>3, TaskPopped, Zenon
<1>5. J = ArmJump(B, t) /\ M = end_scope(L) BY <1>1
<1>6. m1 = Local(Ir(machine(B, L, T), end_block(J)), M) OBVIOUS
<1>7. /\ then = Then(m1, Ir(m1, start_block(m1.ir, t.arg1, m1.locals.current_scope)))
      /\ moved = Then(m1, Ir(m1, start_block(m1.ir, t.arg1, M.current_scope)))
  OBVIOUS
<1> HIDE DEF J, M, m1, m, then, moved
<1>8. Sits(B, T) /\ (t.arg1 # NULL => JoinsUpTo(T, t.arg1)) BY <1>3, ArmFits
<1>9. Joined(T, t) BY <1>4 DEF Above
<1>10. Closable(J, T) BY <1>4, <1>5, <1>8, <1>9, ArmCloses
<1>11. Allowed(M) /\ MayScope(M)
  <2>1. Depth(L) # 1 BY <1>4
  <2>2. Allowed(M) BY <1>4, <1>5, <2>1, TableAllows
  <2>3. M.fault = NoFault => M.current_scope \in Nat BY <1>4, <1>5, end_scopePasses
  <2> QED BY <2>2, <2>3 DEF MayScope
<1>12. /\ Decent(m1)
       /\ m1.fault = NoFault =>
            \E E : /\ m1 = machine(E, M, T) /\ Code(E) /\ Proper(E) /\ Sits(E, T)
                   /\ E.current_block = NULL /\ Unstarted(E) = Unstarted(J)
                   /\ J.fault = NoFault /\ M.fault = NoFault
  BY <1>6, <1>10, <1>11, CloseDecent
<1>13. CASE t.arg1 = NULL BY <1>2, <1>12, <1>13
<1>14. CASE t.arg1 # NULL
  <2>1. r = then BY <1>2, <1>14
  <2>2. CASE m1.fault = NoFault
    <3>1. m1.locals = M
      <4>1. PICK E : m1 = machine(E, M, T) BY <1>12, <2>2
      <4> QED BY <4>1, MachineFields
    <3>2. r = moved BY <1>7, <2>1, <3>1
    <3>3. J.fault = NoFault => t.arg1 \in Unstarted(J) /\ JoinsUpTo(T, t.arg1)
      <4>1. J.fault = NoFault => Kept(B, J) BY <1>4, <1>5, <1>9, ArmJumps
      <4> QED BY <1>4, <1>8, <1>14, <4>1 DEF Kept
    <3> QED BY <1>6, <1>7, <1>10, <1>11, <3>2, <3>3, MoveDecent
  <2>3. CASE m1.fault # NoFault
    <3>1. r = m1 BY <1>7, <2>1, <2>3, Zenon DEF Then
    <3> QED BY <1>12, <3>1
  <2> QED BY <2>2, <2>3
<1> QED BY <1>13, <1>14

-----------------------------------------------------------------------------
(***************************************************************************)
(* The join of an ifs.  A phi of it takes a value from every predecessor,  *)
(* or from the dominator, which every path into the region has passed.     *)
(***************************************************************************)

\* V holds at most one value of each of the first k of blocks, in its block; if
\* it is as long as that, one of each.
Gathered(B, blocks, k, V) ==
    /\ V \in Seq(SsaIds(B)) /\ Len(V) <= k
    /\ \A j \in 1..Len(V) : ~ has_flag(B.ssas[V[j]], "no_value")
    /\ Len(V) = k =>
          \A i \in 1..k : \E j \in 1..Len(V) : B.ssas[V[j]].block = blocks[i]

LEMMA GatheredMore ==
    ASSUME NEW B, NEW blocks, NEW k \in Nat, k # 0, NEW V, Gathered(B, blocks, k - 1, V), NEW v,
           ValueOf(B, blocks[k], v)
    PROVE  Gathered(B, blocks, k, V \o <<v>>)
<1> DEFINE W == V \o <<v>>
<1>1. /\ v \in SsaIds(B) /\ B.ssas[v].block = blocks[k] /\ ~ has_flag(B.ssas[v], "no_value")
  BY Zenon DEF ValueOf
<1>2. /\ V \in Seq(SsaIds(B)) /\ Len(V) <= k - 1
      /\ \A j \in 1..Len(V) : ~ has_flag(B.ssas[V[j]], "no_value")
      /\ Len(V) = k - 1 =>
            \A i \in 1..k - 1 : \E j \in 1..Len(V) : B.ssas[V[j]].block = blocks[i]
  BY Zenon DEF Gathered
<1> HIDE DEF SsaIds
<1>3. /\ W \in Seq(SsaIds(B)) /\ Len(W) = Len(V) + 1 /\ W[Len(V) + 1] = v
      /\ \A j \in 1..Len(V) : W[j] = V[j]
  BY <1>1, <1>2
<1>4. Len(V) \in Nat BY <1>2
<1> HIDE DEF W
<1>5. Len(W) <= k BY <1>2, <1>3, <1>4
<1>7. ASSUME NEW j \in 1..Len(W) PROVE ~ has_flag(B.ssas[W[j]], "no_value")
  <2>1. CASE j = Len(V) + 1 BY <1>1, <1>3, <2>1
  <2>2. CASE j # Len(V) + 1
    <3>1. j \in 1..Len(V) BY <1>3, <1>4, <2>2
    <3>2. W[j] = V[j] BY <1>3, <3>1
    <3> QED BY <1>2, <3>1, <3>2
  <2> QED BY <2>1, <2>2
<1>8. ASSUME Len(W) = k, NEW i \in 1..k
      PROVE  \E j \in 1..Len(W) : B.ssas[W[j]].block = blocks[i]
  <2>1. CASE i = k
    <3>1. Len(V) + 1 \in 1..Len(W) BY <1>3, <1>4
    <3> QED BY <1>1, <1>3, <2>1, <3>1
  <2>2. CASE i # k
    <3>1. i \in 1..k - 1 /\ Len(V) = k - 1 BY <1>3, <1>4, <1>8, <2>2
    <3>2. PICK j \in 1..Len(V) : B.ssas[V[j]].block = blocks[i] BY <1>2, <3>1
    <3>3. j \in 1..Len(W) /\ W[j] = V[j] BY <1>3, <1>4
    <3> QED BY <3>2, <3>3
  <2> QED BY <2>1, <2>2
<1>9. Gathered(B, blocks, k, W) BY <1>3, <1>5, <1>7, <1>8 DEF Gathered
<1> QED BY <1>9 DEF W

LEMMA FinalValuesGather ==
    ASSUME NEW B, Code(B), NEW blocks \in Seq(BlockIds(B)), NEW sym \in Symbols
    PROVE  Gathered(B, blocks, Len(blocks), FinalValues(B, blocks, sym))
<1> DEFINE n == Len(blocks)
<1>1. n \in Nat OBVIOUS
<1>2. PICK pushed : /\ pushed[0] = <<>>
                    /\ \A k \in 1..n : pushed[k] = pushed[k - 1] \o OwnValue(B, sym, blocks[k])
                    /\ FinalValues(B, blocks, sym) = pushed[n]
  BY FinalValuesUnfold, Zenon
<1>3. \A k \in 1..n : blocks[k] \in BlockIds(B) OBVIOUS
<1> HIDE DEF n
<1> DEFINE K == {k \in 0..n : Gathered(B, blocks, k, pushed[k])}
<1>4. 0 \in K
  <2>1. <<>> \in Seq(SsaIds(B)) /\ Len(<<>>) = 0 OBVIOUS
  <2>2. Gathered(B, blocks, 0, <<>>) BY <2>1 DEF Gathered
  <2> QED BY <1>1, <1>2, <2>2
<1>5. ASSUME NEW k \in 1..n, k - 1 \in K PROVE k \in K
  <2> DEFINE V == pushed[k - 1]
             b == blocks[k]
             v == B.blocks[b].final_values[sym]
  <2>1. /\ Gathered(B, blocks, k - 1, V) /\ pushed[k] = V \o OwnValue(B, sym, b)
        /\ k \in 0..n /\ k \in Nat /\ k # 0 /\ b \in BlockIds(B)
    <3>1. k \in 0..n /\ k \in Nat /\ k # 0 BY <1>1
    <3>2. Gathered(B, blocks, k - 1, pushed[k - 1]) BY <1>5, Zenon
    <3>3. pushed[k] = pushed[k - 1] \o OwnValue(B, sym, blocks[k]) BY <1>2, Zenon
    <3> QED BY <1>3, <3>1, <3>2, <3>3, Zenon
  <2> HIDE DEF V, b, v
  <2>2. CASE try_get(B.blocks[b], sym)
    <3>1. ValueOf(B, b, v) BY <2>1, <2>2, Zenon DEF Code, FinalsLocal, v
    <3>2. OwnValue(B, sym, b) = <<v>> BY <2>2 DEF OwnValue, v
    <3>3. Gathered(B, blocks, k, V \o <<v>>) BY <2>1, <3>1, GatheredMore DEF b
    <3>4. pushed[k] = V \o <<v>> BY <2>1, <3>2
    <3> QED BY <2>1, <3>3, <3>4
  <2>3. CASE ~ try_get(B.blocks[b], sym)
    <3>1. OwnValue(B, sym, b) = <<>> BY <2>3 DEF OwnValue
    <3>2. /\ V \in Seq(SsaIds(B)) /\ Len(V) <= k - 1
          /\ \A j \in 1..Len(V) : ~ has_flag(B.ssas[V[j]], "no_value")
      BY <2>1, Zenon DEF Gathered
    <3>3. pushed[k] = V /\ Len(V) \in Nat
      <4> HIDE DEF SsaIds
      <4> QED BY <2>1, <3>1, <3>2
    <3>4. Len(V) <= k /\ Len(V) # k BY <2>1, <3>2, <3>3
    <3>5. Gathered(B, blocks, k, V) BY <3>2, <3>4, Zenon DEF Gathered
    <3> QED BY <2>1, <3>3, <3>5
  <2> QED BY <2>2, <2>3
<1>6. n \in K
  <2> HIDE DEF K
  <2>1. \A k \in 0..n : k \in K BY <1>1, <1>4, <1>5, UpTo, Zenon
  <2> QED BY <1>1, <2>1
<1> QED BY <1>2, <1>6 DEF n

\* The values make up a phi of the open block, which finds one of them.
Fusible(B, values) ==
    /\ values \in Seq(SsaIds(B)) /\ values # <<>> /\ Len(values) <= MaxFuse
    /\ \A k \in 1..Len(values) : ~ has_flag(B.ssas[values[k]], "no_value")
    /\ \E X : Crosses(B, values, X)

LEMMA SequenceOf ==
    ASSUME NEW S, NEW R, NEW q \in Seq(R), \A k \in 1..Len(q) : q[k] \in S
    PROVE  q \in Seq(S)
OBVIOUS

LEMMA FuseCrosses ==
    ASSUME NEW B, Code(B), Entry(B), NEW D, NEW J, Region(B, D, J), B.current_block = J,
           NEW sym \in Symbols, NEW predecessors, predecessors = B.blocks[J].predecessors,
           NEW own, own = FinalValues(B, predecessors, sym), own # <<>>,
           NEW values, values = Reaching(B, own, predecessors, D, sym)
    PROVE  Len(own) = Len(predecessors) \/ try_get(B.blocks[D], sym) => Fusible(B, values)
<1>1. D \in BlockIds(B) /\ J \in BlockIds(B) /\ J # NULL BY DEF Region, BlockIds, NULL
<1>2. J \in BlockIds(B) \ Unstarted(B) BY <1>1, CurrentTyped, Zenon
<1>3. /\ predecessors \in Seq(BlockIds(B)) /\ Preds(B, J) = {predecessors[k] : k \in 1..Len(predecessors)}
      /\ Len(predecessors) <= MaxPreds
  <2>1. predecessors \in Seq(Nat)
    <3>1. B \in builder BY CodeTyped
    <3>2. B.blocks \in Seq(bb) BY <3>1 DEF builder
    <3>3. B.blocks[J] \in bb BY <1>1, <3>2 DEF BlockIds
    <3> QED BY <3>3, Zenon DEF bb
  <2>2. Preds(B, J) = {predecessors[k] : k \in 1..Len(predecessors)} BY Zenon DEF Preds
  <2>3. \A k \in 1..Len(predecessors) : predecessors[k] \in BlockIds(B)
    BY <1>1, <2>2, PredsStarted
  <2>4. predecessors \in Seq(BlockIds(B)) BY <2>1, <2>3, SequenceOf, Zenon
  <2> QED BY <1>1, <2>2, <2>4 DEF Code, Linked
<1> DEFINE n == Len(predecessors)
<1>4. Gathered(B, predecessors, n, own) BY <1>3, FinalValuesGather
<1>5. /\ own \in Seq(SsaIds(B)) /\ Len(own) <= n
      /\ \A j \in 1..Len(own) : ~ has_flag(B.ssas[own[j]], "no_value")
      /\ Len(own) = n =>
            \A i \in 1..n : \E j \in 1..Len(own) : B.ssas[own[j]].block = predecessors[i]
  BY <1>4, Zenon DEF Gathered
<1> HIDE DEF SsaIds
<1>6. Len(own) \in Nat /\ Len(own) # 0 /\ n \in Nat BY <1>3, <1>5
<1>7. J # 1
  <2>1. J = 1 => predecessors = <<>> BY DEF Entry
  <2> QED BY <1>5, <1>6, <2>1
<1>8. n <= MaxFuse
  <2>1. MaxPreds \in Nat /\ MaxPreds <= MaxFuse /\ MaxFuse \in Nat BY IrBounds, EmitBounds
  <2> QED BY <1>3, <1>6, <2>1
<1>9. MaxFuse \in Nat BY EmitBounds
<1>10. CASE Len(own) = n
  <2>1. values = own BY <1>10 DEF Reaching
  <2> DEFINE X == {J} \cup Preds(B, J)
  <2>2. X \subseteq BlockIds(B) \ Unstarted(B) BY <1>1, <1>2, PredsStarted
  <2>3. ASSUME NEW c \in X
        PROVE  \/ \E k \in 1..Len(values) : B.ssas[values[k]].block = c
               \/ c # 1 /\ Preds(B, c) \subseteq X
    <3>1. CASE c = J BY <1>7, <3>1
    <3>2. CASE c # J
      <4>1. PICK i \in 1..n : c = predecessors[i] BY <1>3, <3>2
      <4>2. PICK j \in 1..Len(own) : B.ssas[own[j]].block = predecessors[i]
        BY <1>5, <1>10, Zenon
      <4>3. j \in 1..Len(values) /\ B.ssas[values[j]].block = c BY <2>1, <4>1, <4>2, Zenon
      <4> QED BY <4>3, Zenon
    <3> QED BY <3>1, <3>2
  <2>4. J \in X OBVIOUS
  <2> HIDE DEF X
  <2>5. Crosses(B, values, X) BY <2>2, <2>3, <2>4, Zenon DEF Crosses
  <2> QED BY <1>5, <1>6, <1>8, <1>10, <2>1, <2>5 DEF Fusible
<1>11. CASE Len(own) # n /\ try_get(B.blocks[D], sym)
  <2> DEFINE v == B.blocks[D].final_values[sym]
             X == {D} \cup {b \in BlockIds(B) \ Unstarted(B) : b >= J}
  <2>1. values = Append(own, v) BY <1>11 DEF Reaching
  <2>2. /\ v \in SsaIds(B) /\ B.ssas[v].block = D /\ ~ has_flag(B.ssas[v], "no_value")
    <3>1. ValueOf(B, D, v) BY <1>1, <1>11, Zenon DEF Code, FinalsLocal
    <3> QED BY <3>1, Zenon DEF ValueOf
  <2> HIDE DEF v
  <2>3. /\ values \in Seq(SsaIds(B)) /\ Len(values) = Len(own) + 1 /\ values[Len(own) + 1] = v
        /\ \A j \in 1..Len(own) : values[j] = own[j]
    BY <1>5, <2>1, <2>2
  <2>4. Len(values) <= MaxFuse /\ Len(values) # 0 BY <1>5, <1>6, <1>8, <1>9, <1>11, <2>3
  <2>5. ASSUME NEW k \in 1..Len(values) PROVE ~ has_flag(B.ssas[values[k]], "no_value")
    <3>1. CASE k = Len(own) + 1 BY <2>2, <2>3, <3>1
    <3>2. CASE k # Len(own) + 1
      <4>1. k \in 1..Len(own) BY <1>6, <2>3, <3>2
      <4>2. values[k] = own[k] BY <2>3, <4>1
      <4> QED BY <1>5, <4>1, <4>2
    <3> QED BY <3>1, <3>2
  <2>6. D \in BlockIds(B) \ Unstarted(B)
    <3>1. BlocksOwnTheirRange(B) BY CodeTyped, Zenon DEF Exact
    <3>2. Started(B.blocks[D]) BY <1>1, <2>2, <3>1, Zenon DEF BlocksOwnTheirRange
    <3> QED BY <1>1, <3>2, Zenon DEF Unstarted
  <2>7. X \subseteq BlockIds(B) \ Unstarted(B) BY <2>6
  <2>8. \A b \in BlockIds(B) : b \in Nat /\ b # 0 BY DEF BlockIds
  <2>9. ASSUME NEW c \in X
        PROVE  \/ \E k \in 1..Len(values) : B.ssas[values[k]].block = c
               \/ c # 1 /\ Preds(B, c) \subseteq X
    <3>1. CASE c = D
      <4>1. Len(own) + 1 \in 1..Len(values) BY <1>6, <2>3
      <4> QED BY <2>2, <2>3, <3>1, <4>1
    <3>2. CASE c # D
      <4>1. c \in BlockIds(B) /\ c >= J /\ J \in Nat /\ J # 0 BY <1>1, <2>8, <3>2
      <4>2. c # 1 BY <1>7, <2>8, <4>1
      <4>3. \A p \in Preds(B, c) : p = D \/ p >= J BY <4>1, Zenon DEF Region
      <4>4. Preds(B, c) \subseteq BlockIds(B) \ Unstarted(B) BY <4>1, PredsStarted
      <4> QED BY <4>2, <4>3, <4>4
    <3> QED BY <3>1, <3>2
  <2>10. J \in X
    <3>1. J >= J BY <1>1, <2>8
    <3> QED BY <1>2, <3>1
  <2> HIDE DEF X
  <2>11. Crosses(B, values, X) BY <2>7, <2>9, <2>10, Zenon DEF Crosses
  <2>12. values # <<>> BY <2>3, <2>4
  <2> QED BY <2>3, <2>4, <2>5, <2>11, <2>12 DEF Fusible
<1> QED BY <1>10, <1>11

\* B is in the join J of the region of D.
InJoin(B, L, T, D, J) == Steady(B, L, T) /\ Region(B, D, J) /\ B.current_block = J

\* The call has failed with an allowed message, or the join goes on.
Fusing(L, T, D, J, r) ==
    Allowed(r) /\ (r.fault = NoFault => \E E : r = machine(E, L, T) /\ InJoin(E, L, T, D, J))

LEMMA FuseDecent ==
    ASSUME NEW B, NEW L, NEW T, NEW D, NEW J, InJoin(B, L, T, D, J), NEW sym \in Symbols,
           NEW values \in Seq(SsaIds(B)), values # <<>>,
           \A k \in 1..Len(values) : ~ has_flag(B.ssas[values[k]], "no_value"),
           NEW X, Crosses(B, values, X),
           NEW r, r = Fuse(machine(B, L, T), sym, values)
    PROVE  Fusing(L, T, D, J, r)
<1> DEFINE P == PhiOf(B, values)
           F == add_final_value(P, sym, last_ssa(P))
           C == Then(P, F)
<1>1. /\ Steady(B, L, T) /\ Region(B, D, J) /\ B.current_block = J
      /\ Running(B, L, T) /\ Code(B) /\ Proper(B) /\ Sits(B, T) /\ Len(T) <= MaxTasks
      /\ Len(B.ssas) \in Nat
  BY SteadyTyped, RunningTyped DEF InJoin
<1>2. r = Ir(machine(B, L, T), C)
  <2> DEFINE m == machine(B, L, T)
  <2>1. m.ir = B BY MachineFields
  <2> HIDE DEF m
  <2> QED BY <2>1, Zenon DEF Fuse, m
<1>3. values \in Seq(Nat) /\ \A k \in 1..Len(values) : values[k] \in SsaIds(B)
  <2>1. SsaIds(B) \subseteq Nat BY <1>1 DEF SsaIds
  <2> QED BY <2>1
<1>4. P = PhiOf(B, values) /\ F = add_final_value(P, sym, last_ssa(P)) /\ C = Then(P, F) OBVIOUS
<1> HIDE DEF P, F, C
<1>5. Allowed(P) BY <1>1, <1>3, <1>4, PhiOfWrites, Zenon
<1>6. Allowed(C)
  <2>1. Allowed(F) BY <1>4, <1>5, add_final_valueAllows
  <2> QED BY <1>4, <1>5, <2>1, ThenAllows
<1>7. Allowed(r) BY <1>2, <1>6, MachineAllowed, CallsAllow
<1>8. ASSUME r.fault = NoFault PROVE r = machine(F, L, T) /\ InJoin(F, L, T, D, J)
  <2>1. C.fault = NoFault /\ r = machine(C, L, T) BY <1>2, <1>8, IrCall
  <2>2. P.fault = NoFault /\ C = F /\ F.fault = NoFault
    <3>1. Then(P, F).fault = NoFault BY <1>4, <2>1
    <3>2. P.fault = NoFault /\ Then(P, F) = F BY <3>1, ThenPasses, Zenon
    <3> QED BY <1>4, <3>1, <3>2
  <2>3. PICK i : i.op = "phi" /\ i.flags = {} /\ i.block = B.current_block /\ Emitted(B, i, P)
    BY <1>1, <1>3, <1>4, <2>2, PhiOfPasses, Zenon
  <2>4. ~ has_flag(i, "no_value") BY <2>3 DEF has_flag
  <2>5. Running(P, L, T) BY <1>1, <2>3, <2>4, EmittedRunning
  <2>6. Proper(P) /\ Carried(B, P) BY <1>1, <1>4, <2>2, PhiProper
  <2>7. P.current_block = J /\ P.current_block # NULL /\ Code(P) BY <1>1, <2>3, <2>5, RunningTyped DEF Emitted
  <2>8. ValueOf(P, P.current_block, last_ssa(P))
    <3>1. /\ P.current_block = B.current_block /\ Len(P.ssas) = Len(B.ssas) + 1
          /\ P.ssas[Len(P.ssas)] = i
      BY <2>3 DEF Emitted
    <3>2. Len(P.ssas) \in SsaIds(P) BY <1>1, <3>1 DEF SsaIds
    <3> QED BY <2>3, <2>4, <3>1, <3>2 DEF ValueOf, last_ssa
  <2>9. Running(F, L, T) BY <1>4, <2>2, <2>5, <2>8, FinalRuns
  <2>10. Proper(F) /\ Carried(P, F) BY <1>4, <2>2, <2>6, <2>7, <2>8, FinalProper
  <2>11. F.current_block = J
    <3>1. SameMode(P, F) BY <1>4, <2>2, <2>7, <2>8, add_final_valuePasses
    <3> QED BY <2>7, <3>1 DEF SameMode
  <2>12. Carried(B, F) BY <2>6, <2>10, CarriedOn
  <2>13. Sits(F, T) BY <1>1, <2>12, SitsCarried
  <2>14. Region(F, D, J) BY <1>1, <2>12, Zenon DEF Carried
  <2> QED BY <1>1, <2>1, <2>2, <2>9, <2>10, <2>11, <2>13, <2>14 DEF InJoin, Steady
<1> QED BY <1>7, <1>8, Zenon DEF Fusing

LEMMA FuseSymbolDecent ==
    ASSUME NEW B, NEW L, NEW T, NEW D, NEW J, InJoin(B, L, T, D, J), NEW sym \in Symbols,
           NEW r, r = FuseSymbol(machine(B, L, T), sym, D, J)
    PROVE  Fusing(L, T, D, J, r)
<1> DEFINE m == machine(B, L, T)
           predecessors == B.blocks[J].predecessors
           own == FinalValues(B, predecessors, sym)
           to_fuse == Reaching(B, own, predecessors, D, sym)
           next == Fuse(m, sym, to_fuse)
           known == Len(own) = Len(predecessors) \/ try_get(B.blocks[D], sym)
           fits == Len(to_fuse) <= MaxFuse
           failed == [m EXCEPT !.fault = "dominator->final_values.try_get(sym, &to_fuse)"]
<1>1. m.ir = B /\ m.fault = NoFault /\ Allowed(m) BY MachineFields, MachineAllowed
<1>2. r = IF own = <<>> THEN m
          ELSE Checked(m, known, "dominator->final_values.try_get(sym, &to_fuse)",
               Checked(m, fits, "fuse full", next))
  BY <1>1, Zenon DEF FuseSymbol
<1>3. /\ Steady(B, L, T) /\ Region(B, D, J) /\ B.current_block = J /\ Code(B) /\ Entry(B)
  BY SteadyTyped, Zenon DEF InJoin, Proper
<1>4. Fusing(L, T, D, J, m)
  <2>1. m = machine(B, L, T) OBVIOUS
  <2> HIDE DEF m
  <2> QED BY <1>1, <2>1, Zenon DEF Fusing
<1>5. own # <<>> /\ known => Fusible(B, to_fuse) /\ fits
  <2> SUFFICES ASSUME own # <<>>, known PROVE Fusible(B, to_fuse) /\ fits OBVIOUS
  <2>1. /\ predecessors = B.blocks[J].predecessors /\ own = FinalValues(B, predecessors, sym)
        /\ to_fuse = Reaching(B, own, predecessors, D, sym)
    OBVIOUS
  <2>2. Len(own) = Len(predecessors) \/ try_get(B.blocks[D], sym) OBVIOUS
  <2> HIDE DEF predecessors, own, to_fuse
  <2>3. Fusible(B, to_fuse) BY <1>3, <2>1, <2>2, FuseCrosses
  <2> QED BY <2>3 DEF Fusible
<1>6. next = Fuse(machine(B, L, T), sym, to_fuse) OBVIOUS
<1> HIDE DEF m, own, to_fuse, next
<1>7. CASE own = <<>>
  <2>1. r = m BY <1>2, <1>7
  <2> QED BY <1>4, <2>1
<1>8. CASE own # <<>> /\ known
  <2>1. r = next BY <1>1, <1>2, <1>5, <1>8, Zenon DEF Checked, Then
  <2>2. PICK X : Crosses(B, to_fuse, X) BY <1>5, <1>8 DEF Fusible
  <2>3. Fusing(L, T, D, J, next) BY <1>5, <1>6, <1>8, <2>2, FuseDecent DEF Fusible
  <2> QED BY <2>1, <2>3
<1>9. CASE own # <<>> /\ ~ known
  <2> HIDE DEF known, fits
  <2>1. r = failed BY <1>1, <1>2, <1>9, Zenon DEF Checked, Then
  <2>2. "dominator->final_values.try_get(sym, &to_fuse)" \in Refusals BY DEF Refusals
  <2>3. Decent(failed) BY <1>1, <2>2, FailDecent, Zenon
  <2>4. failed.fault # NoFault
    <3>1. "dominator->final_values.try_get(sym, &to_fuse)" # NoFault BY DEF NoFault
    <3> QED BY <3>1, MachineFails, Zenon DEF m
  <2> HIDE DEF failed
  <2> QED BY <2>1, <2>3, <2>4 DEF Decent, Fusing
<1> QED BY <1>7, <1>8, <1>9

LEMMA FuseAllDecent ==
    ASSUME NEW B, NEW L, NEW T, NEW D, NEW J, InJoin(B, L, T, D, J), NEW symbols \in Seq(Symbols),
           NEW r, r = FuseAll(machine(B, L, T), symbols, D, J)
    PROVE  Decent(r)
<1> DEFINE m == machine(B, L, T)
           n == Len(symbols)
<1>1. n \in Nat /\ \A k \in 1..n : symbols[k] \in Symbols OBVIOUS
<1>2. Fusing(L, T, D, J, m)
  <2>1. m = machine(B, L, T) /\ Allowed(m) BY MachineAllowed
  <2> HIDE DEF m
  <2> QED BY <2>1, Zenon DEF Fusing
<1>3. r = FuseAll(m, symbols, D, J) OBVIOUS
<1> HIDE DEF m
<1>4. PICK fused : FusesFrom(fused, m, symbols, D, J) BY <1>1, FuseAllUnfolds, Zenon
<1>5. /\ fused[0] = m
      /\ \A k \in 1..n : fused[k] = Then(fused[k - 1], FuseSymbol(fused[k - 1], symbols[k], D, J))
      /\ r = fused[n]
  BY <1>3, <1>4, Zenon DEF FusesFrom
<1> HIDE DEF n
<1> DEFINE K == {k \in 0..n : Fusing(L, T, D, J, fused[k])}
<1>6. 0 \in K
  <2>1. 0 \in 0..n BY <1>1
  <2> QED BY <1>2, <1>5, <2>1
<1>7. ASSUME NEW k \in 1..n, k - 1 \in K PROVE k \in K
  <2> DEFINE x == fused[k - 1]
             y == FuseSymbol(x, symbols[k], D, J)
  <2>1. fused[k] = Then(x, y) BY <1>5, Zenon
  <2>2. Fusing(L, T, D, J, x) BY <1>7, Zenon
  <2>3. k \in 0..n /\ symbols[k] \in Symbols BY <1>1
  <2>4. CASE x.fault # NoFault
    <3>1. fused[k] = x BY <2>1, <2>4, Zenon DEF Then
    <3> QED BY <2>2, <2>3, <3>1
  <2>5. CASE x.fault = NoFault
    <3>1. PICK E : x = machine(E, L, T) /\ InJoin(E, L, T, D, J) BY <2>2, <2>5, Zenon DEF Fusing
    <3>2. y = FuseSymbol(machine(E, L, T), symbols[k], D, J) BY <3>1
    <3>3. fused[k] = y BY <2>1, <2>5, Zenon DEF Then
    <3> HIDE DEF x, y
    <3>4. Fusing(L, T, D, J, y) BY <2>3, <3>1, <3>2, FuseSymbolDecent
    <3> QED BY <2>3, <3>3, <3>4
  <2> QED BY <2>4, <2>5
<1>8. n \in K
  <2> HIDE DEF K
  <2>1. \A k \in 0..n : k \in K BY <1>1, <1>6, <1>7, UpTo, Zenon
  <2> QED BY <1>1, <2>1
<1>9. Fusing(L, T, D, J, r) BY <1>5, <1>8
<1>10. ASSUME r.fault = NoFault PROVE Proper(r.ir) /\ Sits(r.ir, r.tasks) /\ Len(r.tasks) <= MaxTasks
  <2>1. PICK E : r = machine(E, L, T) /\ InJoin(E, L, T, D, J) BY <1>9, <1>10, Zenon DEF Fusing
  <2>2. Proper(E) /\ Sits(E, T) /\ Len(T) <= MaxTasks BY <2>1, SteadyTyped DEF InJoin
  <2> QED BY <2>1, <2>2, MachineFields
<1> QED BY <1>9, <1>10 DEF Decent, Fusing

\* With a block open there would be nothing in it, and end_block refuses that.
LEMMA EmptyCannotEnd ==
    ASSUME NEW B, Code(B), B.current_block # NULL, ~ is_not_empty(B), NEW t \in Unstarted(B),
           NEW L, NEW T, Len(T) <= MaxTasks, NEW M,
           NEW r, r = Local(Ir(machine(B, L, T), end_block(unconditional_branch(B, t))), M)
    PROVE  Allowed(r) /\ r.fault # NoFault
<1> DEFINE J == unconditional_branch(B, t)
           E == end_block(J)
           n == Ir(machine(B, L, T), E)
<1>1. J = unconditional_branch(B, t) /\ E = end_block(J) OBVIOUS
<1>2. n = Ir(machine(B, L, T), E) /\ r = Local(n, M) OBVIOUS
<1> HIDE DEF J, E, n
<1>3. J.fault = NoFault =>
        /\ Kept(B, J) /\ SameSsas(B, J) /\ SameMode(B, J)
        /\ J.blocks[B.current_block].head = B.blocks[B.current_block].head
        /\ J.blocks[B.current_block].br # "UNUSED"
  BY <1>1, unconditional_branchPasses
<1>4. Allowed(E)
  <2>1. Allowed(J) BY <1>1, CodeAllows, unconditional_branchAllows
  <2>2. J.fault = NoFault => J.current_block # NULL /\ J.blocks[J.current_block].br # "UNUSED"
    BY <1>3 DEF SameMode
  <2> QED BY <1>1, <2>1, <2>2, end_blockAllows
<1>5. E.fault # NoFault
  <2> SUFFICES ASSUME E.fault = NoFault PROVE FALSE OBVIOUS
  <2>1. J.fault = NoFault BY <1>1, StillFailed
  <2>2. is_not_empty(J) BY <1>1, <1>3, <2>1, end_blockPasses DEF Kept
  <2> QED BY <1>3, <2>1, <2>2 DEF is_not_empty, SameSsas, SameMode
<1>6. Allowed(n) BY <1>2, <1>4, MachineAllowed, CallsAllow
<1>7. n.fault # NoFault BY <1>2, <1>5, IrCall
<1>8. r = n BY <1>2, <1>7, Zenon DEF Local, Then
<1> QED BY <1>6, <1>7, <1>8

LEMMA emit_stmt_ifs_mergeDecent ==
    ASSUME NEW B, NEW L, NEW T \in Seq(Task), NEW t \in Task, Merging(t), Good(B, L, Append(T, t)),
           Proper(B), Sits(B, Append(T, t)), Len(T) <= MaxTasks,
           NEW r, r = emit_stmt_ifs_merge(machine(B, L, T), t)
    PROVE  Decent(r)
<1> DEFINE m == machine(B, L, T)
           merge == t.merge_block
           no_else == Local(Ir(m, end_block(unconditional_branch(m.ir, merge))), end_scope(m.locals))
           m1 == IF m.ir.current_block # NULL THEN no_else ELSE m
           m2 == Then(m1, Ir(m1, start_block(m1.ir, merge, m1.locals.current_scope)))
           scope == m2.locals.current_scope
           ok1 == m2.ir.blocks[t.arg1].scope = scope
           ok2 == m2.ir.blocks[merge].scope = scope
           next == FuseAll(m2, VisibleSymbols(m2.locals), t.arg1, merge)
           checked == Checked(m2, ok2, "merge_block->scope == current_scope", next)
<1>1. m.ir = B /\ m.locals = L /\ m.fault = NoFault BY MachineFields
<1>2. r = Checked(m2, ok1, "dominator->scope == current_scope", checked)
  BY Zenon DEF emit_stmt_ifs_merge
<1>3. /\ t.func = "emit_stmt_ifs" /\ t.step = STEP_MERGE /\ ~ ClosesScope(t) /\ Opens(t) = merge
      /\ ~ IsArm(t) /\ ~ ClosesArm(t) /\ UnderArm(t)
  BY DEF Merging, Is, ClosesScope, ClosesArm, IsArm, Opens, UnderArm,
         STEP_MERGE, STEP_AFTER_CONDITION, STEP_AFTER_STATEMENT
<1>4. /\ Code(B) /\ Scoped(L) /\ Stacked(B, T, {merge}) /\ Shaped(B, t) /\ Above(T, t)
      /\ merge # NULL => merge \in Unstarted(B)
      /\ NoneEvaluating(T) /\ Cardinality(Closers(T)) \in Nat
      /\ Depth(L) = Cardinality(Closers(T)) + 1
      /\ B.current_block # NULL => ~ is_not_empty(B)
  BY <1>3, TaskPopped, Zenon
<1>5. t.arg1 \in BlockIds(B) /\ merge # NULL /\ merge \in Unstarted(B)
  BY <1>3, <1>4 DEF Shaped, IsArm, ClosesArm, Is, STEP_MERGE, STEP_AFTER_CONDITION, STEP_AFTER_STATEMENT
<1>6. Sits(B, T) /\ JoinsUpTo(T, merge) /\ Region(B, t.arg1, merge)
  <2>1. Fits(B, T, t) BY SitsPopped
  <2> QED BY <1>5, <2>1, ArmFits DEF Fits
<1>7. m2 = Then(m1, Ir(m1, start_block(m1.ir, merge, m1.locals.current_scope))) OBVIOUS
<1>8. \/ B.current_block # NULL /\ m1 = Local(Ir(machine(B, L, T), end_block(unconditional_branch(B, merge))), end_scope(L))
      \/ B.current_block = NULL /\ m1 = machine(B, L, T)
  BY <1>1
<1>9. /\ ok1 <=> m2.ir.blocks[t.arg1].scope = m2.locals.current_scope
      /\ ok2 <=> m2.ir.blocks[merge].scope = m2.locals.current_scope
      /\ next = FuseAll(m2, VisibleSymbols(m2.locals), t.arg1, merge)
      /\ checked = Checked(m2, ok2, "merge_block->scope == current_scope", next)
  OBVIOUS
<1> HIDE DEF m, m1, m2, ok1, ok2, next, checked
<1>10. CASE B.current_block # NULL
  <2>1. m1 = Local(Ir(machine(B, L, T), end_block(unconditional_branch(B, merge))), end_scope(L))
    BY <1>8, <1>10
  <2> DEFINE M == end_scope(L)
  <2>2. m1 = Local(Ir(machine(B, L, T), end_block(unconditional_branch(B, merge))), M) BY <2>1
  <2> HIDE DEF M
  <2>3. Allowed(m1) /\ m1.fault # NoFault BY <1>4, <1>5, <1>10, <2>2, EmptyCannotEnd
  <2>4. m2 = m1 BY <1>7, <2>3, Zenon DEF Then
  <2>5. Allowed(m2) /\ m2.fault # NoFault BY <2>3, <2>4
  <2>6. r = m2 BY <1>2, <2>5, Zenon DEF Checked, Then
  <2> QED BY <2>5, <2>6, FailedStays
<1>11. CASE B.current_block = NULL
  <2> DEFINE C == start_block(B, merge, L.current_scope)
  <2>1. m1 = machine(B, L, T) BY <1>8, <1>11
  <2>2. m2 = Ir(machine(B, L, T), C)
    <3>1. m1.ir = B /\ m1.locals = L /\ m1.fault = NoFault BY <2>1, MachineFields
    <3>2. m2 = Ir(m1, start_block(m1.ir, merge, m1.locals.current_scope))
      BY <1>7, <3>1, Zenon DEF Then
    <3> QED BY <2>1, <3>1, <3>2
  <2>3. C = start_block(B, merge, L.current_scope) OBVIOUS
  <2> HIDE DEF C
  <2>4. L.current_scope \in Nat BY <1>4, ScopedTyped
  <2>5. Allowed(m2)
    <3>1. Allowed(C) BY <1>4, <1>5, <1>11, <2>3, CodeAllows, start_blockAllows
    <3> QED BY <2>2, <3>1, MachineAllowed, CallsAllow
  <2>6. CASE m2.fault = NoFault
    <3>1. C.fault = NoFault /\ m2 = machine(C, L, T) BY <2>2, <2>6, IrCall
    <3>2. /\ Code(C) /\ Follows(B, C) /\ C.current_block = merge
          /\ BlockIds(C) = BlockIds(B) /\ Unstarted(C) = Unstarted(B) \ {merge}
          /\ C.blocks[merge].scope = L.current_scope
      BY <1>4, <1>5, <2>3, <2>4, <3>1, start_blockPasses
    <3>3. Running(C, L, T)
      <4>1. Stacked(C, T, {})
        <5>1. Unstarted(C) \ {} = Unstarted(B) \ {merge} BY <3>2
        <5> QED BY <1>4, <3>2, <5>1, KeptStack
      <4>2. Values(C, T) BY <1>4 DEF Values, NoneEvaluating
      <4>3. Plain(T) BY <1>3, <1>4 DEF Plain, Above
      <4>4. Balanced(L, T) BY <1>4 DEF Balanced
      <4> QED BY <1>4, <1>5, <3>2, <4>1, <4>2, <4>3, <4>4 DEF Running
    <3>4. Proper(C) /\ CarriedTo(B, C, merge)
      BY <1>4, <1>5, <2>3, <2>4, <3>1, start_blockProper
    <3>5. Sits(C, T) BY <1>6, <3>4, SitsOpened
    <3>6. Region(C, t.arg1, merge)
      <4>1. merge <= merge BY DEF Task
      <4> QED BY <1>6, <3>4, <4>1, Zenon DEF CarriedTo
    <3>7. InJoin(C, L, T, t.arg1, merge) BY <3>2, <3>3, <3>4, <3>5, <3>6 DEF InJoin, Steady
    <3>8. m2.ir = C /\ m2.locals = L BY <3>1, MachineFields
    <3>9. ok2 BY <1>9, <3>2, <3>8
    <3>10. next = FuseAll(machine(C, L, T), VisibleSymbols(L), t.arg1, merge) BY <1>9, <3>1, <3>8
    <3>11. VisibleSymbols(L) \in Seq(Symbols) BY <1>4, VisibleAreSymbols
    <3>12. Decent(next) BY <3>7, <3>10, <3>11, FuseAllDecent
    <3>13. Decent(checked) BY <1>9, <2>5, <3>9, <3>12, CheckedDecent, Zenon
    <3>14. "dominator->scope == current_scope" \in Refusals BY DEF Refusals
    <3> QED BY <1>2, <2>5, <3>13, <3>14, CheckedDecent, Zenon
  <2>7. CASE m2.fault # NoFault
    <3>1. r = m2 BY <1>2, <2>7, Zenon DEF Checked, Then
    <3> QED BY <2>5, <2>7, <3>1, FailedStays
  <2> QED BY <2>6, <2>7
<1> QED BY <1>10, <1>11

-----------------------------------------------------------------------------
(***************************************************************************)
(* The whole machine.                                                      *)
(***************************************************************************)

\* What EmitInv leaves open: no failure but a refusal, and code that keeps what
\* it promises.
EmitSafe ==
    /\ Proper(ir) /\ Sits(ir, tasks) /\ Len(tasks) <= MaxTasks
    /\ fault \in Refusals \cup {NoFault}
    /\ emitted \in BOOLEAN
    /\ emitted /\ fault = NoFault => ir.current_block = NULL

LEMMA PoppedSafe ==
    ASSUME EmitInv, EmitSafe, fault = NoFault, tasks # <<>>
    PROVE  /\ Proper(ir) /\ Sits(ir, Append(Front(tasks), Top)) /\ Sits(ir, Front(tasks))
           /\ Len(Front(tasks)) <= MaxTasks
<1>1. tasks \in Seq(Task) BY DEF EmitInv, Stacked
<1> DEFINE T == Front(tasks)
           t == Top
<1>2. T \in Seq(Task) /\ t \in Task /\ tasks = Append(T, t) BY <1>1, TopOfStack DEF Top
<1> HIDE DEF T, t
<1>3. Proper(ir) /\ Sits(ir, Append(T, t)) /\ Len(Append(T, t)) <= MaxTasks
  BY <1>2 DEF EmitSafe
<1>4. Sits(ir, T) BY <1>2, <1>3, SitsPopped
<1>5. Len(T) <= MaxTasks
  <2>1. MaxTasks \in Nat BY EmitBounds
  <2> QED BY <1>2, <1>3, <2>1
<1> QED BY <1>3, <1>4, <1>5 DEF T, t

LEMMA BecomeSafe ==
    ASSUME EmitSafe, ~ emitted, emitted' = emitted, NEW STATE m, Decent(m), Become(m)
    PROVE  EmitSafe'
<1>1. fault' = m.fault /\ m.fault \in Refusals \cup {NoFault} BY DEF Become, Decent, Allowed
<1>2. CASE m.fault = NoFault
  <2>1. ir' = m.ir /\ locals' = m.locals /\ tasks' = m.tasks BY <1>2 DEF Become
  <2>2. Proper(m.ir) /\ Sits(m.ir, m.tasks) /\ Len(m.tasks) <= MaxTasks BY <1>2 DEF Decent
  <2>3. Proper(ir') /\ Sits(ir', tasks') /\ Len(tasks') <= MaxTasks BY <2>1, <2>2
  <2> QED BY <1>1, <2>3, Zenon DEF EmitSafe
<1>3. CASE m.fault # NoFault
  <2>1. ir' = ir /\ locals' = locals /\ tasks' = tasks BY <1>3 DEF Become
  <2> QED BY <1>1, <2>1, Zenon DEF EmitSafe
<1> QED BY <1>2, <1>3

LEMMA EndEmitSafe ==
    ASSUME EmitInv, EmitSafe, EndEmit
    PROVE  EmitSafe'
<1> DEFINE B == IF current(Machine).br = "UNUSED" THEN ret(ir, NULL) ELSE ir
           C == end_block(B)
           m == IF ir.current_block # NULL THEN Ir(Machine, C) ELSE Machine
           n == ir.current_block
<1>1. fault = NoFault /\ tasks = <<>> /\ ~ emitted /\ Become(m) /\ emitted' = TRUE
  BY Zenon DEF EndEmit
<1>2. Machine = machine(ir, locals, tasks) BY <1>1 DEF Machine, machine
<1>3. Code(ir) /\ n # NULL BY <1>1 DEF EmitInv, Ready
<1>4. Proper(ir) /\ Len(tasks) <= MaxTasks BY DEF EmitSafe
<1>5. m = Ir(machine(ir, locals, tasks), C) BY <1>2, <1>3
<1>6. current(Machine) = ir.blocks[n] BY <1>2, MachineFields DEF current
<1>7. /\ Allowed(B)
      /\ B.fault = NoFault => /\ Code(B) /\ Proper(B) /\ B.current_block # NULL
                              /\ B.blocks[B.current_block].br # "UNUSED"
  <2>1. CASE ir.blocks[n].br = "UNUSED"
    <3>1. B = ret(ir, NULL) BY <1>6, <2>1
    <3> HIDE DEF B
    <3>2. Allowed(B) BY <1>3, <3>1, CodeAllows, retAllows
    <3>3. ASSUME B.fault = NoFault
          PROVE  /\ Code(B) /\ Proper(B) /\ B.current_block # NULL
                 /\ B.blocks[B.current_block].br # "UNUSED"
      <4> DEFINE i == instruction(ir, "ret", {"no_value"}, NULL, NULL)
      <4>1. NULL \in Nat BY DEF NULL
      <4>2. Emitted(ir, i, B) BY <1>3, <3>1, <3>3, <4>1, retPasses, Zenon
      <4>3. Proper(B) BY <1>3, <1>4, <3>1, <3>3, <4>1, retProper, Zenon
      <4>4. i.op = "ret" /\ i.block = n BY DEF instruction
      <4> HIDE DEF i
      <4>5. /\ Code(B) /\ B.current_block = n /\ Len(B.ssas) \in SsaIds(B) /\ B.ssas[Len(B.ssas)] = i
        <5>1. Code(B) /\ B.current_block = n /\ Len(B.ssas) = Len(ir.ssas) + 1
              /\ B.ssas[Len(B.ssas)] = i
          BY <4>2 DEF Emitted
        <5>2. Len(ir.ssas) \in Nat BY <1>3, CodeTyped
        <5> QED BY <5>1, <5>2 DEF SsaIds
      <4>6. B.blocks[n].br = "unconditional" BY <4>3, <4>4, <4>5, Zenon DEF Proper, Returns
      <4> QED BY <1>3, <4>3, <4>5, <4>6
    <3> QED BY <3>2, <3>3
  <2>2. CASE ir.blocks[n].br # "UNUSED"
    <3>1. B = ir BY <1>6, <2>2
    <3> HIDE DEF B
    <3> QED BY <1>3, <1>4, <2>2, <3>1, CodeAllows
  <2> QED BY <2>1, <2>2
<1>8. C = end_block(B) OBVIOUS
<1> HIDE DEF m, B, C
<1>9. Allowed(C) BY <1>7, <1>8, end_blockAllows
<1>10. Allowed(m) BY <1>5, <1>9, MachineAllowed, CallsAllow
<1>11. /\ fault' = m.fault /\ m.fault \in Refusals \cup {NoFault} /\ emitted' \in BOOLEAN
  BY <1>1, <1>10 DEF Become, Allowed
<1>12. CASE m.fault = NoFault
  <2>1. C.fault = NoFault /\ m = machine(C, locals, tasks) BY <1>5, <1>12, IrCall
  <2>2. ir' = C /\ tasks' = tasks
    <3>1. ir' = m.ir /\ tasks' = m.tasks BY <1>1, <1>12 DEF Become
    <3> QED BY <2>1, <3>1, MachineFields
  <2>3. B.fault = NoFault BY <1>8, <2>1, StillFailed
  <2>4. Proper(C) /\ C.current_block = NULL BY <1>7, <1>8, <2>1, <2>3, end_blockProper
  <2>5. Sits(C, tasks) BY <1>1 DEF Sits
  <2> QED BY <1>4, <1>11, <2>2, <2>4, <2>5, Zenon DEF EmitSafe
<1>13. CASE m.fault # NoFault
  <2>1. ir' = ir /\ tasks' = tasks BY <1>1, <1>13, Zenon DEF Become
  <2> QED BY <1>11, <1>13, <2>1, Zenon DEF EmitSafe
<1> QED BY <1>12, <1>13

LEMMA NextSafe == EmitInv /\ EmitSafe /\ [Next]_vars => EmitSafe'
<1> SUFFICES ASSUME EmitInv, EmitSafe, [Next]_vars PROVE EmitSafe'
  OBVIOUS
<1> DEFINE T == Front(tasks)
           t == Top
\* Each of the other handlers is run with the task on top taken off.
<1>1. ASSUME NEW func, NEW step, Popping(func, step)
      PROVE  /\ ~ emitted /\ emitted' = emitted /\ T \in Seq(Task) /\ t \in Task
             /\ Good(ir, locals, Append(T, t)) /\ Popped = machine(ir, locals, T)
             /\ Is(t, func, step)
             /\ Proper(ir) /\ Sits(ir, Append(T, t)) /\ Sits(ir, T) /\ Len(T) <= MaxTasks
  <2>1. fault = NoFault /\ tasks # <<>> /\ Is(Top, func, step) /\ emitted' = emitted
    BY <1>1, Zenon DEF Popping, Is
  <2> QED BY <2>1, PoppedMachine, PoppedSafe
<1>2. ASSUME NEW func, NEW step, Popping(func, step),
             func \notin {"emit_stmt_ifs", "emit_stmt_block"}
      PROVE  /\ Steady(ir, locals, T) /\ Shaped(ir, t) /\ t.func = func /\ t.step = step
             /\ func # "emit_exp_binary" => NoneEvaluating(T)
             /\ Evaluating(t) => ValuesSince(ir, t)
  <2>1. /\ T \in Seq(Task) /\ t \in Task /\ Good(ir, locals, Append(T, t))
        /\ t.func = func /\ t.step = step
    BY <1>1, <1>2, Zenon DEF Is
  <2>2. Simple(t) BY <1>2, <2>1 DEF Simple
  <2> HIDE DEF T, t
  <2>3. /\ Running(ir, locals, T) /\ Shaped(ir, t)
        /\ t.func # "emit_exp_binary" => NoneEvaluating(T)
        /\ Evaluating(t) => ValuesSince(ir, t)
    BY <2>1, <2>2, SimplePopped, Zenon
  <2>4. Proper(ir) /\ Sits(ir, T) /\ Len(T) <= MaxTasks BY <1>1, <1>2 DEF T
  <2>5. Steady(ir, locals, T) BY <2>3, <2>4 DEF Steady
  <2> QED BY <2>1, <2>3, <2>5
<1>3. ASSUME NEW func, NEW step, Popping(func, step), NEW STATE m, Decent(m), Become(m)
      PROVE  EmitSafe'
  BY <1>1, <1>3, BecomeSafe, Zenon
<1>5. CASE EmitStmt
  <2> DEFINE m == emit_stmt(Popped, t.node)
  <2>1. Popping("emit_stmt", 0) /\ Become(m) BY <1>5, Zenon DEF EmitStmt
  <2>2. /\ Steady(ir, locals, T) /\ Shaped(ir, t) /\ t.func = "emit_stmt" /\ t.step = 0
        /\ NoneEvaluating(T) /\ Popped = machine(ir, locals, T)
    BY <1>1, <1>2, <2>1
  <2>3. t.node \in Stmts
    BY <2>2 DEF Shaped, Is, IsArm, ClosesArm, Merging
  <2>4. Decent(m) BY <2>2, <2>3, emit_stmtDecent
  <2> HIDE DEF m
  <2> QED BY <1>3, <2>1, <2>4, Zenon
<1>6. CASE EmitExp
  <2> DEFINE m == emit_exp(Popped, t.node, "READ", NULL)
  <2>1. Popping("emit_exp", 0) /\ Become(m) BY <1>6, Zenon DEF EmitExp
  <2>2. /\ Steady(ir, locals, T) /\ Shaped(ir, t) /\ t.func = "emit_exp" /\ t.step = 0
        /\ Popped = machine(ir, locals, T)
    BY <1>1, <1>2, <2>1
  <2>3. t.node \in AnyExp BY <2>2 DEF Shaped, Is, IsArm, ClosesArm, Merging
  <2>4. Decent(m) BY <2>2, <2>3, emit_expDecent
  <2> HIDE DEF m
  <2> QED BY <1>3, <2>1, <2>4, Zenon
<1>7. CASE BinaryRight
  <2> DEFINE m == emit_exp_binary_1(Popped, t)
  <2>1. Popping("emit_exp_binary", 1) /\ Become(m) BY <1>7, Zenon DEF BinaryRight
  <2>2. /\ Steady(ir, locals, T) /\ Shaped(ir, t) /\ t.func = "emit_exp_binary" /\ t \in Task
        /\ Evaluating(t) => ValuesSince(ir, t)
        /\ Popped = machine(ir, locals, T)
    BY <1>1, <1>2, <2>1
  <2>3. ValuesSince(ir, t) BY <2>2 DEF Evaluating
  <2>4. t.node \in AnyExp /\ t.node.kind = "exp_binary"
    BY <2>2 DEF Shaped, Is, IsArm, ClosesArm, Merging
  <2>5. Decent(m) BY <2>2, <2>3, <2>4, emit_exp_binary_1Decent
  <2> HIDE DEF m
  <2> QED BY <1>3, <2>1, <2>5, Zenon
<1>8. CASE BinaryDone
  <2> DEFINE m == emit_exp_binary_2(Popped, t)
  <2>1. Popping("emit_exp_binary", 2) /\ Become(m) BY <1>8, Zenon DEF BinaryDone
  <2>2. /\ Steady(ir, locals, T) /\ t.func = "emit_exp_binary" /\ t.step = 2 /\ t \in Task
        /\ Evaluating(t) => ValuesSince(ir, t)
        /\ Popped = machine(ir, locals, T)
    BY <1>1, <1>2, <2>1
  <2>3. ValuesSince(ir, t) BY <2>2 DEF Evaluating
  <2>4. Decent(m) BY <2>2, <2>3, emit_exp_binary_2Decent
  <2> HIDE DEF m
  <2> QED BY <1>3, <2>1, <2>4, Zenon
<1>9. CASE AssignDone
  <2> DEFINE m == emit_stmt_assign_1(Popped, t)
  <2>1. Popping("emit_stmt_assign", 1) /\ Become(m) BY <1>9, Zenon DEF AssignDone
  <2>2. /\ Steady(ir, locals, T) /\ Shaped(ir, t) /\ t.func = "emit_stmt_assign" /\ t \in Task
        /\ Evaluating(t) => ValuesSince(ir, t)
        /\ Popped = machine(ir, locals, T)
    BY <1>1, <1>2, <2>1
  <2>3. ValuesSince(ir, t) BY <2>2 DEF Evaluating
  <2>4. t.node \in Stmts /\ t.node.kind = "stmt_assign"
    BY <2>2 DEF Shaped, Is, IsArm, ClosesArm, Merging
  <2>5. Decent(m) BY <2>2, <2>3, <2>4, emit_stmt_assign_1Decent
  <2> HIDE DEF m
  <2> QED BY <1>3, <2>1, <2>5, Zenon
<1>10. CASE DeclDone
  <2> DEFINE m == emit_stmt_local_decl_1(Popped, t)
  <2>1. Popping("emit_stmt_local_decl", 1) /\ Become(m) BY <1>10, Zenon DEF DeclDone
  <2>2. /\ Steady(ir, locals, T) /\ t.func = "emit_stmt_local_decl" /\ t \in Task
        /\ Evaluating(t) => ValuesSince(ir, t)
        /\ Popped = machine(ir, locals, T)
    BY <1>1, <1>2, <2>1
  <2>3. ValuesSince(ir, t) BY <2>2 DEF Evaluating
  <2>4. Decent(m) BY <2>2, <2>3, emit_stmt_local_decl_1Decent
  <2> HIDE DEF m
  <2> QED BY <1>3, <2>1, <2>4, Zenon
<1>11. CASE ReturnDone
  <2> DEFINE m == emit_stmt_return_1(Popped, t)
  <2>1. Popping("emit_stmt_return", 1) /\ Become(m) BY <1>11, Zenon DEF ReturnDone
  <2>2. /\ Steady(ir, locals, T) /\ t.func = "emit_stmt_return" /\ t \in Task
        /\ Evaluating(t) => ValuesSince(ir, t)
        /\ NoneEvaluating(T) /\ Popped = machine(ir, locals, T)
    BY <1>1, <1>2, <2>1
  <2>3. ValuesSince(ir, t) BY <2>2 DEF Evaluating
  <2>4. Decent(m) BY <2>2, <2>3, emit_stmt_return_1Decent
  <2> HIDE DEF m
  <2> QED BY <1>3, <2>1, <2>4, Zenon
<1>12. CASE BlockDone
  <2> DEFINE m == emit_stmt_block_1(Popped)
  <2>1. Popping("emit_stmt_block", 1) /\ Become(m) BY <1>12, Zenon DEF BlockDone
  <2>2. /\ T \in Seq(Task) /\ t \in Task /\ Good(ir, locals, Append(T, t))
        /\ Proper(ir) /\ Sits(ir, Append(T, t)) /\ Sits(ir, T) /\ Len(T) <= MaxTasks
        /\ Is(t, "emit_stmt_block", 1) /\ Popped = machine(ir, locals, T)
    BY <1>1, <2>1
  <2>3. Decent(m) BY <2>2, emit_stmt_block_1Decent
  <2> HIDE DEF m
  <2> QED BY <1>3, <2>1, <2>3, Zenon
<1>13. CASE IfsAfterCondition
  <2> DEFINE m == emit_stmt_ifs_after_condition(Popped, t)
  <2>1. Popping("emit_stmt_ifs", STEP_AFTER_CONDITION) /\ Become(m)
    BY <1>13, Zenon DEF IfsAfterCondition
  <2>2. /\ T \in Seq(Task) /\ t \in Task /\ Good(ir, locals, Append(T, t))
        /\ Proper(ir) /\ Sits(ir, Append(T, t)) /\ Sits(ir, T) /\ Len(T) <= MaxTasks
        /\ IsArm(t) /\ Popped = machine(ir, locals, T)
    BY <1>1, <2>1 DEF IsArm
  <2>3. Decent(m) BY <2>2, emit_stmt_ifs_after_conditionDecent
  <2> HIDE DEF m
  <2> QED BY <1>3, <2>1, <2>3, Zenon
<1>14. CASE IfsAfterStatement
  <2> DEFINE m == emit_stmt_ifs_after_statement(Popped, t)
  <2>1. Popping("emit_stmt_ifs", STEP_AFTER_STATEMENT) /\ Become(m)
    BY <1>14, Zenon DEF IfsAfterStatement
  <2>2. /\ T \in Seq(Task) /\ t \in Task /\ Good(ir, locals, Append(T, t))
        /\ Proper(ir) /\ Sits(ir, Append(T, t)) /\ Sits(ir, T) /\ Len(T) <= MaxTasks
        /\ ClosesArm(t) /\ Popped = machine(ir, locals, T)
    BY <1>1, <2>1 DEF ClosesArm
  <2>3. Decent(m) BY <2>2, emit_stmt_ifs_after_statementDecent
  <2> HIDE DEF m
  <2> QED BY <1>3, <2>1, <2>3, Zenon
<1>15. CASE IfsMerge
  <2> DEFINE m == emit_stmt_ifs_merge(Popped, t)
  <2>1. Popping("emit_stmt_ifs", STEP_MERGE) /\ Become(m) BY <1>15, Zenon DEF IfsMerge
  <2>2. /\ T \in Seq(Task) /\ t \in Task /\ Good(ir, locals, Append(T, t))
        /\ Proper(ir) /\ Sits(ir, Append(T, t)) /\ Sits(ir, T) /\ Len(T) <= MaxTasks
        /\ Merging(t) /\ Popped = machine(ir, locals, T)
    BY <1>1, <2>1 DEF Merging
  <2>3. Decent(m) BY <2>2, emit_stmt_ifs_mergeDecent
  <2> HIDE DEF m
  <2> QED BY <1>3, <2>1, <2>3, Zenon
<1>16. CASE EndEmit BY <1>16, EndEmitSafe
<1>17. CASE Exited \/ UNCHANGED vars
  <2>1. /\ ir' = ir /\ locals' = locals /\ tasks' = tasks /\ emitted' = emitted
        /\ fault' = fault
    BY <1>17 DEF Exited, vars
  <2> QED BY <2>1, Zenon DEF EmitSafe
<1> QED BY <1>5, <1>6, <1>7, <1>8, <1>9, <1>10, <1>11, <1>12, <1>13, <1>14, <1>15,
           <1>16, <1>17 DEF Next, EmitNext

\* The entry block, started before anything is emitted, has no predecessors,
\* and so nothing that the emitter does later adds one.
LEMMA InitSafe == Init => EmitSafe
<1> SUFFICES ASSUME Init PROVE EmitSafe
  OBVIOUS
<1> DEFINE A == alloc_block(NewBuilder)
           scope == NewSymbolTable.current_scope
           C == start_block(A, 1, scope)
           t == StatementTask(root)
           b == [FreshBlock EXCEPT !.br = "UNUSED", !.head = 1, !.scope = scope]
<1>1. /\ ir = C /\ tasks = <<t>> /\ fault = NoFault /\ emitted = FALSE
  BY Zenon DEF Init
<1>2. A = [NewBuilder EXCEPT !.blocks = <<FreshBlock>>]
  <2>1. /\ NewBuilder.blocks = <<>> /\ NewBuilder.fault = NoFault BY DEF NewBuilder
  <2>2. Len(NewBuilder.blocks) < MaxBlocks BY <2>1, EmitBounds, IrBounds
  <2>3. A = [NewBuilder EXCEPT !.blocks = Append(NewBuilder.blocks, FreshBlock)]
    BY <2>1, <2>2, Zenon DEF alloc_block, Checked, Then
  <2>4. Append(<<>>, FreshBlock) = <<FreshBlock>> OBVIOUS
  <2> QED BY <2>1, <2>3, <2>4, Zenon
<1>3. A.blocks = <<FreshBlock>> /\ A.ssas = <<>> /\ A.fault = NoFault /\ A.current_block = NULL
  BY <1>2, Zenon DEF NewBuilder
<1>4. A.blocks[1] = FreshBlock /\ Len(A.ssas) + 1 = 1 /\ 1 # NULL BY <1>3 DEF NULL
<1> DEFINE D == WithBlock(A, 1, [A.blocks[1] EXCEPT !.br = "UNUSED", !.head = Len(A.ssas) + 1,
                                                    !.scope = scope])
<1>5. C = WithCurrent(D, 1)
  <2>1. C = Checked(A, 1 # NULL, "block != NULL",
              Checked(A, A.current_block = NULL, "current_block == NULL", WithCurrent(D, 1)))
    BY Zenon DEF start_block
  <2> QED BY <1>3, <1>4, <2>1, Zenon DEF Checked, Then
<1>6. D.blocks = [A.blocks EXCEPT ![1] = b] /\ D.ssas = A.ssas
  <2>1. D = WithBlock(A, 1, b) BY <1>4
  <2>2. DOMAIN A = DOMAIN NewBuilder BY <1>2
  <2> HIDE DEF A, b
  <2> QED BY <2>1, <2>2 DEF WithBlock, NewBuilder
<1> HIDE DEF A, C, D
<1>7. C.blocks = [A.blocks EXCEPT ![1] = b] /\ C.ssas = <<>>
  BY <1>3, <1>5, <1>6 DEF WithCurrent
<1>8. C.blocks = <<b>>
  <2>1. A.blocks = <<FreshBlock>> BY <1>3
  <2>2. [<<FreshBlock>> EXCEPT ![1] = b] = <<b>>
    <3> HIDE DEF b
    <3> QED OBVIOUS
  <2> QED BY <1>7, <2>1, <2>2, Zenon
<1>9. b.br = "UNUSED" /\ b.head = 1 /\ b.predecessors = <<>> BY DEF FreshBlock
<1> HIDE DEF b
<1>10. /\ BlockIds(C) = {1} /\ SsaIds(C) = {} /\ C.blocks[1] = b /\ Started(b)
  <2>1. Len(C.blocks) = 1 /\ C.blocks[1] = b BY <1>8
  <2>2. Len(C.ssas) = 0 BY <1>7
  <2> QED BY <1>9, <2>1, <2>2 DEF BlockIds, SsaIds, Started, NULL
<1>11. Proper(C)
  <2>1. Entry(C) BY <1>9, <1>10 DEF Entry
  <2>2. Known(C) /\ Returns(C) /\ Phis(C) = {} BY <1>10 DEF Known, Returns, Phis
  <2>3. Tested(C) BY <1>9, <1>10, Zenon DEF Tested
  <2> QED BY <2>1, <2>2, <2>3, Zenon DEF Proper
<1>12. Sits(C, <<t>>) /\ Len(<<t>>) <= MaxTasks
  <2>1. t.func = "emit_stmt" /\ t.merge_block = NULL
    BY DEF StatementTask, task
  <2>2. ~ Merging(t) BY <2>1 DEF Merging, Is
  <2> HIDE DEF t
  <2>3. Len(<<t>>) = 1 /\ <<t>>[1] = t OBVIOUS
  <2>4. 1 <= MaxTasks BY EmitBounds
  <2>5. \A k \in 1..Len(<<t>>) : <<t>>[k] = t BY <2>3
  <2> QED BY <2>1, <2>2, <2>3, <2>4, <2>5 DEF Sits
<1>13. ir = C /\ tasks = <<t>> /\ fault \in Refusals \cup {NoFault} /\ emitted = FALSE BY <1>1
<1> HIDE DEF t
<1> QED BY <1>11, <1>12, <1>13 DEF EmitSafe

LEMMA AlwaysSafe == Spec => [](EmitInv /\ EmitSafe)
<1>1. Init => EmitInv /\ EmitSafe BY InitHolds, InitSafe
<1>2. EmitInv /\ EmitSafe /\ [Next]_vars => EmitInv' /\ EmitSafe'
  BY NextKeeps, NextSafe DEF StepKeeps
<1> QED BY <1>1, <1>2, PTL DEF Spec

-----------------------------------------------------------------------------
(***************************************************************************)
(* The theorems.                                                           *)
(***************************************************************************)
\* Whatever the program and however small the arenas, none of the assertions
\* by which the emitter checks itself can fail: a run that stops has met a
\* program that is not supported, or an arena that is full.
THEOREM InternalAssertsAlwaysHold == Spec => []InternalAssertsHold
<1>1. EmitSafe => InternalAssertsHold
  <2> SUFFICES ASSUME EmitSafe PROVE InternalAssertsHold
    OBVIOUS
  <2>1. fault \in Refusals \cup {NoFault} BY DEF EmitSafe
  <2>2. Refusals \cap InternalAsserts = {} BY DEF Refusals, InternalAsserts
  <2>3. NoFault \notin InternalAsserts BY DEF NoFault, InternalAsserts
  <2> QED BY <2>1, <2>2, <2>3, Zenon DEF InternalAssertsHold
<1> QED BY <1>1, AlwaysSafe, PTL

\* The data of the machine have their types, and every pointer of the code,
\* the scopes and the tasks stays in its arena.
THEOREM EmitTypesAlwaysHold == Spec => []TypeOK
<1>1. EmitInv /\ EmitSafe => TypeOK
  <2> SUFFICES ASSUME EmitInv, EmitSafe PROVE TypeOK
    OBVIOUS
  <2>1. ir \in builder /\ PointersInBounds(ir) /\ ir.blocks \in Seq(bb)
    BY DEF EmitInv, Code, Exact, Typed, builder
  <2>2. locals \in symbol_table /\ locals.current_scope \in 1..Len(locals.scopes)
    <3>1. Scoped(locals) BY DEF EmitInv
    <3>2. locals \in running_table /\ locals.current_scope \in ScopeIds(locals)
      BY <3>1, Zenon DEF Scoped
    <3> DEFINE Q == Seq(scope_t)
               R == Seq([scope_decl : Nat])
    <3>4. locals \in [scopes : Q, symbols : R, current_scope : Nat, fault : {NoFault}]
      BY <3>2 DEF running_table
    <3> HIDE DEF Q, R
    <3>5. locals \in [scopes : Q, symbols : R, current_scope : Nat,
                      fault : table_failure \cup {NoFault}]
      BY <3>4
    <3> QED BY <3>2, <3>5 DEF symbol_table, ScopeIds, Q, R
  <2>3. tasks \in Seq(Task) /\ Waits(ir, tasks, {}) BY DEF EmitInv, Stacked
  <2>4. ASSUME NEW k \in 1..Len(tasks)
        PROVE  tasks[k].merge_block \in 0..Len(ir.blocks) /\ tasks[k].arg1 \in Nat
    <3> DEFINE t == tasks[k]
    <3>0. t \in Task BY <2>3
    <3>1. t \in Task /\ t.arg1 \in Nat
      <4> HIDE DEF t
      <4> QED BY <3>0 DEF Task
    <3>2. /\ Shaped(ir, t) /\ Above(SubSeq(tasks, 1, k - 1), t)
          /\ t.func # "emit_stmt_ifs" => t.merge_block = NULL
      BY Zenon DEF EmitInv, EmitSafe, Stacked, Sits
    <3>3. ASSUME NEW j \in 1..Len(tasks), Merging(tasks[j])
          PROVE  tasks[j].merge_block \in 0..Len(ir.blocks)
      <4>1. Opens(tasks[j]) = tasks[j].merge_block BY <3>3, Zenon DEF Opens
      <4>2. Opens(tasks[j]) # NULL => Opens(tasks[j]) \in BlockIds(ir)
        BY <2>3, Zenon DEF Waits, Unstarted
      <4> QED BY <2>1, <4>1, <4>2 DEF BlockIds, NULL
    <3>4. CASE IsArm(t) \/ ClosesArm(t)
      <4> DEFINE under == SubSeq(tasks, 1, k - 1)
      <4>1. PICK j \in 1..Len(under) : Merging(under[j]) /\ under[j].merge_block = t.merge_block
        BY <3>2, <3>4, Zenon DEF Above, Joined
      <4>2. j \in 1..Len(tasks) /\ under[j] = tasks[j] BY <2>3
      <4> HIDE DEF under, t
      <4>3. t.merge_block \in 0..Len(ir.blocks) BY <3>3, <4>1, <4>2
      <4> QED BY <3>1, <4>3 DEF t
    <3>5. CASE Merging(t) BY <3>1, <3>3, <3>5
    <3>6. CASE ~ IsArm(t) /\ ~ ClosesArm(t) /\ ~ Merging(t)
      <4> HIDE DEF t
      <4>1. t.func # "emit_stmt_ifs" BY <3>2, <3>6 DEF Shaped, Is
      <4> QED BY <2>1, <3>1, <3>2, <4>1 DEF t, NULL
    <3> QED BY <3>4, <3>5, <3>6
  <2>5. fault \in Refusals \cup InternalAsserts \cup {NoFault} BY Zenon DEF EmitSafe
  <2> QED BY <2>1, <2>2, <2>3, <2>4, <2>5, Zenon DEF TypeOK, EmitSafe
<1> QED BY <1>1, AlwaysSafe, PTL

\* Control that avoids the arguments of a phi never enters a block that covers
\* it: a block of the cover that computes none is entered only from the cover,
\* and is not the entry.
LEMMA CoverUnreached ==
    ASSUME EmitInv, EmitSafe, NEW s, NEW C, Cover(ir, s, C)
    PROVE  ReachableAvoiding(ArgBlocks(ir, s)) \cap C = {}
<1> DEFINE A == ArgBlocks(ir, s)
           n == Len(ir.blocks)
           R == {X \in SUBSET Blocks : X \cap C = {}}
           Onwards(X) == X \cup ((UNION {Targets(ir.blocks[p]) : p \in X}) \ A)
           step == [k \in 1..n |-> [X \in R |-> Onwards(X)]]
<1>1. /\ n \in Nat /\ Blocks = 1..n /\ Linked(ir)
      /\ 1 \in Blocks /\ C \subseteq Blocks
      /\ \A c \in C : c \in A \/ (c # 1 /\ Preds(ir, c) \subseteq C)
  <2>1. Code(ir) /\ Entry(ir) /\ Linked(ir) BY DEF EmitInv, EmitSafe, Code, Proper
  <2>2. n \in Nat BY <2>1, CodeTyped
  <2>3. C \subseteq Blocks BY Zenon DEF Cover, Blocks
  <2> QED BY <2>1, <2>2, <2>3, Zenon DEF Cover, Entry, Blocks, BlockIds
<1>2. ASSUME NEW p \in Blocks, NEW b \in Targets(ir.blocks[p])
      PROVE  b \in Blocks /\ p \in Preds(ir, b)
  <2>1. Typed(ir) BY DEF EmitInv, Code, Exact
  <2>2. b \in Blocks BY <2>1, TargetsExist, Zenon DEF Blocks
  <2>3. PICK k \in 1..Len(ir.blocks[b].predecessors) :
          \A j \in 1..Len(ir.blocks[b].predecessors) : ir.blocks[b].predecessors[j] = p <=> j = k
    BY <1>1, Zenon DEF Linked, Blocks
  <2>4. ir.blocks[b].predecessors[k] = p BY <2>3, Zenon
  <2> QED BY <2>2, <2>4, Zenon DEF Preds
<1> HIDE DEF A, n
<1>3. ASSUME NEW X \in R PROVE Onwards(X) \in R
  <2>1. X \subseteq Blocks /\ X \cap C = {} BY Zenon
  <2>2. ASSUME NEW b \in Onwards(X) PROVE b \in Blocks /\ b \notin C
    <3>1. CASE b \in X BY <2>1, <3>1
    <3>2. CASE b \notin X
      <4>1. PICK p \in X : b \in Targets(ir.blocks[p]) BY <2>2, <3>2, Zenon
      <4>2. b \notin A BY <2>2, <3>2, Zenon
      <4>3. p \in Blocks /\ p \notin C BY <2>1
      <4>4. b \in Blocks /\ p \in Preds(ir, b) BY <1>2, <4>1, <4>3
      <4> QED BY <1>1, <4>2, <4>3, <4>4
    <3> QED BY <3>1, <3>2
  <2> HIDE DEF Onwards
  <2>3. Onwards(X) \in SUBSET Blocks /\ Onwards(X) \cap C = {} BY <2>2
  <2> QED BY <2>3, Zenon
<1>4. {1} \ A \in R BY <1>1
<1> HIDE DEF R, Onwards
<1>5. step \in [1..n -> [R -> R]] BY <1>3
<1>6. Counts(n, R, {1} \ A, step) BY <1>1, <1>4, <1>5, Zenon DEF Counts
<1>7. \A k \in 1..n : \A X \in R : step[k][X] = Onwards(X) OBVIOUS
<1> HIDE DEF step
<1>8. PICK f \in [0..n -> R] : f[0] = {1} \ A /\ \A k \in 1..n : f[k] = step[k][f[k - 1]]
  BY <1>6, Counted, SMT
<1>9. \A k \in 0..n : k # 0 => k \in 1..n /\ k - 1 \in 0..n BY <1>1
<1> DEFINE Right(g) == g = [k \in 0..n |->
                           IF k = 0 THEN {1} \ A
                           ELSE g[k - 1] \cup ((UNION {Targets(ir.blocks[p]) : p \in g[k - 1]}) \ A)]
<1>10. Right(f)
  <2>1. ASSUME NEW k \in 0..n, k # 0 PROVE f[k] = Onwards(f[k - 1])
    <3>1. k \in 1..n /\ f[k - 1] \in R BY <1>8, <1>9, <2>1
    <3> QED BY <1>7, <1>8, <3>1, Zenon
  <2>2. \A k \in 0..n : f[k] = IF k = 0 THEN {1} \ A ELSE Onwards(f[k - 1])
    BY <1>8, <2>1, Zenon
  <2> QED BY <1>8, <2>2, Zenon DEF Onwards
<1> DEFINE reach == CHOOSE g : Right(g)
<1>11. Right(reach) BY <1>10, Zenon
<1>12. ReachableAvoiding(A) = reach[n] BY Zenon DEF ReachableAvoiding, n
<1> HIDE DEF reach
<1>13. reach[0] = {1} \ A /\ \A k \in 1..n : reach[k] = Onwards(reach[k - 1])
  <2>1. 0 \in 0..n /\ \A k \in 1..n : k \in 0..n /\ k # 0 BY <1>1
  <2> QED BY <1>11, <2>1, Zenon DEF Onwards
<1> HIDE DEF Right
<1> DEFINE K == {k \in 0..n : reach[k] \in R}
<1>14. n \in K
  <2>1. 0 \in K
    <3>1. 0 \in 0..n /\ reach[0] \in R BY <1>1, <1>4, <1>13
    <3> QED BY <3>1
  <2>2. ASSUME NEW k \in 1..n, k - 1 \in K PROVE k \in K
    <3>1. reach[k - 1] \in R /\ k \in 0..n BY <1>1, <2>2
    <3>2. reach[k] \in R BY <1>3, <1>13, <3>1
    <3> QED BY <3>1, <3>2
  <2> HIDE DEF K
  <2>3. \A k \in 0..n : k \in K BY <1>1, <2>1, <2>2, UpTo
  <2> QED BY <1>1, <2>3
<1>15. reach[n] \in R BY <1>14
<1> QED BY <1>12, <1>15, Zenon DEF R, A

\* In finished code every path from the entry to a phi has executed one of its
\* arguments, whatever the nesting of arms and returns the phi joins: the
\* interpreter never fails to find one.
THEOREM PhiAlwaysHasArgument == Spec => []PhiAlwaysFindsOne
<1>1. EmitInv /\ EmitSafe => PhiAlwaysFindsOne
  <2> SUFFICES ASSUME EmitInv, EmitSafe PROVE PhiAlwaysFindsOne
    OBVIOUS
  <2>1. SUFFICES ASSUME NEW s \in Phis(ir)
                 PROVE  LET args == {ir.phi_lists[k] : k \in PhiSlice(ir, s)}
                        IN  \/ \E a \in args : ir.ssas[a].block = ir.ssas[s].block
                            \/ ir.ssas[s].block \notin
                                   ReachableAvoiding({ir.ssas[a].block : a \in args})
    BY Zenon DEF PhiAlwaysFindsOne
  <2> DEFINE args == {ir.phi_lists[k] : k \in PhiSlice(ir, s)}
  <2>2. {ir.ssas[a].block : a \in args} = ArgBlocks(ir, s) BY DEF ArgBlocks
  <2>3. PICK C : Cover(ir, s, C) BY Zenon DEF EmitSafe, Proper, Finds
  <2>4. ir.ssas[s].block \in C BY <2>3, Zenon DEF Cover
  <2>5. ReachableAvoiding(ArgBlocks(ir, s)) \cap C = {} BY <2>3, CoverUnreached
  <2>6. ir.ssas[s].block \notin ReachableAvoiding(ArgBlocks(ir, s)) BY <2>4, <2>5
  <2> QED BY <2>2, <2>6, Zenon
<1> QED BY <1>1, AlwaysSafe, PTL

-----------------------------------------------------------------------------
(***************************************************************************)
(* Execution.  Code B that is finished, the values V computed so far, and  *)
(* where control is.                                                       *)
(***************************************************************************)
Done(B) == /\ Code(B) /\ Proper(B)
           /\ \A b \in BlockIds(B) : Ended(B.blocks[b])

Unflagged(B, s) == ~ has_flag(B.ssas[s], "no_value")
Has(V, s)       == s \in DOMAIN V /\ V[s] # Exec!Unset

\* Block b has been executed to its end.
Executed(B, V, b) ==
    \A s \in SsaIds(B) : B.ssas[s].block = b /\ Unflagged(B, s) => Has(V, s)

\* Control comes into C, which is not the entry's, only by a block of A.
Closed(B, A, C) == \A c \in C : c \in A \/ (c # 1 /\ Preds(B, c) \subseteq C)

\* Control has come to block b along a path from the entry.
Passed(B, V, b) ==
    \A A, C : b \in C /\ Closed(B, A, C) => b \in A \/ \E a \in A : Executed(B, V, a)

HeldBelow(V, n) == \A s : Has(V, s) => s \in Nat /\ s < n

ValuesTyped(B, V) == V \in [SsaIds(B) -> Nat \cup {Exec!Unset}]

\* Control is about to enter a block, unless the code has ended.
AtBlock(B, V, x) ==
    x.block # NULL => /\ x.block \in BlockIds(B) /\ Passed(B, V, x.block)
                      /\ HeldBelow(V, B.blocks[x.block].head)
                      /\ x.return_value = NULL

\* Control is in block b, before instruction n.
InBody(B, V, x, b, n) ==
    /\ x.block = NULL /\ b \in BlockIds(B) /\ Passed(B, V, b)
    /\ n \in B.blocks[b].head .. B.blocks[b].next + 1
    /\ HeldBelow(V, n)
    /\ \A s \in B.blocks[b].head .. n - 1 : Unflagged(B, s) => Has(V, s)
    /\ x.return_value # NULL => \E s \in B.blocks[b].head .. n - 1 : B.ssas[s].op = "ret"

\* A finished block holds exactly its range, and has an end.
LEMMA BlockRange ==
    ASSUME NEW B, Done(B), NEW b \in BlockIds(B)
    PROVE  /\ B.blocks[b].head \in 1..Len(B.ssas) /\ B.blocks[b].next \in 1..Len(B.ssas)
           /\ B.blocks[b].head <= B.blocks[b].next /\ B.blocks[b].br # "UNUSED"
           /\ Len(B.ssas) \in Nat /\ Started(B.blocks[b]) /\ EndOf(B, b) = B.blocks[b].next
           /\ \A s \in SsaIds(B) :
                 s \in B.blocks[b].head .. B.blocks[b].next <=> B.ssas[s].block = b
<1>1. /\ Typed(B) /\ BlocksOwnTheirRange(B) /\ OneOpenBlock(B) /\ Ended(B.blocks[b])
  BY Zenon DEF Done, Code, Exact
<1>2. /\ Started(B.blocks[b]) /\ B.blocks[b].head <= B.blocks[b].next
      /\ B.blocks[b].br # "UNUSED"
  BY <1>1, Zenon DEF OneOpenBlock
<1>3. EndOf(B, b) = B.blocks[b].next BY <1>1, Zenon DEF EndOf
<1>4. \A s \in SsaIds(B) :
         s \in B.blocks[b].head .. B.blocks[b].next <=> B.ssas[s].block = b
  BY <1>1, <1>2, <1>3, Zenon DEF BlocksOwnTheirRange
<1>5. BlockInBounds(B, B.blocks[b]) /\ Len(B.ssas) \in Nat
  BY <1>1, LengthType, Zenon DEF Typed, PointersInBounds
<1>6. B.blocks[b].head \in 1..Len(B.ssas) /\ B.blocks[b].next \in 1..Len(B.ssas)
  BY <1>1, <1>2, <1>5 DEF BlockInBounds, Started, Ended, NULL
<1> QED BY <1>2, <1>3, <1>4, <1>5, <1>6

\* An instruction of a block that is before n has been executed.
LEMMA EarlierHasValue ==
    ASSUME NEW B, Done(B), NEW V, NEW x, NEW b, NEW n, InBody(B, V, x, b, n),
           NEW s \in SsaIds(B), s < n, B.ssas[s].block = b, Unflagged(B, s)
    PROVE  Has(V, s)
<1>1. b \in BlockIds(B) /\ n \in B.blocks[b].head .. B.blocks[b].next + 1 BY DEF InBody
<1>2. s \in B.blocks[b].head .. n - 1
  <2>1. s \in B.blocks[b].head .. B.blocks[b].next /\ B.blocks[b].head \in Nat
        /\ B.blocks[b].next \in Nat
    BY <1>1, BlockRange
  <2> QED BY <1>1, <2>1
<1> QED BY <1>2 DEF InBody

\* The instruction control is at, if the block has not ended
LEMMA AtInstruction ==
    ASSUME NEW B, Done(B), NEW V, NEW x, NEW b, NEW n, InBody(B, V, x, b, n),
           n <= B.blocks[b].next
    PROVE  /\ n \in SsaIds(B) /\ B.ssas[n].block = b /\ KnownOp(B.ssas[n]) /\ ~ Has(V, n)
           /\ B.ssas[n].left \in Nat /\ n # NULL
<1>1. b \in BlockIds(B) /\ n \in B.blocks[b].head .. B.blocks[b].next + 1 /\ HeldBelow(V, n)
  BY DEF InBody
<1>2. n \in SsaIds(B) /\ n \in B.blocks[b].head .. B.blocks[b].next
  BY <1>1, BlockRange DEF SsaIds
<1>3. B.ssas[n].block = b BY <1>1, <1>2, BlockRange
<1>4. KnownOp(B.ssas[n]) BY <1>2, Zenon DEF Done, Proper, Known
<1>5. ~ Has(V, n)
  <2>1. ~ (n < n) BY <1>2 DEF SsaIds
  <2> QED BY <1>1, <2>1, Zenon DEF HeldBelow
<1>6. B.ssas[n].left \in Nat
  <2>1. B \in builder BY CodeTyped DEF Done
  <2>2. B.ssas \in Seq(ssa) BY <2>1 DEF builder
  <2>3. B.ssas[n] \in ssa BY <1>2, <2>2 DEF SsaIds
  <2> QED BY <2>3 DEF ssa
<1> QED BY <1>2, <1>3, <1>4, <1>5, <1>6 DEF SsaIds, NULL

\* What was passed stays so when more has been computed.
Grows(V, W) == \A s : Has(V, s) => Has(W, s)

LEMMA PassedStays ==
    ASSUME NEW B, NEW V, NEW W, Grows(V, W), NEW b, Passed(B, V, b)
    PROVE  Passed(B, W, b)
<1>1. \A a : Executed(B, V, a) => Executed(B, W, a) BY Zenon DEF Grows, Executed
<1> QED BY <1>1, Zenon DEF Passed

\* The next instruction of a block, executed: V gains its value, if it has one,
\* and only a return sets the value to return.
Advances(B, V, W, x, y, n) ==
    /\ DOMAIN W = DOMAIN V
    /\ \A s : s # n => W[s] = V[s]
    /\ Unflagged(B, n) => Has(W, n)
    /\ y.block = NULL
    /\ y.return_value # x.return_value => B.ssas[n].op = "ret"

LEMMA BodyAdvances ==
    ASSUME NEW B, Done(B), NEW V, NEW x, NEW b, NEW n, InBody(B, V, x, b, n),
           n <= B.blocks[b].next, NEW W, NEW y, Advances(B, V, W, x, y, n)
    PROVE  InBody(B, W, y, b, n + 1)
<1>1. /\ b \in BlockIds(B) /\ Passed(B, V, b) /\ HeldBelow(V, n)
      /\ n \in B.blocks[b].head .. B.blocks[b].next + 1
      /\ \A s \in B.blocks[b].head .. n - 1 : Unflagged(B, s) => Has(V, s)
      /\ x.return_value # NULL => \E s \in B.blocks[b].head .. n - 1 : B.ssas[s].op = "ret"
  BY DEF InBody
<1>2. n \in Nat /\ B.blocks[b].head \in Nat /\ B.blocks[b].next \in Nat
  BY <1>1, BlockRange
<1>3. ~ Has(V, n) BY AtInstruction
<1>4. Grows(V, W) BY <1>3, Zenon DEF Grows, Advances, Has
<1>5. Passed(B, W, b) BY <1>1, <1>4, PassedStays
<1>6. HeldBelow(W, n + 1)
  <2>1. ASSUME NEW s, Has(W, s) PROVE s \in Nat /\ s < n + 1
    <3>1. CASE s = n BY <1>2, <3>1
    <3>2. CASE s # n
      <4>1. Has(V, s) BY <2>1, <3>2, Zenon DEF Advances, Has
      <4>2. s \in Nat /\ s < n BY <1>1, <4>1, Zenon DEF HeldBelow
      <4> QED BY <1>2, <4>2
    <3> QED BY <3>1, <3>2
  <2> QED BY <2>1, Zenon DEF HeldBelow
<1>7. ASSUME NEW s \in B.blocks[b].head .. n, Unflagged(B, s) PROVE Has(W, s)
  <2>1. CASE s = n BY <1>7, <2>1, Zenon DEF Advances
  <2>2. CASE s # n
    <3>1. s \in B.blocks[b].head .. n - 1 BY <1>2, <2>2
    <3>2. Has(V, s) BY <1>1, <1>7, <3>1
    <3> QED BY <1>4, <3>2, Zenon DEF Grows
  <2> QED BY <2>1, <2>2
<1>8. ASSUME y.return_value # NULL PROVE \E s \in B.blocks[b].head .. n : B.ssas[s].op = "ret"
  <2>1. CASE y.return_value = x.return_value
    <3>1. PICK s \in B.blocks[b].head .. n - 1 : B.ssas[s].op = "ret" BY <1>1, <1>8, <2>1
    <3>2. s \in B.blocks[b].head .. n BY <1>2, <3>1
    <3> QED BY <3>1, <3>2
  <2>2. CASE y.return_value # x.return_value
    <3>1. B.ssas[n].op = "ret" BY <2>2, Zenon DEF Advances
    <3>2. n \in B.blocks[b].head .. n BY <1>1, <1>2
    <3> QED BY <3>1, <3>2
  <2> QED BY <2>1, <2>2
<1>9. n + 1 \in B.blocks[b].head .. B.blocks[b].next + 1 BY <1>1, <1>2
<1>10. n + 1 - 1 = n BY <1>2
<1>11. y.block = NULL BY DEF Advances
<1> QED BY <1>1, <1>5, <1>6, <1>7, <1>8, <1>9, <1>10, <1>11 DEF InBody

\* A phi finds an argument that has a value: its own block has just computed
\* one, or control has come through a block that did.
LEMMA PhiFinds ==
    ASSUME NEW B, Done(B), NEW V, NEW x, NEW b, NEW n, InBody(B, V, x, b, n),
           n <= B.blocks[b].next, B.ssas[n].op = "phi"
    PROVE  \E k \in PhiSlice(B, n) : Has(V, B.phi_lists[k])
<1>1. n \in SsaIds(B) /\ B.ssas[n].block = b /\ n \in Phis(B) BY AtInstruction DEF Phis
<1>2. Finds(B, n) /\ PhisOwnTheirSlice(B)
  BY <1>1, Zenon DEF Done, Proper, Code, Sliced
<1>3. PICK C : Cover(B, n, C) BY <1>2, Zenon DEF Finds
<1>4. b \in C /\ Closed(B, ArgBlocks(B, n), C) BY <1>1, <1>3, Zenon DEF Cover, Closed
<1>5. b \in ArgBlocks(B, n) \/ \E a \in ArgBlocks(B, n) : Executed(B, V, a)
  <2>1. Passed(B, V, b) BY DEF InBody
  <2> QED BY <1>4, <2>1, Zenon DEF Passed
<1>6. ASSUME NEW k \in PhiSlice(B, n)
      PROVE  /\ B.phi_lists[k] \in SsaIds(B) /\ B.phi_lists[k] < n
             /\ Unflagged(B, B.phi_lists[k])
  <2>1. B.phi_lists[k] \in 1..n - 1 BY <1>1, <1>2, Zenon DEF PhisOwnTheirSlice
  <2>2. Unflagged(B, B.phi_lists[k]) BY <1>2, Zenon DEF Finds, Unflagged
  <2>3. Len(B.ssas) \in Nat BY CodeTyped DEF Done
  <2> QED BY <1>1, <2>1, <2>2, <2>3 DEF SsaIds
<1>7. CASE b \in ArgBlocks(B, n)
  <2>1. PICK k \in PhiSlice(B, n) : B.ssas[B.phi_lists[k]].block = b BY <1>7, Zenon DEF ArgBlocks
  <2>2. Has(V, B.phi_lists[k]) BY <1>6, <2>1, EarlierHasValue
  <2> QED BY <2>2
<1>8. CASE \E a \in ArgBlocks(B, n) : Executed(B, V, a)
  <2>1. PICK a \in ArgBlocks(B, n) : Executed(B, V, a) BY <1>8
  <2>2. PICK k \in PhiSlice(B, n) : B.ssas[B.phi_lists[k]].block = a BY <2>1, Zenon DEF ArgBlocks
  <2>3. Has(V, B.phi_lists[k]) BY <1>6, <2>1, <2>2, Zenon DEF Executed
  <2> QED BY <2>3
<1> QED BY <1>5, <1>7, <1>8

\* The operands of an instruction have been computed, in its own block.
LEMMA OperandsHaveValues ==
    ASSUME NEW B, Done(B), NEW V, NEW x, NEW b, NEW n, InBody(B, V, x, b, n),
           n <= B.blocks[b].next, NEW o \in OperandsOf(B.ssas[n])
    PROVE  Has(V, o)
<1>1. n \in SsaIds(B) /\ B.ssas[n].block = b BY AtInstruction
<1>2. OperandsLocal(B) BY DEF Done, Code
<1>3. o \in 1..n - 1 /\ ValueOf(B, b, o) BY <1>1, <1>2, Zenon DEF OperandsLocal
<1>4. o < n BY <1>1, <1>3 DEF SsaIds
<1>5. o \in SsaIds(B) /\ B.ssas[o].block = b /\ Unflagged(B, o)
  BY <1>3 DEF ValueOf, Unflagged
<1> QED BY <1>4, <1>5, EarlierHasValue

\* A block that returns goes nowhere, and none of its instructions before a
\* return is one.
LEMMA ReturnIsLast ==
    ASSUME NEW B, Done(B), NEW V, NEW x, NEW b, NEW n, InBody(B, V, x, b, n),
           x.return_value # NULL
    PROVE  /\ n <= B.blocks[b].next => B.ssas[n].op # "ret"
           /\ B.blocks[b].br = "unconditional" /\ Targets(B.blocks[b]) = {}
<1>1. /\ b \in BlockIds(B) /\ n \in B.blocks[b].head .. B.blocks[b].next + 1
      /\ \E s \in B.blocks[b].head .. n - 1 : B.ssas[s].op = "ret"
  BY DEF InBody
<1>2. PICK s \in B.blocks[b].head .. n - 1 : B.ssas[s].op = "ret" BY <1>1
<1>3. s \in SsaIds(B) /\ B.ssas[s].block = b /\ s < n
  <2>1. /\ B.blocks[b].head \in 1..Len(B.ssas) /\ B.blocks[b].next \in 1..Len(B.ssas)
        /\ Len(B.ssas) \in Nat
    BY <1>1, BlockRange
  <2>2. s \in B.blocks[b].head .. B.blocks[b].next /\ s \in SsaIds(B) /\ s < n
    BY <1>1, <2>1 DEF SsaIds
  <2> QED BY <1>1, <2>2, BlockRange
<1>4. Returns(B) BY DEF Done, Proper
<1>5. B.blocks[b].br = "unconditional" /\ Targets(B.blocks[b]) = {}
  BY <1>2, <1>3, <1>4, Zenon DEF Returns
<1>6. ASSUME n <= B.blocks[b].next, B.ssas[n].op = "ret" PROVE FALSE
  <2>1. n \in SsaIds(B) /\ B.ssas[n].block = b BY <1>6, AtInstruction
  <2>2. n = s BY <1>2, <1>3, <1>4, <1>6, <2>1, Zenon DEF Returns
  <2> QED BY <1>3, <2>1, <2>2 DEF SsaIds
<1> QED BY <1>5, <1>6

\* At its end a block has been executed, and its branch has a value to test.
LEMMA BodyEnds ==
    ASSUME NEW B, Done(B), NEW V, NEW x, NEW b, NEW n, InBody(B, V, x, b, n),
           n > B.blocks[b].next
    PROVE  /\ n = B.blocks[b].next + 1 /\ Executed(B, V, b) /\ B.blocks[b].br # "UNUSED"
           /\ B.blocks[b].br # "unconditional" => Has(V, B.blocks[b].next)
<1>1. b \in BlockIds(B) /\ n \in B.blocks[b].head .. B.blocks[b].next + 1 BY DEF InBody
<1>2. /\ B.blocks[b].head \in Nat /\ B.blocks[b].next \in Nat
      /\ B.blocks[b].br # "UNUSED" /\ EndOf(B, b) = B.blocks[b].next
      /\ B.blocks[b].next \in B.blocks[b].head .. B.blocks[b].next
  BY <1>1, BlockRange
<1>3. n = B.blocks[b].next + 1 BY <1>1, <1>2
<1>4. ASSUME NEW s \in SsaIds(B), B.ssas[s].block = b, Unflagged(B, s) PROVE Has(V, s)
  <2>1. s \in B.blocks[b].head .. B.blocks[b].next BY <1>1, <1>4, BlockRange
  <2>2. s < n BY <1>2, <1>3, <2>1
  <2> QED BY <1>4, <2>2, EarlierHasValue
<1>5. Executed(B, V, b) BY <1>4, Zenon DEF Executed
<1>6. ASSUME B.blocks[b].br # "unconditional" PROVE Has(V, B.blocks[b].next)
  <2>1. Tested(B) BY DEF Done, Proper
  <2>2. /\ B.blocks[b].next \in SsaIds(B) /\ Unflagged(B, B.blocks[b].next)
    BY <1>1, <1>2, <1>6, <2>1, Zenon DEF Tested, Unflagged
  <2>3. B.ssas[B.blocks[b].next].block = b BY <1>1, <1>2, <2>2, BlockRange
  <2> QED BY <1>4, <2>2, <2>3
<1> QED BY <1>2, <1>3, <1>5, <1>6

\* Control goes on to a block that comes later and has not been executed.
LEMMA GoesToBlock ==
    ASSUME NEW B, Done(B), NEW V, NEW x, NEW b, NEW n, InBody(B, V, x, b, n),
           n > B.blocks[b].next, NEW y, y.return_value = x.return_value,
           y.block \in {B.blocks[b].block_true, B.blocks[b].block_false}
    PROVE  AtBlock(B, V, y)
<1>1. SUFFICES ASSUME y.block # NULL
               PROVE  /\ y.block \in BlockIds(B) /\ Passed(B, V, y.block)
                      /\ HeldBelow(V, B.blocks[y.block].head)
                      /\ y.return_value = NULL
  BY DEF AtBlock
<1> DEFINE c == y.block
<1>2. /\ b \in BlockIds(B) /\ Passed(B, V, b) /\ HeldBelow(V, n) BY DEF InBody
<1>3. n = B.blocks[b].next + 1 /\ Executed(B, V, b) BY BodyEnds
<1>4. c \in Targets(B.blocks[b]) BY <1>1 DEF Targets
<1>5. c \in BlockIds(B) /\ Linked(B)
  <2>1. Typed(B) /\ Linked(B) BY DEF Done, Code, Exact
  <2> QED BY <1>2, <1>4, <2>1, TargetsExist, Zenon
<1>6. PICK k \in 1..Len(B.blocks[c].predecessors) : B.blocks[c].predecessors[k] = b
  BY <1>2, <1>4, <1>5, Zenon DEF Linked
<1>7. b \in Preds(B, c) BY <1>6, Zenon DEF Preds
<1>8. B.blocks[b].head < B.blocks[c].head
  <2>1. Started(B.blocks[c]) BY <1>5, BlockRange
  <2> QED BY <1>5, <1>6, <2>1, Zenon DEF Linked
<1>9. Passed(B, V, c)
  <2> SUFFICES ASSUME NEW A, NEW C, c \in C, Closed(B, A, C), c \notin A
               PROVE  \E a \in A : Executed(B, V, a)
    BY Zenon DEF Passed
  <2>1. b \in C BY <1>7, Zenon DEF Closed
  <2>2. b \in A \/ \E a \in A : Executed(B, V, a) BY <1>2, <2>1, Zenon DEF Passed
  <2> QED BY <1>3, <2>2
<1>10. B.blocks[b].next < B.blocks[c].head
  <2>1. /\ B.blocks[b].head \in 1..Len(B.ssas) /\ B.blocks[b].next \in 1..Len(B.ssas)
        /\ B.blocks[c].head \in 1..Len(B.ssas) /\ B.blocks[c].next \in 1..Len(B.ssas)
        /\ B.blocks[c].head <= B.blocks[c].next /\ Len(B.ssas) \in Nat
    BY <1>2, <1>5, BlockRange
  <2>2. SUFFICES ASSUME B.blocks[c].head <= B.blocks[b].next PROVE FALSE BY <2>1
  <2> DEFINE s == B.blocks[c].head
  <2>3. s \in SsaIds(B) /\ s \in B.blocks[b].head .. B.blocks[b].next
        /\ s \in B.blocks[c].head .. B.blocks[c].next
    BY <1>8, <2>1, <2>2 DEF SsaIds
  <2>4. B.ssas[s].block = b /\ B.ssas[s].block = c BY <1>2, <1>5, <2>3, BlockRange
  <2> QED BY <1>8, <2>1, <2>4
<1>11. HeldBelow(V, B.blocks[c].head)
  <2>1. B.blocks[b].next \in Nat /\ B.blocks[c].head \in Nat BY <1>2, <1>5, BlockRange
  <2>2. \A m \in Nat : m < n => m < B.blocks[c].head BY <1>3, <1>10, <2>1
  <2> QED BY <1>2, <2>2, Zenon DEF HeldBelow
<1>12. x.return_value = NULL
  <2> SUFFICES ASSUME x.return_value # NULL PROVE FALSE OBVIOUS
  <2>1. Targets(B.blocks[b]) = {} BY ReturnIsLast
  <2> QED BY <1>4, <2>1
<1> QED BY <1>5, <1>9, <1>11, <1>12

\* Entering a block, nothing of it has been executed.
LEMMA EntersBlock ==
    ASSUME NEW B, Done(B), NEW V, NEW x, AtBlock(B, V, x), x.block # NULL,
           NEW y, y.block = NULL, y.return_value = x.return_value
    PROVE  /\ B.blocks[x.block].head # NULL
           /\ InBody(B, V, y, x.block, B.blocks[x.block].head)
<1> DEFINE b == x.block
           h == B.blocks[b].head
<1>1. b \in BlockIds(B) /\ Passed(B, V, b) /\ HeldBelow(V, h) /\ y.return_value = NULL
  BY DEF AtBlock
<1>2. /\ h \in Nat /\ h # NULL /\ h <= B.blocks[b].next /\ B.blocks[b].next \in Nat
  BY <1>1, BlockRange DEF NULL
<1>3. h \in h .. B.blocks[b].next + 1 /\ h .. h - 1 = {} BY <1>2
<1> QED BY <1>1, <1>2, <1>3 DEF InBody

-----------------------------------------------------------------------------
(***************************************************************************)
(* The pipeline: the emitter's invariants, and an execution that has not   *)
(* failed.                                                                 *)
(***************************************************************************)
Executes ==
    /\ emitted /\ fault = NoFault /\ ValuesTyped(ir, ssa_values)
    /\ ctx \in [block : Nat, return_value : Nat]
    /\ IF pc = NULL THEN AtBlock(ir, ssa_values, ctx)
       ELSE InBody(ir, ssa_values, ctx, cur, pc)

PipeInv ==
    /\ EmitInv /\ EmitSafe
    /\ IF executing THEN Executes
       ELSE /\ ssa_values = <<>> /\ pc = NULL
            /\ ctx = [block |-> NULL, return_value |-> NULL]

LEMMA EmittedIsDone ==
    ASSUME EmitInv, EmitSafe, emitted, fault = NoFault
    PROVE  Done(ir) /\ 1 \in BlockIds(ir) /\ ir.current_block = NULL
<1>1. Code(ir) /\ Proper(ir) /\ ir.current_block = NULL /\ tasks = <<>> /\ Waits(ir, tasks, {})
  BY DEF EmitInv, EmitSafe, Stacked
<1>2. Unstarted(ir) = {}
  <2>1. 1..Len(tasks) = {} BY <1>1
  <2>2. Unstarted(ir) \ {} = {} BY <1>1, <2>1, Zenon DEF Waits
  <2> QED BY <2>2
<1>3. ASSUME NEW b \in BlockIds(ir) PROVE Ended(ir.blocks[b])
  <2>1. Started(ir.blocks[b]) BY <1>2, Zenon DEF Unstarted
  <2>2. b # NULL BY DEF BlockIds, NULL
  <2>3. OneOpenBlock(ir) BY <1>1, Zenon DEF Code, Exact
  <2> QED BY <1>1, <2>1, <2>2, <2>3, Zenon DEF OneOpenBlock
<1>4. 1 \in BlockIds(ir) BY <1>1, Zenon DEF Proper, Entry
<1> QED BY <1>1, <1>3, <1>4, Zenon DEF Done

\* Once the code is emitted, the emitter does nothing.
LEMMA EmittedRests == ASSUME EmitInv, EmitNext PROVE ~ emitted
<1>1. CASE EndEmit BY <1>1, Zenon DEF EndEmit
<1>2. CASE tasks # <<>> BY <1>2, Zenon DEF EmitInv
<1>3. EndEmit \/ tasks # <<>>
  BY Zenon DEF EmitNext, EmitStmt, EmitExp, BinaryRight, BinaryDone, AssignDone, DeclDone,
               ReturnDone, BlockDone, IfsAfterCondition, IfsAfterStatement, IfsMerge, Popping
<1> QED BY <1>1, <1>2, <1>3

LEMMA EmitInvRests ==
    ASSUME EmitInv, EmitSafe, ir' = ir /\ locals' = locals /\ tasks' = tasks,
           emitted' = emitted /\ fault' = fault
    PROVE  EmitInv' /\ EmitSafe'
<1>1. EmitInv' BY Zenon DEF EmitInv
<1>2. EmitSafe' BY Zenon DEF EmitSafe
<1> QED BY <1>1, <1>2

\* The instance has the names of its parameters and its own copies of ours.
LEMMA ExecNames == Exec!NULL = NULL /\ Exec!NoFault = NoFault
BY DEF Exec!NULL, Exec!NoFault, NULL, NoFault

\* Before the entry nothing has been computed.
LEMMA StartKeeps ==
    ASSUME PipeInv, StartExec
    PROVE  PipeInv' /\ ~ executing
<1>1. /\ EmitInv /\ EmitSafe /\ emitted /\ ~ executing /\ executing' = TRUE
      /\ ssa_values = <<>> /\ pc = NULL
      /\ UNCHANGED <<root, locals, tasks, emitted>>
  BY DEF PipeInv, StartExec
<1>2. fault = NoFault /\ Exec!Start(1)
  <2>1. IF ir.current_block = NULL THEN Exec!Start(1) ELSE fault = NoFault
    BY Zenon DEF StartExec
  <2>2. Exec!Start(1) => fault = NoFault BY ExecNames, Zenon DEF Exec!Start
  <2>3. fault = NoFault BY <2>1, <2>2, Zenon
  <2> QED BY <1>1, <2>1, <2>3, EmittedIsDone
<1>3. Done(ir) /\ 1 \in BlockIds(ir) BY <1>1, <1>2, EmittedIsDone
<1>4. 1 # NULL BY DEF NULL
<1>5. /\ ctx' = [block |-> 1, return_value |-> NULL]
      /\ ssa_values' = [s \in 1..Len(ir.ssas) |->
                           IF Exec!has_value(s) THEN ssa_values[s] ELSE Exec!Unset]
      /\ UNCHANGED <<ir, fault, pc>>
  <2> HIDE DEF Exec!has_value
  <2>1. Exec!NULL = NULL BY ExecNames
  <2> QED BY <1>2, <1>4, <2>1, Zenon DEF Exec!Start
<1>6. \A s : ~ Exec!has_value(s) BY <1>1 DEF Exec!has_value
<1>7. ssa_values' = [s \in SsaIds(ir) |-> Exec!Unset] BY <1>5, <1>6 DEF SsaIds
<1>8. \A s : ~ Has(ssa_values', s) BY <1>7 DEF Has
<1>9. Passed(ir, ssa_values', 1) BY Zenon DEF Passed, Closed
<1>10. HeldBelow(ssa_values', ir.blocks[1].head) BY <1>8, Zenon DEF HeldBelow
<1>11. AtBlock(ir, ssa_values', ctx') BY <1>3, <1>5, <1>9, <1>10 DEF AtBlock
<1>12. ValuesTyped(ir, ssa_values') BY <1>7 DEF ValuesTyped
<1>13. ctx' \in [block : Nat, return_value : Nat] BY <1>5 DEF NULL
<1>14. Executes' BY <1>1, <1>2, <1>5, <1>11, <1>12, <1>13 DEF Executes
<1>15. EmitInv' /\ EmitSafe' BY <1>1, <1>2, <1>5, EmitInvRests
<1> QED BY <1>1, <1>14, <1>15 DEF PipeInv

LEMMA HasIsHas == \A s : Exec!has_value(s) <=> Has(ssa_values, s)
BY DEF Exec!has_value, Has

\* Control is at an instruction of block cur.
AtSsa == PipeInv /\ executing /\ pc # NULL /\ pc <= ir.blocks[cur].next

LEMMA WithinFacts ==
    ASSUME AtSsa
    PROVE  /\ Done(ir) /\ InBody(ir, ssa_values, ctx, cur, pc) /\ ValuesTyped(ir, ssa_values)
           /\ pc \in SsaIds(ir) /\ pc \in Nat /\ KnownOp(ir.ssas[pc])
           /\ ~ Has(ssa_values, pc) /\ ir.ssas[pc].left \in Nat
           /\ Exec!instruction = ir.ssas[pc]
           /\ ctx \in [block : Nat, return_value : Nat] /\ ctx.block = NULL
           /\ emitted /\ fault = NoFault
<1>1. /\ EmitInv /\ EmitSafe /\ Executes /\ pc # NULL /\ pc <= ir.blocks[cur].next
  BY DEF AtSsa, PipeInv
<1>2. /\ InBody(ir, ssa_values, ctx, cur, pc) /\ ValuesTyped(ir, ssa_values)
      /\ emitted /\ fault = NoFault /\ ctx \in [block : Nat, return_value : Nat]
  BY <1>1 DEF Executes
<1>3. Done(ir) BY <1>1, <1>2, EmittedIsDone
<1>4. /\ pc \in SsaIds(ir) /\ KnownOp(ir.ssas[pc]) /\ ~ Has(ssa_values, pc)
      /\ ir.ssas[pc].left \in Nat
  BY <1>1, <1>2, <1>3, AtInstruction
<1>5. Exec!instruction = ir.ssas[pc] BY DEF Exec!instruction
<1>6. ctx.block = NULL BY <1>2 DEF InBody
<1>7. pc \in Nat BY <1>4 DEF SsaIds
<1> QED BY <1>2, <1>3, <1>4, <1>5, <1>6, <1>7

LEMMA Advanced ==
    ASSUME AtSsa, ir' = ir /\ fault' = fault /\ cur' = cur /\ emitted' = emitted, pc' = pc + 1,
           Advances(ir, ssa_values, ssa_values', ctx, ctx', pc), ValuesTyped(ir, ssa_values'),
           ctx' \in [block : Nat, return_value : Nat]
    PROVE  Executes'
<1>1. pc <= ir.blocks[cur].next BY DEF AtSsa
<1>2. InBody(ir, ssa_values', ctx', cur, pc + 1) BY <1>1, WithinFacts, BodyAdvances
<1>3. pc' # NULL BY WithinFacts DEF NULL
<1>4. InBody(ir', ssa_values', ctx', cur', pc') BY <1>2
<1>5. emitted' /\ fault' = NoFault BY WithinFacts
<1> QED BY <1>3, <1>4, <1>5 DEF Executes

\* An instruction's value is new, whatever instruction it is.
LEMMA Defined ==
    ASSUME AtSsa, NEW STATE v, v \in Nat, Exec!Define(v), ir' = ir /\ emitted' = emitted
    PROVE  Executes' /\ ctx' = ctx
<1>1. ~ Exec!has_value(pc) BY WithinFacts, HasIsHas
<1>2. /\ ssa_values' = [ssa_values EXCEPT ![pc] = v] /\ pc' = pc + 1
      /\ fault' = fault /\ ctx' = ctx /\ cur' = cur
  BY <1>1 DEF Exec!Define
<1>3. /\ ssa_values \in [SsaIds(ir) -> Nat \cup {Exec!Unset}] /\ pc \in SsaIds(ir)
  BY WithinFacts DEF ValuesTyped
<1>4. v # Exec!Unset BY DEF Exec!Unset
<1>5. /\ ValuesTyped(ir, ssa_values') /\ DOMAIN ssa_values' = DOMAIN ssa_values
      /\ \A s : s # pc => ssa_values'[s] = ssa_values[s]
      /\ Has(ssa_values', pc)
  <2> HIDE DEF Exec!Unset
  <2>1. ssa_values' \in [SsaIds(ir) -> Nat \cup {Exec!Unset}] BY <1>2, <1>3
  <2>2. ssa_values'[pc] = v /\ DOMAIN ssa_values' = SsaIds(ir) BY <1>2, <1>3
  <2>3. \A s : s # pc => ssa_values'[s] = ssa_values[s] BY <1>2, <1>3
  <2> QED BY <1>3, <1>4, <2>1, <2>2, <2>3 DEF ValuesTyped, Has
<1>6. Advances(ir, ssa_values, ssa_values', ctx, ctx', pc)
  BY <1>2, <1>5, WithinFacts DEF Advances
<1>7. Executes' BY <1>2, <1>5, <1>6, WithinFacts, Advanced
<1> QED BY <1>2, <1>7

LEMMA ReturnExecuted ==
    ASSUME AtSsa, Exec!Return, emitted' = emitted
    PROVE  Executes' /\ (ctx.return_value # NULL => ctx' = ctx)
<1>1. /\ ir' = ir /\ fault' = fault /\ cur' = cur /\ ssa_values' = ssa_values
      /\ pc' = pc + 1 /\ ctx' = [ctx EXCEPT !.return_value = ir.ssas[pc].left]
      /\ ir.ssas[pc].op = "ret"
  BY WithinFacts DEF Exec!Return, Exec!At
<1>2. /\ ctx' \in [block : Nat, return_value : Nat] /\ ctx'.block = NULL
  BY <1>1, WithinFacts
<1>3. ~ Unflagged(ir, pc) BY <1>1, WithinFacts DEF KnownOp, Unflagged
<1>4. Advances(ir, ssa_values, ssa_values', ctx, ctx', pc)
  BY <1>1, <1>2, <1>3 DEF Advances
<1>5. Executes' BY <1>1, <1>2, <1>4, WithinFacts, Advanced
<1>6. ctx.return_value = NULL
  <2>1. pc <= ir.blocks[cur].next BY DEF AtSsa
  <2> QED BY <1>1, <2>1, WithinFacts, ReturnIsLast
<1> QED BY <1>5, <1>6

LEMMA SkipExecuted ==
    ASSUME AtSsa, Exec!Skip, emitted' = emitted
    PROVE  Executes' /\ ctx' = ctx
<1>1. /\ ir' = ir /\ fault' = fault /\ cur' = cur /\ ssa_values' = ssa_values
      /\ pc' = pc + 1 /\ ctx' = ctx /\ ir.ssas[pc].op \in {"nop", "dbg"}
  BY WithinFacts DEF Exec!Skip, Exec!At
<1>2. ~ Unflagged(ir, pc) BY <1>1, WithinFacts DEF KnownOp, Unflagged
<1>3. Advances(ir, ssa_values, ssa_values', ctx, ctx', pc)
  BY <1>1, <1>2, WithinFacts DEF Advances
<1> QED BY <1>1, <1>3, WithinFacts, Advanced

LEMMA LiteralExecuted ==
    ASSUME AtSsa, Exec!Literal, emitted' = emitted
    PROVE  Executes' /\ ctx' = ctx
<1> DEFINE v == ir.ssas[pc].left % Modulus
<1>1. ir' = ir /\ Exec!Define(v) BY WithinFacts DEF Exec!Literal, Exec!At
<1>2. v \in Nat
  <2>1. ir.ssas[pc].left \in Nat /\ Modulus \in Nat \ {0} BY WithinFacts, ModulusAssumption
  <2> QED BY <2>1
<1> HIDE DEF v
<1> QED BY <1>1, <1>2, Defined

\* Operands that are there, so that -1 never stands for one
LEMMA OperandsThere ==
    ASSUME AtSsa, ir.ssas[pc].op \in {"add", "sub"}
    PROVE  /\ Has(ssa_values, ir.ssas[pc].left) /\ ssa_values[ir.ssas[pc].left] \in Nat
           /\ Has(ssa_values, ir.ssas[pc].right) /\ ssa_values[ir.ssas[pc].right] \in Nat
<1>1. pc <= ir.blocks[cur].next BY DEF AtSsa
<1>2. {ir.ssas[pc].left, ir.ssas[pc].right} \subseteq OperandsOf(ir.ssas[pc])
  BY DEF OperandsOf
<1>3. Has(ssa_values, ir.ssas[pc].left) /\ Has(ssa_values, ir.ssas[pc].right)
  BY <1>1, <1>2, WithinFacts, OperandsHaveValues
<1>4. \A s : Has(ssa_values, s) => ssa_values[s] \in Nat
  <2>1. ssa_values \in [SsaIds(ir) -> Nat \cup {Exec!Unset}] BY WithinFacts DEF ValuesTyped
  <2> HIDE DEF Exec!Unset
  <2> QED BY <2>1 DEF Has
<1> QED BY <1>3, <1>4

LEMMA ArithmeticExecuted ==
    ASSUME AtSsa, Exec!Arithmetic, emitted' = emitted
    PROVE  Executes' /\ ctx' = ctx
<1> DEFINE i == ir.ssas[pc]
           l == ssa_values[i.left]
           r == ssa_values[i.right]
           v == CASE i.op = "add" -> (l + r) % Modulus [] i.op = "sub" -> (l - r) % Modulus
                  [] i.op = "mul" -> (l * r) % Modulus [] i.op = "div" -> l \div r
<1>1. Exec!instruction = i /\ i.op \in {"i", "add", "sub", "phi", "nop", "ret"}
  BY WithinFacts DEF KnownOp
<1>2. ir' = ir /\ i.op \in {"add", "sub", "mul", "div"}
  BY <1>1 DEF Exec!Arithmetic, Exec!At
<1>3. i.op \in {"add", "sub"} BY <1>1, <1>2
<1>4. /\ Has(ssa_values, i.left) /\ l \in Nat /\ Has(ssa_values, i.right) /\ r \in Nat
  BY <1>3, OperandsThere
<1>5. Exec!operand(i.left) = l /\ Exec!operand(i.right) = r
  BY <1>4, HasIsHas, Zenon DEF Exec!operand
<1>6. Exec!Define(v)
  <2>1. i.op # "div" BY <1>3
  <2> HIDE DEF i, l, r
  <2> QED BY <1>1, <1>5, <2>1 DEF Exec!Arithmetic
<1>7. v \in Nat
  <2>1. Modulus \in Nat \ {0} BY ModulusAssumption
  <2> HIDE DEF i, l, r
  <2>2. (l + r) % Modulus \in Nat /\ (l - r) % Modulus \in Nat BY <1>4, <2>1
  <2> QED BY <1>3, <2>2
<1> HIDE DEF v
<1> QED BY <1>2, <1>6, <1>7, Defined

LEMMA SliceAt ==
    ASSUME NEW S \in Seq(Nat), NEW a \in 1..Len(S), NEW z \in 1..Len(S), NEW k \in a..z
    PROVE  LET list == SubSeq(S, a, z)
           IN  k - a + 1 \in 1..Len(list) /\ list[k - a + 1] = S[k] /\ Len(list) \in Nat
<1> DEFINE list == SubSeq(S, a, z)
           n == z - a + 1
           j == k - a + 1
<1>1. Len(S) \in Nat /\ n \in Nat /\ j \in 1..n /\ a + j - 1 = k OBVIOUS
<1>2. list = [x \in 1..n |-> S[a + x - 1]] /\ Len(list) = n BY <1>1
<1> HIDE DEF list, n, j
<1>3. list[j] = S[a + j - 1] BY <1>1, <1>2
<1> QED BY <1>1, <1>2, <1>3 DEF list, j

LEMMA PhiExecuted ==
    ASSUME AtSsa, Exec!Phi, emitted' = emitted
    PROVE  Executes' /\ ctx' = ctx
<1> DEFINE i == ir.ssas[pc]
           list == SubSeq(ir.phi_lists, i.left, i.left + i.right - 1)
           some == Exec!Computed(list)
           choice == Exec!PhiChoice(list)
           v == ssa_values[list[choice]]
<1>1. ir' = ir /\ i.op = "phi" BY WithinFacts DEF Exec!Phi, Exec!At
<1>2. IF \E k \in 1..Len(list) : list[k] = NULL THEN Exec!Fails("x != NULL")
      ELSE IF some = {} THEN Exec!Fails("found_phi") ELSE Exec!Define(v)
  <2>1. Exec!NULL = NULL BY ExecNames
  <2> QED BY <2>1, WithinFacts DEF Exec!Phi
<1>3. PICK k \in PhiSlice(ir, pc) : Has(ssa_values, ir.phi_lists[k])
  <2>1. pc <= ir.blocks[cur].next BY DEF AtSsa
  <2> QED BY <1>1, <2>1, WithinFacts, PhiFinds
<1>4. /\ ir.phi_lists \in Seq(Nat) /\ i.left \in Nat /\ i.right \in Nat
      /\ PhiSlice(ir, pc) \subseteq 1..Len(ir.phi_lists)
      /\ \A m \in PhiSlice(ir, pc) : ir.phi_lists[m] # NULL
  <2>1. ir \in builder /\ PhisOwnTheirSlice(ir) /\ pc \in SsaIds(ir)
    BY WithinFacts, CodeTyped DEF Done, Sliced
  <2>2. ir.phi_lists \in Seq(Nat) /\ ir.ssas \in Seq(ssa) BY <2>1 DEF builder
  <2>3. i \in ssa BY <2>1, <2>2 DEF SsaIds
  <2>4. pc \in Phis(ir) BY <1>1, <2>1 DEF Phis
  <2>5. /\ PhiSlice(ir, pc) \subseteq 1..Len(ir.phi_lists)
        /\ \A m \in PhiSlice(ir, pc) : ir.phi_lists[m] \in 1..pc - 1
    BY <2>1, <2>4, Zenon DEF PhisOwnTheirSlice
  <2>6. \A m \in PhiSlice(ir, pc) : ir.phi_lists[m] # NULL
    <3>1. \A n \in 1..pc - 1 : n # NULL BY DEF NULL
    <3> QED BY <2>5, <3>1
  <2> HIDE DEF i
  <2>7. i.left \in Nat /\ i.right \in Nat BY <2>3 DEF ssa
  <2> QED BY <2>2, <2>5, <2>6, <2>7
<1>5. /\ i.left <= k /\ k <= i.left + i.right - 1 /\ k \in Int
      /\ PhiSlice(ir, pc) = i.left .. i.left + i.right - 1
  BY <1>3, <1>4 DEF PhiSlice
<1> HIDE DEF i
<1>6. /\ i.left \in 1..Len(ir.phi_lists) /\ i.left + i.right - 1 \in 1..Len(ir.phi_lists)
      /\ Len(ir.phi_lists) \in Nat
  <2>1. i.left \in PhiSlice(ir, pc) /\ i.left + i.right - 1 \in PhiSlice(ir, pc) BY <1>4, <1>5
  <2> QED BY <1>4, <2>1
<1> DEFINE j == k - i.left + 1
<1>7. j \in 1..Len(list) /\ list[j] = ir.phi_lists[k] /\ Len(list) \in Nat
  <2> DEFINE z == i.left + i.right - 1
  <2>1. k \in i.left .. z BY <1>3, <1>5
  <2>2. z \in 1..Len(ir.phi_lists) BY <1>6
  <2>3. list = SubSeq(ir.phi_lists, i.left, z) OBVIOUS
  <2> HIDE DEF z, list
  <2> QED BY <1>4, <1>6, <2>1, <2>2, <2>3, SliceAt
\* Each argument is an instruction.
<1>8. \A m \in 1..Len(list) : list[m] # NULL
  <2> SUFFICES ASSUME NEW m \in 1..Len(list) PROVE list[m] # NULL OBVIOUS
  <2> DEFINE z == i.left + i.right - 1
             n == i.left + m - 1
  <2>1. z \in 1..Len(ir.phi_lists) /\ Len(list) = z - i.left + 1 BY <1>4, <1>6
  <2>2. n \in i.left .. z BY <1>6, <2>1
  <2>3. list = SubSeq(ir.phi_lists, i.left, z) /\ n - i.left + 1 = m BY <1>6
  <2> HIDE DEF z, n, list
  <2>4. list[m] = ir.phi_lists[n] BY <1>4, <1>6, <2>1, <2>2, <2>3, SliceAt
  <2>5. ir.phi_lists[n] # NULL BY <1>4, <1>5, <2>2 DEF z
  <2> QED BY <2>4, <2>5
<1> HIDE DEF list
<1>9. j \in some
  <2>1. Exec!has_value(list[j]) BY <1>3, <1>7, HasIsHas
  <2> QED BY <1>7, <2>1, Zenon DEF Exec!Computed
<1>10. choice \in some
  <2>1. some \in SUBSET Nat BY <1>7 DEF Exec!Computed
  <2> HIDE DEF some, j
  <2>2. \E n \in some : \A m \in some : n <= m BY <1>9, <2>1, LeastNumber, Zenon
  <2>3. choice = CHOOSE n \in some : \A m \in some : n <= m BY DEF Exec!PhiChoice, some
  <2> QED BY <2>2, <2>3, Zenon
<1>11. v \in Nat
  <2>1. Exec!has_value(list[choice]) BY <1>10, Zenon DEF Exec!Computed
  <2>2. Has(ssa_values, list[choice]) BY <2>1, HasIsHas
  <2>3. ssa_values \in [SsaIds(ir) -> Nat \cup {Exec!Unset}] BY WithinFacts DEF ValuesTyped
  <2> HIDE DEF choice, Exec!Unset
  <2> QED BY <2>2, <2>3 DEF Has
<1>12. some # {} BY <1>9
<1>13. Exec!Define(v) BY <1>2, <1>12, <1>8
<1> HIDE DEF v
<1> QED BY <1>1, <1>11, <1>13, Defined

\* At the end of a block control goes on, or the code has ended.
LEMMA LeaveExecuted ==
    ASSUME PipeInv, executing, Exec!Leave, emitted' = emitted
    PROVE  Executes' /\ ctx'.return_value = ctx.return_value
<1> DEFINE b == ir.blocks[cur]
<1>1. /\ fault = NoFault /\ pc # NULL /\ pc > b.next /\ ir' = ir
  BY ExecNames DEF Exec!Leave
<1>2. /\ InBody(ir, ssa_values, ctx, cur, pc) /\ ValuesTyped(ir, ssa_values) /\ emitted
      /\ ctx \in [block : Nat, return_value : Nat] /\ Done(ir)
  BY <1>1, EmittedIsDone DEF PipeInv, Executes
<1>3. /\ b.br # "UNUSED"
      /\ b.br # "unconditional" => Has(ssa_values, b.next)
  BY <1>1, <1>2, BodyEnds
<1>4. b.br # "unconditional" => Exec!has_value(b.next) BY <1>3, HasIsHas
<1>5. \E target \in {b.block_true, b.block_false} :
         /\ ctx' = [ctx EXCEPT !.block = target] /\ pc' = NULL
         /\ fault' = fault /\ cur' = cur /\ ssa_values' = ssa_values
  <2> HIDE DEF b, Exec!has_value, Exec!Holds
  <2>1. Exec!NULL = NULL BY ExecNames
  <2>2. CASE b.br = "unconditional"
    <3>1. /\ ctx' = [ctx EXCEPT !.block = b.block_true] /\ pc' = NULL
          /\ fault' = fault /\ cur' = cur /\ ssa_values' = ssa_values
      BY <2>1, <2>2 DEF Exec!Leave, b
    <3> QED BY <3>1
  <2>3. CASE b.br # "unconditional"
    <3> DEFINE target == IF Exec!Holds(b.br, ssa_values[b.next]) THEN b.block_true
                         ELSE b.block_false
    <3>1. /\ ctx' = [ctx EXCEPT !.block = target] /\ pc' = NULL
          /\ fault' = fault /\ cur' = cur /\ ssa_values' = ssa_values
      BY <1>3, <1>4, <2>1, <2>3 DEF Exec!Leave, b
    <3>2. target \in {b.block_true, b.block_false} OBVIOUS
    <3> HIDE DEF target
    <3> QED BY <3>1, <3>2
  <2> QED BY <2>2, <2>3
<1>6. PICK target \in {b.block_true, b.block_false} :
         /\ ctx' = [ctx EXCEPT !.block = target] /\ pc' = NULL
         /\ fault' = fault /\ cur' = cur /\ ssa_values' = ssa_values
  BY <1>5
<1>7. ctx'.block = target /\ ctx'.return_value = ctx.return_value BY <1>2, <1>6
<1>8. target \in Nat
  <2>1. cur \in BlockIds(ir) /\ ir \in builder BY <1>2, CodeTyped DEF InBody, Done
  <2>2. ir.blocks \in Seq(bb) BY <2>1 DEF builder
  <2>3. b \in bb BY <2>1, <2>2 DEF BlockIds
  <2> HIDE DEF b
  <2>4. b.block_true \in Nat /\ b.block_false \in Nat BY <2>3 DEF bb
  <2> QED BY <2>4
<1>9. ctx' \in [block : Nat, return_value : Nat] BY <1>2, <1>6, <1>8
<1>10. AtBlock(ir, ssa_values, ctx') BY <1>1, <1>2, <1>7, GoesToBlock
<1>11. Executes' BY <1>1, <1>2, <1>6, <1>9, <1>10 DEF Executes
<1> QED BY <1>7, <1>11

LEMMA EnterExecuted ==
    ASSUME PipeInv, executing, Exec!Enter, emitted' = emitted
    PROVE  Executes' /\ ctx'.return_value = ctx.return_value
<1> DEFINE b == ctx.block
<1>1. /\ fault = NoFault /\ pc = NULL /\ b # NULL /\ ir' = ir
  BY ExecNames DEF Exec!Enter
<1>2. /\ AtBlock(ir, ssa_values, ctx) /\ ValuesTyped(ir, ssa_values) /\ emitted
      /\ ctx \in [block : Nat, return_value : Nat] /\ Done(ir)
  BY <1>1, EmittedIsDone DEF PipeInv, Executes
<1> DEFINE y == [ctx EXCEPT !.block = NULL]
<1>3. /\ y.block = NULL /\ y.return_value = ctx.return_value
      /\ y \in [block : Nat, return_value : Nat]
  BY <1>2 DEF NULL
<1>4. ir.blocks[b].head # NULL /\ InBody(ir, ssa_values, y, b, ir.blocks[b].head)
  BY <1>1, <1>2, <1>3, EntersBlock
<1>5. /\ cur' = b /\ pc' = ir.blocks[b].head /\ ctx' = y
      /\ fault' = fault /\ ssa_values' = ssa_values
  BY <1>4, ExecNames DEF Exec!Enter
<1> HIDE DEF y
<1>6. Executes' BY <1>1, <1>2, <1>3, <1>4, <1>5 DEF Executes
<1> QED BY <1>3, <1>5, <1>6

\* A step of the interpreter keeps the invariant, and a return already met.
LEMMA ExecutionKeeps ==
    ASSUME PipeInv, Execution
    PROVE  PipeInv' /\ (ctx.return_value # NULL => ctx'.return_value = ctx.return_value)
<1>1. /\ executing /\ executing' = executing /\ emitted' = emitted
      /\ locals' = locals /\ tasks' = tasks /\ Exec!Step
  BY Zenon DEF Execution
<1>2. EmitInv /\ EmitSafe /\ Executes BY <1>1, Zenon DEF PipeInv
<1>3. ASSUME NEW ops, Exec!At(ops) PROVE AtSsa /\ ir' = ir
  BY <1>1, <1>3, ExecNames, Zenon DEF Exec!At, AtSsa
<1>4. /\ Executes' /\ ir' = ir
      /\ ctx.return_value # NULL => ctx'.return_value = ctx.return_value
  <2>1. CASE Exec!Enter
    <3>1. ir' = ir BY <2>1, Zenon DEF Exec!Enter
    <3> QED BY <1>1, <2>1, <3>1, EnterExecuted, Zenon
  <2>2. CASE Exec!Literal
    <3>1. AtSsa /\ ir' = ir BY <1>3, <2>2, Zenon DEF Exec!Literal
    <3> QED BY <1>1, <2>2, <3>1, LiteralExecuted, Zenon
  <2>3. CASE Exec!Arithmetic
    <3>1. AtSsa /\ ir' = ir BY <1>3, <2>3, Zenon DEF Exec!Arithmetic
    <3> QED BY <1>1, <2>3, <3>1, ArithmeticExecuted, Zenon
  <2>4. CASE Exec!Phi
    <3>1. AtSsa /\ ir' = ir BY <1>3, <2>4, Zenon DEF Exec!Phi
    <3> QED BY <1>1, <2>4, <3>1, PhiExecuted, Zenon
  <2>5. CASE Exec!Return
    <3>1. AtSsa /\ ir' = ir BY <1>3, <2>5, Zenon DEF Exec!Return
    <3> QED BY <1>1, <2>5, <3>1, ReturnExecuted, Zenon
  <2>6. CASE Exec!Skip
    <3>1. AtSsa /\ ir' = ir BY <1>3, <2>6, Zenon DEF Exec!Skip
    <3> QED BY <1>1, <2>6, <3>1, SkipExecuted, Zenon
  <2>7. CASE Exec!Leave
    <3>1. ir' = ir BY <2>7, Zenon DEF Exec!Leave
    <3> QED BY <1>1, <2>7, <3>1, LeaveExecuted, Zenon
  <2> QED BY <1>1, <2>1, <2>2, <2>3, <2>4, <2>5, <2>6, <2>7, Zenon DEF Exec!Step
<1>5. fault' = fault
  <2>1. fault = NoFault BY <1>2, Zenon DEF Executes
  <2>2. fault' = NoFault BY <1>4, Zenon DEF Executes
  <2> QED BY <2>1, <2>2
<1>6. EmitInv' /\ EmitSafe' BY <1>1, <1>2, <1>4, <1>5, EmitInvRests
<1>7. PipeInv' BY <1>1, <1>4, <1>6, Zenon DEF PipeInv
<1> QED BY <1>4, <1>7

\* The emitter stops before the interpreter is started.
LEMMA EmitKeeps ==
    ASSUME PipeInv, Emit
    PROVE  PipeInv' /\ ctx' = ctx
<1>1. /\ EmitInv /\ EmitSafe /\ EmitNext /\ executing' = executing /\ ctx' = ctx
      /\ pc' = pc /\ ssa_values' = ssa_values
  BY Zenon DEF PipeInv, Emit, execVars
<1>2. ~ executing
  <2>1. ~ emitted BY <1>1, EmittedRests
  <2> QED BY <2>1, Zenon DEF PipeInv, Executes
<1>3. EmitInv' /\ EmitSafe'
  <2>1. Next BY <1>1, Zenon DEF Next
  <2> QED BY <1>1, <2>1, NextKeeps, NextSafe, Zenon DEF StepKeeps
<1>4. ssa_values = <<>> /\ pc = NULL /\ ctx = [block |-> NULL, return_value |-> NULL]
  BY <1>2, Zenon DEF PipeInv
<1> QED BY <1>1, <1>2, <1>3, <1>4, Zenon DEF PipeInv

LEMMA PipeKeeps ==
    ASSUME PipeInv, [PipelineNext]_allVars
    PROVE  PipeInv' /\ (ctx.return_value # NULL => ctx'.return_value = ctx.return_value)
<1>1. CASE Emit
  <2>1. PipeInv' /\ ctx' = ctx BY <1>1, EmitKeeps
  <2> QED BY <2>1
<1>2. CASE StartExec
  <2>1. PipeInv' /\ ~ executing BY <1>2, StartKeeps
  <2>2. ctx.return_value = NULL BY <2>1 DEF PipeInv
  <2> QED BY <2>1, <2>2
<1>3. CASE Execution BY <1>3, ExecutionKeeps
<1>4. CASE UNCHANGED allVars
  <2>1. /\ ir' = ir /\ locals' = locals /\ tasks' = tasks /\ emitted' = emitted /\ fault' = fault
        /\ executing' = executing /\ ctx' = ctx /\ cur' = cur /\ pc' = pc
        /\ ssa_values' = ssa_values
    BY <1>4 DEF allVars, vars, execVars
  <2>2. EmitInv' /\ EmitSafe' BY <2>1, EmitInvRests DEF PipeInv
  <2>3. Executes' <=> Executes BY <2>1, Zenon DEF Executes
  <2>4. PipeInv' BY <2>1, <2>2, <2>3, Zenon DEF PipeInv
  <2> QED BY <2>1, <2>4
<1> QED BY <1>1, <1>2, <1>3, <1>4, Zenon DEF PipelineNext, Stopped

LEMMA PipeStarts == PipelineInit => PipeInv
<1> SUFFICES ASSUME PipelineInit PROVE PipeInv
  OBVIOUS
<1>1. EmitInv /\ EmitSafe BY InitHolds, InitSafe, Zenon DEF PipelineInit
<1>2. executing = FALSE /\ Exec!InterpInit BY Zenon DEF PipelineInit
<1>3. ssa_values = <<>> /\ pc = NULL /\ ctx = [block |-> NULL, return_value |-> NULL]
  BY <1>2, ExecNames, Zenon DEF Exec!InterpInit
<1> QED BY <1>1, <1>2, <1>3, Zenon DEF PipeInv

LEMMA PipeAlways == Pipeline => []PipeInv
<1>1. PipelineInit => PipeInv BY PipeStarts
<1>2. PipeInv /\ [PipelineNext]_allVars => PipeInv' BY PipeKeeps
<1> QED BY <1>1, <1>2, PTL DEF Pipeline

\* No assertion of the interpreter fails on code the emitter has finished:
\* every block entered has a first instruction and an end, every branch finds
\* the value it tests, every phi finds an argument, no instruction is executed
\* twice, and nothing divides.
THEOREM ExecutionIsClean == Pipeline => []ExecutionNeverAborts
<1>1. PipeInv => ExecutionNeverAborts
  BY Zenon DEF PipeInv, Executes, ExecutionNeverAborts
<1> QED BY <1>1, PipeAlways, PTL

\* An addition or difference always meets two operands that were computed on
\* the path that execution took: the default that stands for a missing value
\* never reaches a result.
THEOREM OperandsAreComputed == Pipeline => []NoDefaultOperand
<1>1. PipeInv => NoDefaultOperand
  <2> SUFFICES ASSUME PipeInv, executing, fault = NoFault, pc # NULL,
                      pc <= ir.blocks[cur].next, Exec!instruction.op \in {"add", "sub"}
               PROVE  Exec!has_value(Exec!instruction.left) /\ Exec!has_value(Exec!instruction.right)
    BY Zenon DEF NoDefaultOperand
  <2>1. AtSsa BY Zenon DEF AtSsa
  <2>2. Exec!instruction = ir.ssas[pc] BY <2>1, WithinFacts
  <2>3. Has(ssa_values, ir.ssas[pc].left) /\ Has(ssa_values, ir.ssas[pc].right)
    BY <2>1, <2>2, OperandsThere
  <2> HIDE DEF Exec!instruction, Exec!has_value
  <2> QED BY <2>2, <2>3, HasIsHas
<1> QED BY <1>1, PipeAlways, PTL

\* The first return executed is the last: return does not stop its block, and
\* no branch is marked by it, but the block it is in ends with it and leads
\* nowhere.
THEOREM FirstReturnStands == Pipeline => ReturnIsFinal
<1>1. PipeInv /\ [PipelineNext]_allVars =>
         [ctx.return_value # NULL => ctx'.return_value = ctx.return_value]_allVars
  BY PipeKeeps
<1> QED BY <1>1, PipeAlways, PTL DEF Pipeline, ReturnIsFinal

=============================================================================
