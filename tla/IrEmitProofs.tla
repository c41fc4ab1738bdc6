---------------------------- MODULE IrEmitProofs ----------------------------
(***************************************************************************)
(* Proofs about IrEmit, for every capacity and every tree.                 *)
(***************************************************************************)
EXTENDS IrEmit, IrOpsProofs, FiniteSetTheorems, WellFoundedInduction

-----------------------------------------------------------------------------
(***************************************************************************)
(* Induction and recursion over a bounded rank.                            *)
(***************************************************************************)
LEMMA LeastNumber ==
    ASSUME NEW N \in SUBSET Nat, N # {}
    PROVE  \E n \in N : \A m \in N : n <= m
<1> DEFINE R == {ss \in Nat \X Nat : ss[1] < ss[2]}
<1>1. IsWellFoundedOn(R, Nat) BY NatLessThanWellFounded DEF OpToRel
<1>2. \A n, m \in Nat : <<n, m>> \in R <=> n < m OBVIOUS
<1> HIDE DEF R
<1>3. PICK n \in N : \A m \in N : ~ (<<m, n>> \in R) BY <1>1, WFMin, Zenon
<1>4. \A m \in N : m \in Nat /\ n \in Nat /\ ~ (m < n) BY <1>2, <1>3, Zenon
<1>5. \A m \in N : n <= m BY <1>4
<1> QED BY <1>5

LEMMA UpTo ==
    ASSUME NEW n \in Nat, NEW S, 0 \in S, \A k \in 1..n : k - 1 \in S => k \in S
    PROVE  \A k \in 0..n : k \in S
<1> SUFFICES ASSUME NEW j \in 0..n, j \notin S PROVE FALSE
  OBVIOUS
<1> DEFINE missing == {k \in 0..n : k \notin S}
<1>1. missing \in SUBSET Nat /\ missing # {} OBVIOUS
<1>2. PICK k \in missing : \A i \in missing : k <= i BY <1>1, LeastNumber, Zenon
<1>3. k \in 1..n /\ k - 1 \in 0..n BY <1>2
<1>4. k - 1 \in S BY <1>2, <1>3
<1> QED BY <1>2, <1>3, <1>4

\* A function defined on D by what it is where it stops and from what it is
\* one step down, where every step down lowers the rank, exists.
StepsDown(D, S, n, rank, Stop, stop, down, step) ==
    /\ n \in Nat /\ rank \in [D -> 0..n] /\ down \in [D -> D]
    /\ stop \in [D -> S] /\ step \in [D -> [S -> S]]
    /\ \A d \in D : d \notin Stop => rank[down[d]] < rank[d]

LEMMA Recursion ==
    ASSUME NEW D, NEW S, NEW n, NEW rank, NEW Stop, NEW stop, NEW down, NEW step,
           StepsDown(D, S, n, rank, Stop, stop, down, step)
    PROVE  \E f \in [D -> S] :
               \A d \in D : f[d] = IF d \in Stop THEN stop[d] ELSE step[d][f[down[d]]]
<1> USE DEF StepsDown
<1> DEFINE Right(f, d) == f[d] = IF d \in Stop THEN stop[d] ELSE step[d][f[down[d]]]
           UpToRank == {k \in Nat : \E f \in [D -> S] : \A d \in D : rank[d] < k => Right(f, d)}
<1>1. 0 \in UpToRank
  <2>1. \A d \in D : ~ (rank[d] < 0) OBVIOUS
  <2> QED BY <2>1
<1>2. ASSUME NEW k \in Nat, k \in UpToRank PROVE k + 1 \in UpToRank
  <2>1. PICK f \in [D -> S] : \A d \in D : rank[d] < k => Right(f, d) BY <1>2
  <2> DEFINE g == [d \in D |-> IF d \in Stop THEN stop[d] ELSE step[d][f[down[d]]]]
  <2>2. g \in [D -> S] OBVIOUS
  <2>3. ASSUME NEW d \in D, rank[d] < k + 1 PROVE Right(g, d)
    <3>1. CASE d \in Stop BY <3>1
    <3>2. CASE d \notin Stop
      <4>1. rank[down[d]] < k /\ down[d] \in D BY <2>3, <3>2
      <4>2. Right(f, down[d]) BY <2>1, <4>1
      <4>3. g[down[d]] = f[down[d]] BY <4>1, <4>2, Zenon
      <4> QED BY <3>2, <4>3, Zenon
    <3> QED BY <3>1, <3>2, Zenon
  <2> HIDE DEF g, Right
  <2> QED BY <2>2, <2>3
<1> HIDE DEF UpToRank
<1>3. \A k \in 0..n + 1 : k \in UpToRank
  <2>1. n + 1 \in Nat /\ \A k \in 1..n + 1 : k - 1 \in UpToRank => k \in UpToRank
    <3> SUFFICES ASSUME NEW k \in 1..n + 1, k - 1 \in UpToRank PROVE k \in UpToRank
      OBVIOUS
    <3>1. k - 1 \in Nat /\ (k - 1) + 1 = k OBVIOUS
    <3> QED BY <1>2, <3>1
  <2> QED BY <1>1, <2>1, UpTo, Zenon
<1>4. n + 1 \in UpToRank BY <1>3
<1>5. \A d \in D : rank[d] < n + 1 OBVIOUS
<1> QED BY <1>4, <1>5 DEF UpToRank

\* The same counting from 0 to n
Counts(n, S, first, step) == n \in Nat /\ first \in S /\ step \in [1..n -> [S -> S]]

LEMMA Counted ==
    ASSUME NEW n, NEW S, NEW first, NEW step, Counts(n, S, first, step)
    PROVE  \E f \in [0..n -> S] : /\ f[0] = first
                                  /\ \A k \in 1..n : f[k] = step[k][f[k - 1]]
                                  /\ f = [k \in 0..n |-> IF k = 0 THEN first ELSE step[k][f[k - 1]]]
<1> USE DEF Counts
<1> DEFINE D == 0..n
           rank == [k \in D |-> k]
           down == [k \in D |-> IF k = 0 THEN 0 ELSE k - 1]
           stop == [k \in D |-> first]
           total == [k \in D |-> IF k = 0 THEN [x \in S |-> first] ELSE step[k]]
<1>1. rank \in [D -> 0..n] /\ down \in [D -> D] /\ stop \in [D -> S]
  OBVIOUS
<1>2. total \in [D -> [S -> S]]
  <2>1. \A k \in D : k # 0 => k \in 1..n OBVIOUS
  <2>2. [x \in S |-> first] \in [S -> S] OBVIOUS
  <2>3. \A k \in D : (IF k = 0 THEN [x \in S |-> first] ELSE step[k]) \in [S -> S]
    BY <2>1, <2>2
  <2> QED BY <2>3
<1>3. \A d \in D : d \notin {0} => rank[down[d]] < rank[d] OBVIOUS
<1>0. StepsDown(D, S, n, rank, {0}, stop, down, total) BY <1>1, <1>2, <1>3 DEF StepsDown
<1>4. \A k \in 1..n : k \in D /\ k # 0 /\ down[k] = k - 1 /\ k - 1 \in D OBVIOUS
<1>5. \A k \in 1..n : \A x \in S : total[k][x] = step[k][x] BY <1>4
<1>6. stop[0] = first /\ 0 \in D OBVIOUS
<1> HIDE DEF rank, down, stop, total, D
<1>7. PICK f \in [D -> S] :
         \A d \in D : f[d] = IF d \in {0} THEN stop[d] ELSE total[d][f[down[d]]]
  BY <1>0, Recursion, SMT
<1>8. f[0] = first BY <1>6, <1>7
<1>9. ASSUME NEW k \in 1..n PROVE f[k] = step[k][f[k - 1]]
  <2>1. f[k] = total[k][f[k - 1]] BY <1>4, <1>7
  <2>2. f[k - 1] \in S BY <1>4
  <2> QED BY <1>5, <2>1, <2>2
<1>10. D = 0..n /\ \A k \in D : k # 0 => k \in 1..n BY DEF D
<1>11. f = [k \in D |-> IF k = 0 THEN first ELSE step[k][f[k - 1]]]
  BY <1>8, <1>9, <1>10
<1> QED BY <1>8, <1>9, <1>10, <1>11, Zenon

-----------------------------------------------------------------------------
(***************************************************************************)
(* What the recursive definitions of the emitter unfold to.                *)
(***************************************************************************)
LEMMA PhiOfUnfolds ==
    ASSUME NEW B, Typed(B), NEW values \in Seq(Nat)
    PROVE  \E pushed :
             /\ pushed[0] = start_phi(B)
             /\ \A k \in 1..Len(values) : pushed[k] = push_phi(pushed[k - 1], values[k])
             /\ PhiOf(B, values) = end_phi(pushed[Len(values)])
<1> DEFINE S == {C \in builder : PointersInBounds(C)}
           n == Len(values)
           step == [k \in 1..n |-> [C \in S |-> push_phi(C, values[k])]]
<1>1. n \in Nat /\ \A k \in 1..n : values[k] \in Nat OBVIOUS
<1>2. start_phi(B) \in S BY start_phiTyped, Zenon DEF Typed
<1>3. step \in [1..n -> [S -> S]]
  <2> SUFFICES ASSUME NEW k \in 1..n, NEW C \in S PROVE push_phi(C, values[k]) \in S
    OBVIOUS
  <2> QED BY <1>1, push_phiTyped, Zenon DEF Typed
<1>4. \A k \in 1..n : \A C \in S : step[k][C] = push_phi(C, values[k]) OBVIOUS
<1>0. Counts(n, S, start_phi(B), step) BY <1>1, <1>2, <1>3, Zenon DEF Counts
<1> HIDE DEF step, S, n
<1>5. PICK f \in [0..n -> S] :
          /\ f[0] = start_phi(B)
          /\ \A k \in 1..n : f[k] = step[k][f[k - 1]]
  BY <1>0, Counted, SMT
<1>6. \A k \in 1..n : f[k] = push_phi(f[k - 1], values[k])
  <2> SUFFICES ASSUME NEW k \in 1..n PROVE f[k] = push_phi(f[k - 1], values[k])
    OBVIOUS
  <2>1. k - 1 \in 0..n BY <1>1
  <2> QED BY <1>4, <1>5, <2>1, Zenon
<1>7. f = [k \in 0..n |-> IF k = 0 THEN start_phi(B) ELSE push_phi(f[k - 1], values[k])]
  <2>1. \A k \in 0..n : k # 0 => k \in 1..n BY <1>1
  <2> QED BY <1>5, <1>6, <2>1
<1> DEFINE pushed == CHOOSE g : g = [k \in 0..n |-> IF k = 0 THEN start_phi(B)
                                                  ELSE push_phi(g[k - 1], values[k])]
<1>8. pushed = [k \in 0..n |-> IF k = 0 THEN start_phi(B)
                              ELSE push_phi(pushed[k - 1], values[k])]
  BY <1>7, Zenon
<1>9. PhiOf(B, values) = end_phi(pushed[n]) BY Zenon DEF PhiOf, n
<1> HIDE DEF pushed
<1>10. pushed[0] = start_phi(B) /\ \A k \in 1..n : pushed[k] = push_phi(pushed[k - 1], values[k])
  <2>1. 0 \in 0..n /\ \A k \in 1..n : k \in 0..n /\ k # 0 BY <1>1
  <2> QED BY <1>8, <2>1, Zenon
<1> QED BY <1>9, <1>10, Zenon DEF n

-----------------------------------------------------------------------------
(***************************************************************************)
(* The code under construction.  Code holds between any two calls of the   *)
(* emitter into the builder but inside a phi.                              *)
(***************************************************************************)
Unstarted(B) == {b \in BlockIds(B) : ~ Started(B.blocks[b])}

\* An edge is recorded once, and it comes from a block started earlier.
Linked(B) ==
    /\ \A b \in BlockIds(B) : Len(B.blocks[b].predecessors) <= MaxPreds
    /\ \A b \in BlockIds(B) : Started(B.blocks[b]) =>
          \A k \in 1..Len(B.blocks[b].predecessors) :
              B.blocks[B.blocks[b].predecessors[k]].head < B.blocks[b].head
    /\ \A p \in BlockIds(B) : \A b \in Targets(B.blocks[p]) :
          \E k \in 1..Len(B.blocks[b].predecessors) :
              \A j \in 1..Len(B.blocks[b].predecessors) :
                  B.blocks[b].predecessors[j] = p <=> j = k

\* v is an instruction of block b that has a value
ValueOf(B, b, v) == /\ v \in SsaIds(B) /\ B.ssas[v].block = b
                    /\ ~ has_flag(B.ssas[v], "no_value")

FinalsLocal(B) ==
    \A b \in BlockIds(B), sym \in Symbols :
        try_get(B.blocks[b], sym) => ValueOf(B, b, B.blocks[b].final_values[sym])

OperandsOf(i) == CASE i.op \in {"add", "sub"} -> {i.left, i.right}
                   [] i.op = "ret" -> {i.left} \ {NULL}
                   [] OTHER -> {}

OperandsLocal(B) ==
    \A s \in SsaIds(B) : \A o \in OperandsOf(B.ssas[s]) :
        o \in 1..s - 1 /\ ValueOf(B, B.ssas[s].block, o)

Code(B) == /\ Exact(B) /\ Wired(B) /\ Sliced(B)
           /\ B.fault = NoFault /\ B.phi_start = NULL
           /\ Linked(B) /\ FinalsLocal(B) /\ OperandsLocal(B)

\* From B to C no ended block changes, and no started one gains a predecessor.
Settled(B, C) ==
    \A b \in BlockIds(B) :
        /\ b \in BlockIds(C)
        /\ Started(B.blocks[b]) => /\ Started(C.blocks[b])
                                   /\ C.blocks[b].predecessors = B.blocks[b].predecessors

Follows(B, C) == Frozen(B, C) /\ Settled(B, C)

\* The blocks that are listed as predecessors of block b
Preds(B, b) == {B.blocks[b].predecessors[k] : k \in 1..Len(B.blocks[b].predecessors)}

\* From B to C no instruction is added: the open block may be listed and may
\* choose its branch, but other blocks keep theirs, and no range changes.
Moves(B, C) ==
    /\ \A d \in BlockIds(C) : \A p \in Preds(C, d) :
          \/ p = B.current_block /\ p \in BlockIds(B)
          \/ d \in BlockIds(B) /\ p \in Preds(B, d)
    /\ \A d \in BlockIds(B) :
          /\ d \in BlockIds(C) /\ EndOf(C, d) = EndOf(B, d)
          /\ d # B.current_block => /\ C.blocks[d].br = B.blocks[d].br
                                    /\ Targets(C.blocks[d]) = Targets(B.blocks[d])
    /\ \A d \in BlockIds(C) : d \notin BlockIds(B) => C.blocks[d].br = "UNUSED"

LEMMA FollowsItself == \A B : Follows(B, B)
BY FrozenItself, Zenon DEF Follows, Settled

LEMMA FollowsTransitive ==
    ASSUME NEW B, NEW C, NEW D, Follows(B, C), Follows(C, D)
    PROVE  Follows(B, D)
<1>1. Settled(B, D)
  <2> SUFFICES ASSUME NEW b \in BlockIds(B)
               PROVE  /\ b \in BlockIds(D)
                      /\ Started(B.blocks[b]) =>
                            /\ Started(D.blocks[b])
                            /\ D.blocks[b].predecessors = B.blocks[b].predecessors
    BY DEF Settled
  <2>1. /\ b \in BlockIds(C)
        /\ Started(B.blocks[b]) => /\ Started(C.blocks[b])
                                   /\ C.blocks[b].predecessors = B.blocks[b].predecessors
    BY Zenon DEF Follows, Settled
  <2>2. /\ b \in BlockIds(D)
        /\ Started(C.blocks[b]) => /\ Started(D.blocks[b])
                                   /\ D.blocks[b].predecessors = C.blocks[b].predecessors
    BY <2>1, Zenon DEF Follows, Settled
  <2> QED BY <2>1, <2>2
<1>2. Frozen(B, D)
  <2> SUFFICES ASSUME NEW b \in BlockIds(B), Ended(B.blocks[b])
               PROVE  b \in BlockIds(D) /\ SameButPredecessors(B.blocks[b], D.blocks[b])
    BY DEF Frozen
  <2>1. b \in BlockIds(C) /\ SameButPredecessors(B.blocks[b], C.blocks[b])
    BY Zenon DEF Follows, Frozen
  <2>2. Ended(C.blocks[b]) BY <2>1 DEF Ended, SameButPredecessors
  <2>3. b \in BlockIds(D) /\ SameButPredecessors(C.blocks[b], D.blocks[b])
    BY <2>1, <2>2, Zenon DEF Follows, Frozen
  <2> QED BY <2>1, <2>3 DEF SameButPredecessors
<1> QED BY <1>1, <1>2 DEF Follows

-----------------------------------------------------------------------------
(***************************************************************************)
(* What keeps the parts of Code.                                           *)
(***************************************************************************)
\* C has the instructions of B, and perhaps more.
Longer(B, C) == \A s \in SsaIds(B) : s \in SsaIds(C) /\ C.ssas[s] = B.ssas[s]

LEMMA ValuesLast ==
    ASSUME NEW B, NEW C, Longer(B, C), NEW b, NEW v, ValueOf(B, b, v)
    PROVE  ValueOf(C, b, v)
BY Zenon DEF Longer, ValueOf

LEMMA FinalsKept ==
    ASSUME NEW B, FinalsLocal(B), NEW C, Longer(B, C),
           \A b \in BlockIds(C) :
              \/ b \in BlockIds(B) /\ C.blocks[b].final_values = B.blocks[b].final_values
              \/ C.blocks[b].final_values = FreshBlock.final_values
    PROVE  FinalsLocal(C)
<1> SUFFICES ASSUME NEW b \in BlockIds(C), NEW sym \in Symbols, try_get(C.blocks[b], sym)
             PROVE  ValueOf(C, b, C.blocks[b].final_values[sym])
  BY DEF FinalsLocal
<1>1. C.blocks[b].final_values # FreshBlock.final_values BY DEF try_get, FreshBlock
<1>2. b \in BlockIds(B) /\ C.blocks[b].final_values = B.blocks[b].final_values
  BY <1>1
<1>3. ValueOf(B, b, B.blocks[b].final_values[sym]) BY <1>2, Zenon DEF FinalsLocal, try_get
<1> QED BY <1>2, <1>3, ValuesLast, Zenon

LEMMA OperandsKept ==
    ASSUME NEW B, OperandsLocal(B), NEW C, Longer(B, C),
           \A s \in SsaIds(C) : s \notin SsaIds(B) =>
               \A o \in OperandsOf(C.ssas[s]) : o \in 1..s - 1 /\ ValueOf(C, C.ssas[s].block, o)
    PROVE  OperandsLocal(C)
<1> SUFFICES ASSUME NEW s \in SsaIds(C), NEW o \in OperandsOf(C.ssas[s])
             PROVE  o \in 1..s - 1 /\ ValueOf(C, C.ssas[s].block, o)
  BY DEF OperandsLocal
<1>1. CASE s \in SsaIds(B)
  <2>1. C.ssas[s] = B.ssas[s] BY <1>1, Zenon DEF Longer
  <2>2. o \in 1..s - 1 /\ ValueOf(B, B.ssas[s].block, o)
    BY <1>1, <2>1, Zenon DEF OperandsLocal
  <2> QED BY <2>1, <2>2, ValuesLast, Zenon
<1> QED BY <1>1

LEMMA TargetsExist ==
    ASSUME NEW B, Typed(B), NEW p \in BlockIds(B)
    PROVE  Targets(B.blocks[p]) \subseteq BlockIds(B)
<1>1. /\ B.blocks[p].block_true \in 0..Len(B.blocks) /\ B.blocks[p].block_false \in 0..Len(B.blocks)
      /\ Len(B.blocks) \in Nat
  BY LengthType, Zenon DEF Typed, PointersInBounds, BlockInBounds
<1> QED BY <1>1 DEF Targets, BlockIds, NULL

LEMMA LinkedKept ==
    ASSUME NEW B, Typed(B), Linked(B), NEW C, BlockIds(C) = BlockIds(B),
           \A b \in BlockIds(B) : /\ C.blocks[b].predecessors = B.blocks[b].predecessors
                                  /\ C.blocks[b].head = B.blocks[b].head
                                  /\ Targets(C.blocks[b]) = Targets(B.blocks[b]),
           PredecessorsBranchHere(B)
    PROVE  Linked(C)
<1>1. \A b \in BlockIds(C) : Len(C.blocks[b].predecessors) <= MaxPreds
  BY Zenon DEF Linked
<1>2. ASSUME NEW b \in BlockIds(C), Started(C.blocks[b]),
             NEW k \in 1..Len(C.blocks[b].predecessors)
      PROVE  C.blocks[C.blocks[b].predecessors[k]].head < C.blocks[b].head
  <2> DEFINE p == B.blocks[b].predecessors[k]
  <2>1. b \in BlockIds(B) /\ k \in 1..Len(B.blocks[b].predecessors) /\ Started(B.blocks[b])
    BY <1>2, Zenon DEF Started
  <2>2. p \in BlockIds(B) BY <2>1 DEF PredecessorsBranchHere
  <2>3. B.blocks[p].head < B.blocks[b].head BY <2>1 DEF Linked
  <2>4. C.blocks[b].predecessors[k] = p BY <2>1
  <2>5. C.blocks[p].head = B.blocks[p].head BY <2>2
  <2>6. C.blocks[b].head = B.blocks[b].head BY <2>1
  <2> HIDE DEF p
  <2> QED BY <2>3, <2>4, <2>5, <2>6, Zenon
<1>3. ASSUME NEW p \in BlockIds(C), NEW b \in Targets(C.blocks[p])
      PROVE  \E k \in 1..Len(C.blocks[b].predecessors) :
                \A j \in 1..Len(C.blocks[b].predecessors) :
                    C.blocks[b].predecessors[j] = p <=> j = k
  <2>1. p \in BlockIds(B) /\ b \in Targets(B.blocks[p]) BY <1>3, Zenon
  <2>2. PICK k \in 1..Len(B.blocks[b].predecessors) :
           \A j \in 1..Len(B.blocks[b].predecessors) : B.blocks[b].predecessors[j] = p <=> j = k
    BY <2>1, Zenon DEF Linked
  <2>3. C.blocks[b].predecessors = B.blocks[b].predecessors BY <2>1, TargetsExist, Zenon
  <2> QED BY <2>2, <2>3
<1> QED BY <1>1, <1>2, <1>3 DEF Linked

-----------------------------------------------------------------------------
(***************************************************************************)
(* A call into the builder that passes: what it leaves.                    *)
(***************************************************************************)
LEMMA PredsAppended ==
    ASSUME NEW B, NEW C, NEW d, B.blocks[d].predecessors \in Seq(Nat), NEW n \in Nat,
           C.blocks[d].predecessors = Append(B.blocks[d].predecessors, n)
    PROVE  \A p \in Preds(C, d) : p = n \/ p \in Preds(B, d)
BY DEF Preds

LEMMA PredsKept ==
    ASSUME NEW B, NEW C, NEW d, C.blocks[d].predecessors = B.blocks[d].predecessors
    PROVE  Preds(C, d) = Preds(B, d)
BY DEF Preds

\* The same ends, where no instruction is added and next stays or is written
LEMMA SameEnd ==
    ASSUME NEW B, NEW C, SameSsas(B, C), NEW d,
           \/ C.blocks[d].next = B.blocks[d].next
           \/ ~ Ended(B.blocks[d]) /\ C.blocks[d].next = last_ssa(B)
    PROVE  EndOf(C, d) = EndOf(B, d)
BY DEF EndOf, Ended, SameSsas, last_ssa

LEMMA Failed ==
    ASSUME NEW B \in builder, NEW why \in failure
    PROVE  [B EXCEPT !.fault = why].fault # NoFault
BY Zenon DEF builder, failure, NoFault

LEMMA CheckedFails ==
    ASSUME NEW B \in builder, NEW ok, NEW why \in failure, NEW next, ~ ok
    PROVE  Checked(B, ok, why, next).fault # NoFault
<1>1. CASE B.fault # NoFault BY <1>1, Zenon DEF Checked, Then
<1>2. CASE B.fault = NoFault
  <2>1. Checked(B, ok, why, next) = [B EXCEPT !.fault = why]
    BY <1>2, Zenon DEF Checked, Then
  <2>2. [B EXCEPT !.fault = why].fault = why BY DEF builder
  <2>3. why # NoFault BY Zenon DEF failure, NoFault
  <2> QED BY <2>1, <2>2, <2>3, Zenon
<1> QED BY <1>1, <1>2

LEMMA CheckedPasses ==
    ASSUME NEW B \in builder, NEW ok, NEW why \in failure, NEW next,
           Checked(B, ok, why, next).fault = NoFault
    PROVE  Checked(B, ok, why, next) = next /\ B.fault = NoFault
<1>1. B.fault = NoFault BY Zenon DEF Checked, Then
<1>2. CASE ok BY <1>1, <1>2, Zenon DEF Checked, Then
<1>3. CASE ~ ok BY <1>3, CheckedFails, Zenon
<1> QED BY <1>1, <1>2, <1>3

LEMMA CodeTyped ==
    ASSUME NEW B, Code(B)
    PROVE  /\ Exact(B) /\ Typed(B) /\ B \in builder /\ Wired(B) /\ Sliced(B)
           /\ PredecessorsBranchHere(B) /\ B.fault = NoFault /\ B.phi_start = NULL
           /\ Len(B.blocks) \in Nat /\ Len(B.ssas) \in Nat
           /\ B.current_block \in Nat
BY LengthType, FieldType, Zenon DEF Code, Exact, Typed, Wired

LEMMA alloc_blockPasses ==
    ASSUME NEW B, Code(B), NEW C, C = alloc_block(B), C.fault = NoFault
    PROVE  /\ Code(C) /\ Follows(B, C) /\ SameSsas(B, C) /\ SameMode(B, C)
           /\ last_block(C) = last_block(B) + 1 /\ last_block(C) \notin BlockIds(B)
           /\ BlockIds(C) = BlockIds(B) \cup {last_block(C)}
           /\ Unstarted(C) = Unstarted(B) \cup {last_block(C)}
           /\ C.blocks[last_block(C)] = FreshBlock
           /\ \A b \in BlockIds(B) : C.blocks[b] = B.blocks[b]
<1>1. Typed(B) /\ Exact(B) /\ B \in builder /\ Len(B.blocks) \in Nat BY CodeTyped, Zenon
<1>2. C = [B EXCEPT !.blocks = Append(@, FreshBlock)]
  <2>1. "Arena reached max capacity" \in failure BY DEF failure
  <2> QED BY <1>1, <2>1, CheckedPasses, Zenon DEF alloc_block
<1> DEFINE n == Len(B.blocks) + 1
<1>3. /\ Typed(C) /\ SameSsas(B, C) /\ SameMode(B, C) /\ C.fault = B.fault
      /\ Len(C.blocks) = n /\ C.blocks[n] = FreshBlock
      /\ \A b \in BlockIds(B) : C.blocks[b] = B.blocks[b]
  BY <1>1, <1>2, AppendedBlock, Zenon
<1>4. Sound(B, C) BY <1>1, <1>3, AppendedBlockSound, Zenon
<1>5. Wired(C) BY <1>1, alloc_blockWired, Zenon DEF Code
<1>6. Sliced(C)
  <2>1. SamePhis(B, C) BY <1>1, SamePhisOperations, Zenon DEF SamePhis
  <2> QED BY <2>1, SameSliced, Zenon DEF Code
<1>7. /\ n \in Nat /\ last_block(C) = n /\ last_block(C) = last_block(B) + 1 /\ n \notin BlockIds(B)
      /\ BlockIds(C) = BlockIds(B) \cup {n} /\ SsaIds(C) = SsaIds(B)
  BY <1>1, <1>3 DEF BlockIds, last_block, SsaIds, SameSsas
<1> HIDE DEF n
<1>8. Unstarted(C) = Unstarted(B) \cup {n}
  <2>1. ~ Started(FreshBlock) BY DEF Started, FreshBlock
  <2> QED BY <1>3, <1>7, <2>1, Zenon DEF Unstarted
<1>9. Linked(C)
  <2>1. FreshBlock.predecessors = <<>> /\ Targets(FreshBlock) = {} /\ ~ Started(FreshBlock)
    BY DEF FreshBlock, Targets, Started
  <2>2. \A b \in BlockIds(C) : Len(C.blocks[b].predecessors) <= MaxPreds
    <3>1. Len(<<>>) = 0 /\ MaxPreds \in Nat BY IrBounds
    <3>2. C.blocks[n].predecessors = <<>> BY <1>3, <2>1
    <3>3. \A b \in BlockIds(B) : Len(C.blocks[b].predecessors) <= MaxPreds
      BY <1>3, Zenon DEF Code, Linked
    <3>4. Len(C.blocks[n].predecessors) <= MaxPreds BY <3>1, <3>2
    <3> QED BY <1>7, <3>3, <3>4, Zenon
  <2>3. ASSUME NEW b \in BlockIds(C), Started(C.blocks[b]),
               NEW k \in 1..Len(C.blocks[b].predecessors)
        PROVE  C.blocks[C.blocks[b].predecessors[k]].head < C.blocks[b].head
    <3>1. b \in BlockIds(B) /\ C.blocks[b] = B.blocks[b] BY <1>3, <1>7, <2>1, <2>3, Zenon
    <3>2. B.blocks[b].predecessors[k] \in BlockIds(B)
      BY <2>3, <3>1, CodeTyped DEF PredecessorsBranchHere
    <3>3. B.blocks[B.blocks[b].predecessors[k]].head < B.blocks[b].head
      BY <2>3, <3>1 DEF Code, Linked
    <3> QED BY <1>3, <3>1, <3>2, <3>3
  <2>4. ASSUME NEW p \in BlockIds(C), NEW b \in Targets(C.blocks[p])
        PROVE  \E k \in 1..Len(C.blocks[b].predecessors) :
                  \A j \in 1..Len(C.blocks[b].predecessors) :
                      C.blocks[b].predecessors[j] = p <=> j = k
    <3>1. p \in BlockIds(B) /\ C.blocks[p] = B.blocks[p] BY <1>3, <1>7, <2>1, <2>4, Zenon
    <3>2. b \in BlockIds(B) /\ C.blocks[b] = B.blocks[b] BY <1>1, <1>3, <2>4, <3>1, TargetsExist
    <3> QED BY <2>4, <3>1, <3>2 DEF Code, Linked
  <2> QED BY <2>2, <2>3, <2>4 DEF Linked
<1>10. Longer(B, C) BY <1>3, <1>7, Zenon DEF Longer, SameSsas
<1>11. FinalsLocal(C)
  <2>1. \A b \in BlockIds(C) :
           \/ b \in BlockIds(B) /\ C.blocks[b].final_values = B.blocks[b].final_values
           \/ C.blocks[b].final_values = FreshBlock.final_values
    BY <1>3, <1>7, Zenon
  <2> QED BY <1>10, <2>1, FinalsKept, Zenon DEF Code
<1>12. OperandsLocal(C) BY <1>7, <1>10, OperandsKept, Zenon DEF Code
<1>13. C.phi_start = NULL BY <1>3, Zenon DEF SameMode, Code
<1>14. Code(C) BY <1>4, <1>5, <1>6, <1>9, <1>11, <1>12, <1>13, Zenon DEF Code, Sound
<1>15. Settled(B, C) BY <1>3, <1>7 DEF Settled
<1> QED BY <1>3, <1>4, <1>7, <1>8, <1>14, <1>15, Zenon DEF Follows, Sound

\* An instruction i more at the end, and the same blocks for the tasks
Emitted(B, i, C) ==
    /\ Code(C) /\ Follows(B, C) /\ Longer(B, C)
    /\ BlockIds(C) = BlockIds(B) /\ Unstarted(C) = Unstarted(B)
    /\ C.current_block = B.current_block
    /\ Len(C.ssas) = Len(B.ssas) + 1 /\ C.ssas[Len(C.ssas)] = i

OperandsExist(B, i) == \A o \in OperandsOf(i) : ValueOf(B, i.block, o)

\* The layers that look at single instructions and final values
LEMMA NewInstruction ==
    ASSUME NEW B, Code(B), NEW C, NEW i, OperandsExist(B, i),
           Len(C.ssas) = Len(B.ssas) + 1, C.ssas[Len(C.ssas)] = i,
           \A s \in SsaIds(B) : C.ssas[s] = B.ssas[s],
           BlockIds(C) = BlockIds(B),
           \A b \in BlockIds(B) : C.blocks[b].final_values = B.blocks[b].final_values
    PROVE  Longer(B, C) /\ FinalsLocal(C) /\ OperandsLocal(C)
<1> DEFINE n == Len(B.ssas) + 1
<1>1. n \in Nat /\ n - 1 = Len(B.ssas) BY CodeTyped
<1>2. SsaIds(C) = SsaIds(B) \cup {n} /\ C.ssas[n] = i /\ SsaIds(B) = 1..n - 1
  BY <1>1 DEF SsaIds
<1> HIDE DEF n
<1>3. Longer(B, C) BY <1>2, Zenon DEF Longer
<1>4. FinalsLocal(C) BY <1>3, FinalsKept, Zenon DEF Code
<1>5. ASSUME NEW s \in SsaIds(C), s \notin SsaIds(B), NEW o \in OperandsOf(C.ssas[s])
      PROVE  o \in 1..s - 1 /\ ValueOf(C, C.ssas[s].block, o)
  <2>1. s = n BY <1>2, <1>5
  <2>2. ValueOf(B, i.block, o) BY <1>2, <1>5, <2>1, Zenon DEF OperandsExist
  <2>3. o \in 1..n - 1 BY <1>2, <2>2, Zenon DEF ValueOf
  <2>4. ValueOf(C, i.block, o) BY <1>3, <2>2, ValuesLast, Zenon
  <2> QED BY <1>2, <2>1, <2>3, <2>4, Zenon
<1>6. OperandsLocal(C) BY <1>3, <1>5, OperandsKept, Zenon DEF Code
<1> QED BY <1>3, <1>4, <1>6

LEMMA NewInstructionOnly ==
    ASSUME NEW B, Code(B), NEW C, NEW i, OperandsExist(B, i), Exact(C), Sliced(C),
           C.fault = NoFault, C.phi_start = NULL, C.current_block = B.current_block,
           SameBlocks(B, C), Len(C.ssas) = Len(B.ssas) + 1, C.ssas[Len(C.ssas)] = i,
           \A s \in SsaIds(B) : C.ssas[s] = B.ssas[s]
    PROVE  Emitted(B, i, C)
<1>1. BlockIds(C) = BlockIds(B) /\ Unstarted(C) = Unstarted(B)
  BY Zenon DEF SameBlocks, BlockIds, Unstarted
<1>2. \A b \in BlockIds(B) : C.blocks[b] = B.blocks[b] BY Zenon DEF SameBlocks
<1>3. Longer(B, C) /\ FinalsLocal(C) /\ OperandsLocal(C)
  BY <1>1, <1>2, NewInstruction
<1>4. Wired(C) BY CodeTyped, SameWired, Zenon
<1>5. Linked(C) BY <1>1, <1>2, CodeTyped, LinkedKept, Zenon DEF Code
<1>6. Frozen(B, C) BY <1>1, <1>2 DEF Frozen, SameButPredecessors
<1>7. Settled(B, C) BY <1>1, <1>2, Zenon DEF Settled
<1> QED BY <1>1, <1>3, <1>4, <1>5, <1>6, <1>7, Zenon DEF Emitted, Follows, Code

instruction(B, o, flags, left, right) ==
    [op |-> o, flags |-> flags, block |-> B.current_block, left |-> left, right |-> right]

LEMMA alloc_ssaPasses ==
    ASSUME NEW B \in builder, NEW s, alloc_ssa(B, s).fault = NoFault
    PROVE  alloc_ssa(B, s) = [B EXCEPT !.ssas = Append(@, s)]
<1>1. "Arena reached max capacity" \in failure BY DEF failure
<1> QED BY <1>1, CheckedPasses, Zenon DEF alloc_ssa

LEMMA emitPasses ==
    ASSUME NEW B, Code(B), NEW o \in opcode, o # "phi", NEW flags \in SUBSET ssa_prop,
           NEW left \in Nat, NEW right \in Nat, NEW i, i = instruction(B, o, flags, left, right),
           OperandsExist(B, i),
           NEW C, C = emit(B, o, flags, left, right), C.fault = NoFault
    PROVE  /\ Emitted(B, i, C) /\ SameBlocks(B, C)
           /\ B.current_block \in BlockIds(B) /\ B.blocks[B.current_block].br = "UNUSED"
<1>1. Typed(B) /\ Exact(B) /\ B \in builder /\ Sliced(B) /\ B.phi_start = NULL BY CodeTyped, Zenon
<1> DEFINE next == alloc_ssa(B, i)
           D == [B EXCEPT !.ssas = Append(@, i)]
<1>2. C = InOpenBlock(B, next) BY Zenon DEF emit, instruction
<1>3. /\ B.current_block \in BlockIds(B) /\ B.blocks[B.current_block].br = "UNUSED"
      /\ C = next
  BY <1>1, <1>2, InOpenBlockPasses, Zenon
<1>4. C = D
  <2>1. alloc_ssa(B, i).fault = NoFault BY <1>3, Zenon
  <2> QED BY <1>1, <1>3, <2>1, alloc_ssaPasses, Zenon
<1>5. i \in ssa /\ i.block = B.current_block
  BY CodeTyped DEF ssa, instruction
<1>6. i.block \in 0..Len(B.blocks) BY <1>1, <1>5 DEF Typed, PointersInBounds
<1>7. SsaAppended(B, i, C) BY <1>1, <1>4, <1>5, <1>6, AppendingSsa, Zenon
<1>8. Exact(C) BY <1>1, emitSound, Zenon DEF Sound
<1>9. Sliced(C) BY <1>1, emitSliced, Zenon
<1> HIDE DEF next, D
<1>10. Emitted(B, i, C)
  BY <1>1, <1>7, <1>8, <1>9, NewInstructionOnly, Zenon DEF SsaAppended, SameMode
<1> QED BY <1>3, <1>7, <1>10, Zenon DEF SsaAppended

\* The open block rewritten, but for its edges and its range
LEMMA CurrentRewritten ==
    ASSUME NEW B, Code(B), NEW n, n = B.current_block, n \in BlockIds(B), NEW c \in bb,
           c.head = B.blocks[n].head, c.next = B.blocks[n].next,
           c.predecessors = B.blocks[n].predecessors,
           c.block_true = B.blocks[n].block_true, c.block_false = B.blocks[n].block_false,
           c.br = "UNUSED" => B.blocks[n].br = "UNUSED",
           \A sym \in Symbols : try_get(c, sym) => ValueOf(B, n, c.final_values[sym]),
           NEW C, C = WithBlock(B, n, c)
    PROVE  /\ Code(C) /\ Follows(B, C) /\ SameSsas(B, C) /\ SameMode(B, C)
           /\ BlockIds(C) = BlockIds(B) /\ Unstarted(C) = Unstarted(B)
           /\ C.blocks[n] = c /\ \A b \in BlockIds(B) : b # n => C.blocks[b] = B.blocks[b]
<1>1. Typed(B) /\ Exact(B) /\ B \in builder /\ Wired(B) /\ Sliced(B) BY CodeTyped, Zenon
<1>2. /\ C \in builder /\ SameSsas(B, C) /\ SameMode(B, C) /\ C.fault = B.fault
      /\ Len(C.blocks) = Len(B.blocks) /\ C.blocks[n] = c
      /\ \A d \in BlockIds(B) : d # n => C.blocks[d] = B.blocks[d]
  BY <1>1, SetBlock
<1>3. Started(B.blocks[n]) /\ ~ Ended(B.blocks[n]) /\ BlockInBounds(B, B.blocks[n])
  BY <1>1, CurrentIsOpen, Zenon
<1>4. BlockInBounds(B, c) BY <1>3, Zenon DEF BlockInBounds
<1>5. Sound(B, C) BY <1>1, <1>4, RewrittenSound, Zenon
<1>6. Targets(c) = Targets(B.blocks[n]) /\ Started(c)
  BY <1>3, Zenon DEF Targets, Started
<1>7. Undecided(c)
  <2>1. Undecided(B.blocks[n]) BY <1>1, Zenon DEF Wired
  <2> QED BY <1>6, <2>1, Zenon DEF Undecided
<1>8. Wired(C) BY <1>1, <1>6, <1>7, RewiredTargets, Zenon
<1>9. Sliced(C)
  <2>1. SamePhis(B, C) BY <1>1, SamePhisUpdates DEF SamePhis
  <2> QED BY <1>1, <2>1, SameSliced, Zenon
<1>10. BlockIds(C) = BlockIds(B) BY <1>2, Zenon DEF BlockIds
<1>11. \A b \in BlockIds(B) : /\ C.blocks[b].predecessors = B.blocks[b].predecessors
                             /\ C.blocks[b].head = B.blocks[b].head
                             /\ Targets(C.blocks[b]) = Targets(B.blocks[b])
  <2> SUFFICES ASSUME NEW b \in BlockIds(B)
               PROVE  /\ C.blocks[b].predecessors = B.blocks[b].predecessors
                      /\ C.blocks[b].head = B.blocks[b].head
                      /\ Targets(C.blocks[b]) = Targets(B.blocks[b])
    OBVIOUS
  <2>1. CASE b = n BY <1>2, <1>6, <2>1, Zenon
  <2>2. CASE b # n BY <1>2, <2>2, Zenon
  <2> QED BY <2>1, <2>2
<1>12. Linked(C) BY <1>1, <1>10, <1>11, CodeTyped, LinkedKept, Zenon DEF Code
<1>13. Unstarted(C) = Unstarted(B) BY <1>10, <1>11, Zenon DEF Unstarted, Started
<1>14. SsaIds(C) = SsaIds(B) /\ Longer(B, C) BY <1>2, Zenon DEF Longer, SameSsas, SsaIds
<1>15. FinalsLocal(C)
  <2> SUFFICES ASSUME NEW b \in BlockIds(C), NEW sym \in Symbols, try_get(C.blocks[b], sym)
               PROVE  ValueOf(C, b, C.blocks[b].final_values[sym])
    BY DEF FinalsLocal
  <2>1. CASE b = n
    <3>1. C.blocks[b] = c /\ try_get(c, sym) BY <1>2, <2>1, Zenon
    <3>2. ValueOf(B, b, c.final_values[sym]) BY <2>1, <3>1, Zenon
    <3> QED BY <1>14, <3>1, <3>2, ValuesLast, Zenon
  <2>2. CASE b # n
    <3>1. C.blocks[b] = B.blocks[b] /\ b \in BlockIds(B) BY <1>2, <1>10, <2>2, Zenon
    <3>2. ValueOf(B, b, B.blocks[b].final_values[sym]) BY <3>1, Zenon DEF Code, FinalsLocal
    <3> QED BY <1>14, <3>1, <3>2, ValuesLast, Zenon
  <2> QED BY <2>1, <2>2
<1>16. OperandsLocal(C) BY <1>14, OperandsKept, Zenon DEF Code
<1>17. C.phi_start = NULL /\ C.fault = NoFault BY <1>2, CodeTyped, Zenon DEF SameMode
<1>18. Code(C) BY <1>5, <1>8, <1>9, <1>12, <1>15, <1>16, <1>17, Zenon DEF Code, Sound
<1>19. Settled(B, C) BY <1>10, <1>11, Zenon DEF Settled, Started
<1> QED BY <1>2, <1>5, <1>10, <1>13, <1>18, <1>19, Zenon DEF Follows, Sound

LEMMA ThenPasses ==
    ASSUME NEW B, NEW next, Then(B, next).fault = NoFault
    PROVE  B.fault = NoFault /\ Then(B, next) = next
BY Zenon DEF Then

LEMMA CurrentTyped ==
    ASSUME NEW B, Code(B), B.current_block # NULL
    PROVE  /\ B.current_block \in BlockIds(B) /\ B.blocks[B.current_block] \in bb
           /\ B.current_block \notin Unstarted(B)
           /\ Started(B.blocks[B.current_block]) /\ ~ Ended(B.blocks[B.current_block])
BY CodeTyped, CurrentIsOpen, Zenon DEF Unstarted

LEMMA retPasses ==
    ASSUME NEW B, Code(B), NEW val \in Nat,
           val # NULL => ValueOf(B, B.current_block, val),
           NEW C, C = ret(B, val), C.fault = NoFault
    PROVE  /\ Emitted(B, instruction(B, "ret", {"no_value"}, val, NULL), C)
           /\ B.current_block \in BlockIds(B)
           /\ C.blocks[B.current_block].br # "UNUSED"
<1> DEFINE B1 == emit(B, "ret", {"no_value"}, val, NULL)
           i == instruction(B, "ret", {"no_value"}, val, NULL)
           n == B.current_block
           b == [B.blocks[n] EXCEPT !.br = "unconditional"]
<1>1. C = Then(B1, WithBlock(B1, n, b)) BY Zenon DEF ret
<1>2. B1.fault = NoFault /\ C = WithBlock(B1, n, b) BY <1>1, ThenPasses, Zenon
<1>3. OperandsExist(B, i) BY DEF OperandsExist, OperandsOf, instruction
<1>4. "ret" \in opcode /\ {"no_value"} \in SUBSET ssa_prop /\ NULL \in Nat /\ "ret" # "phi"
  BY DEF opcode, ssa_prop, NULL
<1> HIDE DEF B1
<1>5. Emitted(B, i, B1) /\ SameBlocks(B, B1) /\ n \in BlockIds(B) /\ B.blocks[n].br = "UNUSED"
  BY <1>2, <1>3, <1>4, emitPasses, Zenon DEF B1
<1>6. /\ B.blocks[n] \in bb /\ b \in bb
      /\ b.head = B.blocks[n].head /\ b.next = B.blocks[n].next
      /\ b.predecessors = B.blocks[n].predecessors
      /\ b.block_true = B.blocks[n].block_true /\ b.block_false = B.blocks[n].block_false
      /\ b.br = "unconditional" /\ b.final_values = B.blocks[n].final_values
  <2>1. B.blocks[n] \in bb BY <1>5, CodeTyped, FieldType, Zenon
  <2> QED BY <2>1, Zenon DEF bb, block_br
<1> HIDE DEF b, i
<1>7. Code(B1) /\ n = B1.current_block /\ n \in BlockIds(B1) /\ B1.blocks = B.blocks
  BY <1>5, Zenon DEF Emitted, SameBlocks
<1>8. \A sym \in Symbols : try_get(b, sym) => ValueOf(B1, n, b.final_values[sym])
  <2> SUFFICES ASSUME NEW sym \in Symbols, try_get(b, sym)
               PROVE  ValueOf(B1, n, b.final_values[sym])
    OBVIOUS
  <2>1. try_get(B1.blocks[n], sym) BY <1>6, <1>7, Zenon DEF try_get
  <2> QED BY <1>6, <1>7, <2>1, Zenon DEF Code, FinalsLocal
<1>9. b.br # "UNUSED" BY <1>6
<1>10. /\ Code(C) /\ Follows(B1, C) /\ SameSsas(B1, C) /\ SameMode(B1, C)
       /\ BlockIds(C) = BlockIds(B1) /\ Unstarted(C) = Unstarted(B1) /\ C.blocks[n] = b
  BY <1>2, <1>6, <1>7, <1>8, <1>9, CurrentRewritten
<1>11. Follows(B, C) BY <1>5, <1>10, FollowsTransitive, Zenon DEF Emitted
<1>12. Longer(B, C) BY <1>5, <1>10, Zenon DEF Emitted, Longer, SameSsas, SsaIds
<1>13. Emitted(B, i, C)
  BY <1>5, <1>10, <1>11, <1>12, Zenon DEF Emitted, SameSsas, SameMode
<1> QED BY <1>5, <1>9, <1>10, <1>13, Zenon DEF i

LEMMA add_final_valuePasses ==
    ASSUME NEW B, Code(B), B.current_block # NULL, NEW sym \in Symbols, NEW value,
           ValueOf(B, B.current_block, value),
           NEW C, C = add_final_value(B, sym, value), C.fault = NoFault
    PROVE  /\ Code(C) /\ Follows(B, C) /\ SameSsas(B, C) /\ SameMode(B, C)
           /\ BlockIds(C) = BlockIds(B) /\ Unstarted(C) = Unstarted(B)
           /\ \A b \in BlockIds(B) : /\ C.blocks[b].predecessors = B.blocks[b].predecessors
                                     /\ C.blocks[b].scope = B.blocks[b].scope
<1> DEFINE n == B.current_block
           cur == B.blocks[n]
           b == [cur EXCEPT !.final_values[sym] = value]
           absent == ~ try_get(cur, sym)
           D == WithBlock(B, n, b)
<1>1. n \in BlockIds(B) /\ cur \in bb /\ B \in builder BY CurrentTyped, CodeTyped, Zenon
<1>2. C = WithBlock(B, n, b)
  <2>1. "Attempt to add duplicate key" \in failure BY DEF failure
  <2>2. C = Checked(B, absent, "Attempt to add duplicate key", D)
    BY Zenon DEF add_final_value
  <2>3. B.fault = NoFault BY Zenon DEF Code
  <2>4. [B EXCEPT !.fault = "Attempt to add duplicate key"].fault # NoFault
    BY <1>1, <2>1, Failed, Zenon
  <2> HIDE DEF absent, D
  <2>5. C = D BY <2>2, <2>3, <2>4, Zenon DEF Checked, Then
  <2> QED BY <2>5 DEF D
<1>3. value \in Nat BY CodeTyped DEF ValueOf, SsaIds
<1>4. /\ b \in bb /\ b.head = cur.head /\ b.next = cur.next
      /\ b.predecessors = cur.predecessors /\ b.scope = cur.scope
      /\ b.block_true = cur.block_true /\ b.block_false = cur.block_false /\ b.br = cur.br
      /\ b.final_values = [cur.final_values EXCEPT ![sym] = value]
      /\ cur.final_values \in [Symbols -> Nat]
  BY <1>1, <1>3, Zenon DEF bb
<1> HIDE DEF b
<1>5. \A s \in Symbols : try_get(b, s) => ValueOf(B, n, b.final_values[s])
  <2> SUFFICES ASSUME NEW s \in Symbols, try_get(b, s) PROVE ValueOf(B, n, b.final_values[s])
    OBVIOUS
  <2>1. CASE s = sym
    <3>1. b.final_values[s] = value BY <1>4, <2>1
    <3> QED BY <3>1, Zenon
  <2>2. CASE s # sym
    <3>1. b.final_values[s] = cur.final_values[s] BY <1>4, <2>2
    <3> QED BY <1>1, <3>1, Zenon DEF Code, FinalsLocal, try_get
  <2> QED BY <2>1, <2>2
<1>6. /\ Code(C) /\ Follows(B, C) /\ SameSsas(B, C) /\ SameMode(B, C)
      /\ BlockIds(C) = BlockIds(B) /\ Unstarted(C) = Unstarted(B)
      /\ C.blocks[n] = b /\ \A d \in BlockIds(B) : d # n => C.blocks[d] = B.blocks[d]
  BY <1>1, <1>2, <1>4, <1>5, CurrentRewritten
<1> HIDE DEF n
<1> QED BY <1>4, <1>6

LEMMA ScopeSet ==
    ASSUME NEW B, Code(B), B.current_block # NULL, NEW scope \in Nat,
           NEW C, C = WithBlock(B, B.current_block, [B.blocks[B.current_block] EXCEPT !.scope = scope])
    PROVE  /\ Code(C) /\ Follows(B, C) /\ SameSsas(B, C) /\ SameMode(B, C)
           /\ BlockIds(C) = BlockIds(B) /\ Unstarted(C) = Unstarted(B)
           /\ C.blocks[B.current_block].head = B.blocks[B.current_block].head
<1> DEFINE n == B.current_block
           cur == B.blocks[n]
           b == [cur EXCEPT !.scope = scope]
<1>1. n \in BlockIds(B) /\ cur \in bb BY CurrentTyped, Zenon
<1>2. /\ b \in bb /\ b.head = cur.head /\ b.next = cur.next
      /\ b.predecessors = cur.predecessors /\ b.final_values = cur.final_values
      /\ b.block_true = cur.block_true /\ b.block_false = cur.block_false /\ b.br = cur.br
  BY <1>1, Zenon DEF bb
<1> HIDE DEF b
<1>3. \A s \in Symbols : try_get(b, s) => ValueOf(B, n, b.final_values[s])
  BY <1>1, <1>2, Zenon DEF Code, FinalsLocal, try_get
<1>4. C = WithBlock(B, n, b) BY DEF b
<1>5. /\ Code(C) /\ Follows(B, C) /\ SameSsas(B, C) /\ SameMode(B, C)
      /\ BlockIds(C) = BlockIds(B) /\ Unstarted(C) = Unstarted(B) /\ C.blocks[n] = b
  BY <1>1, <1>2, <1>3, <1>4, CurrentRewritten
<1> QED BY <1>2, <1>5, Zenon

-----------------------------------------------------------------------------
(***************************************************************************)
(* Branches.                                                               *)
(***************************************************************************)
\* Block n branches to the blocks ts, each of which lists it once more.
Branched(B, n, ts, C) ==
    /\ BlockIds(C) = BlockIds(B) /\ SameSsas(B, C) /\ SameMode(B, C)
    /\ Targets(C.blocks[n]) = ts /\ C.blocks[n].br # "UNUSED"
    /\ \A b \in BlockIds(B) :
          /\ C.blocks[b].head = B.blocks[b].head
          /\ C.blocks[b].final_values = B.blocks[b].final_values
          /\ b # n => Targets(C.blocks[b]) = Targets(B.blocks[b])
          /\ b \notin ts => C.blocks[b].predecessors = B.blocks[b].predecessors
          /\ b \in ts => /\ C.blocks[b].predecessors = Append(B.blocks[b].predecessors, n)
                         /\ Len(B.blocks[b].predecessors) < MaxPreds

LEMMA BranchedLinked ==
    ASSUME NEW B, Code(B), NEW n \in BlockIds(B), B.blocks[n].br = "UNUSED",
           NEW ts \in SUBSET Unstarted(B), NEW C, Branched(B, n, ts, C)
    PROVE  Linked(C)
<1>1. Targets(B.blocks[n]) = {}
  <2>1. Undecided(B.blocks[n]) BY CodeTyped, Zenon DEF Wired
  <2> QED BY <2>1 DEF Undecided, Targets
<1>2. \A b \in BlockIds(B) : B.blocks[b].predecessors \in Seq(Nat)
  BY CodeTyped, FieldType, Zenon DEF bb
<1>3. BlockIds(C) = BlockIds(B) BY Zenon DEF Branched
<1>4. \A b \in BlockIds(C) : Len(C.blocks[b].predecessors) <= MaxPreds
  <2> SUFFICES ASSUME NEW b \in BlockIds(B) PROVE Len(C.blocks[b].predecessors) <= MaxPreds
    BY <1>3
  <2>1. CASE b \notin ts BY <2>1, Zenon DEF Code, Linked, Branched
  <2>2. CASE b \in ts
    <3>1. C.blocks[b].predecessors = Append(B.blocks[b].predecessors, n)
          /\ Len(B.blocks[b].predecessors) < MaxPreds
      BY <2>2, Zenon DEF Branched
    <3> QED BY <1>2, <3>1, IrBounds
  <2> QED BY <2>1, <2>2
<1>5. ASSUME NEW b \in BlockIds(C), Started(C.blocks[b]),
             NEW k \in 1..Len(C.blocks[b].predecessors)
      PROVE  C.blocks[C.blocks[b].predecessors[k]].head < C.blocks[b].head
  <2>1. b \in BlockIds(B) /\ Started(B.blocks[b]) BY <1>3, <1>5, Zenon DEF Branched, Started
  <2>2. b \notin ts BY <2>1, Zenon DEF Unstarted
  <2>3. C.blocks[b].predecessors = B.blocks[b].predecessors BY <2>1, <2>2, Zenon DEF Branched
  <2>4. B.blocks[b].predecessors[k] \in BlockIds(B)
    BY <1>5, <2>1, <2>3, CodeTyped, Zenon DEF PredecessorsBranchHere
  <2>5. B.blocks[B.blocks[b].predecessors[k]].head < B.blocks[b].head
    BY <1>5, <2>1, <2>3, Zenon DEF Code, Linked
  <2> QED BY <2>1, <2>3, <2>4, <2>5, Zenon DEF Branched
<1>6. ASSUME NEW p \in BlockIds(C), NEW b \in Targets(C.blocks[p])
      PROVE  \E k \in 1..Len(C.blocks[b].predecessors) :
                \A j \in 1..Len(C.blocks[b].predecessors) :
                    C.blocks[b].predecessors[j] = p <=> j = k
  <2>0. p \in BlockIds(B) /\ (p = n => b \in ts) /\ (p # n => b \in Targets(B.blocks[p]))
    BY <1>3, <1>6, Zenon DEF Branched
  <2>1. b \in BlockIds(B) BY <2>0, CodeTyped, TargetsExist, Zenon DEF Unstarted
  <2> DEFINE old == B.blocks[b].predecessors
             new == C.blocks[b].predecessors
  <2>2. old \in Seq(Nat) BY <1>2, <2>1
  <2>3. \A k \in 1..Len(old) : old[k] # n
    BY <1>1, <2>1, CodeTyped, Zenon DEF PredecessorsBranchHere
  <2>4. p # n => \E k \in 1..Len(old) : \A j \in 1..Len(old) : old[j] = p <=> j = k
    <3> SUFFICES ASSUME p # n
                 PROVE  \E k \in 1..Len(old) : \A j \in 1..Len(old) : old[j] = p <=> j = k
      OBVIOUS
    <3>1. p \in BlockIds(B) /\ b \in Targets(B.blocks[p]) BY <2>0
    <3> QED BY <3>1, Zenon DEF Code, Linked
  <2>5. (b \notin ts => new = old) /\ (b \in ts => new = Append(old, n))
    BY <2>1, Zenon DEF Branched
  <2> HIDE DEF old, new
  <2>6. CASE b \notin ts
    <3>1. p # n /\ new = old BY <2>0, <2>5, <2>6, Zenon
    <3>2. \E k \in 1..Len(new) : \A j \in 1..Len(new) : new[j] = p <=> j = k
      BY <2>4, <3>1, Zenon
    <3> QED BY <3>2 DEF new
  <2>7. CASE b \in ts /\ p # n
    <3>1. PICK k \in 1..Len(old) : \A j \in 1..Len(old) : old[j] = p <=> j = k BY <2>4, <2>7
    <3>2. k \in 1..Len(new) /\ \A j \in 1..Len(new) : new[j] = p <=> j = k
      BY <2>2, <2>5, <2>7, <3>1
    <3> QED BY <3>2 DEF new
  <2>8. CASE b \in ts /\ p = n
    <3>1. /\ Len(old) + 1 \in 1..Len(new)
          /\ \A j \in 1..Len(new) : new[j] = p <=> j = Len(old) + 1
      BY <2>2, <2>3, <2>5, <2>8
    <3> QED BY <3>1, Zenon DEF new
  <2> QED BY <2>6, <2>7, <2>8
<1> QED BY <1>4, <1>5, <1>6 DEF Linked

\* The same blocks are started, and none of them gains a predecessor.
SameStarts(B, C) ==
    /\ BlockIds(C) = BlockIds(B)
    /\ \A b \in BlockIds(B) : /\ C.blocks[b].head = B.blocks[b].head
                              /\ Started(B.blocks[b]) =>
                                    C.blocks[b].predecessors = B.blocks[b].predecessors

LEMMA SameStartsSettled ==
    ASSUME NEW B, NEW C, SameStarts(B, C)
    PROVE  Settled(B, C) /\ Unstarted(C) = Unstarted(B)
BY Zenon DEF SameStarts, Settled, Started, Unstarted

\* A block that branches keeps its instructions and final values.
LEMMA BranchedCode ==
    ASSUME NEW B, Code(B), NEW n, n = B.current_block, n \in BlockIds(B),
           B.blocks[n].br = "UNUSED", NEW ts \in SUBSET Unstarted(B),
           NEW C, Branched(B, n, ts, C), Sound(B, C), Wired(C), Sliced(C), C.fault = NoFault
    PROVE  Code(C) /\ Follows(B, C) /\ Unstarted(C) = Unstarted(B)
<1>1. BlockIds(C) = BlockIds(B) /\ SameSsas(B, C) /\ SameMode(B, C) BY Zenon DEF Branched
<1>2. SsaIds(C) = SsaIds(B) /\ Longer(B, C) BY <1>1, Zenon DEF Longer, SameSsas, SsaIds
<1>3. Linked(C) BY BranchedLinked, Zenon
<1>4. \A b \in BlockIds(C) : b \in BlockIds(B) /\ C.blocks[b].final_values = B.blocks[b].final_values
  BY <1>1, Zenon DEF Branched
<1>5. FinalsLocal(C) BY <1>2, <1>4, FinalsKept, Zenon DEF Code
<1>6. OperandsLocal(C) BY <1>2, OperandsKept, Zenon DEF Code
<1>7. C.phi_start = NULL BY <1>1, CodeTyped, Zenon DEF SameMode
<1>8. SameStarts(B, C) BY Zenon DEF Branched, Unstarted, SameStarts
<1>9. Settled(B, C) /\ Unstarted(C) = Unstarted(B) BY <1>8, SameStartsSettled, Zenon
<1> QED BY <1>3, <1>5, <1>6, <1>7, <1>9, Zenon DEF Code, Follows, Sound

\* Block t lists the current block once more, and nothing else changes.
Listed(B, t, C) ==
    /\ C \in builder /\ BlockIds(C) = BlockIds(B) /\ SameSsas(B, C) /\ SameMode(B, C)
    /\ \A b \in BlockIds(B) : SameButPredecessors(B.blocks[b], C.blocks[b])
    /\ \A b \in BlockIds(B) : b # t => C.blocks[b].predecessors = B.blocks[b].predecessors
    /\ C.blocks[t].predecessors = Append(B.blocks[t].predecessors, B.current_block)
    /\ Len(B.blocks[t].predecessors) < MaxPreds

LEMMA push_predecessorPasses ==
    ASSUME NEW B \in builder, NEW t \in BlockIds(B), NEW C, C = push_predecessor(B, t),
           C.fault = NoFault
    PROVE  Listed(B, t, C) /\ B.fault = NoFault
<1> DEFINE old == B.blocks[t]
           b == [old EXCEPT !.predecessors = Append(@, B.current_block)]
<1>1. old \in bb /\ B.current_block \in Nat BY FieldType, Zenon
<1>2. C = WithBlock(B, t, b) /\ B.fault = NoFault /\ Len(old.predecessors) < MaxPreds
  <2>1. "next < max" \in failure BY DEF failure
  <2>2. C = Checked(B, Len(old.predecessors) < MaxPreds, "next < max", WithBlock(B, t, b))
    BY Zenon DEF push_predecessor
  <2> HIDE DEF b, old
  <2> QED BY <2>1, <2>2, Failed, Zenon DEF Checked, Then
<1>3. /\ b \in bb /\ b.predecessors = Append(old.predecessors, B.current_block)
      /\ SameButPredecessors(old, b)
  <2>1. old.predecessors \in Seq(Nat) BY <1>1, Zenon DEF bb
  <2>2. Append(old.predecessors, B.current_block) \in Seq(Nat) BY <1>1, <2>1
  <2> HIDE DEF old
  <2> QED BY <1>1, <2>2, Zenon DEF bb, SameButPredecessors
<1> HIDE DEF b, old
<1>4. /\ C \in builder /\ SameSsas(B, C) /\ SameMode(B, C)
      /\ Len(C.blocks) = Len(B.blocks) /\ C.blocks[t] = b
      /\ \A d \in BlockIds(B) : d # t => C.blocks[d] = B.blocks[d]
  BY <1>2, <1>3, SetBlock
<1>5. BlockIds(C) = BlockIds(B) BY <1>4, Zenon DEF BlockIds
<1>6. ASSUME NEW d \in BlockIds(B) PROVE SameButPredecessors(B.blocks[d], C.blocks[d])
  <2>1. CASE d = t BY <1>3, <1>4, <2>1, Zenon DEF old
  <2>2. CASE d # t BY <1>4, <2>2, Zenon DEF SameButPredecessors
  <2> QED BY <2>1, <2>2
<1>7. \A d \in BlockIds(B) : d # t => C.blocks[d].predecessors = B.blocks[d].predecessors
  BY <1>4, Zenon
<1>8. /\ C.blocks[t].predecessors = Append(B.blocks[t].predecessors, B.current_block)
      /\ Len(B.blocks[t].predecessors) < MaxPreds
  BY <1>2, <1>3, <1>4, Zenon DEF old
<1> QED BY <1>2, <1>4, <1>5, <1>6, <1>7, <1>8, Zenon DEF Listed

\* What every call that neither opens nor allocates a block leaves
Kept(B, C) == /\ Code(C) /\ Follows(B, C)
              /\ BlockIds(C) = BlockIds(B) /\ Unstarted(C) = Unstarted(B)

LEMMA unconditional_branchPasses ==
    ASSUME NEW B, Code(B), NEW t \in Unstarted(B),
           NEW C, C = unconditional_branch(B, t), C.fault = NoFault
    PROVE  /\ Kept(B, C) /\ SameSsas(B, C) /\ SameMode(B, C)
           /\ B.current_block \in BlockIds(B)
           /\ C.blocks[B.current_block].head = B.blocks[B.current_block].head
           /\ Moves(B, C) /\ B.blocks[B.current_block].br = "UNUSED"
           /\ C.blocks[B.current_block].br = "unconditional"
<1> DEFINE n == B.current_block
           cur == B.blocks[n]
           b == [cur EXCEPT !.br = "unconditional", !.block_true = t]
           D == WithBlock(B, n, b)
<1>1. t \in BlockIds(B) /\ Typed(B) /\ Exact(B) /\ B \in builder /\ Wired(B) /\ Sliced(B)
      /\ PredecessorsBranchHere(B) /\ Len(B.blocks) \in Nat
  BY CodeTyped, Zenon DEF Unstarted
<1>2. n \in BlockIds(B) /\ cur.br = "UNUSED" /\ C = push_predecessor(D, t)
  BY <1>1, InOpenBlockPasses, Zenon DEF unconditional_branch
<1>3. cur \in bb /\ Undecided(cur) /\ t # n /\ t \in Nat /\ t # NULL
  <2>1. t # n BY <1>1, <1>2, CurrentIsOpen, Zenon DEF Unstarted
  <2>2. t \in Nat /\ t # NULL BY <1>1 DEF BlockIds, NULL
  <2> QED BY <1>1, <1>2, <2>1, <2>2, FieldType, Zenon DEF Wired
<1>4. /\ b \in bb /\ b.head = cur.head /\ b.predecessors = cur.predecessors
      /\ b.final_values = cur.final_values /\ b.br = "unconditional"
      /\ b.block_true = t /\ b.block_false = cur.block_false /\ b.next = cur.next
  <2>1. "unconditional" \in block_br BY DEF block_br
  <2> QED BY <1>3, <2>1, Zenon DEF bb
<1>5. D = WithBlock(B, n, b) OBVIOUS
<1> HIDE DEF b, D
<1>6. /\ D \in builder /\ SameSsas(B, D) /\ SameMode(B, D)
      /\ Len(D.blocks) = Len(B.blocks) /\ D.blocks[n] = b
      /\ \A d \in BlockIds(B) : d # n => D.blocks[d] = B.blocks[d]
  BY <1>1, <1>2, <1>4, <1>5, SetBlock
<1>7. BlockIds(D) = BlockIds(B) /\ D.current_block = n BY <1>6, Zenon DEF BlockIds, SameMode
<1>8. Listed(D, t, C) BY <1>1, <1>2, <1>6, <1>7, push_predecessorPasses, Zenon
<1>9. /\ BlockIds(C) = BlockIds(B) /\ SameSsas(B, C) /\ SameMode(B, C)
  BY <1>6, <1>7, <1>8, Zenon DEF Listed, SameSsas, SameMode
<1>10. Targets(b) = {t}
  <2>1. cur.block_false = NULL BY <1>2, <1>3, Zenon DEF Undecided
  <2> QED BY <1>3, <1>4, <2>1 DEF Targets
<1>11. /\ Targets(C.blocks[n]) = {t} /\ C.blocks[n].br # "UNUSED" /\ C.blocks[n].head = cur.head
       /\ C.blocks[n].br = "unconditional"
  BY <1>2, <1>4, <1>6, <1>7, <1>8, <1>10, Zenon DEF Listed, SameButPredecessors, Targets
<1>12. ASSUME NEW d \in BlockIds(B)
       PROVE  /\ C.blocks[d].head = B.blocks[d].head
              /\ C.blocks[d].final_values = B.blocks[d].final_values
              /\ d # n => Targets(C.blocks[d]) = Targets(B.blocks[d])
              /\ d \notin {t} => C.blocks[d].predecessors = B.blocks[d].predecessors
              /\ d \in {t} => /\ C.blocks[d].predecessors = Append(B.blocks[d].predecessors, n)
                              /\ Len(B.blocks[d].predecessors) < MaxPreds
  <2>1. /\ D.blocks[d].head = B.blocks[d].head
        /\ D.blocks[d].final_values = B.blocks[d].final_values
        /\ D.blocks[d].predecessors = B.blocks[d].predecessors
        /\ d # n => D.blocks[d] = B.blocks[d]
    <3>1. CASE d = n BY <1>4, <1>6, <3>1, Zenon
    <3>2. CASE d # n BY <1>6, <3>2, Zenon
    <3> QED BY <3>1, <3>2
  <2>2. SameButPredecessors(D.blocks[d], C.blocks[d]) BY <1>7, <1>8, Zenon DEF Listed
  <2>3. /\ C.blocks[d].head = B.blocks[d].head
        /\ C.blocks[d].final_values = B.blocks[d].final_values
        /\ d # n => Targets(C.blocks[d]) = Targets(B.blocks[d])
    BY <2>1, <2>2, Zenon DEF SameButPredecessors, Targets
  <2>4. d \notin {t} => C.blocks[d].predecessors = B.blocks[d].predecessors
    BY <1>7, <1>8, <2>1 DEF Listed
  <2>5. d \in {t} => /\ C.blocks[d].predecessors = Append(B.blocks[d].predecessors, n)
                     /\ Len(B.blocks[d].predecessors) < MaxPreds
    BY <1>7, <1>8, <2>1, Zenon DEF Listed
  <2> QED BY <2>3, <2>4, <2>5
<1>13. Branched(B, n, {t}, C) BY <1>9, <1>11, <1>12 DEF Branched
<1>14. Sound(B, C) BY <1>1, unconditional_branchSound, Zenon
<1>15. Wired(C) BY <1>1, unconditional_branchWired, Zenon
<1>16. Sliced(C)
  <2>1. SamePhis(B, C) BY <1>1, SamePhisOperations DEF SamePhis
  <2> QED BY <1>1, <2>1, SameSliced, Zenon
<1>17. {t} \in SUBSET Unstarted(B) OBVIOUS
<1>18. Code(C) /\ Follows(B, C) /\ Unstarted(C) = Unstarted(B)
  BY <1>2, <1>13, <1>14, <1>15, <1>16, <1>17, BranchedCode, Zenon
<1>19. Moves(B, C)
  <2>1. ASSUME NEW d \in BlockIds(B)
        PROVE  /\ C.blocks[d].next = B.blocks[d].next
               /\ d # n => C.blocks[d].br = B.blocks[d].br
    <3>1. SameButPredecessors(D.blocks[d], C.blocks[d]) BY <1>7, <1>8, Zenon DEF Listed
    <3>2. CASE d = n BY <1>4, <1>6, <3>1, <3>2, Zenon DEF SameButPredecessors
    <3>3. CASE d # n BY <1>6, <3>1, <3>3, Zenon DEF SameButPredecessors
    <3> QED BY <3>2, <3>3
  <2>2. ASSUME NEW d \in BlockIds(B)
        PROVE  /\ EndOf(C, d) = EndOf(B, d)
               /\ \A p \in Preds(C, d) : p = n \/ p \in Preds(B, d)
    <3>1. EndOf(C, d) = EndOf(B, d) BY <1>9, <2>1, SameEnd, Zenon
    <3>2. B.blocks[d].predecessors \in Seq(Nat) /\ n \in Nat
      <4>1. B.blocks[d] \in bb BY <1>1, FieldType
      <4> QED BY <1>2, <4>1 DEF bb, BlockIds
    <3>3. CASE d = t BY <1>12, <3>1, <3>2, <3>3, PredsAppended, Zenon
    <3>4. CASE d # t BY <1>12, <3>1, <3>4, PredsKept
    <3> QED BY <3>3, <3>4
  <2> QED BY <1>2, <1>9, <1>12, <2>1, <2>2, Zenon DEF Moves
<1> QED BY <1>2, <1>9, <1>11, <1>18, <1>19, Zenon DEF Kept

LEMMA end_blockPasses ==
    ASSUME NEW B, Code(B), NEW C, C = end_block(B), C.fault = NoFault
    PROVE  /\ Kept(B, C) /\ SameSsas(B, C) /\ C.current_block = NULL
           /\ B.current_block \in BlockIds(B) /\ is_not_empty(B)
           /\ B.blocks[B.current_block].br # "UNUSED"
           /\ Moves(B, C) /\ C.blocks[B.current_block].br = B.blocks[B.current_block].br
           /\ Targets(C.blocks[B.current_block]) = Targets(B.blocks[B.current_block])
<1> DEFINE n == B.current_block
           cur == B.blocks[n]
           b == [cur EXCEPT !.next = last_ssa(B)]
           D == WithBlock(B, n, b)
<1>1. Typed(B) /\ Exact(B) /\ B \in builder /\ Wired(B) /\ Sliced(B) /\ B.phi_start = NULL
      /\ PredecessorsBranchHere(B) /\ last_ssa(B) \in Nat
  BY CodeTyped, Zenon DEF last_ssa
<1>2. n # NULL /\ is_not_empty(B) /\ cur.br # "UNUSED" /\ C = Closing(B, b)
  <2>1. /\ "current_block != NULL" \in failure /\ "is_not_empty" \in failure
        /\ "current_block->br != block_br::UNUSED" \in failure
    BY DEF failure
  <2> QED BY <1>1, <2>1, Failed, Zenon DEF end_block, InBlock, Checked, Then
<1>3. n \in BlockIds(B) /\ cur \in bb BY <1>1, <1>2, CurrentIsOpen, Zenon
<1>4. /\ b \in bb /\ b.head = cur.head /\ b.predecessors = cur.predecessors
      /\ b.final_values = cur.final_values /\ b.br = cur.br
      /\ b.block_true = cur.block_true /\ b.block_false = cur.block_false
      /\ b.next = last_ssa(B)
  BY <1>1, <1>3, Zenon DEF bb
<1>5. D = WithBlock(B, n, b) OBVIOUS
<1> HIDE DEF b, D
<1>6. /\ D \in builder /\ SameSsas(B, D) /\ SameMode(B, D)
      /\ Len(D.blocks) = Len(B.blocks) /\ D.blocks[n] = b
      /\ \A d \in BlockIds(B) : d # n => D.blocks[d] = B.blocks[d]
  BY <1>1, <1>3, <1>4, <1>5, SetBlock
<1>7. /\ C.current_block = NULL /\ C.phi_start = D.phi_start
      /\ SameBlocks(D, C) /\ SameSsas(D, C)
  <2>1. C = WithCurrent(D, NULL) BY <1>2, <1>5, Zenon DEF Closing
  <2>2. D \in builder /\ NULL \in Nat BY <1>6 DEF NULL
  <2> QED BY <2>1, <2>2, SetCurrent
<1>8. /\ BlockIds(C) = BlockIds(B) /\ SameSsas(B, C) /\ C.phi_start = NULL
      /\ SsaIds(C) = SsaIds(B) /\ Longer(B, C)
  BY <1>1, <1>6, <1>7, Zenon DEF BlockIds, SameBlocks, SameSsas, SameMode, SsaIds, Longer
<1>9. ASSUME NEW d \in BlockIds(B)
      PROVE  /\ C.blocks[d].predecessors = B.blocks[d].predecessors
             /\ C.blocks[d].head = B.blocks[d].head
             /\ Targets(C.blocks[d]) = Targets(B.blocks[d])
             /\ C.blocks[d].final_values = B.blocks[d].final_values
  <2>1. C.blocks[d] = D.blocks[d] BY <1>7, Zenon DEF SameBlocks
  <2>2. CASE d = n BY <1>4, <1>6, <2>1, <2>2, Zenon DEF Targets
  <2>3. CASE d # n BY <1>6, <2>1, <2>3, Zenon
  <2> QED BY <2>2, <2>3
<1>10. Linked(C) BY <1>1, <1>8, <1>9, LinkedKept, Zenon DEF Code
<1>11. FinalsLocal(C) BY <1>8, <1>9, FinalsKept, Zenon DEF Code
<1>12. OperandsLocal(C) BY <1>8, OperandsKept, Zenon DEF Code
<1>13. Sound(B, C) BY <1>1, end_blockSound, Zenon
<1>14. Wired(C) BY <1>1, end_blockWired, Zenon
<1>15. Sliced(C)
  <2>1. SamePhis(B, C) BY <1>1, SamePhisOperations, Zenon DEF SamePhis
  <2> QED BY <1>1, <2>1, SameSliced, Zenon
<1>16. SameStarts(B, C) BY <1>8, <1>9 DEF SameStarts
<1>17. Settled(B, C) /\ Unstarted(C) = Unstarted(B) BY <1>16, SameStartsSettled, Zenon
<1>18. Moves(B, C) /\ C.blocks[n].br = cur.br
  <2>1. ~ Ended(cur) BY <1>1, <1>3, CurrentIsOpen, Zenon
  <2>2. C.blocks[n] = b BY <1>6, <1>7, Zenon DEF SameBlocks
  <2>3. ASSUME NEW d \in BlockIds(B)
        PROVE  EndOf(C, d) = EndOf(B, d) /\ Preds(C, d) = Preds(B, d)
    <3>1. \/ C.blocks[d].next = B.blocks[d].next
          \/ ~ Ended(B.blocks[d]) /\ C.blocks[d].next = last_ssa(B)
      <4>1. CASE d = n BY <1>4, <2>1, <2>2, <4>1, Zenon
      <4>2. CASE d # n
        <5>1. C.blocks[d] = B.blocks[d] BY <1>6, <1>7, <4>2, Zenon DEF SameBlocks
        <5> QED BY <5>1
      <4> QED BY <4>1, <4>2
    <3> QED BY <1>8, <1>9, <3>1, SameEnd, PredsKept, Zenon
  <2>4. \A d \in BlockIds(B) : d # n => C.blocks[d].br = B.blocks[d].br
    BY <1>6, <1>7, Zenon DEF SameBlocks
  <2> QED BY <1>4, <1>8, <1>9, <2>2, <2>3, <2>4, Zenon DEF Moves
<1> QED
  BY <1>2, <1>3, <1>7, <1>8, <1>9, <1>10, <1>11, <1>12, <1>13, <1>14, <1>15, <1>17, <1>18, Zenon
  DEF Kept, Code, Follows, Sound

LEMMA start_blockPasses ==
    ASSUME NEW B, Code(B), NEW t \in Unstarted(B), NEW scope \in Nat,
           NEW C, C = start_block(B, t, scope), C.fault = NoFault
    PROVE  /\ Code(C) /\ Follows(B, C) /\ SameSsas(B, C)
           /\ B.current_block = NULL /\ C.current_block = t
           /\ BlockIds(C) = BlockIds(B) /\ Unstarted(C) = Unstarted(B) \ {t}
           /\ ~ is_not_empty(C) /\ C.blocks[t].scope = scope
           /\ t \in BlockIds(B) /\ Moves(B, C)
<1> DEFINE old == B.blocks[t]
           b == [old EXCEPT !.br = "UNUSED", !.head = Len(B.ssas) + 1, !.scope = scope]
           D == WithBlock(B, t, b)
<1>1. /\ Typed(B) /\ Exact(B) /\ B \in builder /\ Wired(B) /\ Sliced(B) /\ B.phi_start = NULL
      /\ PredecessorsBranchHere(B) /\ Len(B.ssas) \in Nat /\ t \in BlockIds(B)
      /\ ~ Started(old) /\ t # NULL /\ t \in Nat
  <2>1. t \in BlockIds(B) /\ ~ Started(old) BY Zenon DEF Unstarted
  <2>2. t # NULL /\ t \in Nat BY <2>1 DEF BlockIds, NULL
  <2> QED BY <2>1, <2>2, CodeTyped, Zenon
<1>2. B.current_block = NULL /\ C = WithCurrent(D, t)
  <2>1. "block != NULL" \in failure /\ "current_block == NULL" \in failure BY DEF failure
  <2> QED BY <1>1, <2>1, Failed, Zenon DEF start_block, Checked, Then
<1>3. old \in bb /\ Undecided(old) BY <1>1, FieldType, Zenon DEF Wired
<1>4. /\ b \in bb /\ b.head = Len(B.ssas) + 1 /\ b.predecessors = old.predecessors
      /\ b.final_values = old.final_values /\ b.scope = scope
      /\ b.next = old.next /\ b.br = "UNUSED"
      /\ b.block_true = old.block_true /\ b.block_false = old.block_false
  <2>1. "UNUSED" \in block_br /\ Len(B.ssas) + 1 \in Nat BY <1>1 DEF block_br
  <2> QED BY <1>3, <2>1, Zenon DEF bb
<1>5. D = WithBlock(B, t, b) OBVIOUS
<1> HIDE DEF b, D
<1>6. /\ D \in builder /\ SameSsas(B, D) /\ SameMode(B, D)
      /\ Len(D.blocks) = Len(B.blocks) /\ D.blocks[t] = b
      /\ \A d \in BlockIds(B) : d # t => D.blocks[d] = B.blocks[d]
  BY <1>1, <1>4, <1>5, SetBlock
<1>7. /\ C.current_block = t /\ C.phi_start = D.phi_start
      /\ SameBlocks(D, C) /\ SameSsas(D, C)
  <2>1. C = WithCurrent(D, t) /\ t \in Nat /\ D \in builder BY <1>1, <1>2, <1>6
  <2> QED BY <2>1, SetCurrent
<1>8. /\ BlockIds(C) = BlockIds(B) /\ SameSsas(B, C) /\ C.phi_start = NULL
      /\ SsaIds(C) = SsaIds(B) /\ Longer(B, C)
  BY <1>1, <1>6, <1>7, Zenon DEF BlockIds, SameBlocks, SameSsas, SameMode, SsaIds, Longer
<1>9. /\ C.blocks[t] = b
      /\ \A d \in BlockIds(B) : d # t => C.blocks[d] = B.blocks[d]
  BY <1>6, <1>7, Zenon DEF SameBlocks
<1>10. ASSUME NEW d \in BlockIds(B)
       PROVE  /\ C.blocks[d].predecessors = B.blocks[d].predecessors
              /\ Targets(C.blocks[d]) = Targets(B.blocks[d])
              /\ C.blocks[d].final_values = B.blocks[d].final_values
  <2>1. CASE d = t BY <1>4, <1>9, <2>1, Zenon DEF Targets
  <2>2. CASE d # t BY <1>9, <2>2, Zenon
  <2> QED BY <2>1, <2>2
\* Whoever branches has ended, hence starts before the next instruction.
<1>11. ASSUME NEW p \in BlockIds(B), Targets(B.blocks[p]) # {}
       PROVE  p # t /\ B.blocks[p].head \in Nat /\ B.blocks[p].head < Len(B.ssas) + 1
  <2>1. Undecided(B.blocks[p]) BY <1>1, Zenon DEF Wired
  <2>2. B.blocks[p].br # "UNUSED" BY <1>11, <2>1 DEF Undecided, Targets
  <2>3. Started(B.blocks[p]) BY <2>1, <2>2, Zenon DEF Undecided
  <2>4. p # NULL BY <1>1 DEF BlockIds, NULL
  <2>5. Ended(B.blocks[p]) BY <1>1, <1>2, <2>3, <2>4, Zenon DEF Exact, OneOpenBlock
  <2>6. B.blocks[p].head <= B.blocks[p].next BY <1>1, <2>5, Zenon DEF Exact, OneOpenBlock
  <2>7. B.blocks[p].next \in 0..Len(B.ssas) /\ B.blocks[p].head \in 0..Len(B.ssas) + 1
    BY <1>1, Zenon DEF Typed, PointersInBounds, BlockInBounds
  <2> QED BY <1>1, <2>3, <2>6, <2>7
<1>12. Linked(C)
  <2>1. \A d \in BlockIds(C) : Len(C.blocks[d].predecessors) <= MaxPreds
    BY <1>8, <1>10, Zenon DEF Code, Linked
  <2>2. ASSUME NEW d \in BlockIds(C), Started(C.blocks[d]),
               NEW k \in 1..Len(C.blocks[d].predecessors)
        PROVE  C.blocks[C.blocks[d].predecessors[k]].head < C.blocks[d].head
    <3> DEFINE p == B.blocks[d].predecessors[k]
    <3>1. C.blocks[d].predecessors[k] = p /\ k \in 1..Len(B.blocks[d].predecessors)
          /\ d \in BlockIds(B)
      BY <1>8, <1>10, <2>2, Zenon
    <3>2. p \in BlockIds(B) /\ d \in Targets(B.blocks[p])
      BY <1>1, <3>1, Zenon DEF PredecessorsBranchHere
    <3> HIDE DEF p
    <3>3. p # t /\ B.blocks[p].head < Len(B.ssas) + 1 BY <1>11, <3>2, Zenon
    <3>4. C.blocks[p].head = B.blocks[p].head BY <1>9, <3>2, <3>3, Zenon
    <3>5. CASE d = t BY <1>4, <1>9, <3>1, <3>3, <3>4, <3>5
    <3>6. CASE d # t
      <4>1. C.blocks[d] = B.blocks[d] /\ Started(B.blocks[d]) BY <1>9, <2>2, <3>1, <3>6, Zenon
      <4>2. B.blocks[p].head < B.blocks[d].head BY <3>1, <4>1, Zenon DEF Code, Linked, p
      <4> QED BY <3>1, <3>4, <4>1, <4>2, Zenon
    <3> QED BY <3>5, <3>6
  <2>3. ASSUME NEW p \in BlockIds(C), NEW d \in Targets(C.blocks[p])
        PROVE  \E k \in 1..Len(C.blocks[d].predecessors) :
                  \A j \in 1..Len(C.blocks[d].predecessors) :
                      C.blocks[d].predecessors[j] = p <=> j = k
    <3>1. p \in BlockIds(B) /\ d \in Targets(B.blocks[p]) BY <1>8, <1>10, <2>3, Zenon
    <3>2. C.blocks[d].predecessors = B.blocks[d].predecessors
      BY <1>1, <1>10, <3>1, TargetsExist, Zenon
    <3>3. \E k \in 1..Len(B.blocks[d].predecessors) :
             \A j \in 1..Len(B.blocks[d].predecessors) :
                 B.blocks[d].predecessors[j] = p <=> j = k
      BY <3>1, Zenon DEF Code, Linked
    <3> QED BY <3>2, <3>3
  <2> QED BY <2>1, <2>2, <2>3 DEF Linked
<1>13. FinalsLocal(C) BY <1>8, <1>10, FinalsKept, Zenon DEF Code
<1>14. OperandsLocal(C) BY <1>8, OperandsKept, Zenon DEF Code
<1>15. Sound(B, C) BY <1>1, start_blockSound, Zenon
<1>16. Wired(C) BY <1>1, start_blockWired, Zenon
<1>17. Sliced(C)
  <2>1. SamePhis(B, C) BY <1>1, SamePhisOperations DEF SamePhis
  <2> QED BY <1>1, <2>1, SameSliced, Zenon
<1>18. Started(b) BY <1>1, <1>4 DEF Started, NULL
<1>19. Settled(B, C)
  <2> SUFFICES ASSUME NEW d \in BlockIds(B)
               PROVE  /\ d \in BlockIds(C)
                      /\ Started(B.blocks[d]) =>
                            /\ Started(C.blocks[d])
                            /\ C.blocks[d].predecessors = B.blocks[d].predecessors
    BY DEF Settled
  <2>1. CASE d = t BY <1>1, <1>8, <2>1, Zenon
  <2>2. CASE d # t BY <1>8, <1>9, <2>2, Zenon
  <2> QED BY <2>1, <2>2
<1>20. Unstarted(C) = Unstarted(B) \ {t}
  <2>1. \A d \in BlockIds(B) : Started(C.blocks[d]) <=> d = t \/ Started(B.blocks[d])
    BY <1>9, <1>18, Zenon
  <2> QED BY <1>8, <2>1, Zenon DEF Unstarted
<1>21. ~ is_not_empty(C)
  <2>1. Len(C.ssas) = Len(B.ssas) BY <1>8, Zenon DEF SameSsas
  <2> QED BY <1>1, <1>4, <1>7, <1>9, <2>1 DEF is_not_empty
<1>22. Code(C)
  BY <1>8, <1>12, <1>13, <1>14, <1>15, <1>16, <1>17, Zenon DEF Code, Sound
<1>23. Follows(B, C) BY <1>15, <1>19, Zenon DEF Follows, Sound
<1>24. Moves(B, C)
  <2>1. ASSUME NEW d \in BlockIds(B)
        PROVE  /\ C.blocks[d].next = B.blocks[d].next /\ C.blocks[d].br = B.blocks[d].br
    <3>1. CASE d = t
      <4>1. old.br = "UNUSED" BY <1>1, <1>3, Zenon DEF Undecided
      <4> QED BY <1>4, <1>9, <3>1, <4>1, Zenon
    <3>2. CASE d # t BY <1>9, <3>2, Zenon
    <3> QED BY <3>1, <3>2
  <2>2. ASSUME NEW d \in BlockIds(B)
        PROVE  EndOf(C, d) = EndOf(B, d) /\ Preds(C, d) = Preds(B, d)
    BY <1>8, <1>10, <2>1, SameEnd, PredsKept, Zenon
  <2> QED BY <1>8, <1>10, <2>1, <2>2, Zenon DEF Moves
<1> QED BY <1>1, <1>2, <1>4, <1>7, <1>8, <1>9, <1>20, <1>21, <1>22, <1>23, <1>24, Zenon

\* The branch of EnterArm allocates both its targets.
LEMMA branchPasses ==
    ASSUME NEW B, Code(B), NEW C, C = branch(B, "eq", NULL, NULL), C.fault = NoFault
    PROVE  LET f == last_block(C)
               t == last_block(C) - 1
           IN  /\ Code(C) /\ Follows(B, C) /\ SameSsas(B, C) /\ SameMode(B, C)
               /\ t \in Nat /\ t # f /\ t \notin BlockIds(B) /\ f \notin BlockIds(B)
               /\ BlockIds(C) = BlockIds(B) \cup {t, f}
               /\ Unstarted(C) = Unstarted(B) \cup {t, f}
               /\ B.current_block \in BlockIds(B)
               /\ Moves(B, C) /\ B.blocks[B.current_block].br = "UNUSED"
               /\ C.blocks[B.current_block].br = "eq"
<1> DEFINE n == B.current_block
           cur == B.blocks[n]
           B1 == alloc_block(B)
           t == last_block(B1)
           B2 == alloc_block(B1)
           f == last_block(B2)
           b == [cur EXCEPT !.br = "eq", !.block_true = t, !.block_false = f]
           D == WithBlock(B2, n, b)
           B3 == Then(B2, D)
           B4 == Then(B3, push_predecessor(B3, t))
           B5 == Then(B4, push_predecessor(B4, f))
<1>1. Typed(B) /\ Exact(B) /\ B \in builder /\ Wired(B) /\ Sliced(B)
  BY CodeTyped, Zenon
<1>2. n \in BlockIds(B) /\ cur.br = "UNUSED" /\ C = B5
  <2>1. C = InOpenBlock(B, B5) BY DEF branch
  <2> HIDE DEF B5
  <2> QED BY <1>1, <2>1, InOpenBlockPasses, Zenon
<1> HIDE DEF B5
<1>3. B4.fault = NoFault /\ C = push_predecessor(B4, f) BY <1>2, ThenPasses, Zenon DEF B5
<1> HIDE DEF B4
<1>4. B3.fault = NoFault /\ B4 = push_predecessor(B3, t) BY <1>3, ThenPasses, Zenon DEF B4
<1> HIDE DEF B3
<1>5. B2.fault = NoFault /\ B3 = D BY <1>4, ThenPasses, Zenon DEF B3
<1>6. B1.fault = NoFault
  <2> HIDE DEF B1
  <2>1. CASE B1.fault # NoFault BY <1>5, <2>1, Zenon DEF alloc_block, Checked, Then
  <2> QED BY <2>1
<1> HIDE DEF B2, D, b, f
<1>7. /\ Code(B1) /\ Follows(B, B1) /\ SameSsas(B, B1) /\ SameMode(B, B1)
      /\ t = last_block(B) + 1 /\ t \notin BlockIds(B)
      /\ BlockIds(B1) = BlockIds(B) \cup {t} /\ Unstarted(B1) = Unstarted(B) \cup {t}
      /\ B1.blocks[t] = FreshBlock /\ \A d \in BlockIds(B) : B1.blocks[d] = B.blocks[d]
  BY <1>6, alloc_blockPasses, Zenon
<1> HIDE DEF B1, t
<1>8. /\ Code(B2) /\ Follows(B1, B2) /\ SameSsas(B1, B2) /\ SameMode(B1, B2)
      /\ f = last_block(B1) + 1 /\ f \notin BlockIds(B1)
      /\ BlockIds(B2) = BlockIds(B1) \cup {f} /\ Unstarted(B2) = Unstarted(B1) \cup {f}
      /\ B2.blocks[f] = FreshBlock /\ \A d \in BlockIds(B1) : B2.blocks[d] = B1.blocks[d]
  BY <1>5, <1>7, alloc_blockPasses, Zenon DEF B2, f
<1>9. /\ Exact(B2) /\ Typed(B2) /\ B2 \in builder /\ n \in BlockIds(B2) /\ B2.current_block = n
      /\ cur \in bb /\ Undecided(cur) /\ B2.blocks[n] = cur /\ BlockInBounds(B2, cur)
  <2>1. Typed(B2) /\ Exact(B2) /\ B2 \in builder BY <1>8, CodeTyped, Zenon
  <2>2. n \in BlockIds(B2) /\ B2.blocks[n] = cur
    <3>1. n \in BlockIds(B1) /\ B1.blocks[n] = cur BY <1>2, <1>7
    <3> QED BY <1>8, <3>1
  <2>3. B2.current_block = n BY <1>7, <1>8, Zenon DEF SameMode
  <2> QED BY <1>1, <1>2, <2>1, <2>2, <2>3, FieldType, Zenon DEF Wired, Typed, PointersInBounds
<1>10. /\ t \in BlockIds(B2) /\ f \in BlockIds(B2) /\ t # f /\ t # n /\ f # n
       /\ t \in Unstarted(B2) /\ f \in Unstarted(B2)
  BY <1>2, <1>7, <1>8, Zenon
<1>11. b \in bb /\ BlockInBounds(B2, b)
  <2>1. "eq" \in block_br BY DEF block_br
  <2> QED BY <1>9, <1>10, <2>1, RetargetTyped, Zenon DEF b
<1>12. /\ b.head = cur.head /\ b.next = cur.next /\ b.predecessors = cur.predecessors
       /\ b.final_values = cur.final_values /\ b.br = "eq"
       /\ b.block_true = t /\ b.block_false = f
  BY <1>9 DEF bb, b
<1>13. /\ D \in builder /\ SameSsas(B2, D) /\ SameMode(B2, D)
       /\ Len(D.blocks) = Len(B2.blocks) /\ D.blocks[n] = b
       /\ \A d \in BlockIds(B2) : d # n => D.blocks[d] = B2.blocks[d]
  BY <1>9, <1>11, SetBlock DEF D
<1>14. BlockIds(D) = BlockIds(B2) /\ D.current_block = n
  BY <1>9, <1>13, Zenon DEF BlockIds, SameMode
<1>15. Sound(B2, D) BY <1>9, <1>11, <1>12, RewrittenSound, Zenon DEF D
<1>16. Listed(D, t, B4) /\ Sound(D, B4)
  <2>1. Listed(D, t, B4)
    BY <1>3, <1>4, <1>5, <1>10, <1>13, <1>14, push_predecessorPasses, Zenon
  <2>2. Sound(D, B4)
    BY <1>4, <1>5, <1>10, <1>14, <1>15, push_predecessorSound, Zenon DEF Sound
  <2> QED BY <2>1, <2>2
<1>17. BlockIds(B4) = BlockIds(B2) /\ B4 \in builder /\ B4.current_block = n
  BY <1>14, <1>16, Zenon DEF Listed, SameMode
<1>18. Listed(B4, f, C) /\ Sound(B4, C)
  <2>1. Listed(B4, f, C) BY <1>3, <1>10, <1>17, push_predecessorPasses, Zenon
  <2>2. Sound(B4, C) BY <1>3, <1>10, <1>16, <1>17, push_predecessorSound, Zenon DEF Sound
  <2> QED BY <2>1, <2>2
<1>19. Sound(B2, C) BY <1>15, <1>16, <1>18, SoundTransitive, Zenon
<1>20. BlockIds(C) = BlockIds(B2) /\ SameSsas(B2, C) /\ SameMode(B2, C)
  BY <1>13, <1>16, <1>17, <1>18, Zenon DEF Listed, SameSsas, SameMode
<1>21. ASSUME NEW d \in BlockIds(B2)
       PROVE  /\ C.blocks[d].head = B2.blocks[d].head
              /\ C.blocks[d].final_values = B2.blocks[d].final_values
              /\ d # n => Targets(C.blocks[d]) = Targets(B2.blocks[d])
              /\ d # n => C.blocks[d].br = B2.blocks[d].br
              /\ C.blocks[d].next = B2.blocks[d].next
  <2>1. SameButPredecessors(D.blocks[d], B4.blocks[d]) BY <1>14, <1>16, Zenon DEF Listed
  <2>2. SameButPredecessors(B4.blocks[d], C.blocks[d]) BY <1>17, <1>18, Zenon DEF Listed
  <2>3. SameButPredecessors(D.blocks[d], C.blocks[d])
    BY <2>1, <2>2, Zenon DEF SameButPredecessors
  <2>4. CASE d = n BY <1>9, <1>12, <1>13, <2>3, <2>4, Zenon DEF SameButPredecessors
  <2>5. CASE d # n BY <1>13, <2>3, <2>5, Zenon DEF SameButPredecessors, Targets
  <2> QED BY <2>4, <2>5
<1>22. ASSUME NEW d \in BlockIds(B2)
       PROVE  /\ d \notin {t, f} => C.blocks[d].predecessors = B2.blocks[d].predecessors
              /\ d \in {t, f} =>
                    /\ C.blocks[d].predecessors = Append(B2.blocks[d].predecessors, n)
                    /\ Len(B2.blocks[d].predecessors) < MaxPreds
  <2>0. D.blocks[d].predecessors = B2.blocks[d].predecessors
    <3>1. CASE d = n BY <1>9, <1>12, <1>13, <3>1, Zenon
    <3>2. CASE d # n BY <1>13, <3>2, Zenon
    <3> QED BY <3>1, <3>2
  <2>1. d # t => B4.blocks[d].predecessors = B2.blocks[d].predecessors
    BY <1>14, <1>16, <2>0, Zenon DEF Listed
  <2>2. d # f => C.blocks[d].predecessors = B4.blocks[d].predecessors
    BY <1>17, <1>18, Zenon DEF Listed
  <2>3. d = t => /\ B4.blocks[d].predecessors = Append(B2.blocks[d].predecessors, n)
                 /\ Len(B2.blocks[d].predecessors) < MaxPreds
    BY <1>14, <1>16, <2>0, Zenon DEF Listed
  <2>4. d = f => /\ C.blocks[d].predecessors = Append(B4.blocks[d].predecessors, n)
                 /\ Len(B4.blocks[d].predecessors) < MaxPreds
    BY <1>17, <1>18, Zenon DEF Listed
  <2>5. CASE d = t BY <1>10, <2>2, <2>3, <2>5, Zenon
  <2>6. CASE d = f BY <1>10, <2>1, <2>4, <2>6, Zenon
  <2>7. CASE d # t /\ d # f BY <2>1, <2>2, <2>7
  <2> QED BY <2>5, <2>6, <2>7, Zenon
<1>23. Targets(C.blocks[n]) = {t, f} /\ C.blocks[n].br # "UNUSED" /\ C.blocks[n].br = "eq"
  <2>1. SameButPredecessors(b, C.blocks[n])
    <3>1. SameButPredecessors(b, B4.blocks[n])
      BY <1>9, <1>13, <1>14, <1>16, Zenon DEF Listed
    <3>2. SameButPredecessors(B4.blocks[n], C.blocks[n])
      BY <1>9, <1>17, <1>18, Zenon DEF Listed
    <3> QED BY <3>1, <3>2, Zenon DEF SameButPredecessors
  <2>2. t # NULL /\ f # NULL BY <1>10 DEF BlockIds, NULL
  <2> QED BY <1>12, <2>1, <2>2 DEF SameButPredecessors, Targets
<1>24. Branched(B2, n, {t, f}, C) BY <1>20, <1>21, <1>22, <1>23 DEF Branched
<1>25. Wired(C)
  <2>1. "eq" \in block_br /\ "eq" # "UNUSED" /\ NULL \in BlockIds(B) \cup {NULL} BY DEF block_br
  <2> QED BY <1>1, <2>1, branchWired, Zenon
<1>26. Sliced(C)
  <2>1. SamePhis(B, C) BY <1>1, SamePhisOperations DEF SamePhis
  <2> QED BY <1>1, <2>1, SameSliced, Zenon
<1>27. C.fault = NoFault /\ B2.blocks[n].br = "UNUSED" /\ {t, f} \in SUBSET Unstarted(B2)
  BY <1>2, <1>9, <1>10
<1>28. Code(C) /\ Follows(B2, C) /\ Unstarted(C) = Unstarted(B2)
  BY <1>8, <1>9, <1>19, <1>24, <1>25, <1>26, <1>27, BranchedCode, Zenon
<1>29. Follows(B, C) BY <1>7, <1>8, <1>28, FollowsTransitive, Zenon
<1>30. SameSsas(B, C) /\ SameMode(B, C) BY <1>7, <1>8, <1>20, Zenon DEF SameSsas, SameMode
<1>31. last_block(C) = f /\ last_block(C) - 1 = t /\ t \in Nat
  <2>1. /\ Len(B.blocks) \in Nat /\ Len(B1.blocks) \in Nat /\ Len(B2.blocks) \in Nat
        /\ Len(C.blocks) \in Nat
    BY <1>7, <1>8, <1>28, CodeTyped
  <2>2. Len(C.blocks) = Len(B2.blocks) BY <1>20, <2>1 DEF BlockIds
  <2> QED BY <1>7, <1>8, <2>1, <2>2 DEF t, f, last_block
<1>32. Moves(B, C)
  <2>1. ASSUME NEW d \in BlockIds(B2)
        PROVE  \A p \in Preds(C, d) : \/ p = n /\ p \in BlockIds(B)
                                      \/ d \in BlockIds(B) /\ p \in Preds(B, d)
    <3>1. B2.blocks[d].predecessors \in Seq(Nat) /\ n \in Nat
      <4>1. B2.blocks[d] \in bb BY <1>9, FieldType
      <4>2. B2.blocks[d].predecessors \in Seq(Nat) BY <4>1, Zenon DEF bb
      <4>3. n \in Nat BY <1>2 DEF BlockIds
      <4> QED BY <4>2, <4>3
    <3>2. \A p \in Preds(C, d) : p = n \/ p \in Preds(B2, d)
      <4>1. CASE d \in {t, f}
        <5>1. C.blocks[d].predecessors = Append(B2.blocks[d].predecessors, n) BY <1>22, <4>1
        <5> QED BY <3>1, <5>1, PredsAppended
      <4>2. CASE d \notin {t, f} BY <1>22, <4>2, PredsKept, Zenon
      <4> QED BY <4>1, <4>2, Zenon
    <3>3. CASE d \in BlockIds(B)
      <4>1. B2.blocks[d] = B.blocks[d] BY <1>7, <1>8, <3>3
      <4>2. Preds(B2, d) = Preds(B, d) BY <4>1, PredsKept
      <4> QED BY <1>2, <3>2, <3>3, <4>2, Zenon
    <3>4. CASE d \notin BlockIds(B)
      <4>1. B2.blocks[d] = FreshBlock BY <1>7, <1>8, <3>4
      <4>2. Preds(B2, d) = {} BY <4>1 DEF Preds, FreshBlock
      <4> QED BY <1>2, <3>2, <4>2
    <3> QED BY <3>3, <3>4, Zenon
  <2>2. ASSUME NEW d \in BlockIds(B)
        PROVE  /\ d \in BlockIds(C) /\ EndOf(C, d) = EndOf(B, d)
               /\ d # n => /\ C.blocks[d].br = B.blocks[d].br
                           /\ Targets(C.blocks[d]) = Targets(B.blocks[d])
    <3>1. d \in BlockIds(B2) /\ B2.blocks[d] = B.blocks[d] BY <1>7, <1>8
    <3>2. C.blocks[d].next = B.blocks[d].next BY <1>21, <3>1
    <3>3. EndOf(C, d) = EndOf(B, d) BY <1>30, <3>2, SameEnd, Zenon
    <3> QED BY <1>20, <1>21, <3>1, <3>3, Zenon
  <2>3. ASSUME NEW d \in BlockIds(C), d \notin BlockIds(B)
        PROVE  C.blocks[d].br = "UNUSED"
    <3>1. d \in BlockIds(B2) /\ B2.blocks[d] = FreshBlock /\ d # n
      BY <1>2, <1>7, <1>8, <1>20, <2>3
    <3> QED BY <1>21, <3>1 DEF FreshBlock
  <2> QED BY <1>20, <2>1, <2>2, <2>3, Zenon DEF Moves
<1> QED BY <1>2, <1>7, <1>8, <1>10, <1>20, <1>23, <1>28, <1>29, <1>30, <1>31, <1>32, Zenon

\* The same blocks and instructions, while a phi list is being written
Listing(B, C) == /\ Exact(C) /\ Sliced(C)
                 /\ SameBlocks(B, C) /\ C.ssas = B.ssas /\ C.current_block = B.current_block

LEMMA start_phiPasses ==
    ASSUME NEW B, Code(B), NEW C, C = start_phi(B), C.fault = NoFault
    PROVE  Listing(B, C)
<1>1. Exact(B) /\ Typed(B) /\ Sliced(B) /\ B \in builder /\ 0 \in Nat BY CodeTyped, Zenon
<1>2. C = [B EXCEPT !.phi_start = Len(B.phi_lists) + 1]
  <2>1. "phi_start == NULL" \in failure BY DEF failure
  <2> QED BY <1>1, <2>1, Failed, Zenon DEF start_phi, Checked, Then
<1>3. Exact(C) /\ Sliced(C) BY <1>1, PhiListSound, start_phiSliced, Zenon DEF Sound
<1>4. SameBlocks(B, C) /\ C.ssas = B.ssas /\ C.current_block = B.current_block
  BY <1>1, <1>2, Zenon DEF builder, SameBlocks
<1> QED BY <1>3, <1>4, Zenon DEF Listing

LEMMA push_phiPasses ==
    ASSUME NEW B, NEW D, Listing(B, D), NEW s \in SsaIds(B),
           NEW C, C = push_phi(D, s), C.fault = NoFault
    PROVE  Listing(B, C) /\ D.fault = NoFault
<1>1. /\ Exact(D) /\ Typed(D) /\ Sliced(D) /\ D \in builder /\ s \in SsaIds(D) /\ s \in Nat
      /\ SameBlocks(B, D) /\ D.ssas = B.ssas /\ D.current_block = B.current_block
  BY DEF Listing, Exact, Typed, SsaIds
<1>2. C = [D EXCEPT !.phi_lists = Append(@, s)] /\ D.fault = NoFault
  <2>1. "phi_start != NULL" \in failure /\ "Arena reached max capacity" \in failure
    BY DEF failure
  <2> QED BY <1>1, <2>1, Failed, Zenon DEF push_phi, Checked, Then
<1>3. Exact(C) /\ Sliced(C) BY <1>1, PhiListSound, push_phiSliced, Zenon DEF Sound
<1>4. SameBlocks(B, C) /\ C.ssas = B.ssas /\ C.current_block = B.current_block
  BY <1>1, <1>2, Zenon DEF builder, SameBlocks
<1> QED BY <1>2, <1>3, <1>4, Zenon DEF Listing

LEMMA end_phiPasses ==
    ASSUME NEW B, Code(B), NEW D, Listing(B, D), NEW C, C = end_phi(D), C.fault = NoFault
    PROVE  /\ D.fault = NoFault /\ SameBlocks(B, C)
           /\ \E i : i.op = "phi" /\ i.flags = {} /\ i.block = B.current_block /\ Emitted(B, i, C)
<1> DEFINE size == Len(D.phi_lists) + 1 - D.phi_start
           i == [op |-> "phi", flags |-> {}, block |-> D.current_block,
                 left |-> D.phi_start, right |-> size]
           D1 == alloc_ssa(D, i)
           E == [D EXCEPT !.ssas = Append(@, i)]
<1>1. /\ Exact(D) /\ Typed(D) /\ Sliced(D) /\ D \in builder
      /\ SameBlocks(B, D) /\ D.ssas = B.ssas /\ D.current_block = B.current_block
  BY DEF Listing, Exact, Typed
<1>2. size > 0 /\ D.fault = NoFault /\ C = [D1 EXCEPT !.phi_start = NULL] /\ D1.fault = NoFault
  <2>1. "phi_start != NULL" \in failure /\ "size > 0" \in failure BY DEF failure
  <2>2. C = IF D.fault # NoFault THEN D
            ELSE IF D.phi_start = NULL THEN [D EXCEPT !.fault = "phi_start != NULL"]
            ELSE IF ~ (size > 0) THEN [D EXCEPT !.fault = "size > 0"]
            ELSE Then(D1, [D1 EXCEPT !.phi_start = NULL])
    BY Zenon DEF end_phi, Checked, Then
  <2> HIDE DEF size, D1
  <2>3. /\ size > 0 /\ D.fault = NoFault
        /\ C = Then(D1, [D1 EXCEPT !.phi_start = NULL])
    BY <1>1, <2>1, <2>2, Failed, Zenon
  <2> QED BY <2>3, ThenPasses, Zenon
<1> HIDE DEF size, i
<1>3. D1 = E BY <1>1, <1>2, alloc_ssaPasses, Zenon
<1>4. i \in ssa /\ i.op = "phi" /\ i.flags = {} /\ i.block = D.current_block
  <2>1. size \in Nat /\ D.phi_start \in Nat /\ D.current_block \in Nat
    BY <1>1, <1>2, FieldType, LengthType DEF size
  <2> QED BY <2>1 DEF ssa, opcode, i
<1>5. i.block \in 0..Len(D.blocks) BY <1>1, <1>4 DEF Typed, PointersInBounds
<1>6. SsaAppended(D, i, E) BY <1>1, <1>4, <1>5, AppendingSsa, Zenon
<1>7. /\ SameBlocks(D, E) /\ SameMode(D, E) /\ E \in builder
      /\ Len(E.ssas) = Len(D.ssas) + 1 /\ E.ssas[Len(D.ssas) + 1] = i
      /\ \A t \in SsaIds(D) : E.ssas[t] = D.ssas[t]
  BY <1>6, Zenon DEF SsaAppended, Typed
<1> HIDE DEF D1, E
<1>8. /\ C.phi_start = NULL /\ C.current_block = E.current_block
      /\ C.ssas = E.ssas /\ C.blocks = E.blocks
  BY <1>2, <1>3, <1>7, Zenon DEF builder
<1>9. Exact(C) /\ Sliced(C) BY <1>1, end_phiSound, end_phiSliced, Zenon DEF Sound
<1>10. SameBlocks(B, C) /\ C.current_block = B.current_block
  BY <1>1, <1>7, <1>8, Zenon DEF SameBlocks, SameMode
<1>11. Len(C.ssas) = Len(B.ssas) + 1 /\ C.ssas[Len(C.ssas)] = i
  BY <1>1, <1>7, <1>8, Zenon
<1>12. \A s \in SsaIds(B) : C.ssas[s] = B.ssas[s]
  BY <1>1, <1>7, <1>8, Zenon DEF SsaIds
<1>13. OperandsExist(B, i) BY <1>4, Zenon DEF OperandsExist, OperandsOf
<1>14. Emitted(B, i, C)
  BY <1>8, <1>9, <1>10, <1>11, <1>12, <1>13, NewInstructionOnly, Zenon
<1> QED BY <1>1, <1>2, <1>4, <1>10, <1>14

LEMMA PhiOfPasses ==
    ASSUME NEW B, Code(B), NEW values \in Seq(Nat),
           \A k \in 1..Len(values) : values[k] \in SsaIds(B),
           NEW C, C = PhiOf(B, values), C.fault = NoFault
    PROVE  /\ SameBlocks(B, C)
           /\ \E i : i.op = "phi" /\ i.flags = {} /\ i.block = B.current_block /\ Emitted(B, i, C)
<1> DEFINE n == Len(values)
<1>1. PICK pushed : /\ pushed[0] = start_phi(B)
                    /\ \A k \in 1..n : pushed[k] = push_phi(pushed[k - 1], values[k])
                    /\ C = end_phi(pushed[n])
  BY CodeTyped, PhiOfUnfolds, Zenon
<1>2. n \in Nat OBVIOUS
<1> HIDE DEF n
<1> DEFINE S == {k \in 0..n : pushed[k].fault = NoFault => Listing(B, pushed[k])}
<1>3. 0 \in S BY <1>1, <1>2, start_phiPasses
<1>4. ASSUME NEW k \in 1..n, k - 1 \in S PROVE k \in S
  <2>1. pushed[k] = push_phi(pushed[k - 1], values[k]) /\ values[k] \in SsaIds(B)
    BY <1>1 DEF n
  <2>2. ASSUME pushed[k].fault = NoFault PROVE Listing(B, pushed[k])
    <3>1. pushed[k - 1].fault = NoFault
      <4>1. CASE pushed[k - 1].fault # NoFault
        BY <2>1, <2>2, <4>1, Zenon DEF push_phi, Checked, Then
      <4> QED BY <4>1
    <3>2. Listing(B, pushed[k - 1]) BY <1>4, <3>1
    <3> QED BY <2>1, <2>2, <3>2, push_phiPasses, Zenon
  <2> QED BY <2>2
<1>5. n \in S
  <2>1. \A k \in 0..n : k \in S
    <3> HIDE DEF S
    <3>1. \A k \in 1..n : k - 1 \in S => k \in S BY <1>4
    <3> QED BY <1>2, <1>3, <3>1, UpTo, Zenon
  <2> QED BY <1>2, <2>1
<1>6. pushed[n].fault = NoFault
  <2>1. CASE pushed[n].fault # NoFault BY <1>1, <2>1, Zenon DEF end_phi, Checked, Then
  <2> QED BY <2>1
<1>7. Listing(B, pushed[n]) BY <1>5, <1>6
<1> QED BY <1>1, <1>7, end_phiPasses, Zenon

-----------------------------------------------------------------------------
(***************************************************************************)
(* The search for a final value ends at a block.                           *)
(***************************************************************************)
\* The search goes on from block c to its only predecessor.
GoesUp(B, sym, c) == ~ try_get(B.blocks[c], sym) /\ Len(B.blocks[c].predecessors) = 1

\* from gives the block where the search from any block ends.
LEMMA LookupFollows ==
    ASSUME NEW B, Code(B), NEW sym, NEW b \in BlockIds(B)
    PROVE  \E from :
             /\ Lookup(B, sym, b) = B.blocks[from[b]]
             /\ \A c \in BlockIds(B) :
                   /\ from[c] \in BlockIds(B)
                   /\ from[c] = IF GoesUp(B, sym, c) THEN from[B.blocks[c].predecessors[1]] ELSE c
<1> DEFINE D == BlockIds(B)
           pred(c) == B.blocks[c].predecessors[1]
           Up(c) == ~ try_get(B.blocks[c], sym) /\ Len(B.blocks[c].predecessors) = 1
           n == Len(B.ssas) + 2
           rank == [c \in D |-> IF Started(B.blocks[c]) THEN B.blocks[c].head ELSE n]
           Stop == {c \in D : ~ Up(c)}
           stop == [c \in D |-> c]
           down == [c \in D |-> IF Up(c) THEN pred(c) ELSE c]
           step == [c \in D |-> [x \in D |-> x]]
<1>1. Typed(B) /\ PredecessorsBranchHere(B) /\ Wired(B) /\ Len(B.ssas) \in Nat /\ n \in Nat
  BY CodeTyped
<1>2. \A c \in D : B.blocks[c].head \in Nat /\ B.blocks[c].head < n
  <2>1. \A c \in D : B.blocks[c].head \in 0..Len(B.ssas) + 1
    BY <1>1, Zenon DEF Typed, PointersInBounds, BlockInBounds
  <2> QED BY <1>1, <2>1
<1>3. ASSUME NEW c \in D, Up(c)
      PROVE  /\ pred(c) \in D /\ Started(B.blocks[pred(c)])
             /\ Started(B.blocks[c]) => B.blocks[pred(c)].head < B.blocks[c].head
  <2>1. 1 \in 1..Len(B.blocks[c].predecessors) BY <1>3
  <2>2. pred(c) \in D /\ c \in Targets(B.blocks[pred(c)])
    BY <1>1, <2>1, Zenon DEF PredecessorsBranchHere
  <2>3. Undecided(B.blocks[pred(c)]) BY <1>1, <2>2, Zenon DEF Wired
  <2>4. Started(B.blocks[pred(c)]) BY <2>2, <2>3 DEF Undecided, Targets
  <2>5. Started(B.blocks[c]) => B.blocks[pred(c)].head < B.blocks[c].head
    BY <2>1, Zenon DEF Code, Linked
  <2> QED BY <2>2, <2>4, <2>5
<1> HIDE DEF n, D, pred
<1>4. rank \in [D -> 0..n] BY <1>1, <1>2
<1>5. down \in [D -> D] /\ stop \in [D -> D] /\ step \in [D -> [D -> D]] BY <1>3
<1>6. ASSUME NEW c \in D, c \notin Stop PROVE rank[down[c]] < rank[c]
  <2>1. Up(c) /\ down[c] = pred(c) /\ pred(c) \in D BY <1>3, <1>6
  <2>2. rank[pred(c)] = B.blocks[pred(c)].head BY <1>3, <2>1
  <2>3. CASE Started(B.blocks[c]) BY <1>3, <2>1, <2>2, <2>3
  <2>4. CASE ~ Started(B.blocks[c]) BY <1>2, <2>1, <2>2, <2>4
  <2> QED BY <2>3, <2>4
<1>7. StepsDown(D, D, n, rank, Stop, stop, down, step) BY <1>1, <1>4, <1>5, <1>6 DEF StepsDown
<1>8. \A c \in D : /\ stop[c] = c /\ (c \in Stop <=> ~ Up(c)) /\ (Up(c) => down[c] = pred(c))
                   /\ \A x \in D : step[c][x] = x
  OBVIOUS
<1> HIDE DEF rank, Stop, stop, down, step
<1>9. PICK f \in [D -> D] :
         \A c \in D : f[c] = IF c \in Stop THEN stop[c] ELSE step[c][f[down[c]]]
  BY <1>7, Recursion, SMT
<1>10. f = [c \in D |-> IF Up(c) THEN f[pred(c)] ELSE c]
  <2>1. ASSUME NEW c \in D PROVE f[c] = IF Up(c) THEN f[pred(c)] ELSE c
    <3>1. CASE Up(c)
      <4>1. pred(c) \in D /\ f[pred(c)] \in D BY <1>3, <3>1
      <4> QED BY <1>8, <1>9, <3>1, <4>1
    <3>2. CASE ~ Up(c) BY <1>8, <1>9, <3>2
    <3> QED BY <3>1, <3>2
  <2> HIDE DEF Up
  <2> QED BY <2>1
<1> DEFINE from == CHOOSE g : g = [c \in D |-> IF Up(c) THEN g[pred(c)] ELSE c]
<1>11. from = [c \in D |-> IF Up(c) THEN from[pred(c)] ELSE c] BY <1>10, Zenon
<1>12. Lookup(B, sym, b) = B.blocks[from[b]] BY Zenon DEF Lookup, D, pred
<1> HIDE DEF from, Up
\* Both recursive functions exist; the one that Lookup denotes is such a one.
<1>13. \A c \in D : from[c] \in D
  <2> DEFINE N == {rank[c] : c \in {d \in D : from[d] \notin D}}
  <2>1. SUFFICES ASSUME N # {} PROVE FALSE BY Zenon
  <2>2. N \in SUBSET Nat BY <1>1, <1>7 DEF StepsDown
  <2>3. PICK k \in N : \A m \in N : k <= m BY <2>1, <2>2, LeastNumber, Zenon
  <2>4. PICK c \in D : from[c] \notin D /\ k = rank[c] BY <2>3
  <2>5. Up(c) /\ from[c] = from[pred(c)] BY <1>11, <2>4
  <2>6. pred(c) \in D /\ rank[pred(c)] < rank[c] /\ from[pred(c)] \notin D
    BY <1>3, <1>7, <1>8, <2>4, <2>5 DEF StepsDown, Up
  <2>7. rank[pred(c)] \in N BY <2>6
  <2>8. rank[c] <= rank[pred(c)] BY <2>3, <2>4, <2>7
  <2>9. rank[c] \in Nat /\ rank[pred(c)] \in Nat BY <1>1, <1>7, <2>6 DEF StepsDown
  <2> QED BY <2>6, <2>8, <2>9
<1>14. \A c \in D : from[c] = IF Up(c) THEN from[pred(c)] ELSE c BY <1>11
<1>15. \A c : Up(c) <=> GoesUp(B, sym, c) BY Zenon DEF Up, GoesUp
<1>16. \A c \in BlockIds(B) :
          /\ from[c] \in BlockIds(B)
          /\ from[c] = IF GoesUp(B, sym, c) THEN from[B.blocks[c].predecessors[1]] ELSE c
  BY <1>13, <1>14, <1>15, Zenon DEF D, pred
<1> QED BY <1>12, <1>16, Zenon

LEMMA LookupFinds ==
    ASSUME NEW B, Code(B), NEW sym, NEW b \in BlockIds(B)
    PROVE  \E c \in BlockIds(B) : Lookup(B, sym, b) = B.blocks[c]
<1>1. PICK from : /\ Lookup(B, sym, b) = B.blocks[from[b]]
                  /\ \A c \in BlockIds(B) : from[c] \in BlockIds(B)
  BY LookupFollows
<1> QED BY <1>1

-----------------------------------------------------------------------------
(***************************************************************************)
(* The symbol table: a parent is older than its child.                     *)
(***************************************************************************)
ScopeIds(L) == 1..Len(L.scopes)
Decls(L, s) == L.scopes[s].decl_symbols

\* A symbol table that has not failed
running_table == [scopes : Seq(scope_t), symbols : Seq([scope_decl : Nat]),
                  current_scope : Nat, fault : {NoFault}]

Scoped(L) ==
    /\ L \in running_table /\ L.fault = NoFault
    /\ L.current_scope \in ScopeIds(L)
    /\ Len(L.symbols) <= MaxSymbols
    /\ \A s \in ScopeIds(L) : /\ L.scopes[s].parent \in 0..s - 1
                              /\ \A k \in 1..Len(Decls(L, s)) : Decls(L, s)[k] \in 1..Len(L.symbols)

LEMMA ScopedTyped ==
    ASSUME NEW L, Scoped(L)
    PROVE  /\ Len(L.scopes) \in Nat /\ L.scopes \in Seq(scope_t) /\ L.symbols \in Seq([scope_decl : Nat])
           /\ \A s \in ScopeIds(L) : L.scopes[s] \in scope_t /\ L.scopes[s].parent \in Nat
           /\ \A s \in ScopeIds(L) : Decls(L, s) \in Seq(Nat)
           /\ L.current_scope \in Nat /\ Len(L.symbols) \in Nat
<1>1. L \in running_table /\ L.current_scope \in ScopeIds(L) BY DEF Scoped
<1>2. L.scopes \in Seq(scope_t) /\ L.symbols \in Seq([scope_decl : Nat]) /\ L.current_scope \in Nat
  BY <1>1 DEF running_table
<1>3. \A s \in ScopeIds(L) : L.scopes[s] \in scope_t BY <1>2 DEF ScopeIds
<1>4. \A s \in ScopeIds(L) : Decls(L, s) \in Seq(Nat) /\ L.scopes[s].parent \in Nat
  BY <1>3 DEF scope_t, Decls
<1> QED BY <1>2, <1>3, <1>4

\* d gives every scope of L the number of scopes on its chain.
Depths(L, d) ==
    /\ d[0] = 0
    /\ \A s \in ScopeIds(L) : d[s] \in Nat /\ d[s] = 1 + d[L.scopes[s].parent]

LEMMA DepthUnfolds ==
    ASSUME NEW L, Scoped(L)
    PROVE  \E d : Depths(L, d) /\ Depth(L) = d[L.current_scope]
<1> DEFINE n == Len(L.scopes)
           D == 0..n
           rank == [s \in D |-> s]
           down == [s \in D |-> IF s = 0 THEN 0 ELSE L.scopes[s].parent]
           stop == [s \in D |-> 0]
           step == [s \in D |-> [x \in Nat |-> 1 + x]]
<1>1. n \in Nat /\ \A s \in D : s # 0 => s \in ScopeIds(L) /\ L.scopes[s].parent \in 0..s - 1
  <2>1. n \in Nat BY ScopedTyped
  <2>2. \A s \in ScopeIds(L) : L.scopes[s].parent \in 0..s - 1 BY DEF Scoped
  <2>3. \A s \in D : s # 0 => s \in ScopeIds(L) BY <2>1 DEF ScopeIds
  <2> QED BY <2>1, <2>2, <2>3
<1>2. \A s \in D : s # 0 => L.scopes[s].parent \in D /\ L.scopes[s].parent < s BY <1>1
<1>3. StepsDown(D, Nat, n, rank, {0}, stop, down, step)
  <2>1. rank \in [D -> 0..n] /\ stop \in [D -> Nat] /\ step \in [D -> [Nat -> Nat]] OBVIOUS
  <2>2. down \in [D -> D] BY <1>1, <1>2
  <2>3. \A s \in D : s \notin {0} => rank[down[s]] < rank[s] BY <1>2, <2>2
  <2> QED BY <1>1, <2>1, <2>2, <2>3 DEF StepsDown
<1>4. \A s \in D : /\ stop[s] = 0 /\ (s # 0 => down[s] = L.scopes[s].parent)
                   /\ \A x \in Nat : step[s][x] = 1 + x
  OBVIOUS
<1>5. 0 \in D /\ L.current_scope \in D /\ \A s \in ScopeIds(L) : s \in D /\ s # 0
  BY <1>1 DEF Scoped, ScopeIds
<1> HIDE DEF n, D, rank, down, stop, step
<1>6. PICK f \in [D -> Nat] :
         \A s \in D : f[s] = IF s \in {0} THEN stop[s] ELSE step[s][f[down[s]]]
  BY <1>3, Recursion, SMT
<1>7. \A s \in D : f[s] = IF s = NULL THEN 0 ELSE 1 + f[L.scopes[s].parent]
  <2> SUFFICES ASSUME NEW s \in D
               PROVE  f[s] = IF s = NULL THEN 0 ELSE 1 + f[L.scopes[s].parent]
    OBVIOUS
  <2>1. CASE s = 0 BY <1>4, <1>6, <2>1 DEF NULL
  <2>2. CASE s # 0
    <3>1. f[s] = step[s][f[down[s]]] BY <1>6, <2>2
    <3>2. down[s] = L.scopes[s].parent /\ f[L.scopes[s].parent] \in Nat BY <1>2, <1>4, <2>2
    <3> QED BY <1>4, <2>2, <3>1, <3>2 DEF NULL
  <2> QED BY <2>1, <2>2
<1>8. f = [s \in D |-> IF s = NULL THEN 0 ELSE 1 + f[L.scopes[s].parent]] BY <1>6, <1>7
<1> DEFINE depth == CHOOSE g : g = [s \in D |-> IF s = NULL THEN 0 ELSE 1 + g[L.scopes[s].parent]]
<1>9. depth = [s \in D |-> IF s = NULL THEN 0 ELSE 1 + depth[L.scopes[s].parent]] BY <1>8, Zenon
<1>10. Depth(L) = depth[L.current_scope] BY Zenon DEF Depth, D, n
<1> HIDE DEF depth
<1>11. depth[0] = 0 /\ \A s \in D : s # 0 => depth[s] = 1 + depth[L.scopes[s].parent]
  BY <1>5, <1>9, Zenon DEF NULL
\* depth and f obey the same equations, so they agree.
<1>12. \A s \in D : depth[s] = f[s]
  <2> DEFINE N == {s \in D : depth[s] # f[s]}
  <2>1. SUFFICES ASSUME N # {} PROVE FALSE OBVIOUS
  <2>2. N \in SUBSET Nat BY <1>1 DEF D
  <2>3. PICK s \in N : \A m \in N : s <= m BY <2>1, <2>2, LeastNumber, Zenon
  <2>4. s \in D /\ depth[s] # f[s] BY <2>3
  <2>5. s # 0
    <3>1. f[0] = 0 BY <1>5, <1>7 DEF NULL
    <3> QED BY <1>11, <2>4, <3>1
  <2>6. L.scopes[s].parent \in D /\ L.scopes[s].parent < s BY <1>2, <2>4, <2>5
  <2>7. depth[s] = 1 + depth[L.scopes[s].parent] BY <1>11, <2>4, <2>5
  <2>8. f[s] = 1 + f[L.scopes[s].parent] BY <1>7, <2>4, <2>5 DEF NULL
  <2>9. L.scopes[s].parent \in N BY <2>4, <2>6, <2>7, <2>8
  <2>10. s \in Nat /\ L.scopes[s].parent \in Nat BY <2>2, <2>9
  <2> HIDE DEF N
  <2>11. s <= L.scopes[s].parent BY <2>3, <2>9
  <2> QED BY <2>6, <2>10, <2>11
<1>13. \A s \in ScopeIds(L) : depth[s] \in Nat BY <1>5, <1>6, <1>12
<1> QED BY <1>5, <1>10, <1>11, <1>13 DEF Depths

\* The depth of a scope does not depend on the scopes opened after it.
LEMMA DepthsAgree ==
    ASSUME NEW L, Scoped(L), NEW M, Scoped(M), NEW d, Depths(L, d), NEW e, Depths(M, e),
           Len(L.scopes) <= Len(M.scopes),
           \A s \in ScopeIds(L) : M.scopes[s].parent = L.scopes[s].parent
    PROVE  \A s \in 0..Len(L.scopes) : d[s] = e[s]
<1>1. Len(L.scopes) \in Nat /\ Len(M.scopes) \in Nat BY ScopedTyped
<1> DEFINE N == {s \in 0..Len(L.scopes) : d[s] # e[s]}
<1>2. SUFFICES ASSUME N # {} PROVE FALSE OBVIOUS
<1>3. N \in SUBSET Nat BY <1>1
<1>4. PICK s \in N : \A m \in N : s <= m BY <1>2, <1>3, LeastNumber, Zenon
<1>5. s \in 0..Len(L.scopes) /\ d[s] # e[s] /\ s \in Nat BY <1>3, <1>4
<1>6. s # 0 BY <1>5 DEF Depths
<1>7. s \in ScopeIds(L) /\ s \in ScopeIds(M) BY <1>1, <1>5, <1>6 DEF ScopeIds
<1> DEFINE p == L.scopes[s].parent
<1>8. p \in 0..s - 1 BY <1>7 DEF Scoped
<1>9. p \in 0..Len(L.scopes) /\ p < s /\ p \in Nat BY <1>1, <1>5, <1>8
<1>10. d[s] = 1 + d[p] BY <1>7 DEF Depths
<1>11. e[s] = 1 + e[p] BY <1>7 DEF Depths
<1>12. p \in N BY <1>5, <1>9, <1>10, <1>11
<1> HIDE DEF N, p
<1>13. s <= p BY <1>4, <1>12
<1> QED BY <1>5, <1>9, <1>13

LEMMA Appended ==
    ASSUME NEW S, NEW q \in Seq(S), NEW x \in S, NEW r, r = Append(q, x)
    PROVE  /\ r \in Seq(S) /\ Len(r) = Len(q) + 1 /\ r[Len(r)] = x
           /\ \A k \in 1..Len(q) : k \in 1..Len(r) /\ r[k] = q[k]
           /\ \A k \in 1..Len(r) : \/ r[k] = x /\ k = Len(q) + 1
                                   \/ k \in 1..Len(q) /\ r[k] = q[k]
<1>1. r \in Seq(S) /\ Len(r) = Len(q) + 1 /\ r[Len(r)] = x OBVIOUS
<1>2. \A k \in 1..Len(q) : k \in 1..Len(r) /\ r[k] = q[k] OBVIOUS
<1>3. \A k \in 1..Len(r) : (k = Len(r) /\ k = Len(q) + 1) \/ k \in 1..Len(q) BY <1>1
<1>4. \A k \in 1..Len(r) : \/ r[k] = x /\ k = Len(q) + 1
                           \/ k \in 1..Len(q) /\ r[k] = q[k]
  BY <1>1, <1>2, <1>3, Zenon
<1> QED BY <1>1, <1>2, <1>4, Zenon

LEMMA SymbolsFail ==
    ASSUME NEW L, L \in running_table, NEW why, why # NoFault
    PROVE  [L EXCEPT !.fault = why].fault # NoFault
BY DEF running_table

LEMMA new_scopePasses ==
    ASSUME NEW L, Scoped(L), NEW M, M = new_scope(L), M.fault = NoFault
    PROVE  Scoped(M) /\ Depth(M) = Depth(L) + 1 /\ M.current_scope \in Nat
<1>1. L \in running_table /\ L.fault = NoFault BY DEF Scoped
<1> DEFINE n == Len(L.scopes) + 1
           scope == [parent |-> L.current_scope, decl_symbols |-> <<>>]
<1>2. M = [L EXCEPT !.scopes = Append(@, scope), !.current_scope = n]
  <2>1. "Arena reached max capacity" # NoFault BY DEF NoFault
  <2> QED BY <1>1, <2>1, SymbolsFail, Zenon DEF new_scope, Checked, Then
<1>3. /\ Len(L.scopes) \in Nat /\ L.scopes \in Seq(scope_t) /\ L.current_scope \in Nat
      /\ L.current_scope \in ScopeIds(L)
  BY ScopedTyped DEF Scoped
<1>4. scope \in scope_t /\ n \in Nat BY <1>3 DEF scope_t
<1>5. M \in running_table
  <2>1. Append(L.scopes, scope) \in Seq(scope_t) BY <1>3, <1>4
  <2> HIDE DEF scope, n
  <2> QED BY <1>1, <1>2, <1>4, <2>1, Zenon DEF running_table
<1>6. /\ M.scopes = Append(L.scopes, scope) /\ M.current_scope = n /\ M.symbols = L.symbols
      /\ M.fault = NoFault
  BY <1>1, <1>2 DEF running_table
<1>7. /\ Len(M.scopes) = n /\ M.scopes[n] = scope
      /\ \A s \in ScopeIds(L) : M.scopes[s] = L.scopes[s]
  BY <1>3, <1>4, <1>6 DEF ScopeIds
<1>8. /\ n \in ScopeIds(M) /\ n \notin ScopeIds(L) /\ \A s \in ScopeIds(M) : s \in ScopeIds(L) \/ s = n
      /\ L.current_scope \in 0..n - 1 /\ L.current_scope # 0
      /\ Len(L.scopes) <= Len(M.scopes) /\ L.current_scope \in 0..Len(L.scopes)
  BY <1>3, <1>7 DEF ScopeIds
<1>9. scope.parent = L.current_scope /\ Len(scope.decl_symbols) = 0 OBVIOUS
<1> HIDE DEF n, scope
<1>10. Scoped(M)
  <2>1. ASSUME NEW s \in ScopeIds(M)
        PROVE  /\ M.scopes[s].parent \in 0..s - 1
               /\ \A k \in 1..Len(Decls(M, s)) : Decls(M, s)[k] \in 1..Len(M.symbols)
    <3>1. CASE s \in ScopeIds(L)
      <4>1. M.scopes[s] = L.scopes[s] /\ Decls(M, s) = Decls(L, s) BY <1>7, <3>1 DEF Decls
      <4> QED BY <1>6, <3>1, <4>1, Zenon DEF Scoped
    <3>2. CASE s = n
      <4>1. M.scopes[s] = scope BY <1>7, <3>2
      <4> QED BY <1>8, <1>9, <3>2, <4>1 DEF Decls
    <3> QED BY <1>8, <2>1, <3>1, <3>2
  <2>2. Len(M.symbols) <= MaxSymbols BY <1>6, Zenon DEF Scoped
  <2> QED BY <1>5, <1>6, <1>8, <2>1, <2>2, Zenon DEF Scoped
<1>11. Depth(M) = Depth(L) + 1
  <2>1. PICK d : Depths(L, d) /\ Depth(L) = d[L.current_scope] BY DepthUnfolds
  <2>2. PICK e : Depths(M, e) /\ Depth(M) = e[M.current_scope] BY <1>10, DepthUnfolds
  <2>3. \A s \in 0..Len(L.scopes) : d[s] = e[s]
    BY <1>7, <1>8, <1>10, <2>1, <2>2, DepthsAgree
  <2>4. e[n] = 1 + e[L.current_scope] BY <1>7, <1>8, <1>9, <2>2 DEF Depths
  <2>5. e[L.current_scope] = Depth(L) BY <1>8, <2>1, <2>3
  <2>6. Depth(L) \in Nat BY <1>3, <2>1 DEF Depths
  <2> QED BY <1>6, <2>2, <2>4, <2>5, <2>6
<1> QED BY <1>4, <1>6, <1>10, <1>11

LEMMA end_scopePasses ==
    ASSUME NEW L, Scoped(L), NEW M, M = end_scope(L), M.fault = NoFault
    PROVE  Scoped(M) /\ Depth(L) = Depth(M) + 1 /\ M.current_scope \in Nat
<1>1. L \in running_table /\ L.fault = NoFault BY DEF Scoped
<1> DEFINE p == L.scopes[L.current_scope].parent
<1>2. M = [L EXCEPT !.current_scope = p] /\ p # NULL
  <2>1. "current_scope->parent != NULL" # NoFault BY DEF NoFault
  <2> QED BY <1>1, <2>1, SymbolsFail, Zenon DEF end_scope, Checked, Then
<1>3. /\ Len(L.scopes) \in Nat /\ L.current_scope \in Nat /\ L.current_scope \in ScopeIds(L)
      /\ p \in 0..L.current_scope - 1
  BY ScopedTyped, Zenon DEF Scoped
<1>4. p \in ScopeIds(L) /\ p \in Nat BY <1>2, <1>3 DEF ScopeIds, NULL
<1> HIDE DEF p
<1>5. /\ M \in running_table /\ M.scopes = L.scopes /\ M.symbols = L.symbols
      /\ M.current_scope = p /\ M.fault = NoFault
  BY <1>1, <1>2, <1>4 DEF running_table
<1>6. Scoped(M) BY <1>4, <1>5, Zenon DEF Scoped, ScopeIds, Decls
<1>7. Depth(L) = Depth(M) + 1
  <2>1. PICK d : Depths(L, d) /\ Depth(L) = d[L.current_scope] BY DepthUnfolds
  <2>2. PICK e : Depths(M, e) /\ Depth(M) = e[M.current_scope] BY <1>6, DepthUnfolds
  <2>3. p \in 0..Len(L.scopes) BY <1>3, <1>4 DEF ScopeIds
  <2>4. d[p] = e[p] BY <1>3, <1>5, <1>6, <2>1, <2>2, <2>3, DepthsAgree
  <2>5. d[L.current_scope] = 1 + d[p] /\ d[p] \in Nat BY <1>3, <1>4, <2>1, Zenon DEF Depths, p
  <2> QED BY <1>5, <2>1, <2>2, <2>4, <2>5
<1> QED BY <1>4, <1>5, <1>6, <1>7

LEMMA new_symbolPasses ==
    ASSUME NEW L, Scoped(L), NEW M, M = new_symbol(L), M.fault = NoFault
    PROVE  Scoped(M) /\ Depth(M) = Depth(L)
<1>1. L \in running_table /\ L.fault = NoFault BY DEF Scoped
<1> DEFINE c == L.current_scope
           n == Len(L.symbols) + 1
           scope == [L.scopes[c] EXCEPT !.decl_symbols = Append(@, n)]
<1>2. /\ M = [L EXCEPT !.symbols = Append(@, [scope_decl |-> c]),
                       !.scopes[c].decl_symbols = Append(@, n)]
      /\ Len(L.symbols) < MaxSymbols
  <2>1. "Arena reached max capacity" # NoFault /\ "next < max" # NoFault BY DEF NoFault
  <2> QED BY <1>1, <2>1, SymbolsFail, Zenon DEF new_symbol, Checked, Then
<1>3. /\ Len(L.scopes) \in Nat /\ Len(L.symbols) \in Nat /\ c \in Nat /\ c \in ScopeIds(L)
      /\ L.scopes \in Seq(scope_t) /\ L.symbols \in Seq([scope_decl : Nat])
      /\ L.scopes[c] \in scope_t /\ Decls(L, c) \in Seq(Nat) /\ MaxSymbols \in Nat
  BY ScopedTyped, SymbolBounds DEF Scoped
<1>4. n \in Nat /\ n <= MaxSymbols BY <1>2, <1>3
<1>5. /\ scope \in scope_t /\ scope.parent = L.scopes[c].parent
      /\ scope.decl_symbols = Append(Decls(L, c), n)
  <2>1. Append(Decls(L, c), n) \in Seq(Nat) BY <1>3, <1>4
  <2>2. scope = [L.scopes[c] EXCEPT !.decl_symbols = Append(Decls(L, c), n)] BY DEF Decls
  <2> HIDE DEF scope, n
  <2> QED BY <1>3, <2>1, <2>2, Zenon DEF scope_t
<1> DEFINE scopes == [L.scopes EXCEPT ![c] = scope]
           symbols == Append(L.symbols, [scope_decl |-> c])
<1>6. /\ scopes \in Seq(scope_t) /\ Len(scopes) = Len(L.scopes) /\ scopes[c] = scope
      /\ \A s \in ScopeIds(L) : s # c => scopes[s] = L.scopes[s]
  BY <1>3, <1>5 DEF ScopeIds
<1>7. symbols \in Seq([scope_decl : Nat]) /\ Len(symbols) = n BY <1>3
<1>8. M = [L EXCEPT !.symbols = symbols, !.scopes = scopes] BY <1>2
<1> HIDE DEF scopes, symbols, scope
<1>9. /\ M \in running_table /\ M.scopes = scopes /\ M.symbols = symbols
      /\ M.current_scope = c /\ M.fault = NoFault
  BY <1>1, <1>6, <1>7, <1>8, Zenon DEF running_table
<1>10. ScopeIds(M) = ScopeIds(L) BY <1>6, <1>9 DEF ScopeIds
<1>11. \A s \in ScopeIds(L) : M.scopes[s].parent = L.scopes[s].parent
  BY <1>5, <1>6, <1>9
<1>12. Scoped(M)
  <2>1. ASSUME NEW s \in ScopeIds(M), NEW k \in 1..Len(Decls(M, s))
        PROVE  Decls(M, s)[k] \in 1..Len(M.symbols)
    <3>1. \A i \in 1..Len(Decls(L, s)) : Decls(L, s)[i] \in 1..Len(L.symbols)
      BY <1>10, <2>1 DEF Scoped
    <3>2. CASE s = c
      <4>1. Decls(M, s) = Append(Decls(L, c), n) BY <1>5, <1>6, <1>9, <3>2, Zenon DEF Decls
      <4>2. \A i \in 1..Len(Decls(M, s)) :
               \/ Decls(M, s)[i] = n
               \/ i \in 1..Len(Decls(L, c)) /\ Decls(M, s)[i] = Decls(L, c)[i]
        <5> HIDE DEF n, c
        <5> QED BY <1>3, <1>4, <4>1, Appended
      <4>3. \A i \in 1..Len(Decls(L, c)) : Decls(L, c)[i] \in 1..n BY <1>3, <1>4, <3>1, <3>2
      <4>4. n \in 1..n /\ Len(M.symbols) = n BY <1>4, <1>7, <1>9
      <4> HIDE DEF n, c
      <4> QED BY <2>1, <4>2, <4>3, <4>4
    <3>3. CASE s # c
      <4>1. Decls(M, s) = Decls(L, s) BY <1>6, <1>9, <1>10, <2>1, <3>3 DEF Decls
      <4> QED BY <1>3, <1>7, <1>9, <2>1, <3>1, <4>1
    <3> QED BY <3>2, <3>3
  <2>2. \A s \in ScopeIds(M) : M.scopes[s].parent \in 0..s - 1
    BY <1>10, <1>11, Zenon DEF Scoped
  <2> QED BY <1>3, <1>4, <1>7, <1>9, <1>10, <2>1, <2>2 DEF Scoped
<1>13. Depth(M) = Depth(L)
  <2>1. PICK d : Depths(L, d) /\ Depth(L) = d[L.current_scope] BY DepthUnfolds
  <2>2. PICK e : Depths(M, e) /\ Depth(M) = e[M.current_scope] BY <1>12, DepthUnfolds
  <2>3. c \in 0..Len(L.scopes) BY <1>3 DEF ScopeIds
  <2>4. Len(L.scopes) <= Len(M.scopes) BY <1>3, <1>6, <1>9
  <2>5. \A s \in 0..Len(L.scopes) : d[s] = e[s]
    BY <1>11, <1>12, <2>1, <2>2, <2>4, DepthsAgree
  <2> QED BY <1>9, <2>1, <2>2, <2>3, <2>5
<1> QED BY <1>12, <1>13

\* Every symbol in sight is one of the arena's.
LEMMA VisibleAreSymbols ==
    ASSUME NEW L, Scoped(L)
    PROVE  VisibleSymbols(L) \in Seq(Symbols)
<1> DEFINE n == Len(L.scopes)
           D == 0..n
           rank == [s \in D |-> s]
           down == [s \in D |-> IF s = 0 THEN 0 ELSE L.scopes[s].parent]
           stop == [s \in D |-> <<>>]
           step == [s \in D |-> [x \in Seq(Symbols) |-> IF s = 0 THEN <<>> ELSE Decls(L, s) \o x]]
<1>1. n \in Nat /\ \A s \in D : s # 0 => s \in ScopeIds(L) /\ L.scopes[s].parent \in 0..s - 1
  <2>1. n \in Nat BY ScopedTyped
  <2>2. \A s \in ScopeIds(L) : L.scopes[s].parent \in 0..s - 1 BY DEF Scoped
  <2>3. \A s \in D : s # 0 => s \in ScopeIds(L) BY <2>1 DEF ScopeIds
  <2> QED BY <2>1, <2>2, <2>3
<1>2. \A s \in D : s # 0 => L.scopes[s].parent \in D /\ L.scopes[s].parent < s BY <1>1
<1>3. \A s \in ScopeIds(L) : Decls(L, s) \in Seq(Symbols)
  <2> SUFFICES ASSUME NEW s \in ScopeIds(L) PROVE Decls(L, s) \in Seq(Symbols)
    OBVIOUS
  <2>1. \A k \in 1..Len(Decls(L, s)) : Decls(L, s)[k] \in 1..Len(L.symbols) BY DEF Scoped
  <2>2. Len(L.symbols) \in Nat /\ Len(L.symbols) <= MaxSymbols /\ MaxSymbols \in Nat
    BY ScopedTyped, SymbolBounds DEF Scoped
  <2>3. \A k \in 1..Len(Decls(L, s)) : Decls(L, s)[k] \in Symbols BY <2>1, <2>2, EmitBounds
  <2>4. Decls(L, s) \in Seq(Nat) BY ScopedTyped
  <2> QED BY <2>3, <2>4
<1>4. step \in [D -> [Seq(Symbols) -> Seq(Symbols)]]
  <2> SUFFICES ASSUME NEW s \in D, NEW x \in Seq(Symbols)
               PROVE  (IF s = 0 THEN <<>> ELSE Decls(L, s) \o x) \in Seq(Symbols)
    OBVIOUS
  <2>1. CASE s = 0 BY <2>1
  <2>2. CASE s # 0
    <3>1. Decls(L, s) \in Seq(Symbols) BY <1>1, <1>3, <2>2
    <3> HIDE DEF D
    <3> QED BY <2>2, <3>1
  <2> QED BY <2>1, <2>2
<1>5. StepsDown(D, Seq(Symbols), n, rank, {0}, stop, down, step)
  <2>1. rank \in [D -> 0..n] /\ stop \in [D -> Seq(Symbols)] OBVIOUS
  <2>2. down \in [D -> D] BY <1>1, <1>2
  <2>3. \A s \in D : s \notin {0} => rank[down[s]] < rank[s] BY <1>2, <2>2
  <2> QED BY <1>1, <1>4, <2>1, <2>2, <2>3 DEF StepsDown
<1>6. \A s \in D : /\ stop[s] = <<>> /\ (s # 0 => down[s] = L.scopes[s].parent)
                   /\ \A x \in Seq(Symbols) : s # 0 => step[s][x] = Decls(L, s) \o x
  OBVIOUS
<1>7. 0 \in D /\ L.current_scope \in D /\ \A s \in D : s # 0 => L.scopes[s].parent \in D
  BY <1>1, <1>2 DEF Scoped, ScopeIds
<1>8. D \in SUBSET Nat BY <1>1
<1> HIDE DEF n, D, rank, down, stop, step
<1>9. PICK f \in [D -> Seq(Symbols)] :
         \A s \in D : f[s] = IF s \in {0} THEN stop[s] ELSE step[s][f[down[s]]]
  BY <1>5, Recursion, SMT
<1>10. \A s \in D : f[s] = IF s = NULL THEN <<>>
                          ELSE L.scopes[s].decl_symbols \o f[L.scopes[s].parent]
  <2> SUFFICES ASSUME NEW s \in D
               PROVE  f[s] = IF s = NULL THEN <<>>
                             ELSE L.scopes[s].decl_symbols \o f[L.scopes[s].parent]
    BY Zenon
  <2>1. CASE s = 0 BY <1>6, <1>9, <2>1 DEF NULL
  <2>2. CASE s # 0
    <3>1. f[s] = step[s][f[down[s]]] BY <1>9, <2>2
    <3>2. down[s] = L.scopes[s].parent /\ f[L.scopes[s].parent] \in Seq(Symbols)
      BY <1>2, <1>6, <1>9, <2>2
    <3> QED BY <1>6, <2>2, <3>1, <3>2, Zenon DEF NULL, Decls
  <2> QED BY <2>1, <2>2, Zenon
<1>11. f = [s \in D |-> IF s = NULL THEN <<>>
                       ELSE L.scopes[s].decl_symbols \o f[L.scopes[s].parent]]
  BY <1>9, <1>10, Zenon
<1> DEFINE visible == CHOOSE g : g = [s \in D |-> IF s = NULL THEN <<>>
                          ELSE L.scopes[s].decl_symbols \o g[L.scopes[s].parent]]
<1>12. visible = [s \in D |-> IF s = NULL THEN <<>>
                             ELSE L.scopes[s].decl_symbols \o visible[L.scopes[s].parent]]
  BY <1>11, Zenon
<1>13. VisibleSymbols(L) = visible[L.current_scope] BY Zenon DEF VisibleSymbols, D, n
<1> HIDE DEF visible
<1>14. \A s \in D : visible[s] = f[s]
  <2> DEFINE N == {s \in D : visible[s] # f[s]}
  <2>1. SUFFICES ASSUME N # {} PROVE FALSE OBVIOUS
  <2>2. N \in SUBSET Nat BY <1>8
  <2>3. PICK s \in N : \A m \in N : s <= m BY <2>1, <2>2, LeastNumber, Zenon
  <2>4. s \in D /\ visible[s] # f[s] BY <2>3
  <2>5. visible[s] = IF s = NULL THEN <<>> ELSE L.scopes[s].decl_symbols \o visible[L.scopes[s].parent]
    BY <1>12, <2>4, Zenon
  <2>6. s # NULL /\ visible[L.scopes[s].parent] # f[L.scopes[s].parent]
    BY <1>10, <2>4, <2>5, Zenon
  <2>7. L.scopes[s].parent \in N BY <1>7, <2>4, <2>6 DEF NULL
  <2>8. L.scopes[s].parent < s BY <1>2, <2>4, <2>6 DEF NULL, D
  <2>9. s \in Nat /\ L.scopes[s].parent \in Nat BY <2>2, <2>7
  <2> HIDE DEF N
  <2>10. s <= L.scopes[s].parent BY <2>3, <2>7
  <2> QED BY <2>8, <2>9, <2>10
<1> QED BY <1>7, <1>9, <1>13, <1>14

-----------------------------------------------------------------------------
(***************************************************************************)
(* A machine that has not failed, and the calls it makes.                  *)
(***************************************************************************)
machine(B, L, T) == [ir |-> B, locals |-> L, tasks |-> T, fault |-> NoFault]

LEMMA MachineFields ==
    \A B, L, T : /\ machine(B, L, T).ir = B /\ machine(B, L, T).locals = L
                 /\ machine(B, L, T).tasks = T /\ machine(B, L, T).fault = NoFault
BY DEF machine

LEMMA MachineFails ==
    ASSUME NEW B, NEW L, NEW T, NEW why, why # NoFault
    PROVE  [machine(B, L, T) EXCEPT !.fault = why].fault # NoFault
BY DEF machine

LEMMA IrCall ==
    ASSUME NEW B, NEW L, NEW T, NEW C, NEW r, r = Ir(machine(B, L, T), C), r.fault = NoFault
    PROVE  C.fault = NoFault /\ r = machine(C, L, T)
BY Zenon DEF machine, Ir, Then

LEMMA LocalCall ==
    ASSUME NEW B, NEW L, NEW T, NEW M, NEW r, r = Local(machine(B, L, T), M), r.fault = NoFault
    PROVE  M.fault = NoFault /\ r = machine(B, M, T)
BY Zenon DEF machine, Local, Then

LEMMA PushCall ==
    ASSUME NEW B, NEW L, NEW T, NEW ts, NEW r, r = push_tasks(machine(B, L, T), ts),
           r.fault = NoFault
    PROVE  r = machine(B, L, T \o ts)
<1>1. "task stack full" # NoFault BY DEF NoFault
<1> DEFINE m == machine(B, L, T)
           why == "task stack full"
<1>2. m.fault = NoFault /\ [m EXCEPT !.fault = why].fault # NoFault
  BY <1>1, Zenon DEF machine
<1>3. r = Checked(m, Len(m.tasks) + Len(ts) <= MaxTasks, why, [m EXCEPT !.tasks = @ \o ts])
  BY Zenon DEF push_tasks
<1> HIDE DEF m
<1>4. r = [m EXCEPT !.tasks = @ \o ts] BY <1>2, <1>3, Zenon DEF Checked, Then
<1> QED BY <1>4, Zenon DEF machine, m

-----------------------------------------------------------------------------
(***************************************************************************)
(* The task stack.                                                         *)
(***************************************************************************)
Handlers == {"emit_stmt", "emit_exp", "emit_exp_binary", "emit_stmt_assign",
             "emit_stmt_local_decl", "emit_stmt_return", "emit_stmt_block", "emit_stmt_ifs"}

Task == [func : Handlers, step : Nat, node : Stmts \cup AnyExp, arg1 : Nat, merge_block : Nat]

LEMMA TaskFields ==
    ASSUME NEW func \in Handlers, NEW step \in Nat, NEW node \in Stmts \cup AnyExp,
           NEW arg1 \in Nat, NEW merge_block \in Nat, NEW t,
           t = task(func, step, node, arg1, merge_block)
    PROVE  /\ t \in Task /\ t.func = func /\ t.step = step /\ t.node = node
           /\ t.arg1 = arg1 /\ t.merge_block = merge_block
BY DEF Task, task

IsArm(t)  == Is(t, "emit_stmt_ifs", STEP_AFTER_CONDITION)
IsElse(t) == IsArm(t) /\ t.node.pairs[t.arg1].maybe_condition = NoExp
Evaluating(t) == t.func \in {"emit_stmt_assign", "emit_stmt_local_decl",
                             "emit_stmt_return", "emit_exp_binary"}

\* What a task carries, by its handler and its step
Shaped(B, t) ==
    \/ Is(t, "emit_stmt", 0) /\ t.node \in Stmts
    \/ Is(t, "emit_exp", 0) /\ t.node \in AnyExp
    \/ /\ t.func = "emit_exp_binary" /\ t.step \in {1, 2}
       /\ t.node \in AnyExp /\ t.node.kind = "exp_binary"
    \/ Is(t, "emit_stmt_assign", 1) /\ t.node \in Stmts /\ t.node.kind = "stmt_assign"
    \/ Is(t, "emit_stmt_local_decl", 1) /\ t.node \in Stmts
    \/ Is(t, "emit_stmt_return", 1)
    \/ Is(t, "emit_stmt_block", 1)
    \/ IsArm(t) /\ t.node \in Stmts /\ t.node.kind = "stmt_ifs" /\ t.arg1 \in 1..Len(t.node.pairs)
    \/ ClosesArm(t)
    \/ Merging(t) /\ t.arg1 \in BlockIds(B) /\ t.merge_block # NULL

\* The block a task will start
Opens(t) == IF Merging(t) THEN t.merge_block ELSE IF ClosesArm(t) THEN t.arg1 ELSE NULL

\* Each block that is not started, those of X apart, waits in one task.
Waits(B, T, X) ==
    /\ \A k \in 1..Len(T) : Opens(T[k]) # NULL => Opens(T[k]) \in Unstarted(B) \ X
    /\ \A j, k \in 1..Len(T) : Opens(T[j]) # NULL /\ Opens(T[j]) = Opens(T[k]) => j = k
    /\ \A b \in Unstarted(B) \ X : \E k \in 1..Len(T) : Opens(T[k]) = b

\* An arm that falls through to the merge lies just above it.
BeforeJoin(t) == \/ IsArm(t) /\ t.arg1 = Len(t.node.pairs)
                 \/ ClosesArm(t) /\ t.arg1 = NULL

\* When these come to the top, the arm below their condition has been left.
UnderArm(t) == Merging(t) \/ IsElse(t)

Joined(T, t) == \E j \in 1..Len(T) : Merging(T[j]) /\ T[j].merge_block = t.merge_block

\* Task t may lie on the tasks T.
Above(T, t) ==
    /\ IsArm(t) \/ ClosesArm(t) => Joined(T, t)
    /\ BeforeJoin(t) => T # <<>> /\ Merging(T[Len(T)])
    /\ T # <<>> /\ UnderArm(T[Len(T)]) => IsArm(t) \/ ClosesArm(t)
    /\ \A j \in 1..Len(T) : Evaluating(T[j]) => t.func = "emit_exp_binary"

Stacked(B, T, X) ==
    /\ T \in Seq(Task) /\ Waits(B, T, X)
    /\ \A k \in 1..Len(T) : Shaped(B, T[k]) /\ Above(SubSeq(T, 1, k - 1), T[k])

LEMMA PrefixStays ==
    ASSUME NEW S, NEW T \in Seq(S), NEW t \in S, NEW U, U = Append(T, t)
    PROVE  /\ \A k \in 1..Len(T) : SubSeq(U, 1, k - 1) = SubSeq(T, 1, k - 1)
           /\ SubSeq(U, 1, Len(T)) = T
OBVIOUS

LEMMA PushedStack ==
    ASSUME NEW B, NEW T, NEW X, Stacked(B, T, X), NEW t \in Task, Shaped(B, t), Above(T, t),
           Opens(t) # NULL => Opens(t) \in X /\ Opens(t) \in Unstarted(B),
           NEW Y, Y = X \ {Opens(t)}, NEW U, U = Append(T, t)
    PROVE  Stacked(B, U, Y)
<1>1. T \in Seq(Task) BY DEF Stacked
<1>2. /\ U \in Seq(Task) /\ Len(U) = Len(T) + 1 /\ U[Len(U)] = t /\ Len(T) \in Nat
      /\ \A k \in 1..Len(T) : k \in 1..Len(U) /\ U[k] = T[k]
      /\ \A k \in 1..Len(U) : k \in 1..Len(T) \/ k = Len(U)
  BY <1>1, Appended
<1>3. ASSUME NEW k \in 1..Len(U)
      PROVE  Shaped(B, U[k]) /\ Above(SubSeq(U, 1, k - 1), U[k])
  <2>1. CASE k \in 1..Len(T)
    <3>1. SubSeq(U, 1, k - 1) = SubSeq(T, 1, k - 1) BY <1>1, <2>1, PrefixStays
    <3> QED BY <1>2, <2>1, <3>1, Zenon DEF Stacked
  <2>2. CASE k = Len(U)
    <3>1. SubSeq(U, 1, k - 1) = T
      <4>1. SubSeq(U, 1, Len(T)) = T BY <1>1, PrefixStays
      <4>2. k - 1 = Len(T) BY <1>2, <2>2
      <4> QED BY <4>1, <4>2
    <3> QED BY <1>2, <2>2, <3>1, Zenon
  <2> QED BY <1>2, <2>1, <2>2
<1>4. Unstarted(B) \ Y = IF Opens(t) = NULL THEN Unstarted(B) \ X
                        ELSE (Unstarted(B) \ X) \cup {Opens(t)}
  <2>1. NULL \notin Unstarted(B) BY DEF Unstarted, BlockIds, NULL
  <2> QED BY <2>1
<1>5. Waits(B, T, X) BY DEF Stacked
<1>6. ASSUME NEW k \in 1..Len(U), Opens(U[k]) # NULL PROVE Opens(U[k]) \in Unstarted(B) \ Y
  <2>1. k \in 1..Len(T) => Opens(U[k]) \in Unstarted(B) \ X BY <1>2, <1>5, <1>6, Zenon DEF Waits
  <2> QED BY <1>2, <1>4, <1>6, <2>1
<1>7. ASSUME NEW j \in 1..Len(U), NEW k \in 1..Len(U), Opens(U[j]) # NULL,
             Opens(U[j]) = Opens(U[k])
      PROVE  j = k
  <2>1. \A i \in 1..Len(T) : Opens(T[i]) = Opens(t) => Opens(t) = NULL
    <3>1. \A i \in 1..Len(T) : Opens(T[i]) # NULL => Opens(T[i]) \notin X
      BY <1>5 DEF Waits
    <3> QED BY <3>1
  <2>2. \A h, i \in 1..Len(T) : Opens(T[h]) # NULL /\ Opens(T[h]) = Opens(T[i]) => h = i
    BY <1>5 DEF Waits
  <2> QED BY <1>2, <1>7, <2>1, <2>2
<1>8. ASSUME NEW b \in Unstarted(B) \ Y PROVE \E k \in 1..Len(U) : Opens(U[k]) = b
  <2>1. CASE b \in Unstarted(B) \ X
    <3>1. PICK k \in 1..Len(T) : Opens(T[k]) = b BY <1>5, <2>1 DEF Waits
    <3> QED BY <1>2, <3>1
  <2>2. CASE b = Opens(t)
    <3>1. Len(U) \in 1..Len(U) BY <1>2
    <3> QED BY <1>2, <2>2, <3>1
  <2> QED BY <1>4, <2>1, <2>2
<1>9. Waits(B, U, Y) BY <1>6, <1>7, <1>8, Zenon DEF Waits
<1> QED BY <1>2, <1>3, <1>9 DEF Stacked

LEMMA PoppedStack ==
    ASSUME NEW B, NEW T \in Seq(Task), NEW t \in Task, NEW X, NEW U, U = Append(T, t),
           Stacked(B, U, X), NEW Y, Y = X \cup {Opens(t)}
    PROVE  /\ Stacked(B, T, Y) /\ Shaped(B, t) /\ Above(T, t)
           /\ Opens(t) # NULL => Opens(t) \in Unstarted(B) /\ Opens(t) \notin X
<1>1. /\ U \in Seq(Task) /\ Len(U) = Len(T) + 1 /\ U[Len(U)] = t /\ Len(T) \in Nat
      /\ \A k \in 1..Len(T) : k \in 1..Len(U) /\ U[k] = T[k]
      /\ \A k \in 1..Len(U) : k \in 1..Len(T) \/ k = Len(U)
      /\ Len(U) \in 1..Len(U)
  BY Appended
<1>2. ASSUME NEW k \in 1..Len(T)
      PROVE  Shaped(B, T[k]) /\ Above(SubSeq(T, 1, k - 1), T[k])
  <2>1. SubSeq(U, 1, k - 1) = SubSeq(T, 1, k - 1) BY PrefixStays
  <2> QED BY <1>1, <2>1, Zenon DEF Stacked
<1>3. Shaped(B, t) /\ Above(T, t)
  <2>1. SubSeq(U, 1, Len(T)) = T BY PrefixStays
  <2>2. Len(U) - 1 = Len(T) BY <1>1
  <2>3. Shaped(B, U[Len(U)]) /\ Above(SubSeq(U, 1, Len(U) - 1), U[Len(U)])
    BY <1>1, Zenon DEF Stacked
  <2> QED BY <1>1, <2>1, <2>2, <2>3, Zenon
<1>4. Waits(B, U, X) BY DEF Stacked
<1>5. \A k \in 1..Len(U) : Opens(U[k]) # NULL => Opens(U[k]) \in Unstarted(B) \ X
  BY <1>4, Zenon DEF Waits
<1>6. \A j, k \in 1..Len(U) : Opens(U[j]) # NULL /\ Opens(U[j]) = Opens(U[k]) => j = k
  BY <1>4, Zenon DEF Waits
<1>7. ASSUME NEW k \in 1..Len(T), Opens(T[k]) # NULL PROVE Opens(T[k]) \in Unstarted(B) \ Y
  <2>1. Opens(T[k]) \in Unstarted(B) \ X BY <1>1, <1>5, <1>7
  <2>2. Opens(T[k]) # Opens(t)
    <3>1. k # Len(U) BY <1>1
    <3> QED BY <1>1, <1>6, <1>7, <3>1
  <2> QED BY <2>1, <2>2
<1>8. \A j, k \in 1..Len(T) : Opens(T[j]) # NULL /\ Opens(T[j]) = Opens(T[k]) => j = k
  BY <1>1, <1>6
<1>9. ASSUME NEW b \in Unstarted(B) \ Y PROVE \E k \in 1..Len(T) : Opens(T[k]) = b
  <2>1. PICK k \in 1..Len(U) : Opens(U[k]) = b BY <1>4, <1>9 DEF Waits
  <2>2. k # Len(U) BY <1>1, <1>9, <2>1
  <2> QED BY <1>1, <2>1, <2>2
<1>10. Waits(B, T, Y) BY <1>7, <1>8, <1>9, Zenon DEF Waits
<1>11. Stacked(B, T, Y) BY <1>2, <1>10 DEF Stacked
<1> QED BY <1>1, <1>3, <1>5, <1>11

LEMMA KeptStack ==
    ASSUME NEW B, NEW T, NEW X, Stacked(B, T, X), NEW C, NEW Y,
           BlockIds(B) \subseteq BlockIds(C), Unstarted(C) \ Y = Unstarted(B) \ X
    PROVE  Stacked(C, T, Y)
<1>1. Waits(C, T, Y) BY Zenon DEF Stacked, Waits
<1>2. \A k \in 1..Len(T) : Shaped(B, T[k]) => Shaped(C, T[k]) BY DEF Shaped
<1> QED BY <1>1, <1>2, Zenon DEF Stacked

\* The stack is the tasks below its top, and its top.
LEMMA TopOfStack ==
    ASSUME NEW S, NEW T \in Seq(S), T # <<>>
    PROVE  Front(T) \in Seq(S) /\ Last(T) \in S /\ T = Append(Front(T), Last(T))
<1>1. Len(T) \in Nat /\ Len(T) # 0 /\ Len(T) \in 1..Len(T) OBVIOUS
<1>2. T[Len(T)] \in S BY <1>1
<1>3. SubSeq(T, 1, Len(T) - 1) \in Seq(S) BY <1>1
<1>4. T = Append(SubSeq(T, 1, Len(T) - 1), T[Len(T)]) BY <1>1, <1>2, <1>3
<1> QED BY <1>2, <1>3, <1>4 DEF Front, Last

-----------------------------------------------------------------------------
(***************************************************************************)
(* The scopes that the stack will close.                                   *)
(***************************************************************************)
Closers(T) == {k \in 1..Len(T) : ClosesScope(T[k])}

Balanced(L, T) == Depth(L) = 1 + Cardinality(Closers(T))

LEMMA CountClosers ==
    ASSUME NEW T \in Seq(Task), NEW t \in Task, NEW U, U = Append(T, t)
    PROVE  /\ Cardinality(Closers(T)) \in Nat
           /\ Cardinality(Closers(U)) = IF ClosesScope(t) THEN Cardinality(Closers(T)) + 1
                                        ELSE Cardinality(Closers(T))
<1>1. /\ Len(U) = Len(T) + 1 /\ U[Len(U)] = t /\ Len(T) \in Nat
      /\ \A k \in 1..Len(T) : k \in 1..Len(U) /\ U[k] = T[k]
      /\ \A k \in 1..Len(U) : k \in 1..Len(T) \/ k = Len(U)
      /\ Len(U) \in 1..Len(U) /\ Len(U) \notin 1..Len(T)
  BY Appended
<1>2. IsFiniteSet(Closers(T))
  <2>1. IsFiniteSet(1..Len(T)) BY <1>1, FS_Interval
  <2>2. Closers(T) \subseteq 1..Len(T) BY DEF Closers
  <2> QED BY <2>1, <2>2, FS_Subset
<1>3. Cardinality(Closers(T)) \in Nat BY <1>2, FS_CardinalityType
<1>4. Closers(U) = IF ClosesScope(t) THEN Closers(T) \cup {Len(U)} ELSE Closers(T)
  BY <1>1 DEF Closers
<1>5. Len(U) \notin Closers(T) BY <1>1 DEF Closers
<1>6. Cardinality(Closers(T) \cup {Len(U)}) = Cardinality(Closers(T)) + 1
  BY <1>2, <1>5, FS_AddElement, Zenon
<1> QED BY <1>3, <1>4, <1>6

-----------------------------------------------------------------------------
(***************************************************************************)
(* The trees.                                                              *)
(***************************************************************************)
LEMMA Expressions ==
    ASSUME NEW d \in 0..MaxExpDepth, NEW e \in Exps[d]
    PROVE  /\ e \in AnyExp /\ e # NoExp
           /\ e.kind = "exp_binary" => /\ d - 1 \in 0..MaxExpDepth
                                       /\ e.left \in Exps[d - 1] /\ e.right \in Exps[d - 1]
           /\ e.kind = "exp_literal" => e.val_u64 \in Nat
<1>1. /\ e # NoExp
      /\ e.kind = "exp_binary" => d > 0 /\ {e.left, e.right} \subseteq Exps[d - 1]
      /\ e.kind = "exp_literal" => e.val_u64 \in Nat
  BY ProgramTrees
<1>2. MaxExpDepth \in Nat BY EmitBounds
<1>3. d > 0 => d - 1 \in 0..MaxExpDepth BY <1>2
<1>4. e \in AnyExp BY DEF AnyExp
<1> QED BY <1>1, <1>3, <1>4

LEMMA AnyExpression ==
    ASSUME NEW e \in AnyExp
    PROVE  /\ e # NoExp
           /\ e.kind = "exp_binary" => e.left \in AnyExp /\ e.right \in AnyExp
           /\ e.kind = "exp_literal" => e.val_u64 \in Nat
<1>1. PICK d \in 0..MaxExpDepth : e \in Exps[d] BY DEF AnyExp
<1>2. /\ e # NoExp
      /\ e.kind = "exp_binary" => /\ d - 1 \in 0..MaxExpDepth
                                  /\ e.left \in Exps[d - 1] /\ e.right \in Exps[d - 1]
      /\ e.kind = "exp_literal" => e.val_u64 \in Nat
  BY <1>1, Expressions
<1>3. e.kind = "exp_binary" => e.left \in AnyExp /\ e.right \in AnyExp BY <1>2 DEF AnyExp
<1> QED BY <1>2, <1>3

\* Going down left from e, at lists what one meets, and NoExp below the leaf.
Descends(e, at) ==
    /\ at[0] = e
    /\ \A k \in 1..MaxExpDepth :
          at[k] = IF at[k - 1].kind = "exp_binary" THEN at[k - 1].left ELSE NoExp

IsLeaf(at, d) == d \in 0..MaxExpDepth /\ at[d] # NoExp /\ at[d].kind # "exp_binary"

LEMMA LeafExists ==
    ASSUME NEW e \in AnyExp, NEW at, Descends(e, at)
    PROVE  \E d : IsLeaf(at, d)
<1> SUFFICES ASSUME \A d : ~ IsLeaf(at, d) PROVE FALSE
  OBVIOUS
<1>1. PICK n \in 0..MaxExpDepth : e \in Exps[n] BY DEF AnyExp
<1>2. MaxExpDepth \in Nat /\ n \in Nat BY EmitBounds
<1> DEFINE S == {k \in 0..n : at[k] \in Exps[n - k]}
<1>3. 0 \in S BY <1>1, <1>2 DEF Descends
<1>4. ASSUME NEW k \in S PROVE at[k].kind = "exp_binary" /\ n - k \in 0..MaxExpDepth
  <2>1. n - k \in 0..MaxExpDepth /\ k \in 0..MaxExpDepth /\ at[k] \in Exps[n - k] BY <1>2
  <2>2. at[k] # NoExp BY <2>1, Expressions
  <2> QED BY <2>1, <2>2 DEF IsLeaf
<1>5. ASSUME NEW k \in 1..n, k - 1 \in S PROVE k \in S
  <2>1. at[k - 1].kind = "exp_binary" BY <1>4, <1>5
  <2>2. at[k] = at[k - 1].left
    <3>1. k \in 1..MaxExpDepth BY <1>2
    <3> QED BY <2>1, <3>1 DEF Descends
  <2>3. n - (k - 1) \in 0..MaxExpDepth /\ at[k - 1] \in Exps[n - (k - 1)] BY <1>2, <1>5
  <2>4. at[k - 1].left \in Exps[n - (k - 1) - 1] BY <2>1, <2>3, Expressions
  <2>5. n - (k - 1) - 1 = n - k BY <1>2
  <2> QED BY <2>2, <2>4, <2>5
<1> HIDE DEF S
<1>6. \A k \in 0..n : k \in S BY <1>2, <1>3, <1>5, UpTo
<1>7. n \in S /\ n - n = 0 /\ 0 \in 0..MaxExpDepth BY <1>2, <1>6
<1>8. at[n] \in Exps[0] BY <1>7 DEF S
<1>9. at[n].kind = "exp_binary" BY <1>4, <1>7
<1>10. 0 - 1 \in 0..MaxExpDepth BY <1>7, <1>8, <1>9, Expressions
<1> QED BY <1>10

\* All one meets above a leaf is binary.
LEMMA AboveLeaf ==
    ASSUME NEW e \in AnyExp, NEW at, Descends(e, at), NEW leaf, IsLeaf(at, leaf)
    PROVE  /\ \A d \in 0..leaf : at[d] \in AnyExp
           /\ \A d \in 0..leaf : d < leaf => at[d].kind = "exp_binary"
<1>1. leaf \in Nat /\ leaf \in 0..MaxExpDepth /\ MaxExpDepth \in Nat BY EmitBounds DEF IsLeaf
<1> DEFINE S == {j \in 0..leaf : at[leaf - j] # NoExp /\ (j > 0 => at[leaf - j].kind = "exp_binary")}
<1>2. 0 \in S BY <1>1 DEF IsLeaf
<1>3. ASSUME NEW j \in 1..leaf, j - 1 \in S PROVE j \in S
  <2> DEFINE k == leaf - (j - 1)
  <2>1. k \in 1..MaxExpDepth /\ k - 1 = leaf - j BY <1>1
  <2>2. at[k] # NoExp BY <1>3
  <2>3. at[k] = IF at[k - 1].kind = "exp_binary" THEN at[k - 1].left ELSE NoExp
    BY <2>1, Zenon DEF Descends
  <2>4. at[k - 1].kind = "exp_binary" BY <2>2, <2>3
  <2>5. at[k - 1] # NoExp BY <2>4 DEF NoExp
  <2> QED BY <2>1, <2>4, <2>5
<1> HIDE DEF S
<1>4. \A j \in 0..leaf : j \in S BY <1>1, <1>2, <1>3, UpTo
<1>5. ASSUME NEW d \in 0..leaf, d < leaf PROVE at[d].kind = "exp_binary"
  <2>1. leaf - d \in S /\ leaf - d > 0 /\ leaf - (leaf - d) = d BY <1>1, <1>4, <1>5
  <2> QED BY <2>1 DEF S
<1> DEFINE R == {d \in 0..leaf : at[d] \in AnyExp}
<1>6. 0 \in R BY <1>1 DEF Descends
<1>7. ASSUME NEW d \in 1..leaf, d - 1 \in R PROVE d \in R
  <2>1. at[d - 1].kind = "exp_binary" BY <1>1, <1>5
  <2>2. d \in 1..MaxExpDepth BY <1>1
  <2>3. at[d] = at[d - 1].left BY <2>1, <2>2 DEF Descends
  <2> QED BY <1>7, <2>1, <2>3, AnyExpression
<1> HIDE DEF R
<1>8. \A d \in 0..leaf : d \in R BY <1>1, <1>6, <1>7, UpTo
<1> QED BY <1>5, <1>8 DEF R

LEMMA LeftSpineDescends ==
    ASSUME NEW e \in AnyExp, NEW spine, spine = LeftSpine(e)
    PROVE  /\ spine \in Seq(AnyExp) /\ Len(spine) \in Nat \ {0} /\ spine[Len(spine)] \in AnyExp
           /\ \A d \in 1..Len(spine) - 1 : spine[d] \in AnyExp /\ spine[d].kind = "exp_binary"
           /\ spine[Len(spine)].kind # "exp_binary"
<1> DEFINE n == MaxExpDepth
           S == AnyExp \cup {NoExp}
           step == [k \in 1..n |-> [x \in S |-> IF x.kind = "exp_binary" THEN x.left ELSE NoExp]]
<1>1. n \in Nat BY EmitBounds
<1>2. Counts(n, S, e, step)
  <2>1. \A x \in S : x.kind = "exp_binary" => x.left \in S BY AnyExpression DEF NoExp
  <2>2. step \in [1..n -> [S -> S]] BY <2>1
  <2> QED BY <1>1, <2>2 DEF Counts
<1>3. \A k \in 1..n : \A x \in S : step[k][x] = IF x.kind = "exp_binary" THEN x.left ELSE NoExp
  OBVIOUS
<1> HIDE DEF n, S, step
<1>4. PICK f \in [0..n -> S] : f[0] = e /\ \A k \in 1..n : f[k] = step[k][f[k - 1]]
  BY <1>2, Counted, SMT
<1>5. \A k \in 1..n : f[k] = IF f[k - 1].kind = "exp_binary" THEN f[k - 1].left ELSE NoExp
  <2> SUFFICES ASSUME NEW k \in 1..n
               PROVE  f[k] = IF f[k - 1].kind = "exp_binary" THEN f[k - 1].left ELSE NoExp
    OBVIOUS
  <2>1. f[k - 1] \in S BY <1>1
  <2> QED BY <1>3, <1>4, <2>1
<1>6. f = [d \in 0..n |-> IF d = 0 THEN e
                         ELSE IF f[d - 1].kind = "exp_binary" THEN f[d - 1].left ELSE NoExp]
  <2>1. \A k \in 0..n : k # 0 => k \in 1..n BY <1>1
  <2> QED BY <1>4, <1>5, <2>1
<1> DEFINE at == CHOOSE g : g = [d \in 0..n |-> IF d = 0 THEN e
                              ELSE IF g[d - 1].kind = "exp_binary" THEN g[d - 1].left ELSE NoExp]
           leaf == CHOOSE d \in 0..n : at[d] # NoExp /\ at[d].kind # "exp_binary"
<1>7. at = [d \in 0..n |-> IF d = 0 THEN e
                          ELSE IF at[d - 1].kind = "exp_binary" THEN at[d - 1].left ELSE NoExp]
  BY <1>6, Zenon
<1>8. LeftSpine(e) = [d \in 1..leaf + 1 |-> at[d - 1]] BY Zenon DEF LeftSpine, n
<1> HIDE DEF at
<1>9. Descends(e, at)
  <2>1. 0 \in 0..n /\ \A k \in 1..n : k \in 0..n /\ k # 0 BY <1>1
  <2> QED BY <1>7, <2>1, Zenon DEF Descends, n
<1>10. IsLeaf(at, leaf)
  <2>1. PICK d : IsLeaf(at, d) BY <1>9, LeafExists
  <2>2. d \in 0..n /\ at[d] # NoExp /\ at[d].kind # "exp_binary" BY <2>1 DEF IsLeaf, n
  <2>3. leaf \in 0..n /\ at[leaf] # NoExp /\ at[leaf].kind # "exp_binary" BY <2>2, Zenon
  <2> QED BY <2>3 DEF IsLeaf, n
<1> HIDE DEF leaf
<1>11. leaf \in Nat BY <1>10, EmitBounds DEF IsLeaf
<1>12. \A d \in 0..leaf : /\ at[d] \in AnyExp
                          /\ d < leaf => at[d].kind = "exp_binary"
  BY <1>9, <1>10, AboveLeaf
<1>13. at[leaf].kind # "exp_binary" BY <1>10 DEF IsLeaf
<1>14. spine \in Seq(AnyExp) /\ Len(spine) = leaf + 1 /\ spine[leaf + 1] = at[leaf]
  <2>1. \A d \in 1..leaf + 1 : d - 1 \in 0..leaf BY <1>11
  <2>2. spine = [d \in 1..leaf + 1 |-> at[d - 1]] BY <1>8
  <2>3. \A d \in 1..leaf + 1 : at[d - 1] \in AnyExp BY <1>12, <2>1
  <2>4. leaf + 1 \in Nat /\ leaf + 1 \in 1..leaf + 1 /\ (leaf + 1) - 1 = leaf BY <1>11
  <2>5. spine[leaf + 1] = at[leaf] BY <2>2, <2>4
  <2> QED BY <2>2, <2>3, <2>4, <2>5
<1>15. \A d \in 1..leaf : spine[d] = at[d - 1] /\ d - 1 \in 0..leaf /\ d - 1 < leaf
  <2>1. \A d \in 1..leaf : d \in 1..leaf + 1 BY <1>11
  <2> QED BY <1>8, <1>11, <2>1
<1>16. leaf \in 0..leaf /\ Len(spine) - 1 = leaf /\ leaf + 1 \in Nat \ {0} BY <1>11, <1>14
<1> QED BY <1>12, <1>13, <1>14, <1>15, <1>16

LEMMA Statements ==
    ASSUME NEW s \in Stmts
    PROVE  WellFormed(s, Stmts, AnyExp)
BY ProgramTrees DEF TreesOf

-----------------------------------------------------------------------------
(***************************************************************************)
(* The machine between two calls of a handler, with a block open.          *)
(***************************************************************************)
NoneEvaluating(T) == \A k \in 1..Len(T) : ~ Evaluating(T[k])

\* Task t, which waits for the value of an expression, finds only values of
\* the open block from the one it remembers on.
ValuesSince(B, t) ==
    /\ t.arg1 <= Len(B.ssas)
    /\ t.step = 2 => t.arg1 # NULL
    /\ \A s \in SsaIds(B) : t.arg1 < s \/ (t.arg1 = s /\ t.step = 2) =>
          ValueOf(B, B.current_block, s)

Values(B, T) == \A k \in 1..Len(T) : Evaluating(T[k]) => ValuesSince(B, T[k])

Plain(T) == T # <<>> => ~ UnderArm(T[Len(T)])

Running(B, L, T) ==
    /\ Code(B) /\ Scoped(L) /\ Stacked(B, T, {}) /\ Balanced(L, T) /\ Values(B, T)
    /\ B.current_block # NULL /\ Plain(T)

LEMMA EmittedRunning ==
    ASSUME NEW B, NEW L, NEW T, Running(B, L, T), NEW i, NEW C, Emitted(B, i, C),
           i.block = B.current_block, NoneEvaluating(T) \/ ~ has_flag(i, "no_value")
    PROVE  Running(C, L, T) /\ Follows(B, C)
<1>1. Len(B.ssas) \in Nat BY CodeTyped DEF Running
<1>2. /\ Code(C) /\ Follows(B, C) /\ Longer(B, C) /\ BlockIds(C) = BlockIds(B)
      /\ Unstarted(C) = Unstarted(B) /\ C.current_block = B.current_block
      /\ Len(C.ssas) = Len(B.ssas) + 1 /\ C.ssas[Len(C.ssas)] = i
  BY DEF Emitted
<1>3. \A s \in SsaIds(C) : s \in SsaIds(B) \/ s = Len(C.ssas) BY <1>1, <1>2 DEF SsaIds
<1>4. Len(C.ssas) \in SsaIds(C) BY <1>1, <1>2 DEF SsaIds
<1>5. Values(C, T)
  <2> SUFFICES ASSUME NEW k \in 1..Len(T), Evaluating(T[k]) PROVE ValuesSince(C, T[k])
    BY DEF Values
  <2>1. ~ has_flag(i, "no_value") BY DEF NoneEvaluating
  <2>2. ValueOf(C, C.current_block, Len(C.ssas)) BY <1>2, <1>4, <2>1 DEF ValueOf
  <2>3. ValuesSince(B, T[k]) BY DEF Running, Values
  <2>4. T[k].arg1 <= Len(C.ssas)
    <3>1. T[k].arg1 \in Nat
      <4>1. T \in Seq(Task) BY DEF Running, Stacked
      <4>2. T[k] \in Task BY <4>1
      <4> QED BY <4>2 DEF Task
    <3> QED BY <1>1, <1>2, <2>3, <3>1 DEF ValuesSince
  <2>5. ASSUME NEW s \in SsaIds(C), T[k].arg1 < s \/ (T[k].arg1 = s /\ T[k].step = 2)
        PROVE  ValueOf(C, C.current_block, s)
    <3>1. CASE s \in SsaIds(B)
      <4>1. ValueOf(B, B.current_block, s) BY <2>3, <2>5, <3>1, Zenon DEF ValuesSince
      <4> QED BY <1>2, <4>1, ValuesLast, Zenon
    <3>2. CASE s = Len(C.ssas) BY <2>2, <3>2
    <3> QED BY <1>3, <2>5, <3>1, <3>2
  <2> QED BY <2>3, <2>4, <2>5, Zenon DEF ValuesSince
<1>6. Stacked(C, T, {}) BY <1>2, KeptStack DEF Running
<1> QED BY <1>2, <1>5, <1>6 DEF Running

\* A call that leaves the instructions as they are
LEMMA KeptRunning ==
    ASSUME NEW B, NEW L, NEW T, Running(B, L, T), NEW C, Kept(B, C), SameSsas(B, C),
           C.current_block = B.current_block
    PROVE  Running(C, L, T) /\ Follows(B, C)
<1>1. Code(C) /\ Follows(B, C) /\ BlockIds(C) = BlockIds(B) /\ Unstarted(C) = Unstarted(B)
  BY DEF Kept
<1>2. Values(C, T)
  BY Zenon DEF Running, Values, ValuesSince, ValueOf, SameSsas, SsaIds
<1>3. Stacked(C, T, {}) BY <1>1, KeptStack DEF Running
<1> QED BY <1>1, <1>2, <1>3 DEF Running

LEMMA NoneBelow ==
    ASSUME NEW T, NEW t, Above(T, t), t.func # "emit_exp_binary"
    PROVE  NoneEvaluating(T)
BY DEF Above, NoneEvaluating

\* A task that opens no block, belongs to no ifs and closes no scope
Simple(t) == t.func \notin {"emit_stmt_ifs", "emit_stmt_block"}

LEMMA SimpleTask ==
    ASSUME NEW t, Simple(t)
    PROVE  /\ ~ IsArm(t) /\ ~ ClosesArm(t) /\ ~ Merging(t) /\ ~ BeforeJoin(t) /\ ~ UnderArm(t)
           /\ ~ ClosesScope(t) /\ Opens(t) = NULL
BY DEF Simple, IsArm, ClosesArm, Merging, BeforeJoin, UnderArm, IsElse, ClosesScope, Opens, Is

LEMMA ValuesPushed ==
    ASSUME NEW B, NEW T \in Seq(Task), Values(B, T), NEW t \in Task,
           Evaluating(t) => ValuesSince(B, t), NEW U, U = Append(T, t)
    PROVE  Values(B, U) /\ (NoneEvaluating(T) /\ ~ Evaluating(t) => NoneEvaluating(U))
<1>1. /\ U[Len(U)] = t
      /\ \A k \in 1..Len(T) : k \in 1..Len(U) /\ U[k] = T[k]
      /\ \A k \in 1..Len(U) : k \in 1..Len(T) \/ k = Len(U)
  BY Appended
<1> QED BY <1>1 DEF Values, NoneEvaluating

LEMMA ValuesPopped ==
    ASSUME NEW B, NEW T \in Seq(Task), NEW t \in Task, NEW U, U = Append(T, t), Values(B, U)
    PROVE  Values(B, T) /\ (Evaluating(t) => ValuesSince(B, t))
<1>1. /\ U[Len(U)] = t /\ Len(U) \in 1..Len(U)
      /\ \A k \in 1..Len(T) : k \in 1..Len(U) /\ U[k] = T[k]
  BY Appended
<1> QED BY <1>1 DEF Values

LEMMA SimplePushed ==
    ASSUME NEW B, NEW L, NEW T, Running(B, L, T), NEW t \in Task, Shaped(B, t), Simple(t),
           NoneEvaluating(T) \/ t.func = "emit_exp_binary",
           Evaluating(t) => ValuesSince(B, t), NEW U, U = Append(T, t)
    PROVE  /\ Running(B, L, U)
           /\ NoneEvaluating(T) /\ ~ Evaluating(t) => NoneEvaluating(U)
<1>1. T \in Seq(Task) BY DEF Running, Stacked
<1>2. /\ ~ IsArm(t) /\ ~ ClosesArm(t) /\ ~ Merging(t) /\ ~ BeforeJoin(t) /\ ~ UnderArm(t)
      /\ ~ ClosesScope(t) /\ Opens(t) = NULL
  BY SimpleTask
<1>3. Above(T, t) BY <1>2 DEF Above, NoneEvaluating, Running, Plain
<1>4. Stacked(B, U, {})
  <2>1. {} = {} \ {Opens(t)} OBVIOUS
  <2> QED BY <1>2, <1>3, <2>1, PushedStack, Zenon DEF Running
<1>5. Values(B, U) /\ (NoneEvaluating(T) /\ ~ Evaluating(t) => NoneEvaluating(U))
  BY <1>1, ValuesPushed, Zenon DEF Running
<1>6. Balanced(L, U) BY <1>1, <1>2, CountClosers, Zenon DEF Running, Balanced
<1>7. Plain(U)
  <2>1. U[Len(U)] = t BY <1>1, Appended
  <2> QED BY <1>2, <2>1 DEF Plain
<1> QED BY <1>4, <1>5, <1>6, <1>7 DEF Running

LEMMA OneMore ==
    ASSUME NEW S, NEW T \in Seq(S), NEW ts \in Seq(S), NEW k \in 1..Len(ts)
    PROVE  T \o SubSeq(ts, 1, k) = Append(T \o SubSeq(ts, 1, k - 1), ts[k])
<1> DEFINE q == SubSeq(ts, 1, k - 1)
           r == SubSeq(ts, 1, k)
           x == ts[k]
<1>1. q \in Seq(S) /\ Len(q) = k - 1 /\ r \in Seq(S) /\ Len(r) = k /\ x \in S OBVIOUS
<1>2. \A i \in 1..k : r[i] = ts[i] OBVIOUS
<1>3. \A i \in 1..k - 1 : q[i] = ts[i] OBVIOUS
<1>4. k \in Nat OBVIOUS
<1> HIDE DEF q, r
<1>5. r = Append(q, x) BY <1>1, <1>2, <1>3, <1>4
<1> HIDE DEF x
<1>6. T \o Append(q, x) = Append(T \o q, x) BY <1>1
<1> QED BY <1>5, <1>6, Zenon DEF q, r, x

\* A set that every task of ts extends
LEMMA AppendAll ==
    ASSUME NEW S, NEW Q, NEW P \in SUBSET Seq(S), NEW T \in P, NEW ts \in Seq(Q), Q \subseteq S,
           \A U \in P : \A t \in Q : Append(U, t) \in P
    PROVE  T \o ts \in P
<1>1. Len(ts) \in Nat /\ T \in Seq(S) /\ ts \in Seq(S) OBVIOUS
<1> DEFINE R(k) == T \o SubSeq(ts, 1, k)
           K == {k \in 0..Len(ts) : R(k) \in P}
<1>2. 0 \in K
  <2>1. R(0) = T BY <1>1
  <2>2. 0 \in 0..Len(ts) BY <1>1
  <2> HIDE DEF R
  <2> QED BY <2>1, <2>2
<1>3. ASSUME NEW k \in 1..Len(ts), k - 1 \in K PROVE k \in K
  <2>1. R(k) = Append(R(k - 1), ts[k]) BY <1>1, OneMore, Zenon
  <2>2. ts[k] \in Q /\ k \in 0..Len(ts) BY <1>1
  <2>3. R(k - 1) \in P BY <1>3
  <2> HIDE DEF R
  <2> QED BY <2>1, <2>2, <2>3, Zenon
<1> HIDE DEF K
<1>4. Len(ts) \in K
  <2>1. \A k \in 0..Len(ts) : k \in K BY <1>1, <1>2, <1>3, UpTo, Zenon
  <2> QED BY <1>1, <2>1
<1>5. SubSeq(ts, 1, Len(ts)) = ts OBVIOUS
<1> QED BY <1>4, <1>5, Zenon DEF K

-----------------------------------------------------------------------------
(***************************************************************************)
(* Expressions.                                                            *)
(***************************************************************************)
\* The call leaves a machine that runs on, and what it found frozen.
Runs(B, r) ==
    r.fault = NoFault =>
        \E C, M, U : r = machine(C, M, U) /\ Running(C, M, U) /\ Follows(B, C)

LEMMA SameRuns ==
    ASSUME NEW B, NEW L, NEW T, Running(B, L, T)
    PROVE  Runs(B, machine(B, L, T))
BY FollowsItself, Zenon DEF Runs

\* A call into the builder after which the machine runs on
LEMMA IrRuns ==
    ASSUME NEW B, NEW L, NEW T, NEW C, C.fault = NoFault => Running(C, L, T) /\ Follows(B, C),
           NEW r, r = Ir(machine(B, L, T), C)
    PROVE  Runs(B, r)
<1> SUFFICES ASSUME r.fault = NoFault
             PROVE  \E D, M, U : r = machine(D, M, U) /\ Running(D, M, U) /\ Follows(B, D)
  BY DEF Runs
<1>1. C.fault = NoFault /\ r = machine(C, L, T) BY IrCall
<1> QED BY <1>1, Zenon

LEMMA RunsAfter ==
    ASSUME NEW B, NEW C, Follows(B, C), NEW r, Runs(C, r)
    PROVE  Runs(B, r)
<1> SUFFICES ASSUME r.fault = NoFault
             PROVE  \E D, M, U : r = machine(D, M, U) /\ Running(D, M, U) /\ Follows(B, D)
  BY DEF Runs
<1>1. PICK D, M, U : r = machine(D, M, U) /\ Running(D, M, U) /\ Follows(C, D)
  BY Zenon DEF Runs
<1>2. Follows(B, D) BY <1>1, FollowsTransitive
<1> QED BY <1>1, <1>2, Zenon

\* A step that fails, or runs on
LEMMA RunsThen ==
    ASSUME NEW B, NEW m, NEW next, m.fault = NoFault => Runs(B, next),
           NEW r, r = Then(m, next)
    PROVE  Runs(B, r)
<1>1. CASE m.fault = NoFault
  <2>1. r = next BY <1>1, Zenon DEF Then
  <2> QED BY <1>1, <2>1
<1>2. CASE m.fault # NoFault
  <2>1. r = m BY <1>2, Zenon DEF Then
  <2> QED BY <1>2, <2>1 DEF Runs
<1> QED BY <1>1, <1>2

\* A check passes or fails.
LEMMA RunsFails ==
    ASSUME NEW B, NEW L, NEW T, NEW why, why # NoFault
    PROVE  Runs(B, [machine(B, L, T) EXCEPT !.fault = why])
BY MachineFails, Zenon DEF Runs

LEMMA RunningTyped ==
    ASSUME NEW B, NEW L, NEW T, Running(B, L, T)
    PROVE  /\ Code(B) /\ Scoped(L) /\ T \in Seq(Task) /\ Typed(B) /\ B \in builder
           /\ B.current_block \in BlockIds(B) /\ Len(B.ssas) \in Nat /\ Len(B.blocks) \in Nat
           /\ B.current_block # NULL
BY CodeTyped, CurrentTyped, Zenon DEF Running, Stacked

LEMMA ReadIdentRuns ==
    ASSUME NEW B, NEW L, NEW T, Running(B, L, T), NEW sym \in Symbols,
           NEW r, r = ReadIdent(machine(B, L, T), sym)
    PROVE  Runs(B, r)
<1> DEFINE m == machine(B, L, T)
           found == Lookup(B, sym, B.current_block)
           value == found.final_values[sym]
           C == PhiOf(B, <<value>>)
<1>1. Code(B) /\ B.current_block \in BlockIds(B) /\ Typed(B) BY RunningTyped
<1>2. m.ir = B /\ m.fault = NoFault BY MachineFields
<1>3. CASE try_get(found, sym)
  <2>1. r = Ir(m, C) BY <1>2, <1>3, Zenon DEF ReadIdent
  <2>2. PICK c \in BlockIds(B) : found = B.blocks[c] BY <1>1, LookupFinds
  <2>3. value \in SsaIds(B)
    <3>1. ValueOf(B, c, B.blocks[c].final_values[sym])
      BY <1>1, <1>3, <2>2, Zenon DEF Code, FinalsLocal
    <3> QED BY <2>2, <3>1 DEF ValueOf
  <2> HIDE DEF found, value
  <2>4. <<value>> \in Seq(Nat) /\ Len(<<value>>) = 1 /\ <<value>>[1] = value
    BY <1>1, <2>3, CodeTyped DEF SsaIds
  <2>5. \A k \in 1..Len(<<value>>) : <<value>>[k] \in SsaIds(B) BY <2>3, <2>4
  <2>6. ASSUME C.fault = NoFault PROVE Running(C, L, T) /\ Follows(B, C)
    <3>1. PICK i : i.flags = {} /\ i.block = B.current_block /\ Emitted(B, i, C)
      BY <1>1, <2>4, <2>5, <2>6, PhiOfPasses, Zenon
    <3>2. ~ has_flag(i, "no_value") BY <3>1 DEF has_flag
    <3> QED BY <3>1, <3>2, EmittedRunning
  <2> QED BY <2>1, <2>6, IrRuns
<1>4. CASE ~ try_get(found, sym)
  <2>1. r = Checked(m, found.predecessors # <<>>, "undeclared?",
                    Checked(m, FALSE, "should have a phi", m))
    BY <1>2, <1>4, Zenon DEF ReadIdent
  <2>2. "undeclared?" # NoFault /\ "should have a phi" # NoFault BY DEF NoFault
  <2>3. /\ [m EXCEPT !.fault = "undeclared?"].fault # NoFault
        /\ [m EXCEPT !.fault = "should have a phi"].fault # NoFault
    BY <2>2, MachineFails, Zenon
  <2> HIDE DEF m, found
  <2>4. r.fault # NoFault BY <1>2, <2>1, <2>3, Zenon DEF Checked, Then
  <2> QED BY <2>4 DEF Runs
<1> QED BY <1>3, <1>4

LEMMA Resolved ==
    ASSUME NEW name, resolve(name) # NOT_RESOLVED
    PROVE  resolve(name) \in Symbols
<1>1. resolve(name) \in {1, 2} BY DEF resolve, NOT_RESOLVED, NULL
<1>2. 1 \in Symbols /\ 2 \in Symbols BY EmitBounds, SymbolBounds
<1> QED BY <1>1, <1>2

\* The open block records a value of its own.
LEMMA FinalRuns ==
    ASSUME NEW B, NEW L, NEW T, Running(B, L, T), NEW sym \in Symbols, NEW value,
           ValueOf(B, B.current_block, value), NEW C, C = add_final_value(B, sym, value),
           C.fault = NoFault
    PROVE  Running(C, L, T) /\ Follows(B, C)
<1>1. Code(B) /\ B.current_block # NULL BY RunningTyped
<1>2. /\ Code(C) /\ Follows(B, C) /\ SameSsas(B, C) /\ SameMode(B, C)
      /\ BlockIds(C) = BlockIds(B) /\ Unstarted(C) = Unstarted(B)
  BY <1>1, add_final_valuePasses
<1>3. Kept(B, C) /\ C.current_block = B.current_block BY <1>2 DEF Kept, SameMode
<1> QED BY <1>2, <1>3, KeptRunning

LEMMA emit_exp_identRuns ==
    ASSUME NEW B, NEW L, NEW T, Running(B, L, T), NEW e, NEW mode, NEW ssa_write,
           mode = "READ" \/ ValueOf(B, B.current_block, ssa_write),
           NEW r, r = emit_exp_ident(machine(B, L, T), e, mode, ssa_write)
    PROVE  Runs(B, r)
<1> DEFINE m == machine(B, L, T)
           sym == resolve(e.name)
           C == add_final_value(B, sym, ssa_write)
<1>1. SUFFICES ASSUME r.fault = NoFault PROVE Runs(B, r) BY DEF Runs
<1>2. m.ir = B /\ m.fault = NoFault BY MachineFields
<1>3. "sym != NOT_RESOLVED" # NoFault /\ "ssa_write != NULL" # NoFault
      /\ "!ssa_write->has_flag(no_value)" # NoFault
  BY DEF NoFault
<1>4. /\ [m EXCEPT !.fault = "sym != NOT_RESOLVED"].fault # NoFault
      /\ [m EXCEPT !.fault = "ssa_write != NULL"].fault # NoFault
      /\ [m EXCEPT !.fault = "!ssa_write->has_flag(no_value)"].fault # NoFault
  BY <1>3, MachineFails, Zenon
<1> HIDE DEF m
<1>5. sym # NOT_RESOLVED /\ r = IF mode = "READ" THEN ReadIdent(m, sym) ELSE Ir(m, C)
  BY <1>1, <1>2, <1>4, Zenon DEF emit_exp_ident, Checked, Then, m
<1>6. sym \in Symbols BY <1>5, Resolved
<1> HIDE DEF sym
<1>7. CASE mode = "READ" BY <1>5, <1>6, <1>7, ReadIdentRuns DEF m
<1>8. CASE mode # "READ"
  <2>1. ValueOf(B, B.current_block, ssa_write) BY <1>8
  <2>2. C.fault = NoFault => Running(C, L, T) /\ Follows(B, C)
    BY <1>6, <2>1, FinalRuns
  <2>3. r = Ir(machine(B, L, T), C) BY <1>5, <1>8 DEF m
  <2> HIDE DEF C
  <2> QED BY <2>2, <2>3, IrRuns
<1> QED BY <1>7, <1>8

\* An instruction that reads no other
LEMMA NoOperands ==
    ASSUME NEW B, NEW i, i.op \notin {"add", "sub", "ret"}
    PROVE  OperandsExist(B, i)
BY DEF OperandsExist, OperandsOf

LEMMA emitRuns ==
    ASSUME NEW B, NEW L, NEW T, Running(B, L, T), NEW o \in opcode, o # "phi",
           NEW flags \in SUBSET ssa_prop, NoneEvaluating(T) \/ "no_value" \notin flags,
           NEW left \in Nat, NEW right \in Nat, OperandsExist(B, instruction(B, o, flags, left, right)),
           NEW C, C = emit(B, o, flags, left, right), C.fault = NoFault
    PROVE  Running(C, L, T) /\ Follows(B, C)
<1> DEFINE i == instruction(B, o, flags, left, right)
<1>1. Code(B) BY RunningTyped
<1>2. i.block = B.current_block /\ i.flags = flags BY DEF instruction
<1> HIDE DEF i
<1>3. i = instruction(B, o, flags, left, right) /\ OperandsExist(B, i) BY DEF i
<1>4. Emitted(B, i, C) BY <1>1, <1>3, emitPasses
<1>5. NoneEvaluating(T) \/ ~ has_flag(i, "no_value") BY <1>2 DEF has_flag
<1> QED BY <1>2, <1>4, <1>5, EmittedRunning

LEMMA emit_exp_literalRuns ==
    ASSUME NEW B, NEW L, NEW T, Running(B, L, T), NEW e, e.val_u64 \in Nat, NEW mode,
           NEW r, r = emit_exp_literal(machine(B, L, T), e, mode)
    PROVE  Runs(B, r)
<1> DEFINE m == machine(B, L, T)
           C == literal(B, e.val_u64)
<1>1. SUFFICES ASSUME r.fault = NoFault PROVE Runs(B, r) BY DEF Runs
<1>2. m.ir = B /\ m.fault = NoFault BY MachineFields
<1>3. "mode == READ" # NoFault BY DEF NoFault
<1>4. [m EXCEPT !.fault = "mode == READ"].fault # NoFault BY <1>3, MachineFails, Zenon
<1> HIDE DEF m
<1>5. r = Ir(m, C)
  <2>1. r = Checked(m, mode = "READ", "mode == READ", Ir(m, C))
    BY <1>2, Zenon DEF emit_exp_literal, m
  <2> QED BY <1>1, <1>2, <1>4, <2>1, Zenon DEF Checked, Then
<1>6. ASSUME C.fault = NoFault PROVE Running(C, L, T) /\ Follows(B, C)
  <2>1. "i" \in opcode /\ "i" # "phi" /\ {"const_val"} \in SUBSET ssa_prop
        /\ "no_value" \notin {"const_val"} /\ 0 \in Nat
    BY DEF opcode, ssa_prop
  <2> DEFINE i == instruction(B, "i", {"const_val"}, e.val_u64, 0)
  <2>2. i.op \notin {"add", "sub", "ret"} BY DEF instruction
  <2>3. OperandsExist(B, i) BY <2>2, NoOperands
  <2>4. C = emit(B, "i", {"const_val"}, e.val_u64, 0) BY DEF literal
  <2> HIDE DEF C
  <2> QED BY <1>6, <2>1, <2>3, <2>4, emitRuns, Zenon
<1> HIDE DEF C
<1> QED BY <1>5, <1>6, IrRuns DEF m

\* A task that remembers the newest instruction has seen no value since.
LEMMA NoneSince ==
    ASSUME NEW B, Len(B.ssas) \in Nat, NEW t, t.arg1 = last_ssa(B), t.step # 2
    PROVE  ValuesSince(B, t)
<1>1. \A s \in SsaIds(B) : ~ (t.arg1 < s) BY DEF SsaIds, last_ssa
<1> QED BY <1>1 DEF ValuesSince, last_ssa

LEMMA BinaryTasks ==
    ASSUME NEW B, NEW L, NEW T, Running(B, L, T), NEW spine \in Seq(AnyExp), Len(spine) \in Nat \ {0},
           \A d \in 1..Len(spine) - 1 : spine[d] \in AnyExp /\ spine[d].kind = "exp_binary"
    PROVE  Running(B, L, T \o [d \in 1..Len(spine) - 1 |->
                                  task("emit_exp_binary", 1, spine[d], last_ssa(B), NULL)])
<1> DEFINE n == Len(spine) - 1
           ts == [d \in 1..n |-> task("emit_exp_binary", 1, spine[d], last_ssa(B), NULL)]
           P == {U \in Seq(Task) : Running(B, L, U)}
           Q == {t \in Task : /\ Shaped(B, t) /\ t.func = "emit_exp_binary" /\ t.step = 1
                              /\ t.arg1 = last_ssa(B)}
<1>1. Len(B.ssas) \in Nat /\ T \in Seq(Task) /\ n \in Nat BY RunningTyped
<1>2. T \in P BY <1>1
<1>3. ASSUME NEW e \in AnyExp, e.kind = "exp_binary"
      PROVE  task("emit_exp_binary", 1, e, last_ssa(B), NULL) \in Q
  <2> DEFINE t == task("emit_exp_binary", 1, e, last_ssa(B), NULL)
  <2>1. /\ t \in Task /\ t.func = "emit_exp_binary" /\ t.step = 1 /\ t.arg1 = last_ssa(B)
        /\ t.node = e
    <3>1. e \in Stmts \cup AnyExp OBVIOUS
    <3>2. last_ssa(B) \in Nat BY <1>1 DEF last_ssa
    <3>3. NULL \in Nat BY DEF NULL
    <3>4. t = task("emit_exp_binary", 1, e, last_ssa(B), NULL) OBVIOUS
    <3> HIDE DEF t
    <3>5. "emit_exp_binary" \in Handlers BY DEF Handlers
    <3> QED BY <3>1, <3>2, <3>3, <3>4, <3>5 DEF Task, task
  <2> HIDE DEF t
  <2>2. Shaped(B, t) BY <1>3, <2>1 DEF Shaped
  <2>3. t \in Q BY <2>1, <2>2
  <2> QED BY <2>3 DEF t
<1>4. ts \in Seq(Q)
  <2>1. \A d \in 1..n : ts[d] \in Q BY <1>3
  <2> HIDE DEF Q
  <2> QED BY <1>1, <2>1
<1>5. ASSUME NEW U \in P, NEW t \in Q PROVE Append(U, t) \in P
  <2>1. t \in Task /\ Shaped(B, t) /\ Simple(t) /\ t.func = "emit_exp_binary" BY DEF Simple
  <2>2. ValuesSince(B, t)
    <3>1. t.step # 2 BY DEF Q
    <3> QED BY <1>1, <3>1, NoneSince
  <2>3. Running(B, L, U) /\ U \in Seq(Task) BY DEF P
  <2>4. Running(B, L, Append(U, t)) BY <2>1, <2>2, <2>3, SimplePushed, Zenon
  <2> QED BY <2>1, <2>3, <2>4
<1>6. P \in SUBSET Seq(Task) /\ Q \subseteq Task OBVIOUS
<1> HIDE DEF P, Q, ts
<1>7. T \o ts \in P BY <1>2, <1>4, <1>5, <1>6, AppendAll, Zenon
<1> QED BY <1>7 DEF P, ts

LEMMA emit_expRuns ==
    ASSUME NEW B, NEW L, NEW T, Running(B, L, T), NEW e \in AnyExp, NEW mode, NEW ssa_write,
           mode = "READ" \/ ValueOf(B, B.current_block, ssa_write),
           NEW r, r = emit_exp(machine(B, L, T), e, mode, ssa_write)
    PROVE  Runs(B, r)
<1> DEFINE m == machine(B, L, T)
           spine == LeftSpine(e)
           binary == [d \in 1..Len(spine) - 1 |->
                         task("emit_exp_binary", 1, spine[d], last_ssa(m.ir), NULL)]
           leaf == spine[Len(spine)]
           m1 == IF binary = <<>> THEN m
                 ELSE Checked(m, mode = "READ", "mode == READ", push_tasks(m, binary))
           mode1 == IF binary = <<>> THEN mode ELSE "READ"
<1>1. m.ir = B /\ m.fault = NoFault BY MachineFields
<1>2. /\ spine \in Seq(AnyExp) /\ Len(spine) \in Nat \ {0} /\ leaf \in AnyExp
      /\ \A d \in 1..Len(spine) - 1 : spine[d] \in AnyExp /\ spine[d].kind = "exp_binary"
  BY LeftSpineDescends
<1>3. r = CASE leaf.kind = "exp_ident"   -> Then(m1, emit_exp_ident(m1, leaf, mode1, ssa_write))
            [] leaf.kind = "exp_literal" -> Then(m1, emit_exp_literal(m1, leaf, mode1))
            [] OTHER                     -> m1
  BY Zenon DEF emit_exp
<1> HIDE DEF spine, leaf
<1>4. ASSUME m1.fault = NoFault
      PROVE  \E U : /\ m1 = machine(B, L, U) /\ Running(B, L, U)
                    /\ mode1 = "READ" \/ ValueOf(B, B.current_block, ssa_write)
  <2>1. CASE binary = <<>>
    <3>1. m1 = machine(B, L, T) /\ mode1 = mode BY <2>1, Zenon
    <3> QED BY <3>1, Zenon
  <2>2. CASE binary # <<>>
    <3>1. "mode == READ" # NoFault BY DEF NoFault
    <3>2. [m EXCEPT !.fault = "mode == READ"].fault # NoFault BY <3>1, MachineFails, Zenon
    <3>3. mode1 = "READ" /\ m1 = Checked(m, mode = "READ", "mode == READ", push_tasks(m, binary))
      BY <2>2, Zenon
    <3>4. binary = [d \in 1..Len(spine) - 1 |->
                       task("emit_exp_binary", 1, spine[d], last_ssa(B), NULL)]
      BY <1>1, Zenon
    <3>5. Running(B, L, T \o binary) BY <1>2, <3>4, BinaryTasks, Zenon
    <3> HIDE DEF m1, binary, mode1
    <3>6. m1 = push_tasks(machine(B, L, T), binary)
      <4> HIDE DEF m
      <4>1. m1 = push_tasks(m, binary) BY <1>1, <1>4, <3>2, <3>3, Zenon DEF Checked, Then
      <4> QED BY <4>1 DEF m
    <3>7. m1 = machine(B, L, T \o binary) BY <1>4, <3>6, PushCall
    <3> QED BY <3>3, <3>5, <3>7, Zenon
  <2> QED BY <2>1, <2>2, Zenon
<1> HIDE DEF m1, mode1, binary, m
<1>5. SUFFICES ASSUME m1.fault = NoFault PROVE Runs(B, r)
  <2>1. CASE m1.fault = NoFault BY <1>5, <2>1
  <2>2. CASE m1.fault # NoFault
    <3>1. r = m1 BY <1>3, <2>2, Zenon DEF Then
    <3> QED BY <2>2, <3>1 DEF Runs
  <2> QED BY <2>1, <2>2
<1>6. PICK U : /\ m1 = machine(B, L, U) /\ Running(B, L, U)
               /\ mode1 = "READ" \/ ValueOf(B, B.current_block, ssa_write)
  BY <1>4, <1>5
<1>7. CASE leaf.kind = "exp_ident"
  <2>1. r = emit_exp_ident(machine(B, L, U), leaf, mode1, ssa_write)
    BY <1>3, <1>5, <1>6, <1>7, Zenon DEF Then
  <2> QED BY <1>6, <2>1, emit_exp_identRuns
<1>8. CASE leaf.kind = "exp_literal"
  <2>0. leaf.kind # "exp_ident" BY <1>8
  <2>1. r = emit_exp_literal(machine(B, L, U), leaf, mode1)
    BY <1>3, <1>5, <1>6, <1>8, <2>0 DEF Then
  <2>2. leaf.val_u64 \in Nat BY <1>2, <1>8, AnyExpression
  <2> QED BY <1>6, <2>1, <2>2, emit_exp_literalRuns
<1>9. CASE leaf.kind \notin {"exp_ident", "exp_literal"}
  <2>1. r = machine(B, L, U) BY <1>3, <1>6, <1>9
  <2> QED BY <1>6, <2>1, SameRuns
<1> QED BY <1>7, <1>8, <1>9

-----------------------------------------------------------------------------
(***************************************************************************)
(* The machine between two tasks, and what popping a simple one leaves.    *)
(***************************************************************************)
\* A block is open, and nothing is in it yet if an arm ends below; the merge
\* after an else finds none open.
Ready(B, T) ==
    /\ B.current_block = NULL => T # <<>> /\ Merging(T[Len(T)])
    /\ B.current_block # NULL /\ T # <<>> /\ UnderArm(T[Len(T)]) => ~ is_not_empty(B)

Good(B, L, T) ==
    /\ Code(B) /\ Scoped(L) /\ Stacked(B, T, {}) /\ Balanced(L, T) /\ Values(B, T)
    /\ Ready(B, T)

LEMMA RunningGood ==
    ASSUME NEW B, NEW L, NEW T, Running(B, L, T)
    PROVE  Good(B, L, T)
BY DEF Running, Good, Ready, Plain

LEMMA SimplePopped ==
    ASSUME NEW B, NEW L, NEW T \in Seq(Task), NEW t \in Task, Simple(t), NEW U, U = Append(T, t),
           Good(B, L, U)
    PROVE  /\ Running(B, L, T) /\ Shaped(B, t)
           /\ t.func # "emit_exp_binary" => NoneEvaluating(T)
           /\ Evaluating(t) => ValuesSince(B, t)
<1>1. /\ ~ IsArm(t) /\ ~ ClosesArm(t) /\ ~ Merging(t) /\ ~ UnderArm(t)
      /\ ~ ClosesScope(t) /\ Opens(t) = NULL
  BY SimpleTask
<1>2. U[Len(U)] = t BY Appended
<1>3. /\ Stacked(B, T, {Opens(t)}) /\ Shaped(B, t) /\ Above(T, t)
  <2>1. {Opens(t)} = {} \cup {Opens(t)} OBVIOUS
  <2> QED BY <2>1, PoppedStack, Zenon DEF Good
<1>4. Stacked(B, T, {})
  <2>1. NULL \notin Unstarted(B) BY DEF Unstarted, BlockIds, NULL
  <2>2. Unstarted(B) \ {} = Unstarted(B) \ {Opens(t)} BY <1>1, <2>1
  <2> QED BY <1>3, <2>2, KeptStack
<1>5. Values(B, T) /\ (Evaluating(t) => ValuesSince(B, t)) BY ValuesPopped, Zenon DEF Good
<1>6. Balanced(L, T) BY <1>1, CountClosers, Zenon DEF Good, Balanced
<1>7. B.current_block # NULL BY <1>1, <1>2 DEF Good, Ready
<1>8. Plain(T) BY <1>1, <1>3 DEF Above, Plain
<1>9. t.func # "emit_exp_binary" => NoneEvaluating(T) BY <1>3, NoneBelow
<1> QED BY <1>3, <1>4, <1>5, <1>6, <1>7, <1>8, <1>9 DEF Good, Running

\* A task is pushed, then the handler goes on.
LEMMA PushRuns ==
    ASSUME NEW B, NEW L, NEW T, NEW t, Running(B, L, Append(T, t)), T \in Seq(Task), t \in Task,
           NEW m1, m1 = push_task(machine(B, L, T), t), NEW next,
           m1 = machine(B, L, Append(T, t)) => Runs(B, next),
           NEW r, r = Then(m1, next)
    PROVE  Runs(B, r)
<1>1. m1.fault = NoFault => m1 = machine(B, L, Append(T, t))
  <2>1. m1 = push_tasks(machine(B, L, T), <<t>>) BY DEF push_task
  <2>2. T \o <<t>> = Append(T, t) OBVIOUS
  <2> QED BY <2>1, <2>2, PushCall, Zenon
<1> QED BY <1>1, RunsThen

\* The value an expression has left behind
LEMMA NewValue ==
    ASSUME NEW B, NEW L, NEW T, Running(B, L, T), NEW t \in Task, ValuesSince(B, t),
           t.arg1 # last_ssa(B)
    PROVE  ValueOf(B, B.current_block, last_ssa(B)) /\ last_ssa(B) # NULL /\ last_ssa(B) \in Nat
<1>1. Len(B.ssas) \in Nat BY RunningTyped
<1>2. t.arg1 \in Nat BY DEF Task
<1>3. t.arg1 < Len(B.ssas) BY <1>1, <1>2 DEF ValuesSince, last_ssa
<1>4. Len(B.ssas) \in SsaIds(B) /\ Len(B.ssas) # NULL BY <1>1, <1>2, <1>3 DEF SsaIds, NULL
<1>5. ValueOf(B, B.current_block, Len(B.ssas)) BY <1>3, <1>4 DEF ValuesSince
<1> QED BY <1>1, <1>4, <1>5 DEF last_ssa

LEMMA emit_exp_binary_1Runs ==
    ASSUME NEW B, NEW L, NEW T, Running(B, L, T), NEW t \in Task, ValuesSince(B, t),
           t.node \in AnyExp, t.node.kind = "exp_binary",
           NEW r, r = emit_exp_binary_1(machine(B, L, T), t)
    PROVE  Runs(B, r)
<1> DEFINE m == machine(B, L, T)
           t2 == task("emit_exp_binary", 2, t.node, last_ssa(m.ir), NULL)
           m1 == push_task(m, t2)
           next == emit_exp(m1, t.node.right, "READ", NULL)
<1>1. SUFFICES ASSUME r.fault = NoFault PROVE Runs(B, r) BY DEF Runs
<1>2. m.ir = B /\ m.fault = NoFault BY MachineFields
<1>3. "arena not empty" # NoFault /\ "ssa_before != ssa_left" # NoFault BY DEF NoFault
<1>4. /\ [m EXCEPT !.fault = "arena not empty"].fault # NoFault
      /\ [m EXCEPT !.fault = "ssa_before != ssa_left"].fault # NoFault
  BY <1>3, MachineFails, Zenon
<1> HIDE DEF m
<1>5. t.arg1 # last_ssa(B) /\ r = Then(m1, next)
  <2> DEFINE on == Then(m1, next)
  <2>1. r = Checked(m, last_ssa(m.ir) # NULL, "arena not empty",
                    Checked(m, t.arg1 # last_ssa(m.ir), "ssa_before != ssa_left", on))
    BY Zenon DEF emit_exp_binary_1, m
  <2> HIDE DEF on
  <2>2. t.arg1 # last_ssa(m.ir) /\ r = on BY <1>1, <1>2, <1>4, <2>1, Zenon DEF Checked, Then
  <2> QED BY <1>2, <2>2 DEF on
<1>6. ValueOf(B, B.current_block, last_ssa(B)) /\ last_ssa(B) # NULL /\ last_ssa(B) \in Nat
  BY <1>5, NewValue
<1>7. /\ t2 \in Task /\ t2.func = "emit_exp_binary" /\ t2.step = 2 /\ t2.node = t.node
      /\ t2.arg1 = last_ssa(B)
  <2>1. t.node \in Stmts \cup AnyExp OBVIOUS
  <2>2. NULL \in Nat /\ "emit_exp_binary" \in Handlers BY DEF NULL, Handlers
  <2>3. t2 = task("emit_exp_binary", 2, t.node, last_ssa(B), NULL) BY <1>2
  <2> HIDE DEF t2
  <2> QED BY <1>6, <2>1, <2>2, <2>3 DEF Task, task
<1> HIDE DEF t2
<1>8. ValuesSince(B, t2)
  <2>1. Len(B.ssas) \in Nat BY RunningTyped
  <2>2. \A s \in SsaIds(B) : last_ssa(B) < s \/ last_ssa(B) = s => s = last_ssa(B)
    BY <2>1 DEF SsaIds, last_ssa
  <2>3. t2.arg1 <= Len(B.ssas) BY <1>7, <2>1 DEF last_ssa
  <2> QED BY <1>6, <1>7, <2>2, <2>3 DEF ValuesSince
<1>9. Running(B, L, Append(T, t2)) /\ T \in Seq(Task)
  <2>1. Shaped(B, t2) /\ Simple(t2) BY <1>7 DEF Shaped, Simple
  <2>2. T \in Seq(Task) BY RunningTyped
  <2> QED BY <1>7, <1>8, <2>1, <2>2, SimplePushed, Zenon
<1>10. m1 = machine(B, L, Append(T, t2)) => Runs(B, next)
  <2>1. t.node.right \in AnyExp BY AnyExpression
  <2> HIDE DEF m1
  <2> QED BY <1>9, <2>1, emit_expRuns
<1>11. m1 = push_task(machine(B, L, T), t2) BY DEF m
<1> HIDE DEF m1, next
<1> QED BY <1>5, <1>7, <1>9, <1>10, <1>11, PushRuns

LEMMA emit_exp_binary_2Runs ==
    ASSUME NEW B, NEW L, NEW T, Running(B, L, T), NEW t \in Task, ValuesSince(B, t), t.step = 2,
           NEW r, r = emit_exp_binary_2(machine(B, L, T), t)
    PROVE  Runs(B, r)
<1> DEFINE m == machine(B, L, T)
           right == last_ssa(B)
<1>1. SUFFICES ASSUME r.fault = NoFault PROVE Runs(B, r) BY DEF Runs
<1>2. m.ir = B /\ m.fault = NoFault BY MachineFields
<1>3. "ssa_before != ssa_right" # NoFault BY DEF NoFault
<1>4. [m EXCEPT !.fault = "ssa_before != ssa_right"].fault # NoFault BY <1>3, MachineFails, Zenon
<1> HIDE DEF m
<1>5. /\ t.arg1 # right
      /\ r = CASE t.node.op = "add"    -> Ir(m, add(B, t.arg1, right))
               [] t.node.op = "equals" -> Ir(m, sub(B, t.arg1, right))
               [] OTHER                -> m
  <2> DEFINE on == CASE t.node.op = "add"    -> Ir(m, add(m.ir, t.arg1, last_ssa(m.ir)))
                     [] t.node.op = "equals" -> Ir(m, sub(m.ir, t.arg1, last_ssa(m.ir)))
                     [] OTHER                -> m
  <2>1. r = Checked(m, t.arg1 # last_ssa(m.ir), "ssa_before != ssa_right", on)
    BY Zenon DEF emit_exp_binary_2, m
  <2> HIDE DEF on
  <2>2. t.arg1 # last_ssa(m.ir) /\ r = on BY <1>1, <1>2, <1>4, <2>1, Zenon DEF Checked, Then
  <2> QED BY <1>2, <2>2 DEF on
<1>6. ValueOf(B, B.current_block, right) /\ right \in Nat BY <1>5, NewValue
<1>7. ValueOf(B, B.current_block, t.arg1) /\ t.arg1 \in Nat
  <2>1. t.arg1 \in Nat BY DEF Task
  <2>2. Len(B.ssas) \in Nat BY RunningTyped
  <2>3. t.arg1 \in SsaIds(B) BY <2>1, <2>2 DEF ValuesSince, SsaIds, NULL
  <2> QED BY <2>1, <2>3 DEF ValuesSince
<1> HIDE DEF right
<1>8. ASSUME NEW o \in {"add", "sub"}, NEW C, C = emit(B, o, {}, t.arg1, right), C.fault = NoFault
      PROVE  Running(C, L, T) /\ Follows(B, C)
  <2>1. o \in opcode /\ o # "phi" /\ {} \in SUBSET ssa_prop /\ "no_value" \notin {}
    BY DEF opcode
  <2> DEFINE i == instruction(B, o, {}, t.arg1, right)
  <2>2. i.op = o /\ i.block = B.current_block /\ i.left = t.arg1 /\ i.right = right
    BY DEF instruction
  <2> HIDE DEF i
  <2>3. OperandsExist(B, i) BY <1>6, <1>7, <2>2 DEF OperandsExist, OperandsOf
  <2> QED BY <1>6, <1>7, <1>8, <2>1, <2>3, emitRuns, Zenon DEF i
<1>9. CASE t.node.op = "add"
  <2>1. r = Ir(machine(B, L, T), add(B, t.arg1, right)) BY <1>5, <1>9, Zenon DEF m
  <2>2. add(B, t.arg1, right).fault = NoFault =>
            /\ Running(add(B, t.arg1, right), L, T) /\ Follows(B, add(B, t.arg1, right))
    BY <1>8 DEF add
  <2> QED BY <2>1, <2>2, IrRuns
<1>10. CASE t.node.op = "equals"
  <2>0. t.node.op # "add" BY <1>10
  <2>1. r = Ir(machine(B, L, T), sub(B, t.arg1, right)) BY <1>5, <1>10, <2>0 DEF m
  <2>2. sub(B, t.arg1, right).fault = NoFault =>
            /\ Running(sub(B, t.arg1, right), L, T) /\ Follows(B, sub(B, t.arg1, right))
    BY <1>8 DEF sub
  <2> QED BY <2>1, <2>2, IrRuns
<1>11. CASE t.node.op \notin {"add", "equals"}
  <2>1. r = machine(B, L, T) BY <1>5, <1>11 DEF m
  <2> QED BY <2>1, SameRuns
<1> QED BY <1>9, <1>10, <1>11

-----------------------------------------------------------------------------
(***************************************************************************)
(* Statements that evaluate an expression.                                 *)
(***************************************************************************)
LEMMA EvaluateThenRuns ==
    ASSUME NEW B, NEW L, NEW T, Running(B, L, T), NoneEvaluating(T), NEW s \in Stmts, NEW func,
           \/ func = "emit_stmt_assign" /\ s.kind = "stmt_assign"
           \/ func \in {"emit_stmt_local_decl", "emit_stmt_return"},
           NEW e \in AnyExp, NEW r, r = EvaluateThen(machine(B, L, T), func, s, e)
    PROVE  Runs(B, r)
<1> DEFINE m == machine(B, L, T)
           t == task(func, 1, s, last_ssa(m.ir), NULL)
           m1 == push_task(m, t)
           next == emit_exp(m1, e, "READ", NULL)
<1>1. m.ir = B BY MachineFields
<1>2. r = Then(m1, next) BY Zenon DEF EvaluateThen
<1>3. Len(B.ssas) \in Nat /\ T \in Seq(Task) BY RunningTyped
<1>4. /\ t \in Task /\ t.func = func /\ t.step = 1 /\ t.node = s /\ t.arg1 = last_ssa(B)
  <2>1. s \in Stmts \cup AnyExp /\ last_ssa(B) \in Nat /\ NULL \in Nat BY <1>3 DEF last_ssa, NULL
  <2>2. func \in Handlers BY DEF Handlers
  <2>3. t = task(func, 1, s, last_ssa(B), NULL) BY <1>1
  <2> HIDE DEF t
  <2> QED BY <2>1, <2>2, <2>3 DEF Task, task
<1>5. m1 = push_task(machine(B, L, T), t) OBVIOUS
<1> HIDE DEF m, t
<1>6. Running(B, L, Append(T, t))
  <2>1. Shaped(B, t) BY <1>4 DEF Shaped, Is
  <2>2. Simple(t) BY <1>4 DEF Simple
  <2>3. ValuesSince(B, t) BY <1>3, <1>4, NoneSince
  <2> QED BY <1>4, <2>1, <2>2, <2>3, SimplePushed, Zenon
<1> HIDE DEF m1
<1>7. m1 = machine(B, L, Append(T, t)) => Runs(B, next) BY <1>6, emit_expRuns
<1> HIDE DEF next
<1> QED BY <1>2, <1>3, <1>4, <1>5, <1>6, <1>7, PushRuns

LEMMA WithValuePasses ==
    ASSUME NEW B, NEW L, NEW T, NEW before, NEW next,
           NEW r, r = WithValue(machine(B, L, T), before, next), r.fault = NoFault
    PROVE  last_ssa(B) # before /\ r = next
<1> DEFINE m == machine(B, L, T)
<1>1. m.ir = B /\ m.fault = NoFault BY MachineFields
<1>2. "arena not empty" # NoFault /\ "val != ssa_before" # NoFault
      /\ "!val->has_flag(no_value)" # NoFault
  BY DEF NoFault
<1>3. /\ [m EXCEPT !.fault = "arena not empty"].fault # NoFault
      /\ [m EXCEPT !.fault = "val != ssa_before"].fault # NoFault
      /\ [m EXCEPT !.fault = "!val->has_flag(no_value)"].fault # NoFault
  BY <1>2, MachineFails, Zenon
<1> HIDE DEF m
<1>4. r = Checked(m, last_ssa(m.ir) # NULL, "arena not empty",
          Checked(m, last_ssa(m.ir) # before, "val != ssa_before",
          Checked(m, ~ has_flag(m.ir.ssas[last_ssa(m.ir)], "no_value"),
                  "!val->has_flag(no_value)", next)))
  BY Zenon DEF WithValue, m
<1>5. last_ssa(m.ir) # before /\ r = next BY <1>1, <1>3, <1>4, Zenon DEF Checked, Then
<1> QED BY <1>1, <1>5

LEMMA emit_stmt_assign_1Runs ==
    ASSUME NEW B, NEW L, NEW T, Running(B, L, T), NEW t \in Task, ValuesSince(B, t),
           t.node \in Stmts, t.node.kind = "stmt_assign",
           NEW r, r = emit_stmt_assign_1(machine(B, L, T), t)
    PROVE  Runs(B, r)
<1> DEFINE m == machine(B, L, T)
           next == emit_exp(m, t.node.left, "WRITE", last_ssa(m.ir))
<1>1. SUFFICES ASSUME r.fault = NoFault PROVE Runs(B, r) BY DEF Runs
<1>2. m.ir = B BY MachineFields
<1>3. r = WithValue(m, t.arg1, next) BY Zenon DEF emit_stmt_assign_1
<1>4. last_ssa(B) # t.arg1 /\ r = next
  <2> HIDE DEF next
  <2> QED BY <1>1, <1>3, WithValuePasses
<1>5. ValueOf(B, B.current_block, last_ssa(B)) BY <1>4, NewValue
<1>6. t.node.left \in AnyExp BY Statements DEF WellFormed
<1>7. r = emit_exp(machine(B, L, T), t.node.left, "WRITE", last_ssa(B)) BY <1>2, <1>4
<1> QED BY <1>5, <1>6, <1>7, emit_expRuns

LEMMA emit_stmt_local_decl_1Runs ==
    ASSUME NEW B, NEW L, NEW T, Running(B, L, T), NEW t \in Task, ValuesSince(B, t),
           NEW r, r = emit_stmt_local_decl_1(machine(B, L, T), t)
    PROVE  Runs(B, r)
<1> DEFINE m == machine(B, L, T)
           sym == resolve(t.node.name)
           call == Ir(m, add_final_value(m.ir, sym, last_ssa(m.ir)))
           next == Checked(m, sym # NOT_RESOLVED, "sym != NOT_RESOLVED", call)
<1>1. SUFFICES ASSUME r.fault = NoFault PROVE Runs(B, r) BY DEF Runs
<1>2. m.ir = B /\ m.fault = NoFault BY MachineFields
<1>3. r = WithValue(m, t.arg1, next) BY Zenon DEF emit_stmt_local_decl_1
<1>4. last_ssa(B) # t.arg1 /\ r = next
  <2> HIDE DEF next
  <2> QED BY <1>1, <1>3, WithValuePasses
<1>5. ValueOf(B, B.current_block, last_ssa(B)) BY <1>4, NewValue, Zenon
<1>6. [m EXCEPT !.fault = "sym != NOT_RESOLVED"].fault # NoFault
  <2>1. "sym != NOT_RESOLVED" # NoFault BY DEF NoFault
  <2> QED BY <2>1, MachineFails, Zenon
<1>7. sym # NOT_RESOLVED /\ r = call
  <2> HIDE DEF m, call
  <2> QED BY <1>1, <1>2, <1>4, <1>6, Zenon DEF Checked, Then
<1>8. sym \in Symbols BY <1>7, Resolved
<1> HIDE DEF sym
<1> DEFINE C == add_final_value(B, sym, last_ssa(B))
<1>9. C.fault = NoFault => Running(C, L, T) /\ Follows(B, C) BY <1>5, <1>8, FinalRuns
<1>10. r = Ir(machine(B, L, T), C) BY <1>2, <1>7
<1> HIDE DEF C
<1> QED BY <1>9, <1>10, IrRuns

LEMMA retRuns ==
    ASSUME NEW B, NEW L, NEW T, Running(B, L, T), NoneEvaluating(T), NEW val \in Nat,
           val # NULL => ValueOf(B, B.current_block, val),
           NEW C, C = ret(B, val), C.fault = NoFault
    PROVE  Running(C, L, T) /\ Follows(B, C)
<1> DEFINE i == instruction(B, "ret", {"no_value"}, val, NULL)
<1>1. Code(B) BY RunningTyped
<1>2. i.block = B.current_block BY DEF instruction
<1>3. Emitted(B, i, C) BY <1>1, retPasses
<1> HIDE DEF i
<1> QED BY <1>2, <1>3, EmittedRunning

LEMMA emit_stmt_return_1Runs ==
    ASSUME NEW B, NEW L, NEW T, Running(B, L, T), NoneEvaluating(T), NEW t \in Task,
           ValuesSince(B, t), NEW r, r = emit_stmt_return_1(machine(B, L, T), t)
    PROVE  Runs(B, r)
<1> DEFINE m == machine(B, L, T)
           next == Ir(m, ret(m.ir, last_ssa(m.ir)))
           C == ret(B, last_ssa(B))
<1>1. SUFFICES ASSUME r.fault = NoFault PROVE Runs(B, r) BY DEF Runs
<1>2. m.ir = B BY MachineFields
<1>3. r = WithValue(m, t.arg1, next) BY Zenon DEF emit_stmt_return_1
<1>4. last_ssa(B) # t.arg1 /\ r = next
  <2> HIDE DEF next
  <2> QED BY <1>1, <1>3, WithValuePasses
<1>5. ValueOf(B, B.current_block, last_ssa(B)) /\ last_ssa(B) \in Nat BY <1>4, NewValue
<1>6. r = Ir(machine(B, L, T), C) BY <1>2, <1>4
<1>7. C.fault = NoFault => Running(C, L, T) /\ Follows(B, C) BY <1>5, retRuns
<1> HIDE DEF C
<1> QED BY <1>6, <1>7, IrRuns

LEMMA emit_stmt_return_0Runs ==
    ASSUME NEW B, NEW L, NEW T, Running(B, L, T), NoneEvaluating(T), NEW s \in Stmts,
           s.kind = "stmt_return", NEW r, r = emit_stmt_return_0(machine(B, L, T), s)
    PROVE  Runs(B, r)
<1>1. machine(B, L, T).ir = B BY MachineFields
<1>2. CASE s.maybe_expression = NoExp
  <2> DEFINE C == ret(B, NULL)
  <2>1. r = Ir(machine(B, L, T), C) BY <1>1, <1>2 DEF emit_stmt_return_0
  <2>2. NULL \in Nat BY DEF NULL
  <2>3. C.fault = NoFault => Running(C, L, T) /\ Follows(B, C) BY <2>2, retRuns
  <2> HIDE DEF C
  <2> QED BY <2>1, <2>3, IrRuns
<1>3. CASE s.maybe_expression # NoExp
  <2>1. r = EvaluateThen(machine(B, L, T), "emit_stmt_return", s, s.maybe_expression)
    BY <1>3, Zenon DEF emit_stmt_return_0
  <2>2. s.maybe_expression \in AnyExp BY <1>3, Statements DEF WellFormed
  <2> QED BY <2>1, <2>2, EvaluateThenRuns
<1> QED BY <1>2, <1>3

\* Another symbol table of the same depth
LEMMA LocalRuns ==
    ASSUME NEW B, NEW L, NEW T, Running(B, L, T), NEW M, Scoped(M), Depth(M) = Depth(L)
    PROVE  Running(B, M, T)
BY DEF Running, Balanced

LEMMA emit_stmt_local_decl_0Runs ==
    ASSUME NEW B, NEW L, NEW T, Running(B, L, T), NoneEvaluating(T), NEW s \in Stmts,
           s.kind = "stmt_local_decl", NEW r, r = emit_stmt_local_decl_0(machine(B, L, T), s)
    PROVE  Runs(B, r)
<1> DEFINE m == machine(B, L, T)
           M == new_symbol(L)
           m1 == Local(m, new_symbol(m.locals))
           next == EvaluateThen(m1, "emit_stmt_local_decl", s, s.maybe_expression)
<1>1. m.locals = L BY MachineFields
<1>2. r = IF s.maybe_expression = NoExp THEN m1 ELSE Then(m1, next)
  BY Zenon DEF emit_stmt_local_decl_0
<1>3. m1 = Local(machine(B, L, T), M) BY <1>1
<1> HIDE DEF m, m1, M
<1>4. ASSUME m1.fault = NoFault PROVE m1 = machine(B, M, T) /\ Running(B, M, T)
  <2>1. M.fault = NoFault /\ m1 = machine(B, M, T) BY <1>3, <1>4, LocalCall
  <2>2. Scoped(L) BY RunningTyped
  <2>3. Scoped(M) /\ Depth(M) = Depth(L) BY <2>1, <2>2, new_symbolPasses DEF M
  <2> QED BY <2>1, <2>3, LocalRuns
<1>5. CASE s.maybe_expression = NoExp
  <2>1. r = m1 BY <1>2, <1>5
  <2>2. m1.fault = NoFault => Runs(B, r) BY <1>4, <2>1, SameRuns
  <2> QED BY <2>1, <2>2 DEF Runs
<1>6. CASE s.maybe_expression # NoExp
  <2>1. r = Then(m1, next) BY <1>2, <1>6
  <2>2. s.maybe_expression \in AnyExp BY <1>6, Statements DEF WellFormed
  <2>3. m1.fault = NoFault => Runs(B, next) BY <1>4, <2>2, EvaluateThenRuns
  <2> HIDE DEF next
  <2> QED BY <2>1, <2>3, RunsThen
<1> QED BY <1>5, <1>6

-----------------------------------------------------------------------------
(***************************************************************************)
(* Nested blocks.                                                          *)
(***************************************************************************)
\* A machine or builder that has failed stays failed.
LEMMA StillFailed ==
    /\ \A m, C : Ir(m, C).fault = NoFault => m.fault = NoFault
    /\ \A m, M : Local(m, M).fault = NoFault => m.fault = NoFault
    /\ \A m, ts : push_tasks(m, ts).fault = NoFault => m.fault = NoFault
    /\ \A B : end_block(B).fault = NoFault => B.fault = NoFault
BY Zenon DEF Ir, Local, push_tasks, end_block, InBlock, Checked, Then

\* The open block is ended after the calls that made J, and the scope changes.
LEMMA ClosePasses ==
    ASSUME NEW B, NEW L, NEW T, NEW J, J.fault = NoFault => Code(J) /\ Follows(B, J), NEW M,
           NEW r, r = Local(Ir(machine(B, L, T), end_block(J)), M), r.fault = NoFault
    PROVE  \E C : /\ r = machine(C, M, T) /\ Code(C) /\ Follows(B, C)
                  /\ BlockIds(C) = BlockIds(J) /\ Unstarted(C) = Unstarted(J)
                  /\ C.current_block = NULL /\ J.fault = NoFault /\ M.fault = NoFault
<1> DEFINE C == end_block(J)
           m1 == Ir(machine(B, L, T), C)
<1>1. m1.fault = NoFault
  <2>1. r = Local(m1, M) OBVIOUS
  <2> HIDE DEF m1
  <2> QED BY <2>1, StillFailed, Zenon
<1>2. C.fault = NoFault /\ m1 = machine(C, L, T)
  <2> HIDE DEF C
  <2>1. m1 = Ir(machine(B, L, T), C) OBVIOUS
  <2> HIDE DEF m1
  <2> QED BY <1>1, <2>1, IrCall
<1>3. J.fault = NoFault BY <1>2, StillFailed, Zenon
<1>4. Kept(J, C) /\ C.current_block = NULL BY <1>2, <1>3, end_blockPasses
<1> HIDE DEF C
<1>5. M.fault = NoFault /\ r = machine(C, M, T)
  <2>1. r = Local(machine(C, L, T), M) BY <1>2 DEF C
  <2> HIDE DEF m1
  <2> QED BY <2>1, LocalCall
<1>6. Follows(B, C) BY <1>3, <1>4, FollowsTransitive DEF Kept
<1> QED BY <1>3, <1>4, <1>5, <1>6 DEF Kept

\* C is J with its block ended and the target opened.
Opened(B, J, target, C) ==
    /\ Code(C) /\ Follows(B, C)
    /\ BlockIds(C) = BlockIds(J) /\ Unstarted(C) = Unstarted(J) \ {target}
    /\ C.current_block = target /\ target # NULL /\ ~ is_not_empty(C)

\* The calls that make J, and the one that makes M, do what they should or fail.
May(B, J, target) == J.fault = NoFault => Code(J) /\ Follows(B, J) /\ target \in Unstarted(J)
MayScope(M)       == M.fault = NoFault => M.current_scope \in Nat

LEMMA MovePasses ==
    ASSUME NEW B, NEW L, NEW T, NEW J, NEW target, May(B, J, target), NEW M, MayScope(M),
           NEW m, m = Local(Ir(machine(B, L, T), end_block(J)), M),
           NEW r, r = Then(m, Ir(m, start_block(m.ir, target, M.current_scope))),
           r.fault = NoFault
    PROVE  /\ \E C : r = machine(C, M, T) /\ Opened(B, J, target, C)
           /\ J.fault = NoFault /\ M.fault = NoFault
<1> DEFINE next == Ir(m, start_block(m.ir, target, M.current_scope))
<1>1. m.fault = NoFault /\ r = next
  <2>1. r = Then(m, next) OBVIOUS
  <2> HIDE DEF next
  <2> QED BY <2>1, ThenPasses, Zenon
<1>2. PICK E : /\ m = machine(E, M, T) /\ Code(E) /\ Follows(B, E)
               /\ BlockIds(E) = BlockIds(J) /\ Unstarted(E) = Unstarted(J)
               /\ E.current_block = NULL /\ J.fault = NoFault /\ M.fault = NoFault
  BY <1>1, ClosePasses DEF May
<1> DEFINE C == start_block(E, target, M.current_scope)
<1>3. C.fault = NoFault /\ r = machine(C, M, T)
  <2>1. m.ir = E BY <1>2, MachineFields
  <2>2. r = Ir(machine(E, M, T), C) BY <1>1, <1>2, <2>1
  <2> HIDE DEF C, next
  <2> QED BY <2>2, IrCall
<1>4. target \in Unstarted(E) /\ M.current_scope \in Nat /\ target # NULL
  BY <1>2 DEF Unstarted, BlockIds, NULL, May, MayScope
<1>5. /\ Code(C) /\ Follows(E, C) /\ C.current_block = target
      /\ BlockIds(C) = BlockIds(E) /\ Unstarted(C) = Unstarted(E) \ {target}
      /\ ~ is_not_empty(C)
  BY <1>2, <1>3, <1>4, start_blockPasses
<1> HIDE DEF C
<1>6. Follows(B, C) BY <1>2, <1>5, FollowsTransitive
<1>7. Opened(B, J, target, C) BY <1>2, <1>4, <1>5, <1>6 DEF Opened
<1> QED BY <1>2, <1>3, <1>7

LEMMA JumpPasses ==
    ASSUME NEW B, Code(B), NEW L, NEW T, NEW target \in Unstarted(B), NEW M,
           MayScope(M),
           NEW r, r = JumpInto(machine(B, L, T), target, M), r.fault = NoFault
    PROVE  \E C : /\ r = machine(C, M, T) /\ Code(C) /\ Follows(B, C)
                  /\ BlockIds(C) = BlockIds(B) /\ Unstarted(C) = Unstarted(B) \ {target}
                  /\ C.current_block = target /\ target # NULL /\ M.fault = NoFault
<1> DEFINE J == unconditional_branch(B, target)
           m == Local(Ir(machine(B, L, T), end_block(J)), M)
<1>1. J.fault = NoFault => Kept(B, J) BY unconditional_branchPasses
<1>2. r = Then(m, Ir(m, start_block(m.ir, target, M.current_scope)))
  <2> DEFINE n == machine(B, L, T)
  <2>1. n.ir = B BY MachineFields
  <2> HIDE DEF n
  <2> QED BY <2>1, Zenon DEF JumpInto, n
<1> HIDE DEF J
<1>3. May(B, J, target) BY <1>1 DEF Kept, May
<1>4. m = Local(Ir(machine(B, L, T), end_block(J)), M) OBVIOUS
<1> HIDE DEF m
<1>5. /\ \E C : r = machine(C, M, T) /\ Opened(B, J, target, C)
      /\ J.fault = NoFault /\ M.fault = NoFault
  BY <1>2, <1>3, <1>4, MovePasses
<1>6. PICK C : r = machine(C, M, T) /\ Opened(B, J, target, C) BY <1>5
<1> QED BY <1>1, <1>5, <1>6 DEF Kept, Opened

LEMMA StatementsPushed ==
    ASSUME NEW B, NEW L, NEW T, Running(B, L, T), NoneEvaluating(T), NEW statements \in Seq(Stmts)
    PROVE  Running(B, L, T \o StatementTasks(statements))
<1> DEFINE n == Len(statements)
           ts == StatementTasks(statements)
           P == {U \in Seq(Task) : Running(B, L, U) /\ NoneEvaluating(U)}
           Q == {t \in Task : Shaped(B, t) /\ t.func = "emit_stmt"}
<1>1. T \in Seq(Task) /\ n \in Nat BY RunningTyped
<1>2. T \in P BY <1>1
<1>3. ASSUME NEW s \in Stmts PROVE StatementTask(s) \in Q
  <2> DEFINE t == StatementTask(s)
  <2>1. t \in Task /\ t.func = "emit_stmt" /\ t.step = 0 /\ t.node = s
    <3>1. s \in Stmts \cup AnyExp OBVIOUS
    <3>2. t = task("emit_stmt", 0, s, NULL, NULL) BY DEF StatementTask
    <3>3. NULL \in Nat /\ "emit_stmt" \in Handlers BY DEF NULL, Handlers
    <3> HIDE DEF t
    <3> QED BY <3>1, <3>2, <3>3 DEF Task, task
  <2> HIDE DEF t
  <2>2. Shaped(B, t) BY <2>1 DEF Shaped, Is
  <2>3. t \in Q BY <2>1, <2>2
  <2> QED BY <2>3 DEF t
<1>4. ts \in Seq(Q)
  <2>1. ts = [i \in 1..n |-> StatementTask(Reverse(statements)[i])]
    BY Zenon DEF StatementTasks
  <2>2. ASSUME NEW i \in 1..n PROVE Reverse(statements)[i] \in Stmts
    <3>1. Reverse(statements)[i] = statements[n - i + 1] /\ n - i + 1 \in 1..n
      BY <1>1 DEF Reverse
    <3> QED BY <3>1
  <2>3. \A i \in 1..n : StatementTask(Reverse(statements)[i]) \in Q BY <1>3, <2>2
  <2> HIDE DEF Q, ts, n
  <2> QED BY <1>1, <2>1, <2>3
<1>5. ASSUME NEW U \in P, NEW t \in Q PROVE Append(U, t) \in P
  <2>1. t \in Task /\ Shaped(B, t) /\ Simple(t) /\ ~ Evaluating(t) BY DEF Simple, Evaluating
  <2>2. Running(B, L, U) /\ U \in Seq(Task) /\ NoneEvaluating(U) BY DEF P
  <2>3. Running(B, L, Append(U, t)) /\ NoneEvaluating(Append(U, t))
    BY <2>1, <2>2, SimplePushed, Zenon
  <2> QED BY <2>1, <2>2, <2>3
<1>6. P \in SUBSET Seq(Task) /\ Q \subseteq Task OBVIOUS
<1> HIDE DEF P, Q, ts
<1>7. T \o ts \in P BY <1>2, <1>4, <1>5, <1>6, AppendAll, Zenon
<1> QED BY <1>7 DEF P, ts

LEMMA nopRuns ==
    ASSUME NEW B, NEW L, NEW T, Running(B, L, T), NoneEvaluating(T), NEW C, C = nop(B),
           C.fault = NoFault
    PROVE  Running(C, L, T) /\ Follows(B, C)
<1>1. "nop" \in opcode /\ "nop" # "phi" /\ {"no_value"} \in SUBSET ssa_prop /\ NULL \in Nat
  BY DEF opcode, ssa_prop, NULL
<1> DEFINE i == instruction(B, "nop", {"no_value"}, NULL, NULL)
<1>2. i.op \notin {"add", "sub", "ret"} BY DEF instruction
<1>3. OperandsExist(B, i) BY <1>2, NoOperands
<1>4. C = emit(B, "nop", {"no_value"}, NULL, NULL) BY DEF nop
<1> QED BY <1>1, <1>3, <1>4, emitRuns

\* A block that has its own scope, and the task that will close it
LEMMA NestedPushed ==
    ASSUME NEW C, Code(C), NEW L, NEW M, Scoped(M), Depth(M) = Depth(L) + 1,
           NEW T, Stacked(C, T, {}), Balanced(L, T), NoneEvaluating(T), Plain(T),
           C.current_block # NULL, NEW t \in Task, Is(t, "emit_stmt_block", 1)
    PROVE  Running(C, M, Append(T, t)) /\ NoneEvaluating(Append(T, t))
<1> DEFINE U == Append(T, t)
<1>1. T \in Seq(Task) BY DEF Stacked
<1>2. /\ ~ IsArm(t) /\ ~ ClosesArm(t) /\ ~ Merging(t) /\ ~ BeforeJoin(t) /\ ~ UnderArm(t)
      /\ ClosesScope(t) /\ Opens(t) = NULL /\ ~ Evaluating(t)
  BY DEF IsArm, ClosesArm, Merging, BeforeJoin, UnderArm, IsElse, ClosesScope, Opens, Is, Evaluating
<1>3. Above(T, t) BY <1>2 DEF Above, NoneEvaluating, Plain
<1>4. Shaped(C, t) BY DEF Shaped
<1>5. Stacked(C, U, {})
  <2>1. {} = {} \ {Opens(t)} OBVIOUS
  <2> HIDE DEF U
  <2> QED BY <1>2, <1>3, <1>4, <2>1, PushedStack, Zenon DEF U
<1>6. Values(C, U) /\ NoneEvaluating(U)
  <2>1. Values(C, T) BY DEF Values, NoneEvaluating
  <2> QED BY <1>1, <1>2, <2>1, ValuesPushed, Zenon
<1>7. Balanced(M, U)
  <2>1. Cardinality(Closers(T)) \in Nat /\ Cardinality(Closers(U)) = Cardinality(Closers(T)) + 1
    BY <1>1, <1>2, CountClosers, Zenon
  <2>2. Depth(L) = 1 + Cardinality(Closers(T)) BY DEF Balanced
  <2> HIDE DEF U
  <2>3. Depth(M) = 1 + Cardinality(Closers(U)) BY <2>1, <2>2
  <2> QED BY <2>3 DEF Balanced
<1>8. Plain(U)
  <2>1. U[Len(U)] = t BY <1>1, Appended
  <2> QED BY <1>2, <2>1 DEF Plain
<1> QED BY <1>5, <1>6, <1>7, <1>8 DEF Running

LEMMA emit_stmt_block_0Runs ==
    ASSUME NEW B, NEW L, NEW T, Running(B, L, T), NoneEvaluating(T), NEW s \in Stmts,
           s.kind = "stmt_block", NEW r, r = emit_stmt_block_0(machine(B, L, T), s)
    PROVE  Runs(B, r)
<1> DEFINE m == machine(B, L, T)
           A == alloc_block(m.ir)
           M == new_scope(m.locals)
           allocated == Ir(m, A)
           jump == JumpInto(allocated, last_block(allocated.ir), M)
           entered == Then(allocated, jump)
           t == task("emit_stmt_block", 1, s, NULL, NULL)
           nested == push_task(entered, t)
           m1 == IF is_not_empty(m.ir) THEN nested ELSE m
           ts == StatementTasks(s.statements)
<1>1. SUFFICES ASSUME r.fault = NoFault PROVE Runs(B, r) BY DEF Runs
<1>2. m.ir = B /\ m.locals = L BY MachineFields
<1>3. r = IF s.statements = <<>> THEN Ir(m, nop(m.ir)) ELSE push_tasks(m1, ts)
  BY Zenon DEF emit_stmt_block_0
<1>4. s.statements \in Seq(Stmts) BY Statements DEF WellFormed
<1>5. CASE s.statements = <<>>
  <2> DEFINE C == nop(B)
  <2>1. r = Ir(machine(B, L, T), C) BY <1>2, <1>3, <1>5
  <2>2. C.fault = NoFault => Running(C, L, T) /\ Follows(B, C) BY nopRuns
  <2> HIDE DEF C
  <2> QED BY <2>1, <2>2, IrRuns
<1>6. CASE s.statements # <<>>
  <2>1. r = push_tasks(m1, ts) BY <1>3, <1>6
  <2>2. m1.fault = NoFault
    <3> HIDE DEF m1, ts
    <3> QED BY <1>1, <2>1, StillFailed, Zenon
  <2>3. \E C, N, U : /\ m1 = machine(C, N, U) /\ Running(C, N, U) /\ NoneEvaluating(U)
                     /\ Follows(B, C)
    <3>1. CASE ~ is_not_empty(m.ir)
      <4>1. m1 = machine(B, L, T) BY <3>1
      <4> QED BY <4>1, FollowsItself, Zenon
    <3>2. CASE is_not_empty(m.ir)
      <4>1. m1 = nested BY <3>2
      <4>2. entered.fault = NoFault
        <5>1. push_tasks(entered, <<t>>).fault = NoFault BY <2>2, <4>1 DEF push_task
        <5> HIDE DEF entered, t
        <5> QED BY <5>1, StillFailed, Zenon
      <4>3. allocated.fault = NoFault /\ entered = jump
        <5> HIDE DEF allocated, jump
        <5> QED BY <4>2, ThenPasses, Zenon
      <4>4. A.fault = NoFault /\ allocated = machine(A, L, T)
        <5> HIDE DEF A
        <5>1. allocated = Ir(machine(B, L, T), A) OBVIOUS
        <5> HIDE DEF allocated
        <5> QED BY <4>3, <5>1, IrCall
      <4> DEFINE b == last_block(A)
      <4>5. /\ Code(A) /\ Follows(B, A) /\ b \notin BlockIds(B)
            /\ BlockIds(A) = BlockIds(B) \cup {b} /\ Unstarted(A) = Unstarted(B) \cup {b}
        <5>1. A = alloc_block(B) /\ Code(B) BY <1>2, RunningTyped
        <5> HIDE DEF A
        <5> QED BY <4>4, <5>1, alloc_blockPasses
      <4>6. jump = JumpInto(machine(A, L, T), b, M) BY <4>4, MachineFields
      <4> HIDE DEF A, b, jump
      <4>7. M = new_scope(L) /\ Scoped(L) BY <1>2, RunningTyped
      <4> HIDE DEF M
      <4>8. jump.fault = NoFault BY <4>2, <4>3
      <4>9. MayScope(M) BY <4>7, new_scopePasses DEF MayScope
      <4>10. PICK C : /\ jump = machine(C, M, T) /\ Code(C) /\ Follows(A, C)
                      /\ BlockIds(C) = BlockIds(A) /\ Unstarted(C) = Unstarted(A) \ {b}
                      /\ C.current_block = b /\ b # NULL /\ M.fault = NoFault
        <5>1. b \in Unstarted(A) /\ Code(A) BY <4>5
        <5> QED BY <4>6, <4>8, <4>9, <5>1, JumpPasses
      <4>11. Scoped(M) /\ Depth(M) = Depth(L) + 1 BY <4>7, <4>10, new_scopePasses
      <4>12. Stacked(C, T, {})
        <5>1. Unstarted(C) = Unstarted(B) BY <4>5, <4>10 DEF Unstarted
        <5>2. BlockIds(B) \subseteq BlockIds(C) BY <4>5, <4>10
        <5> QED BY <5>1, <5>2, KeptStack DEF Running
      <4>13. t \in Task /\ Is(t, "emit_stmt_block", 1)
        <5>1. s \in Stmts \cup AnyExp OBVIOUS
        <5>2. NULL \in Nat /\ "emit_stmt_block" \in Handlers BY DEF NULL, Handlers
        <5> QED BY <5>1, <5>2 DEF Task, task, Is
      <4> HIDE DEF t
      <4>14. Running(C, M, Append(T, t)) /\ NoneEvaluating(Append(T, t))
        BY <4>10, <4>11, <4>12, <4>13, NestedPushed DEF Running
      <4>15. m1 = machine(C, M, Append(T, t))
        <5>1. m1 = push_tasks(machine(C, M, T), <<t>>) BY <4>1, <4>3, <4>10 DEF push_task
        <5>2. T \in Seq(Task) BY RunningTyped
        <5>3. T \o <<t>> = Append(T, t) BY <4>13, <5>2
        <5> HIDE DEF m1
        <5> QED BY <2>2, <5>1, <5>3, PushCall, Zenon
      <4>16. Follows(B, C) BY <4>5, <4>10, FollowsTransitive
      <4> HIDE DEF m1
      <4> QED BY <4>14, <4>15, <4>16
    <3> QED BY <3>1, <3>2
  <2> HIDE DEF m1
  <2>4. PICK C, N, U : /\ m1 = machine(C, N, U) /\ Running(C, N, U) /\ NoneEvaluating(U)
                       /\ Follows(B, C)
    BY <2>3
  <2>5. r = machine(C, N, U \o ts)
    <3>1. r = push_tasks(machine(C, N, U), ts) BY <2>1, <2>4
    <3> HIDE DEF ts
    <3> QED BY <1>1, <3>1, PushCall
  <2>6. Running(C, N, U \o ts) BY <1>4, <2>4, StatementsPushed
  <2> QED BY <2>4, <2>5, <2>6 DEF Runs
<1> QED BY <1>5, <1>6

LEMMA DepthTyped ==
    ASSUME NEW L, Scoped(L)
    PROVE  Depth(L) \in Nat
<1>1. PICK d : Depths(L, d) /\ Depth(L) = d[L.current_scope] BY DepthUnfolds
<1> QED BY <1>1 DEF Depths, Scoped

\* What is left when the task t has been taken off the stack
LEMMA TaskPopped ==
    ASSUME NEW B, NEW L, NEW T \in Seq(Task), NEW t \in Task, NEW U, U = Append(T, t),
           Good(B, L, U)
    PROVE  /\ Code(B) /\ Scoped(L) /\ Stacked(B, T, {Opens(t)}) /\ Shaped(B, t) /\ Above(T, t)
           /\ Opens(t) # NULL => Opens(t) \in Unstarted(B)
           /\ Values(B, T) /\ (t.func # "emit_exp_binary" => NoneEvaluating(T))
           /\ Cardinality(Closers(T)) \in Nat
           /\ Depth(L) = Cardinality(Closers(T)) + (IF ClosesScope(t) THEN 2 ELSE 1)
           /\ B.current_block = NULL => Merging(t)
           /\ B.current_block # NULL /\ UnderArm(t) => ~ is_not_empty(B)
<1>1. U[Len(U)] = t /\ U # <<>> BY Appended
<1>2. /\ Stacked(B, T, {Opens(t)}) /\ Shaped(B, t) /\ Above(T, t)
      /\ Opens(t) # NULL => Opens(t) \in Unstarted(B)
  <2>1. {Opens(t)} = {} \cup {Opens(t)} OBVIOUS
  <2> QED BY <2>1, PoppedStack, Zenon DEF Good
<1>3. Values(B, T) BY ValuesPopped, Zenon DEF Good
<1>4. t.func # "emit_exp_binary" => NoneEvaluating(T) BY <1>2, NoneBelow
<1>5. /\ Cardinality(Closers(T)) \in Nat
      /\ Cardinality(Closers(U)) = IF ClosesScope(t) THEN Cardinality(Closers(T)) + 1
                                   ELSE Cardinality(Closers(T))
  BY CountClosers, Zenon
<1>6. Depth(L) = Cardinality(Closers(T)) + (IF ClosesScope(t) THEN 2 ELSE 1)
  <2>1. Depth(L) = 1 + Cardinality(Closers(U)) BY DEF Good, Balanced
  <2> HIDE DEF Closers
  <2> QED BY <1>5, <2>1
<1>7. /\ B.current_block = NULL => Merging(t)
      /\ B.current_block # NULL /\ UnderArm(t) => ~ is_not_empty(B)
  BY <1>1 DEF Good, Ready
<1> QED BY <1>2, <1>3, <1>4, <1>5, <1>6, <1>7 DEF Good

\* The call leaves a good machine, and what it found frozen.
GoesOn(B, r) ==
    r.fault = NoFault =>
        \E C, M, U : r = machine(C, M, U) /\ Good(C, M, U) /\ Follows(B, C)

LEMMA RunsGoesOn ==
    ASSUME NEW B, NEW r, Runs(B, r)
    PROVE  GoesOn(B, r)
<1> SUFFICES ASSUME r.fault = NoFault
             PROVE  \E C, M, U : r = machine(C, M, U) /\ Good(C, M, U) /\ Follows(B, C)
  BY DEF GoesOn
<1>1. PICK C, M, U : r = machine(C, M, U) /\ Running(C, M, U) /\ Follows(B, C) BY DEF Runs
<1>2. Good(C, M, U) BY <1>1, RunningGood
<1> QED BY <1>1, <1>2

LEMMA emit_stmt_block_1GoesOn ==
    ASSUME NEW B, NEW L, NEW T \in Seq(Task), NEW t \in Task, Is(t, "emit_stmt_block", 1),
           Good(B, L, Append(T, t)), NEW r, r = emit_stmt_block_1(machine(B, L, T))
    PROVE  GoesOn(B, r)
<1> SUFFICES ASSUME r.fault = NoFault
             PROVE  \E C, M, U : r = machine(C, M, U) /\ Good(C, M, U) /\ Follows(B, C)
  BY DEF GoesOn
<1> DEFINE M == end_scope(L)
<1>1. /\ ~ IsArm(t) /\ ~ ClosesArm(t) /\ ~ Merging(t) /\ ~ UnderArm(t)
      /\ ClosesScope(t) /\ Opens(t) = NULL /\ t.func # "emit_exp_binary"
  BY DEF IsArm, ClosesArm, Merging, UnderArm, IsElse, ClosesScope, Opens, Is
<1>2. r = Local(machine(B, L, T), M) BY MachineFields DEF emit_stmt_block_1
<1>3. M.fault = NoFault /\ r = machine(B, M, T)
  <2> HIDE DEF M
  <2> QED BY <1>2, LocalCall
<1>4. /\ Code(B) /\ Scoped(L) /\ Stacked(B, T, {Opens(t)}) /\ Above(T, t)
      /\ Values(B, T) /\ Cardinality(Closers(T)) \in Nat
      /\ Depth(L) = Cardinality(Closers(T)) + 2
      /\ B.current_block # NULL
  BY <1>1, TaskPopped, Zenon
<1>5. Scoped(M) /\ Depth(L) = Depth(M) + 1 BY <1>3, <1>4, end_scopePasses
<1>6. Depth(M) = 1 + Cardinality(Closers(T)) BY <1>4, <1>5, DepthTyped
<1>7. Stacked(B, T, {})
  <2>1. NULL \notin Unstarted(B) BY DEF Unstarted, BlockIds, NULL
  <2>2. Unstarted(B) \ {} = Unstarted(B) \ {Opens(t)} BY <1>1, <2>1
  <2> QED BY <1>4, <2>2, KeptStack
<1>8. Plain(T) BY <1>1, <1>4 DEF Above, Plain
<1> HIDE DEF M
<1>9. Running(B, M, T) BY <1>4, <1>5, <1>6, <1>7, <1>8 DEF Running, Balanced
<1> QED BY <1>3, <1>9, RunningGood, FollowsItself, Zenon

-----------------------------------------------------------------------------
(***************************************************************************)
(* The tasks of an ifs.                                                    *)
(***************************************************************************)
LEMMA Pairs ==
    ASSUME NEW s \in Stmts, s.kind = "stmt_ifs"
    PROVE  /\ Len(s.pairs) \in Nat \ {0} /\ s.pairs # <<>>
           /\ \A i \in 1..Len(s.pairs) : /\ s.pairs[i].maybe_condition \in AnyExp \cup {NoExp}
                                         /\ s.pairs[i].statement \in Stmts
           /\ s.pairs[1].maybe_condition # NoExp
<1>1. /\ s.pairs \in Seq([maybe_condition : AnyExp \cup {NoExp}, statement : Stmts])
      /\ s.pairs # <<>> /\ PushIfAccepts(s.pairs)
  BY Statements, Zenon DEF WellFormed
<1>2. Len(s.pairs) \in Nat \ {0} BY <1>1
<1>3. 1 \in 1..Len(s.pairs) BY <1>2
<1>4. ASSUME NEW i \in 1..Len(s.pairs)
      PROVE  /\ s.pairs[i].maybe_condition \in AnyExp \cup {NoExp}
             /\ s.pairs[i].statement \in Stmts
  <2> DEFINE R == [maybe_condition : AnyExp \cup {NoExp}, statement : Stmts]
             q == s.pairs
  <2>1. q \in Seq(R) /\ i \in 1..Len(q) BY <1>1
  <2> HIDE DEF R, q
  <2>2. q[i] \in R BY <2>1
  <2> QED BY <2>2 DEF R, q
<1>5. s.pairs[1].maybe_condition # NoExp BY <1>1, <1>3 DEF PushIfAccepts
<1> QED BY <1>1, <1>2, <1>4, <1>5

PairTask(s, i, merge) == task("emit_stmt_ifs", STEP_AFTER_CONDITION, s, i, merge)
MergeTask(s, dominator, merge) == task("emit_stmt_ifs", STEP_MERGE, s, dominator, merge)

LEMMA PairTaskFields ==
    ASSUME NEW s \in Stmts, s.kind = "stmt_ifs", NEW i \in 1..Len(s.pairs), NEW merge \in Nat,
           NEW t, t = PairTask(s, i, merge)
    PROVE  /\ t \in Task /\ IsArm(t) /\ ~ Merging(t) /\ ~ ClosesArm(t) /\ ~ ClosesScope(t)
           /\ ~ Evaluating(t) /\ Opens(t) = NULL /\ t.func # "emit_exp_binary"
           /\ t.node = s /\ t.arg1 = i /\ t.merge_block = merge
           /\ \A B : Shaped(B, t)
           /\ BeforeJoin(t) <=> i = Len(s.pairs)
           /\ UnderArm(t) <=> s.pairs[i].maybe_condition = NoExp
<1>1. s \in Stmts \cup AnyExp /\ "emit_stmt_ifs" \in Handlers /\ i \in Nat
      /\ STEP_AFTER_CONDITION \in Nat
  BY Pairs DEF Handlers, STEP_AFTER_CONDITION
<1>2. /\ t \in Task /\ t.func = "emit_stmt_ifs" /\ t.step = STEP_AFTER_CONDITION
      /\ t.node = s /\ t.arg1 = i /\ t.merge_block = merge
  BY <1>1, TaskFields DEF PairTask
<1>3. IsArm(t) /\ ~ Merging(t) /\ ~ ClosesArm(t) /\ ~ ClosesScope(t) /\ ~ Evaluating(t)
  BY <1>2 DEF IsArm, Merging, ClosesArm, ClosesScope, Is, Evaluating,
              STEP_AFTER_CONDITION, STEP_MERGE, STEP_AFTER_STATEMENT
<1>4. Opens(t) = NULL /\ t.func # "emit_exp_binary" BY <1>2, <1>3 DEF Opens
<1>5. \A B : Shaped(B, t) BY <1>2, <1>3 DEF Shaped
<1>6. BeforeJoin(t) <=> i = Len(s.pairs) BY <1>2, <1>3, Zenon DEF BeforeJoin
<1>7. UnderArm(t) <=> s.pairs[i].maybe_condition = NoExp
  BY <1>2, <1>3, Zenon DEF UnderArm, IsElse
<1> QED BY <1>2, <1>3, <1>4, <1>5, <1>6, <1>7

LEMMA MergeTaskFields ==
    ASSUME NEW s \in Stmts, NEW dominator \in Nat, NEW merge \in Nat, merge # NULL,
           NEW t, t = MergeTask(s, dominator, merge)
    PROVE  /\ t \in Task /\ Merging(t) /\ ~ IsArm(t) /\ ~ ClosesArm(t) /\ ~ ClosesScope(t)
           /\ ~ Evaluating(t) /\ Opens(t) = merge /\ ~ BeforeJoin(t)
           /\ t.arg1 = dominator /\ t.merge_block = merge
           /\ \A B : dominator \in BlockIds(B) => Shaped(B, t)
<1>1. s \in Stmts \cup AnyExp /\ "emit_stmt_ifs" \in Handlers /\ STEP_MERGE \in Nat
  BY DEF Handlers, STEP_MERGE
<1>2. /\ t \in Task /\ t.func = "emit_stmt_ifs" /\ t.step = STEP_MERGE
      /\ t.node = s /\ t.arg1 = dominator /\ t.merge_block = merge
  BY <1>1, TaskFields DEF MergeTask
<1>3. ~ IsArm(t) /\ Merging(t) /\ ~ ClosesArm(t) /\ ~ ClosesScope(t) /\ ~ Evaluating(t)
  BY <1>2 DEF IsArm, Merging, ClosesArm, ClosesScope, Is, Evaluating,
              STEP_AFTER_CONDITION, STEP_MERGE, STEP_AFTER_STATEMENT
<1>4. Opens(t) = merge /\ ~ BeforeJoin(t) BY <1>2, <1>3 DEF Opens, BeforeJoin
<1>5. \A B : dominator \in BlockIds(B) => Shaped(B, t) BY <1>2, <1>3 DEF Shaped
<1> QED BY <1>2, <1>3, <1>4, <1>5

LEMMA PairTasksTyped ==
    ASSUME NEW s \in Stmts, s.kind = "stmt_ifs", NEW merge \in Nat, NEW i \in 1..Len(s.pairs)
    PROVE  PairTasks(s, i, merge) \in Seq(Task)
<1> DEFINE after == PairTask(s, i, merge)
<1>1. after \in Task BY PairTaskFields
<1>2. PairTasks(s, i, merge) = IF s.pairs[i].maybe_condition = NoExp THEN <<after>>
                               ELSE <<after, ExpressionTask(s.pairs[i].maybe_condition)>>
  BY Zenon DEF PairTasks, PairTask
<1> HIDE DEF after
<1>3. CASE s.pairs[i].maybe_condition = NoExp BY <1>1, <1>2, <1>3
<1>4. CASE s.pairs[i].maybe_condition # NoExp
  <2> DEFINE e == s.pairs[i].maybe_condition
             t == ExpressionTask(e)
  <2>1. e \in AnyExp BY <1>4, Pairs
  <2>2. t = task("emit_exp", 0, e, NULL, NULL) BY DEF ExpressionTask
  <2>3. "emit_exp" \in Handlers /\ NULL \in Nat /\ e \in Stmts \cup AnyExp
    BY <2>1 DEF Handlers, NULL
  <2>4. PairTasks(s, i, merge) = <<after, t>> BY <1>2, <1>4
  <2> HIDE DEF t, e
  <2>5. t \in Task BY <2>2, <2>3, TaskFields
  <2> QED BY <1>1, <2>4, <2>5
<1> QED BY <1>3, <1>4

LEMMA IfsTasksUnfold ==
    ASSUME NEW s \in Stmts, s.kind = "stmt_ifs", NEW dominator \in Nat, NEW merge \in Nat, merge # NULL
    PROVE  \E pushed :
             /\ pushed[0] = <<MergeTask(s, dominator, merge)>>
             /\ \A k \in 1..Len(s.pairs) :
                    pushed[k] = pushed[k - 1] \o PairTasks(s, Len(s.pairs) - k + 1, merge)
             /\ IfsTasks(s, dominator, merge) = pushed[Len(s.pairs)]
<1> DEFINE S == Seq(Task)
           n == Len(s.pairs)
           first == <<MergeTask(s, dominator, merge)>>
           step == [k \in 1..n |-> [U \in S |-> U \o PairTasks(s, n - k + 1, merge)]]
<1>1. n \in Nat BY Pairs
<1>2. first \in S
  <2>1. MergeTask(s, dominator, merge) \in Task BY MergeTaskFields
  <2> QED BY <2>1
<1>3. \A i \in 1..n : PairTasks(s, i, merge) \in S BY PairTasksTyped
<1>4. step \in [1..n -> [S -> S]]
  <2> SUFFICES ASSUME NEW k \in 1..n, NEW U \in S PROVE U \o PairTasks(s, n - k + 1, merge) \in S
    OBVIOUS
  <2>1. n - k + 1 \in 1..n BY <1>1
  <2>2. PairTasks(s, n - k + 1, merge) \in S BY <1>3, <2>1
  <2> QED BY <2>2
<1>5. \A k \in 1..n : \A U \in S : step[k][U] = U \o PairTasks(s, n - k + 1, merge) OBVIOUS
<1>6. Counts(n, S, first, step) BY <1>1, <1>2, <1>4, Zenon DEF Counts
<1> HIDE DEF step, S, n, first
<1>7. PICK f \in [0..n -> S] : /\ f[0] = first
                               /\ \A k \in 1..n : f[k] = step[k][f[k - 1]]
  BY <1>6, Counted, SMT
<1>8. \A k \in 1..n : f[k] = f[k - 1] \o PairTasks(s, n - k + 1, merge)
  <2> SUFFICES ASSUME NEW k \in 1..n PROVE f[k] = f[k - 1] \o PairTasks(s, n - k + 1, merge)
    BY Zenon
  <2>1. k - 1 \in 0..n BY <1>1
  <2> QED BY <1>5, <1>7, <2>1, Zenon
<1>9. f = [k \in 0..n |-> IF k = 0 THEN first ELSE f[k - 1] \o PairTasks(s, n - k + 1, merge)]
  <2>1. \A k \in 0..n : k # 0 => k \in 1..n BY <1>1
  <2> QED BY <1>7, <1>8, <2>1, Zenon
<1> DEFINE pushed == CHOOSE g : g = [k \in 0..n |->
                        IF k = 0 THEN first ELSE g[k - 1] \o PairTasks(s, n - k + 1, merge)]
<1>10. pushed = [k \in 0..n |-> IF k = 0 THEN first
                               ELSE pushed[k - 1] \o PairTasks(s, n - k + 1, merge)]
  BY <1>9, Zenon
<1>11. IfsTasks(s, dominator, merge) = pushed[n] BY Zenon DEF IfsTasks, n, first, MergeTask
<1> HIDE DEF pushed
<1>12. /\ pushed[0] = first
       /\ \A k \in 1..n : pushed[k] = pushed[k - 1] \o PairTasks(s, n - k + 1, merge)
  <2>1. 0 \in 0..n /\ \A k \in 1..n : k \in 0..n /\ k # 0 BY <1>1
  <2> QED BY <1>10, <2>1, Zenon
<1> QED BY <1>11, <1>12, Zenon DEF n, first

\* What holds of the stack while the tasks of an ifs are pushed one by one
Lies(B, L, T, X) == Stacked(B, T, X) /\ Balanced(L, T) /\ NoneEvaluating(T)

\* A task that evaluates nothing and closes no scope
Idle(B, t) == t \in Task /\ Shaped(B, t) /\ ~ Evaluating(t) /\ ~ ClosesScope(t)

Pushed(U, T, t) == /\ U # <<>> /\ U[Len(U)] = t /\ Len(U) \in 1..Len(U)
                   /\ \A j \in 1..Len(T) : j \in 1..Len(U) /\ U[j] = T[j]

LEMMA IfsPushed ==
    ASSUME NEW B, NEW L, NEW T, NEW X, Lies(B, L, T, X), NEW t, Idle(B, t), Above(T, t),
           X = {Opens(t)} \ {NULL}, X \subseteq Unstarted(B), NEW U, U = Append(T, t)
    PROVE  Lies(B, L, U, {}) /\ Pushed(U, T, t)
<1>1. /\ T \in Seq(Task) /\ Stacked(B, T, X) /\ Balanced(L, T) /\ NoneEvaluating(T)
      /\ t \in Task /\ Shaped(B, t) /\ ~ Evaluating(t) /\ ~ ClosesScope(t)
  BY DEF Stacked, Lies, Idle
<1>2. /\ U[Len(U)] = t /\ Len(U) \in 1..Len(U) /\ U # <<>>
      /\ \A j \in 1..Len(T) : j \in 1..Len(U) /\ U[j] = T[j]
      /\ \A j \in 1..Len(U) : j \in 1..Len(T) \/ j = Len(U)
  BY <1>1, Appended
<1>3. Stacked(B, U, {})
  <2>1. {} = X \ {Opens(t)} /\ (Opens(t) # NULL => Opens(t) \in X /\ Opens(t) \in Unstarted(B))
    OBVIOUS
  <2> QED BY <1>1, <2>1, PushedStack, Zenon
<1>4. Cardinality(Closers(U)) = Cardinality(Closers(T)) BY <1>1, CountClosers, Zenon
<1>5. Balanced(L, U) BY <1>1, <1>4 DEF Balanced
<1>6. NoneEvaluating(U) BY <1>1, <1>2 DEF NoneEvaluating
<1> QED BY <1>2, <1>3, <1>5, <1>6 DEF Lies, Pushed

\* The stack when the last k pairs of s have been pushed on the merge
PartlyPushed(B, L, U, s, merge, k) ==
    /\ Stacked(B, U, {}) /\ Balanced(L, U) /\ NoneEvaluating(U) /\ U # <<>>
    /\ \E j \in 1..Len(U) : Merging(U[j]) /\ U[j].merge_block = merge
    /\ k = 0 => Merging(U[Len(U)])
    /\ k # 0 => (UnderArm(U[Len(U)]) => s.pairs[Len(s.pairs) - k + 1].maybe_condition = NoExp)

LEMMA PairPushed ==
    ASSUME NEW B, Code(B), B.current_block # NULL, NEW L, Scoped(L), NEW s \in Stmts,
           s.kind = "stmt_ifs", NEW merge \in Nat, NEW k \in 1..Len(s.pairs),
           NEW U, PartlyPushed(B, L, U, s, merge, k - 1)
    PROVE  PartlyPushed(B, L, U \o PairTasks(s, Len(s.pairs) - k + 1, merge), s, merge, k)
<1> DEFINE n == Len(s.pairs)
           i == n - k + 1
           after == PairTask(s, i, merge)
           condition == s.pairs[i].maybe_condition
           V == Append(U, after)
<1>1. n \in Nat /\ i \in 1..n /\ k # 0 /\ k \in Nat BY Pairs
<1>2. /\ after \in Task /\ IsArm(after) /\ ~ Merging(after) /\ ~ ClosesArm(after)
      /\ ~ ClosesScope(after) /\ ~ Evaluating(after) /\ Opens(after) = NULL
      /\ after.merge_block = merge /\ Shaped(B, after)
      /\ BeforeJoin(after) <=> i = n
      /\ UnderArm(after) <=> condition = NoExp
  <2> HIDE DEF i, after
  <2> QED BY <1>1, PairTaskFields DEF after
<1>3. PairTasks(s, i, merge) = IF condition = NoExp THEN <<after>>
                               ELSE <<after, ExpressionTask(condition)>>
  BY Zenon DEF PairTasks, PairTask
<1> HIDE DEF after, condition
<1>4. /\ Stacked(B, U, {}) /\ Balanced(L, U) /\ NoneEvaluating(U) /\ U # <<>> /\ U \in Seq(Task)
  BY DEF PartlyPushed, Stacked
<1>5. PICK j \in 1..Len(U) : Merging(U[j]) /\ U[j].merge_block = merge BY DEF PartlyPushed
<1>6. Above(U, after)
  <2>1. Joined(U, after) BY <1>2, <1>5 DEF Joined
  <2>2. BeforeJoin(after) => Merging(U[Len(U)])
    <3>1. i = n => k - 1 = 0 BY <1>1
    <3> HIDE DEF i
    <3> QED BY <1>2, <3>1 DEF PartlyPushed
  <2> QED BY <1>2, <1>4, <2>1, <2>2 DEF Above, NoneEvaluating
<1>7. /\ Stacked(B, V, {}) /\ Balanced(L, V) /\ NoneEvaluating(V)
      /\ V # <<>> /\ V[Len(V)] = after /\ Len(V) \in 1..Len(V)
      /\ \A h \in 1..Len(U) : h \in 1..Len(V) /\ V[h] = U[h]
  <2>1. Idle(B, after) /\ {} = {Opens(after)} \ {NULL} /\ V = Append(U, after)
        /\ {} \subseteq Unstarted(B)
    BY <1>2 DEF Idle
  <2>2. Lies(B, L, U, {}) BY <1>4 DEF Lies
  <2> HIDE DEF V
  <2>3. Lies(B, L, V, {}) /\ Pushed(V, U, after) BY <1>6, <2>1, <2>2, IfsPushed, Zenon
  <2> QED BY <2>3 DEF Lies, Pushed
<1>8. V \in Seq(Task) BY <1>7 DEF Stacked
<1>9. CASE condition = NoExp
  <2>1. U \o PairTasks(s, i, merge) = V
    <3>1. PairTasks(s, i, merge) = <<after>> BY <1>3, <1>9
    <3>2. U \o <<after>> = V BY <1>2, <1>4
    <3> QED BY <3>1, <3>2, Zenon
  <2>2. PartlyPushed(B, L, V, s, merge, k)
    <3> HIDE DEF V
    <3>1. \E h \in 1..Len(V) : Merging(V[h]) /\ V[h].merge_block = merge BY <1>5, <1>7
    <3>2. s.pairs[n - k + 1].maybe_condition = NoExp BY <1>9 DEF condition
    <3> QED BY <1>1, <1>7, <3>1, <3>2 DEF PartlyPushed
  <2> QED BY <2>1, <2>2, Zenon
<1>10. CASE condition # NoExp
  <2> DEFINE t == ExpressionTask(condition)
             W == Append(V, t)
  <2>1. t \in Task /\ Is(t, "emit_exp", 0) /\ t.node \in AnyExp
    <3>1. condition \in AnyExp BY <1>1, <1>10, Pairs, Zenon DEF condition
    <3>2. "emit_exp" \in Handlers /\ NULL \in Nat /\ condition \in Stmts \cup AnyExp
      BY <3>1 DEF Handlers, NULL
    <3>3. t = task("emit_exp", 0, condition, NULL, NULL) BY DEF ExpressionTask
    <3> HIDE DEF t
    <3>4. t \in Task /\ t.func = "emit_exp" /\ t.step = 0 /\ t.node = condition
      BY <3>2, <3>3 DEF Task, task
    <3> QED BY <3>1, <3>4 DEF Is
  <2>2. U \o PairTasks(s, i, merge) = W
    <3>1. PairTasks(s, i, merge) = <<after, t>> BY <1>3, <1>10
    <3> HIDE DEF t
    <3>2. U \o <<after, t>> = Append(Append(U, after), t) BY <1>2, <1>4, <2>1
    <3> QED BY <3>1, <3>2, Zenon
  <2> HIDE DEF t
  <2>3. Simple(t) /\ ~ Evaluating(t) /\ Shaped(B, t)
    BY <2>1 DEF Simple, Evaluating, Shaped, Is
  <2>4. /\ ~ IsArm(t) /\ ~ ClosesArm(t) /\ ~ Merging(t) /\ ~ BeforeJoin(t) /\ ~ UnderArm(t)
        /\ ~ ClosesScope(t) /\ Opens(t) = NULL
    BY <2>3, SimpleTask
  <2>5. ~ UnderArm(V[Len(V)]) BY <1>2, <1>7, <1>10
  <2> HIDE DEF V
  <2>6. Above(V, t) BY <1>7, <2>4, <2>5, Zenon DEF Above, NoneEvaluating
  <2>7. /\ Stacked(B, W, {}) /\ Balanced(L, W) /\ NoneEvaluating(W)
        /\ W # <<>> /\ W[Len(W)] = t /\ Len(W) \in 1..Len(W)
        /\ \A h \in 1..Len(V) : h \in 1..Len(W) /\ W[h] = V[h]
    <3>1. Idle(B, t) /\ {} = {Opens(t)} \ {NULL} /\ W = Append(V, t) /\ {} \subseteq Unstarted(B)
      BY <2>1, <2>3, <2>4 DEF Idle
    <3>2. Lies(B, L, V, {}) BY <1>7 DEF Lies
    <3> HIDE DEF W
    <3>3. Lies(B, L, W, {}) /\ Pushed(W, V, t) BY <2>6, <3>1, <3>2, IfsPushed, Zenon
    <3> QED BY <3>3 DEF Lies, Pushed
  <2> HIDE DEF W
  <2>8. \E h \in 1..Len(W) : Merging(W[h]) /\ W[h].merge_block = merge
    <3>1. j \in 1..Len(W) /\ W[j] = U[j] BY <1>5, <1>7, <2>7
    <3> QED BY <1>5, <3>1
  <2>9. PartlyPushed(B, L, W, s, merge, k) BY <1>1, <2>4, <2>7, <2>8 DEF PartlyPushed
  <2> QED BY <2>2, <2>9, Zenon
<1> QED BY <1>9, <1>10

LEMMA IfsTasksPushed ==
    ASSUME NEW B, Code(B), B.current_block \in BlockIds(B), NEW L, Scoped(L), NEW T, NEW merge,
           Lies(B, L, T, {merge}), Plain(T), merge \in Unstarted(B),
           NEW s \in Stmts, s.kind = "stmt_ifs", NEW dominator \in BlockIds(B)
    PROVE  Running(B, L, T \o IfsTasks(s, dominator, merge))
<1> DEFINE n == Len(s.pairs)
           t == MergeTask(s, dominator, merge)
<1>1. n \in Nat \ {0} BY Pairs
<1>2. merge \in Nat /\ merge # NULL /\ dominator \in Nat /\ B.current_block # NULL
  BY CodeTyped DEF Unstarted, BlockIds, NULL
<1>3. PICK pushed :
         /\ pushed[0] = <<MergeTask(s, dominator, merge)>>
         /\ \A k \in 1..n : pushed[k] = pushed[k - 1] \o PairTasks(s, n - k + 1, merge)
         /\ IfsTasks(s, dominator, merge) = pushed[n]
  BY <1>2, IfsTasksUnfold, Zenon
<1> DEFINE S == {k \in 0..n : /\ PartlyPushed(B, L, T \o pushed[k], s, merge, k)
                             /\ pushed[k] \in Seq(Task)}
<1>4. T \in Seq(Task) BY DEF Lies, Stacked
<1>5. 0 \in S
  <2>1. /\ t \in Task /\ Merging(t) /\ ~ IsArm(t) /\ ~ ClosesArm(t) /\ ~ ClosesScope(t)
        /\ ~ Evaluating(t) /\ Opens(t) = merge /\ ~ BeforeJoin(t)
        /\ t.merge_block = merge /\ Shaped(B, t)
    <3>1. t = MergeTask(s, dominator, merge) OBVIOUS
    <3> HIDE DEF t
    <3> QED BY <1>2, <3>1, MergeTaskFields
  <2>2. pushed[0] = <<t>> BY <1>3
  <2> HIDE DEF t
  <2> DEFINE U == Append(T, t)
  <2>3. T \o pushed[0] = U /\ pushed[0] \in Seq(Task) BY <1>4, <2>1, <2>2
  <2>4. Above(T, t) BY <2>1 DEF Above, Plain, Lies, NoneEvaluating
  <2>5. Lies(B, L, U, {}) /\ Pushed(U, T, t)
    <3>1. Idle(B, t) /\ {merge} = {Opens(t)} \ {NULL} /\ U = Append(T, t)
          /\ {merge} \subseteq Unstarted(B)
      BY <1>2, <2>1 DEF Idle
    <3> HIDE DEF U
    <3> QED BY <2>4, <3>1, IfsPushed, Zenon
  <2> HIDE DEF U
  <2>6. PartlyPushed(B, L, U, s, merge, 0)
    BY <2>1, <2>5, Zenon DEF PartlyPushed, Lies, Pushed
  <2>7. 0 \in 0..n BY <1>1
  <2> QED BY <2>3, <2>6, <2>7, Zenon
<1>6. ASSUME NEW k \in 1..n, k - 1 \in S PROVE k \in S
  <2> DEFINE ts == PairTasks(s, n - k + 1, merge)
             U == T \o pushed[k - 1]
  <2>1. PartlyPushed(B, L, U, s, merge, k - 1) /\ pushed[k - 1] \in Seq(Task) BY <1>6
  <2>2. PartlyPushed(B, L, U \o ts, s, merge, k)
    <3> HIDE DEF U
    <3> QED BY <1>2, <2>1, PairPushed
  <2>3. ts \in Seq(Task)
    <3>1. n - k + 1 \in 1..n BY <1>1
    <3> HIDE DEF n
    <3> QED BY <1>2, <3>1, PairTasksTyped, Zenon DEF n
  <2>4. pushed[k] = pushed[k - 1] \o ts /\ k \in 0..n
    <3>1. k \in 0..n BY <1>1
    <3> QED BY <1>3, <3>1, Zenon
  <2> HIDE DEF ts
  <2> DEFINE p == pushed[k - 1]
  <2>5. U \o ts = T \o pushed[k] /\ pushed[k] \in Seq(Task)
    <3>1. p \in Seq(Task) /\ pushed[k] = p \o ts BY <2>1, <2>4
    <3> HIDE DEF p
    <3>2. (T \o p) \o ts = T \o (p \o ts) /\ p \o ts \in Seq(Task) BY <1>4, <2>3, <3>1
    <3> QED BY <3>1, <3>2 DEF p
  <2> QED BY <2>2, <2>4, <2>5, Zenon
<1>7. n \in S
  <2> HIDE DEF S, n
  <2>1. \A k \in 1..n : k - 1 \in S => k \in S BY <1>6
  <2>2. \A k \in 0..n : k \in S BY <1>1, <1>5, <2>1, UpTo
  <2> QED BY <1>1, <2>2
<1> DEFINE U == T \o IfsTasks(s, dominator, merge)
<1>8. PartlyPushed(B, L, U, s, merge, n) BY <1>3, <1>7
<1> HIDE DEF U
<1>9. /\ Stacked(B, U, {}) /\ Balanced(L, U) /\ NoneEvaluating(U)
      /\ UnderArm(U[Len(U)]) => s.pairs[1].maybe_condition = NoExp
  <2>1. n - n + 1 = 1 /\ n # 0 BY <1>1
  <2> QED BY <1>8, <2>1 DEF PartlyPushed
<1>10. Plain(U) BY <1>9, Pairs DEF Plain
<1>11. Values(B, U) BY <1>9 DEF Values, NoneEvaluating
<1>12. Running(B, L, U) BY <1>2, <1>9, <1>10, <1>11 DEF Running
<1> QED BY <1>12 DEF U

LEMMA emit_stmt_ifs_0Runs ==
    ASSUME NEW B, NEW L, NEW T, Running(B, L, T), NoneEvaluating(T), NEW s \in Stmts,
           s.kind = "stmt_ifs", NEW r, r = emit_stmt_ifs_0(machine(B, L, T), s)
    PROVE  Runs(B, r)
<1> DEFINE m == machine(B, L, T)
           A == alloc_block(m.ir)
           m1 == Ir(m, A)
           merge == last_block(m1.ir)
           ts == IfsTasks(s, m.ir.current_block, merge)
           next == push_tasks(m1, ts)
<1>1. SUFFICES ASSUME r.fault = NoFault PROVE Runs(B, r) BY DEF Runs
<1>2. m.ir = B /\ m.fault = NoFault BY MachineFields
<1>3. r = Checked(m, m.ir.current_block # NULL, "current_block != NULL",
          Checked(m, s.pairs # <<>>, "s->count > 0", next))
  BY Zenon DEF emit_stmt_ifs_0
<1>4. /\ Code(B) /\ T \in Seq(Task) /\ B.current_block \in BlockIds(B) /\ B.current_block # NULL
      /\ Scoped(L)
  BY RunningTyped
<1>5. r = next
  <2>1. s.pairs # <<>> /\ m.ir.current_block # NULL BY <1>2, <1>4, Pairs
  <2> HIDE DEF next, m
  <2> QED BY <1>2, <1>3, <2>1, Zenon DEF Checked, Then
<1>6. m1.fault = NoFault
  <2>1. push_tasks(m1, ts).fault = NoFault BY <1>1, <1>5
  <2> HIDE DEF m1, ts
  <2> QED BY <2>1, StillFailed, Zenon
<1>7. A.fault = NoFault /\ m1 = machine(A, L, T)
  <2> HIDE DEF A
  <2>1. m1 = Ir(machine(B, L, T), A) OBVIOUS
  <2> HIDE DEF m1
  <2> QED BY <1>6, <2>1, IrCall
<1> DEFINE b == last_block(A)
           us == IfsTasks(s, B.current_block, b)
<1>8. /\ Code(A) /\ Follows(B, A) /\ b \notin BlockIds(B) /\ SameMode(B, A)
      /\ BlockIds(A) = BlockIds(B) \cup {b} /\ Unstarted(A) = Unstarted(B) \cup {b}
  <2>1. A = alloc_block(B) BY <1>2
  <2> HIDE DEF A
  <2> QED BY <1>4, <1>7, <2>1, alloc_blockPasses
<1>9. r = push_tasks(machine(A, L, T), us)
  <2> HIDE DEF A, m1, m
  <2>1. m1.ir = A BY <1>7, MachineFields
  <2> QED BY <1>2, <1>5, <1>7, <2>1
<1> HIDE DEF A, b, next, m1, ts, m
<1>10. r = machine(A, L, T \o us)
  <2> HIDE DEF us
  <2> QED BY <1>1, <1>9, PushCall
<1>11. Running(A, L, T \o us)
  <2>1. Stacked(A, T, {b})
    <3>1. b \notin Unstarted(B) BY <1>8 DEF Unstarted
    <3>2. Unstarted(A) \ {b} = Unstarted(B) \ {} BY <1>8, <3>1
    <3> QED BY <1>8, <3>2, KeptStack DEF Running
  <2>2. Lies(A, L, T, {b}) /\ Plain(T) BY <2>1 DEF Lies, Running
  <2>3. A.current_block \in BlockIds(A) /\ B.current_block \in BlockIds(A) /\ b \in Unstarted(A)
    BY <1>4, <1>8 DEF SameMode
  <2> QED BY <1>4, <1>8, <2>2, <2>3, IfsTasksPushed, Zenon
<1> HIDE DEF us
<1> QED BY <1>8, <1>10, <1>11 DEF Runs

\* The statement of a task, or of an arm
LEMMA emit_stmtRuns ==
    ASSUME NEW B, NEW L, NEW T, Running(B, L, T), NoneEvaluating(T), NEW s \in Stmts,
           NEW r, r = emit_stmt(machine(B, L, T), s)
    PROVE  Runs(B, r)
<1> DEFINE m == machine(B, L, T)
<1>1. r = CASE s.kind = "stmt_assign"     -> emit_stmt_assign_0(m, s)
            [] s.kind = "stmt_block"      -> emit_stmt_block_0(m, s)
            [] s.kind = "stmt_ifs"        -> emit_stmt_ifs_0(m, s)
            [] s.kind = "stmt_local_decl" -> emit_stmt_local_decl_0(m, s)
            [] s.kind = "stmt_nop"        -> Ir(m, nop(m.ir))
            [] s.kind = "stmt_return"     -> emit_stmt_return_0(m, s)
            [] OTHER                      -> m
  BY Zenon DEF emit_stmt
<1>2. m.ir = B BY MachineFields
<1> HIDE DEF m
<1>3. CASE s.kind = "stmt_assign"
  <2>1. r = emit_stmt_assign_0(m, s) BY <1>1, <1>3
  <2>2. r = EvaluateThen(machine(B, L, T), "emit_stmt_assign", s, s.right)
    BY <2>1, Zenon DEF emit_stmt_assign_0, m
  <2>3. s.right \in AnyExp BY <1>3, Statements DEF WellFormed
  <2> QED BY <1>3, <2>2, <2>3, EvaluateThenRuns
<1>4. CASE s.kind = "stmt_block"
  <2>1. r = emit_stmt_block_0(machine(B, L, T), s) BY <1>1, <1>4 DEF m
  <2> QED BY <1>4, <2>1, emit_stmt_block_0Runs
<1>5. CASE s.kind = "stmt_ifs"
  <2>1. r = emit_stmt_ifs_0(machine(B, L, T), s) BY <1>1, <1>5 DEF m
  <2> QED BY <1>5, <2>1, emit_stmt_ifs_0Runs
<1>6. CASE s.kind = "stmt_local_decl"
  <2>1. r = emit_stmt_local_decl_0(machine(B, L, T), s) BY <1>1, <1>6 DEF m
  <2> QED BY <1>6, <2>1, emit_stmt_local_decl_0Runs
<1>7. CASE s.kind = "stmt_nop"
  <2> DEFINE C == nop(B)
  <2>1. r = Ir(machine(B, L, T), C) BY <1>1, <1>2, <1>7 DEF m
  <2>2. C.fault = NoFault => Running(C, L, T) /\ Follows(B, C) BY nopRuns
  <2> HIDE DEF C
  <2> QED BY <2>1, <2>2, IrRuns
<1>8. CASE s.kind = "stmt_return"
  <2>1. r = emit_stmt_return_0(machine(B, L, T), s) BY <1>1, <1>8 DEF m
  <2> QED BY <1>8, <2>1, emit_stmt_return_0Runs
<1>9. CASE s.kind \notin {"stmt_assign", "stmt_block", "stmt_ifs", "stmt_local_decl", "stmt_nop",
                          "stmt_return"}
  <2>1. r = machine(B, L, T) BY <1>1, <1>9 DEF m
  <2> QED BY <2>1, SameRuns
<1> QED BY <1>3, <1>4, <1>5, <1>6, <1>7, <1>8, <1>9

-----------------------------------------------------------------------------
(***************************************************************************)
(* The arms of an ifs.                                                     *)
(***************************************************************************)
ArmTask(t, f) == task("emit_stmt_ifs", STEP_AFTER_STATEMENT, t.node, f, t.merge_block)

LEMMA ArmTaskFields ==
    ASSUME NEW t \in Task, NEW f \in Nat, NEW u, u = ArmTask(t, f)
    PROVE  /\ u \in Task /\ ClosesArm(u) /\ ~ Merging(u) /\ ~ IsArm(u) /\ ClosesScope(u)
           /\ ~ Evaluating(u) /\ Opens(u) = f /\ ~ UnderArm(u)
           /\ BeforeJoin(u) <=> f = NULL
           /\ u.merge_block = t.merge_block /\ \A B : Shaped(B, u)
<1>1. /\ t.node \in Stmts \cup AnyExp /\ t.merge_block \in Nat /\ "emit_stmt_ifs" \in Handlers
      /\ STEP_AFTER_STATEMENT \in Nat
  BY DEF Task, Handlers, STEP_AFTER_STATEMENT
<1>2. /\ u \in Task /\ u.func = "emit_stmt_ifs" /\ u.step = STEP_AFTER_STATEMENT
      /\ u.arg1 = f /\ u.merge_block = t.merge_block
  BY <1>1, TaskFields DEF ArmTask
<1>3. ~ IsArm(u) /\ ~ Merging(u) /\ ClosesArm(u) /\ ClosesScope(u) /\ ~ Evaluating(u)
  BY <1>2 DEF IsArm, Merging, ClosesArm, ClosesScope, Is, Evaluating,
              STEP_AFTER_CONDITION, STEP_MERGE, STEP_AFTER_STATEMENT
<1>4. Opens(u) = f /\ ~ UnderArm(u) /\ (BeforeJoin(u) <=> f = NULL)
  BY <1>2, <1>3 DEF Opens, UnderArm, IsElse, BeforeJoin
<1>5. \A B : Shaped(B, u) BY <1>3 DEF Shaped
<1> QED BY <1>2, <1>3, <1>4, <1>5

\* A task of an ifs lies on the stack only above the merge of that ifs.
Joining(T, t, last) == Joined(T, t) /\ (last => T # <<>> /\ Merging(T[Len(T)]))

LEMMA ArmPushed ==
    ASSUME NEW C, Code(C), C.current_block # NULL, NEW M, Scoped(M), NEW T, NEW X,
           Stacked(C, T, X), Depth(M) = Cardinality(Closers(T)) + 2, NoneEvaluating(T),
           NEW t \in Task, NEW f \in Nat, X = {f} \ {NULL}, X \subseteq Unstarted(C),
           Joining(T, t, f = NULL), NEW u, u = ArmTask(t, f)
    PROVE  /\ Running(C, M, Append(T, u)) /\ NoneEvaluating(Append(T, u))
           /\ u \in Task /\ T \in Seq(Task)
<1> DEFINE U == Append(T, u)
<1>1. T \in Seq(Task) BY DEF Stacked
<1>2. /\ u \in Task /\ ClosesArm(u) /\ ~ Merging(u) /\ ~ IsArm(u) /\ ClosesScope(u)
      /\ ~ Evaluating(u) /\ Opens(u) = f /\ ~ UnderArm(u)
      /\ BeforeJoin(u) <=> f = NULL
      /\ u.merge_block = t.merge_block /\ Shaped(C, u)
  BY ArmTaskFields
<1>3. Above(T, u)
  <2>1. Joined(T, u) BY <1>2 DEF Joining, Joined
  <2> QED BY <1>2, <2>1 DEF Above, Joining, NoneEvaluating
<1>4. U = Append(T, u) OBVIOUS
<1> HIDE DEF U
<1>5. Stacked(C, U, {})
  <2>1. {} = X \ {Opens(u)} /\ (Opens(u) # NULL => Opens(u) \in X /\ Opens(u) \in Unstarted(C))
    BY <1>2
  <2> QED BY <1>2, <1>3, <1>4, <2>1, PushedStack, Zenon
<1>6. Values(C, U) /\ NoneEvaluating(U)
  <2>1. Values(C, T) BY DEF Values, NoneEvaluating
  <2> QED BY <1>1, <1>2, <1>4, <2>1, ValuesPushed, Zenon
<1>7. Balanced(M, U)
  <2>1. Cardinality(Closers(T)) \in Nat /\ Cardinality(Closers(U)) = Cardinality(Closers(T)) + 1
    BY <1>1, <1>2, <1>4, CountClosers, Zenon
  <2>2. Depth(M) = 1 + Cardinality(Closers(U)) BY <2>1
  <2> QED BY <2>2 DEF Balanced
<1>8. Plain(U)
  <2>1. U[Len(U)] = u BY <1>1, <1>2, <1>4, Appended
  <2> QED BY <1>2, <2>1 DEF Plain
<1>9. Running(C, M, U) BY <1>5, <1>6, <1>7, <1>8 DEF Running
<1> QED BY <1>1, <1>2, <1>4, <1>6, <1>9

\* The statement of an arm, in the block and the scope that were opened for it
LEMMA ArmRuns ==
    ASSUME NEW B, NEW C, Follows(B, C), Code(C), C.current_block # NULL, NEW M, Scoped(M),
           NEW T, NEW X, Stacked(C, T, X), Depth(M) = Cardinality(Closers(T)) + 2,
           NoneEvaluating(T), NEW t \in Task, NEW f \in Nat, X = {f} \ {NULL},
           X \subseteq Unstarted(C), Joining(T, t, f = NULL), NEW s \in Stmts,
           NEW m, m = push_task(machine(C, M, T), ArmTask(t, f)),
           NEW r, r = Then(m, emit_stmt(m, s))
    PROVE  Runs(B, r)
<1> DEFINE u == ArmTask(t, f)
           next == emit_stmt(m, s)
<1>1. u = ArmTask(t, f) /\ m = push_task(machine(C, M, T), u) OBVIOUS
<1> HIDE DEF u
<1>2. /\ Running(C, M, Append(T, u)) /\ NoneEvaluating(Append(T, u))
      /\ u \in Task /\ T \in Seq(Task)
  BY <1>1, ArmPushed
<1>3. m = machine(C, M, Append(T, u)) => Runs(C, next) BY <1>2, emit_stmtRuns
<1>4. r = Then(m, next) OBVIOUS
<1> HIDE DEF next
<1>5. Runs(C, r) BY <1>1, <1>2, <1>3, <1>4, PushRuns
<1> QED BY <1>5, RunsAfter

LEMMA ArmPopped ==
    ASSUME NEW B, NEW L, NEW T \in Seq(Task), NEW t \in Task, IsArm(t), Good(B, L, Append(T, t))
    PROVE  /\ Code(B) /\ Scoped(L) /\ Stacked(B, T, {}) /\ NoneEvaluating(T)
           /\ Joining(T, t, t.arg1 = Len(t.node.pairs))
           /\ Cardinality(Closers(T)) \in Nat /\ Depth(L) = Cardinality(Closers(T)) + 1
           /\ B.current_block # NULL /\ B.current_block \in BlockIds(B)
           /\ t.node.pairs[t.arg1].statement \in Stmts
           /\ UnderArm(t) => ~ is_not_empty(B)
<1>1. /\ ~ ClosesArm(t) /\ ~ Merging(t) /\ ~ ClosesScope(t) /\ Opens(t) = NULL
      /\ t.func # "emit_exp_binary" /\ t.func = "emit_stmt_ifs" /\ t.step = STEP_AFTER_CONDITION
  BY DEF IsArm, ClosesArm, Merging, ClosesScope, Opens, Is, STEP_AFTER_CONDITION,
         STEP_AFTER_STATEMENT, STEP_MERGE
<1>2. /\ Code(B) /\ Scoped(L) /\ Stacked(B, T, {Opens(t)}) /\ Shaped(B, t) /\ Above(T, t)
      /\ NoneEvaluating(T) /\ Cardinality(Closers(T)) \in Nat
      /\ Depth(L) = Cardinality(Closers(T)) + 1 /\ B.current_block # NULL
      /\ UnderArm(t) => ~ is_not_empty(B)
  BY <1>1, TaskPopped, Zenon
<1>3. Stacked(B, T, {})
  <2>1. NULL \notin Unstarted(B) BY DEF Unstarted, BlockIds, NULL
  <2>2. Unstarted(B) \ {} = Unstarted(B) \ {Opens(t)} BY <1>1, <2>1
  <2> QED BY <1>2, <2>2, KeptStack
<1>4. B.current_block \in BlockIds(B) BY <1>2, CurrentTyped
<1>5. t.node \in Stmts /\ t.node.kind = "stmt_ifs" /\ t.arg1 \in 1..Len(t.node.pairs)
  BY <1>1, <1>2 DEF Shaped, Is, STEP_AFTER_CONDITION, STEP_AFTER_STATEMENT, STEP_MERGE, ClosesArm, Merging
<1>6. t.node.pairs[t.arg1].statement \in Stmts BY <1>5, Pairs
<1>7. Joining(T, t, t.arg1 = Len(t.node.pairs)) BY <1>2 DEF Joining, Above, BeforeJoin
<1> QED BY <1>2, <1>3, <1>4, <1>6, <1>7

LEMMA EnterElseRuns ==
    ASSUME NEW B, NEW L, NEW T \in Seq(Task), NEW t \in Task, IsArm(t), Good(B, L, Append(T, t)),
           NEW r, r = EnterElse(machine(B, L, T), t)
    PROVE  Runs(B, r)
<1> DEFINE m == machine(B, L, T)
           M == new_scope(m.locals)
           m1 == Local(m, M)
           m2 == Then(m1, [m1 EXCEPT !.ir.blocks[m.ir.current_block].scope = M.current_scope])
           m3 == push_task(m2, ArmTask(t, NULL))
           s == t.node.pairs[t.arg1].statement
           next == Then(m3, emit_stmt(m3, s))
           last == t.arg1 = Len(t.node.pairs)
           empty == ~ is_not_empty(m.ir)
<1>1. SUFFICES ASSUME r.fault = NoFault PROVE Runs(B, r) BY DEF Runs
<1>2. m.ir = B /\ m.locals = L /\ m.fault = NoFault BY MachineFields
<1>3. r = Checked(m, last, "t.arg1.index == s->count - 1", Checked(m, empty, "block_empty", next))
  BY Zenon DEF EnterElse, ArmTask
<1>4. /\ Code(B) /\ Scoped(L) /\ Stacked(B, T, {}) /\ NoneEvaluating(T)
      /\ Joining(T, t, t.arg1 = Len(t.node.pairs))
      /\ Cardinality(Closers(T)) \in Nat /\ Depth(L) = Cardinality(Closers(T)) + 1
      /\ B.current_block # NULL /\ B.current_block \in BlockIds(B) /\ s \in Stmts
  BY ArmPopped, Zenon
<1>5. last /\ r = next
  <2>1. "t.arg1.index == s->count - 1" # NoFault /\ "block_empty" # NoFault BY DEF NoFault
  <2>2. /\ [m EXCEPT !.fault = "t.arg1.index == s->count - 1"].fault # NoFault
        /\ [m EXCEPT !.fault = "block_empty"].fault # NoFault
    BY <2>1, MachineFails, Zenon
  <2> HIDE DEF m, last, empty, next
  <2> QED BY <1>1, <1>2, <1>3, <2>2, Zenon DEF Checked, Then
<1>6. m3.fault = NoFault
  <2> DEFINE then == emit_stmt(m3, s)
  <2>1. r = Then(m3, then) BY <1>5, Zenon
  <2> HIDE DEF m3, then
  <2> QED BY <1>1, <2>1, ThenPasses, Zenon
<1>7. m2.fault = NoFault
  <2>1. push_tasks(m2, <<ArmTask(t, NULL)>>).fault = NoFault BY <1>6 DEF push_task
  <2> HIDE DEF m2
  <2> QED BY <2>1, StillFailed, Zenon
<1>8. m1.fault = NoFault /\ m2 = [m1 EXCEPT !.ir.blocks[m.ir.current_block].scope = M.current_scope]
  <2> HIDE DEF m1, m
  <2> QED BY <1>7, Zenon DEF Then
<1>9. M.fault = NoFault /\ m1 = machine(B, M, T) /\ M = new_scope(L)
  <2>1. M = new_scope(L) BY <1>2
  <2>2. m1 = Local(machine(B, L, T), M) OBVIOUS
  <2> HIDE DEF m1, M
  <2> QED BY <1>8, <2>1, <2>2, LocalCall
<1> HIDE DEF M
<1>10. Scoped(M) /\ Depth(M) = Depth(L) + 1 /\ M.current_scope \in Nat
  BY <1>4, <1>9, new_scopePasses
<1> DEFINE c == B.current_block
           C == WithBlock(B, c, [B.blocks[c] EXCEPT !.scope = M.current_scope])
<1>11. m2 = machine(C, M, T)
  <2>1. m2 = [machine(B, M, T) EXCEPT !.ir.blocks[c].scope = M.current_scope] BY <1>2, <1>8, <1>9
  <2> HIDE DEF m2
  <2> QED BY <2>1, Zenon DEF machine, WithBlock
<1>12. /\ Code(C) /\ Follows(B, C) /\ SameMode(B, C)
       /\ BlockIds(C) = BlockIds(B) /\ Unstarted(C) = Unstarted(B)
  <2>1. C = WithBlock(B, B.current_block, [B.blocks[B.current_block] EXCEPT !.scope = M.current_scope])
    OBVIOUS
  <2> HIDE DEF C
  <2> QED BY <1>4, <1>10, <2>1, ScopeSet
<1>13. m3 = push_task(machine(C, M, T), ArmTask(t, NULL)) BY <1>11
<1> HIDE DEF C, m2, m1, m
<1>14. C.current_block # NULL /\ Stacked(C, T, {})
  <2>1. C.current_block = B.current_block BY <1>12 DEF SameMode
  <2>2. Unstarted(C) \ {} = Unstarted(B) \ {} BY <1>12
  <2> QED BY <1>4, <1>12, <2>1, <2>2, KeptStack
<1>15. {} = {NULL} \ {NULL} /\ {} \subseteq Unstarted(C) /\ NULL \in Nat /\ Joining(T, t, NULL = NULL)
  BY <1>4, <1>5 DEF NULL, Joining
<1>16. Depth(M) = Cardinality(Closers(T)) + 2 BY <1>4, <1>10
<1> HIDE DEF m3, s
<1> QED BY <1>4, <1>5, <1>10, <1>12, <1>13, <1>14, <1>15, <1>16, ArmRuns

LEMMA EnterArmRuns ==
    ASSUME NEW B, NEW L, NEW T \in Seq(Task), NEW t \in Task, IsArm(t), Good(B, L, Append(T, t)),
           NEW r, r = EnterArm(machine(B, L, T), t)
    PROVE  Runs(B, r)
<1> DEFINE m == machine(B, L, T)
           condition == m.ir.ssas[last_ssa(m.ir)]
           J == branch(m.ir, "eq", NULL, NULL)
           M == new_scope(m.locals)
           m1 == Local(Ir(m, end_block(J)), M)
           opened == Ir(m1, start_block(m1.ir, last_block(J) - 1, M.current_scope))
           m2 == Then(m1, opened)
           m3 == push_task(m2, ArmTask(t, last_block(J)))
           s == t.node.pairs[t.arg1].statement
           next == Then(m3, emit_stmt(m3, s))
           some == last_ssa(m.ir) # NULL
           valued == ~ has_flag(condition, "no_value")
<1>1. SUFFICES ASSUME r.fault = NoFault PROVE Runs(B, r) BY DEF Runs
<1>2. m.ir = B /\ m.locals = L /\ m.fault = NoFault BY MachineFields
<1>3. r = Checked(m, some, "arena not empty", Checked(m, valued, "!condition->has_flag(no_value)", next))
  BY Zenon DEF EnterArm, ArmTask
<1>4. /\ Code(B) /\ Scoped(L) /\ Stacked(B, T, {}) /\ NoneEvaluating(T)
      /\ Joining(T, t, t.arg1 = Len(t.node.pairs))
      /\ Cardinality(Closers(T)) \in Nat /\ Depth(L) = Cardinality(Closers(T)) + 1
      /\ B.current_block # NULL /\ B.current_block \in BlockIds(B) /\ s \in Stmts
  BY ArmPopped, Zenon
<1>5. r = next
  <2>1. "arena not empty" # NoFault /\ "!condition->has_flag(no_value)" # NoFault BY DEF NoFault
  <2>2. /\ [m EXCEPT !.fault = "arena not empty"].fault # NoFault
        /\ [m EXCEPT !.fault = "!condition->has_flag(no_value)"].fault # NoFault
    BY <2>1, MachineFails, Zenon
  <2> HIDE DEF m, some, valued, next
  <2> QED BY <1>1, <1>2, <1>3, <2>2, Zenon DEF Checked, Then
<1>6. m3.fault = NoFault
  <2> DEFINE then == emit_stmt(m3, s)
  <2>1. r = Then(m3, then) BY <1>5
  <2> HIDE DEF m3, then
  <2> QED BY <1>1, <2>1, ThenPasses, Zenon
<1>7. m2.fault = NoFault
  <2>1. push_tasks(m2, <<ArmTask(t, last_block(J))>>).fault = NoFault BY <1>6 DEF push_task
  <2> HIDE DEF m2
  <2> QED BY <2>1, StillFailed, Zenon
<1>8. M = new_scope(L) /\ J = branch(B, "eq", NULL, NULL) BY <1>2
<1>9. m1 = Local(Ir(machine(B, L, T), end_block(J)), M) OBVIOUS
<1>10. m2 = Then(m1, Ir(m1, start_block(m1.ir, last_block(J) - 1, M.current_scope))) OBVIOUS
<1>11. m3 = push_task(m2, ArmTask(t, last_block(J))) /\ next = Then(m3, emit_stmt(m3, s)) OBVIOUS
<1> HIDE DEF m1, m2, m3, M, J, opened, m, next
<1> DEFINE f == last_block(J)
           target == f - 1
<1>12. J.fault = NoFault =>
         /\ Code(J) /\ Follows(B, J)
         /\ target \in Nat /\ target # f /\ target \notin BlockIds(B) /\ f \notin BlockIds(B)
         /\ BlockIds(J) = BlockIds(B) \cup {target, f}
         /\ Unstarted(J) = Unstarted(B) \cup {target, f}
  <2> HIDE DEF f, target
  <2>1. ASSUME J.fault = NoFault
        PROVE  LET a == last_block(J)
                   b == a - 1
               IN  /\ Code(J) /\ Follows(B, J)
                   /\ b \in Nat /\ b # a /\ b \notin BlockIds(B) /\ a \notin BlockIds(B)
                   /\ BlockIds(J) = BlockIds(B) \cup {b, a}
                   /\ Unstarted(J) = Unstarted(B) \cup {b, a}
    BY <1>4, <1>8, <2>1, branchPasses, Zenon
  <2> QED BY <2>1, Zenon DEF f, target
<1>13. May(B, J, target) BY <1>12 DEF May
<1>14. MayScope(M) BY <1>4, <1>8, new_scopePasses DEF MayScope
<1> HIDE DEF f, target
<1>15. /\ \E C : m2 = machine(C, M, T) /\ Opened(B, J, target, C)
       /\ J.fault = NoFault /\ M.fault = NoFault
  <2>1. m2 = Then(m1, Ir(m1, start_block(m1.ir, target, M.current_scope))) BY <1>10 DEF target, f
  <2> QED BY <1>7, <1>9, <1>13, <1>14, <2>1, MovePasses
<1>16. PICK C : m2 = machine(C, M, T) /\ Opened(B, J, target, C) BY <1>15
<1>17. Scoped(M) /\ Depth(M) = Depth(L) + 1 BY <1>4, <1>8, <1>15, new_scopePasses
<1>18. Depth(M) = Cardinality(Closers(T)) + 2 BY <1>4, <1>17
<1>19. /\ Code(C) /\ Follows(B, C) /\ C.current_block # NULL
       /\ BlockIds(C) = BlockIds(B) \cup {target, f}
       /\ Unstarted(C) = Unstarted(B) \cup {f} /\ f \notin Unstarted(B)
       /\ f \in Nat /\ f # NULL
  <2>1. target \notin Unstarted(B) /\ f \notin Unstarted(B) BY <1>12, <1>15 DEF Unstarted
  <2>2. f \in BlockIds(J) BY <1>12, <1>15
  <2>3. f \in Nat /\ f # NULL BY <2>2 DEF BlockIds, NULL
  <2> QED BY <1>12, <1>15, <1>16, <2>1, <2>3 DEF Opened
<1>20. Stacked(C, T, {f})
  <2>1. Unstarted(C) \ {f} = Unstarted(B) \ {} BY <1>19
  <2> QED BY <1>4, <1>19, <2>1, KeptStack
<1>21. m3 = push_task(machine(C, M, T), ArmTask(t, f)) BY <1>11, <1>16 DEF f
<1>22. {f} = {f} \ {NULL} /\ {f} \subseteq Unstarted(C) /\ Joining(T, t, f = NULL)
  BY <1>4, <1>19 DEF Joining
<1> HIDE DEF s
<1> QED BY <1>4, <1>5, <1>11, <1>17, <1>18, <1>19, <1>20, <1>21, <1>22, ArmRuns

LEMMA emit_stmt_ifs_after_conditionRuns ==
    ASSUME NEW B, NEW L, NEW T \in Seq(Task), NEW t \in Task, IsArm(t), Good(B, L, Append(T, t)),
           NEW r, r = emit_stmt_ifs_after_condition(machine(B, L, T), t)
    PROVE  Runs(B, r)
<1>1. r = IF t.node.pairs[t.arg1].maybe_condition = NoExp THEN EnterElse(machine(B, L, T), t)
          ELSE EnterArm(machine(B, L, T), t)
  BY Zenon DEF emit_stmt_ifs_after_condition
<1>2. CASE t.node.pairs[t.arg1].maybe_condition = NoExp
  <2>1. r = EnterElse(machine(B, L, T), t) BY <1>1, <1>2
  <2> QED BY <2>1, EnterElseRuns
<1>3. CASE t.node.pairs[t.arg1].maybe_condition # NoExp
  <2>1. r = EnterArm(machine(B, L, T), t) BY <1>1, <1>3
  <2> QED BY <2>1, EnterArmRuns
<1> QED BY <1>2, <1>3

\* The jump that ends an arm, unless the arm has returned
ArmJump(B, t) == IF B.blocks[B.current_block].br = "UNUSED"
                 THEN unconditional_branch(B, t.merge_block) ELSE B

LEMMA ArmJumps ==
    ASSUME NEW B, NEW T, NEW X, Stacked(B, T, X), NEW t, Joined(T, t), Code(B),
           NEW J, J = ArmJump(B, t), J.fault = NoFault
    PROVE  Kept(B, J)
<1>1. T \in Seq(Task) /\ Waits(B, T, X) BY DEF Stacked
<1>2. PICK j \in 1..Len(T) : Merging(T[j]) /\ T[j].merge_block = t.merge_block BY DEF Joined
<1>3. Opens(T[j]) = t.merge_block BY <1>2 DEF Opens
<1>4. t.merge_block # NULL
  <2>1. Shaped(B, T[j]) BY Zenon DEF Stacked
  <2>2. T[j].func = "emit_stmt_ifs" /\ T[j].step = STEP_MERGE BY <1>2 DEF Merging, Is
  <2>3. T[j].merge_block # NULL
    BY <2>1, <2>2 DEF Shaped, IsArm, ClosesArm, Is, STEP_MERGE, STEP_AFTER_CONDITION, STEP_AFTER_STATEMENT
  <2> QED BY <1>2, <2>3
<1>5. t.merge_block \in Unstarted(B) BY <1>1, <1>3, <1>4 DEF Waits
<1>6. CASE B.blocks[B.current_block].br = "UNUSED"
  <2>1. J = unconditional_branch(B, t.merge_block) BY <1>6 DEF ArmJump
  <2> QED BY <1>5, <2>1, unconditional_branchPasses, Zenon
<1>7. CASE B.blocks[B.current_block].br # "UNUSED"
  <2>1. J = B BY <1>7 DEF ArmJump
  <2> QED BY <2>1, FollowsItself DEF Kept
<1> QED BY <1>6, <1>7

LEMMA emit_stmt_ifs_after_statementGoesOn ==
    ASSUME NEW B, NEW L, NEW T \in Seq(Task), NEW t \in Task, ClosesArm(t), Good(B, L, Append(T, t)),
           NEW r, r = emit_stmt_ifs_after_statement(machine(B, L, T), t)
    PROVE  GoesOn(B, r)
<1> DEFINE m == machine(B, L, T)
           J == ArmJump(m.ir, t)
           M == end_scope(m.locals)
           m1 == Local(Ir(m, end_block(J)), M)
           then == Then(m1, Ir(m1, start_block(m1.ir, t.arg1, m1.locals.current_scope)))
<1> SUFFICES ASSUME r.fault = NoFault
             PROVE  \E C, N, U : r = machine(C, N, U) /\ Good(C, N, U) /\ Follows(B, C)
  BY DEF GoesOn
<1>1. m.ir = B /\ m.locals = L BY MachineFields
<1>2. r = IF t.arg1 = NULL THEN m1 ELSE then
  BY Zenon DEF emit_stmt_ifs_after_statement, LeaveArm, current, ArmJump
<1>3. /\ ~ IsArm(t) /\ ~ Merging(t) /\ ~ UnderArm(t) /\ ClosesScope(t) /\ Opens(t) = t.arg1
      /\ t.func # "emit_exp_binary" /\ t.arg1 \in Nat /\ (BeforeJoin(t) <=> t.arg1 = NULL)
  BY DEF IsArm, ClosesArm, Merging, UnderArm, IsElse, ClosesScope, Opens, Is, BeforeJoin, Task,
         STEP_AFTER_CONDITION, STEP_AFTER_STATEMENT, STEP_MERGE
<1>4. /\ Code(B) /\ Scoped(L) /\ Stacked(B, T, {t.arg1}) /\ Above(T, t)
      /\ t.arg1 # NULL => t.arg1 \in Unstarted(B)
      /\ NoneEvaluating(T) /\ Cardinality(Closers(T)) \in Nat
      /\ Depth(L) = Cardinality(Closers(T)) + 2
  BY <1>3, TaskPopped, Zenon
<1>5. J = ArmJump(B, t) /\ M = end_scope(L) BY <1>1
<1>6. m1 = Local(Ir(machine(B, L, T), end_block(J)), M) OBVIOUS
<1>7. then = Then(m1, Ir(m1, start_block(m1.ir, t.arg1, m1.locals.current_scope))) OBVIOUS
<1> HIDE DEF J, M, m1, m, then
<1>8. J.fault = NoFault => Kept(B, J)
  <2>1. Joined(T, t) BY <1>4 DEF Above
  <2> QED BY <1>4, <1>5, <2>1, ArmJumps
<1>9. M.fault = NoFault =>
        Scoped(M) /\ M.current_scope \in Nat /\ Depth(M) = 1 + Cardinality(Closers(T))
  <2> SUFFICES ASSUME M.fault = NoFault
               PROVE  Scoped(M) /\ M.current_scope \in Nat /\ Depth(M) = 1 + Cardinality(Closers(T))
    OBVIOUS
  <2>1. Scoped(M) /\ Depth(L) = Depth(M) + 1 /\ M.current_scope \in Nat
    BY <1>4, <1>5, end_scopePasses
  <2> QED BY <1>4, <2>1, DepthTyped
<1>10. NULL \notin Unstarted(B) BY DEF Unstarted, BlockIds, NULL
<1>11. \A C : Values(C, T) BY <1>4 DEF Values, NoneEvaluating
<1>12. CASE t.arg1 = NULL
  <2>1. r = m1 BY <1>2, <1>12
  <2>2. J.fault = NoFault => Code(J) /\ Follows(B, J) BY <1>8 DEF Kept
  <2>3. PICK C : /\ m1 = machine(C, M, T) /\ Code(C) /\ Follows(B, C)
                 /\ BlockIds(C) = BlockIds(J) /\ Unstarted(C) = Unstarted(J)
                 /\ C.current_block = NULL /\ J.fault = NoFault /\ M.fault = NoFault
    BY <1>6, <2>1, <2>2, ClosePasses
  <2>4. BlockIds(C) = BlockIds(B) /\ Unstarted(C) = Unstarted(B) BY <1>8, <2>3 DEF Kept
  <2>5. Stacked(C, T, {})
    <3>1. Unstarted(C) \ {} = Unstarted(B) \ {t.arg1} BY <1>10, <1>12, <2>4
    <3> QED BY <1>4, <2>4, <3>1, KeptStack
  <2>6. Ready(C, T) BY <1>3, <1>4, <1>12, <2>3 DEF Ready, Above
  <2>7. Good(C, M, T) BY <1>9, <1>11, <2>3, <2>5, <2>6 DEF Good, Balanced
  <2> QED BY <2>1, <2>3, <2>7
<1>13. CASE t.arg1 # NULL
  <2>1. r = then BY <1>2, <1>13
  <2>2. m1.fault = NoFault /\ r = Ir(m1, start_block(m1.ir, t.arg1, m1.locals.current_scope))
    <3> DEFINE next == Ir(m1, start_block(m1.ir, t.arg1, m1.locals.current_scope))
    <3>1. r = Then(m1, next) BY <1>7, <2>1
    <3> HIDE DEF next
    <3>2. m1.fault = NoFault /\ r = next BY <3>1, ThenPasses, Zenon
    <3> QED BY <3>2 DEF next
  <2>3. May(B, J, t.arg1) BY <1>4, <1>8, <1>13 DEF Kept, May
  <2>4. MayScope(M) BY <1>9 DEF MayScope
  <2>5. m1.locals = M
    <3>1. J.fault = NoFault => Code(J) /\ Follows(B, J) BY <1>8 DEF Kept
    <3>2. PICK C : /\ m1 = machine(C, M, T) /\ Code(C) /\ Follows(B, C)
                   /\ BlockIds(C) = BlockIds(J) /\ Unstarted(C) = Unstarted(J)
                   /\ C.current_block = NULL /\ J.fault = NoFault /\ M.fault = NoFault
      BY <1>6, <2>2, <3>1, ClosePasses
    <3> QED BY <3>2, MachineFields
  <2>6. r = Then(m1, Ir(m1, start_block(m1.ir, t.arg1, M.current_scope)))
    BY <1>7, <2>1, <2>5
  <2>7. /\ \E C : r = machine(C, M, T) /\ Opened(B, J, t.arg1, C)
        /\ J.fault = NoFault /\ M.fault = NoFault
    BY <1>6, <2>3, <2>4, <2>6, MovePasses
  <2>8. PICK C : r = machine(C, M, T) /\ Opened(B, J, t.arg1, C) BY <2>7
  <2>9. /\ Code(C) /\ Follows(B, C) /\ C.current_block # NULL /\ ~ is_not_empty(C)
        /\ BlockIds(C) = BlockIds(B) /\ Unstarted(C) = Unstarted(B) \ {t.arg1}
    BY <1>8, <1>13, <2>7, <2>8 DEF Opened, Kept
  <2>10. Stacked(C, T, {})
    <3>1. Unstarted(C) \ {} = Unstarted(B) \ {t.arg1} BY <2>9
    <3> QED BY <1>4, <2>9, <3>1, KeptStack
  <2>11. Ready(C, T) BY <2>9 DEF Ready
  <2>12. Good(C, M, T) BY <1>9, <1>11, <2>7, <2>9, <2>10, <2>11 DEF Good, Balanced
  <2> QED BY <2>8, <2>9, <2>12
<1> QED BY <1>12, <1>13

-----------------------------------------------------------------------------
(***************************************************************************)
(* The join of an ifs.                                                     *)
(***************************************************************************)
\* What block b adds to the values that are fused
OwnValue(B, sym, b) == IF try_get(B.blocks[b], sym)
                       THEN <<B.blocks[b].final_values[sym]>> ELSE <<>>

LEMMA FinalValuesUnfold ==
    ASSUME NEW B, Code(B), NEW blocks \in Seq(BlockIds(B)), NEW sym \in Symbols
    PROVE  /\ \A k \in 1..Len(blocks) : OwnValue(B, sym, blocks[k]) \in Seq(SsaIds(B))
           /\ \E pushed :
                /\ pushed[0] = <<>>
                /\ \A k \in 1..Len(blocks) :
                       pushed[k] = pushed[k - 1] \o OwnValue(B, sym, blocks[k])
                /\ FinalValues(B, blocks, sym) = pushed[Len(blocks)]
<1> DEFINE n == Len(blocks)
           S == Seq(SsaIds(B))
           own == [k \in 1..n |-> IF try_get(B.blocks[blocks[k]], sym)
                                  THEN <<B.blocks[blocks[k]].final_values[sym]>> ELSE <<>>]
           step == [k \in 1..n |-> [U \in S |-> U \o own[k]]]
<1>1. n \in Nat /\ <<>> \in S OBVIOUS
<1>2. ASSUME NEW k \in 1..n PROVE own[k] \in S
  <2> DEFINE v == B.blocks[blocks[k]].final_values[sym]
  <2>1. CASE try_get(B.blocks[blocks[k]], sym)
    <3>1. blocks[k] \in BlockIds(B) OBVIOUS
    <3>2. ValueOf(B, blocks[k], v) BY <2>1, <3>1, Zenon DEF Code, FinalsLocal
    <3>3. v \in SsaIds(B) BY <3>2 DEF ValueOf
    <3>4. own[k] = <<v>> BY <2>1
    <3> HIDE DEF v, own
    <3> QED BY <3>3, <3>4
  <2>2. CASE ~ try_get(B.blocks[blocks[k]], sym)
    <3>1. own[k] = <<>> BY <2>2
    <3> QED BY <1>1, <3>1
  <2> QED BY <2>1, <2>2
<1>3. \A k \in 1..n : own[k] = IF try_get(B.blocks[blocks[k]], sym)
                               THEN <<B.blocks[blocks[k]].final_values[sym]>> ELSE <<>>
  OBVIOUS
<1> HIDE DEF own
<1>4. step \in [1..n -> [S -> S]]
  <2> SUFFICES ASSUME NEW k \in 1..n, NEW U \in S PROVE U \o own[k] \in S
    OBVIOUS
  <2>1. own[k] \in S BY <1>2
  <2> QED BY <2>1
<1>5. \A k \in 1..n : \A U \in S : step[k][U] = U \o own[k] OBVIOUS
<1>6. Counts(n, S, <<>>, step) BY <1>1, <1>4, Zenon DEF Counts
<1> HIDE DEF step, S, n
<1>7. PICK f \in [0..n -> S] : f[0] = <<>> /\ \A k \in 1..n : f[k] = step[k][f[k - 1]]
  BY <1>6, Counted, SMT
<1>8. \A k \in 0..n : k # 0 => k \in 1..n /\ k - 1 \in 0..n BY <1>1
<1>9. \A k \in 1..n : f[k] = f[k - 1] \o own[k]
  <2> SUFFICES ASSUME NEW k \in 1..n PROVE f[k] = f[k - 1] \o own[k]
    BY Zenon
  <2>1. k - 1 \in 0..n BY <1>1
  <2> QED BY <1>5, <1>7, <2>1, Zenon
<1> DEFINE Right(g) == g = [k \in 0..n |->
                           IF k = 0 THEN <<>>
                           ELSE g[k - 1] \o (IF try_get(B.blocks[blocks[k]], sym)
                                             THEN <<B.blocks[blocks[k]].final_values[sym]>> ELSE <<>>)]
<1>10. Right(f)
  <2>1. \A k \in 0..n : f[k] = IF k = 0 THEN <<>>
                              ELSE f[k - 1] \o (IF try_get(B.blocks[blocks[k]], sym)
                                                THEN <<B.blocks[blocks[k]].final_values[sym]>> ELSE <<>>)
    BY <1>3, <1>7, <1>8, <1>9, Zenon
  <2> QED BY <1>7, <2>1, Zenon
<1> DEFINE pushed == CHOOSE g : Right(g)
<1>11. Right(pushed) BY <1>10, Zenon
<1>12. FinalValues(B, blocks, sym) = pushed[n] BY Zenon DEF FinalValues, n
<1> HIDE DEF pushed
<1>13. /\ pushed[0] = <<>>
       /\ \A k \in 1..n : pushed[k] = pushed[k - 1] \o own[k]
  <2>1. 0 \in 0..n /\ \A k \in 1..n : k \in 0..n /\ k # 0 BY <1>1
  <2> QED BY <1>3, <1>11, <2>1, Zenon
<1>14. \A k \in 1..n : own[k] = OwnValue(B, sym, blocks[k]) BY <1>3, Zenon DEF OwnValue
<1>15. \A k \in 1..Len(blocks) : OwnValue(B, sym, blocks[k]) \in Seq(SsaIds(B))
  BY <1>2, <1>14, Zenon DEF n, S
<1>16. \A k \in 1..Len(blocks) : pushed[k] = pushed[k - 1] \o OwnValue(B, sym, blocks[k])
  BY <1>13, <1>14, Zenon DEF n
<1>17. pushed[0] = <<>> /\ FinalValues(B, blocks, sym) = pushed[Len(blocks)]
  BY <1>12, <1>13, Zenon DEF n
<1> QED BY <1>15, <1>16, <1>17, Zenon

LEMMA FinalValuesAre ==
    ASSUME NEW B, Code(B), NEW blocks \in Seq(BlockIds(B)), NEW sym \in Symbols
    PROVE  FinalValues(B, blocks, sym) \in Seq(SsaIds(B))
<1> DEFINE n == Len(blocks)
           S == Seq(SsaIds(B))
<1>1. n \in Nat /\ <<>> \in S OBVIOUS
<1>2. \A k \in 1..n : OwnValue(B, sym, blocks[k]) \in S BY FinalValuesUnfold, Zenon
<1>3. PICK pushed : /\ pushed[0] = <<>>
                    /\ \A k \in 1..n : pushed[k] = pushed[k - 1] \o OwnValue(B, sym, blocks[k])
                    /\ FinalValues(B, blocks, sym) = pushed[n]
  BY FinalValuesUnfold, Zenon
<1> HIDE DEF n, S
<1> DEFINE K == {k \in 0..n : pushed[k] \in S}
<1>4. n \in K
  <2>1. 0 \in K BY <1>1, <1>3
  <2>2. ASSUME NEW k \in 1..n, k - 1 \in K PROVE k \in K
    <3>1. pushed[k - 1] \in S /\ OwnValue(B, sym, blocks[k]) \in S /\ k \in 0..n
      BY <1>1, <1>2, <2>2
    <3>2. pushed[k - 1] \o OwnValue(B, sym, blocks[k]) \in S BY <3>1 DEF S
    <3> QED BY <1>3, <3>1, <3>2, Zenon
  <2> HIDE DEF K
  <2>3. \A k \in 0..n : k \in K BY <1>1, <2>1, <2>2, UpTo, Zenon
  <2> QED BY <1>1, <2>3
<1> QED BY <1>3, <1>4 DEF S

\* The call leaves the same tables, and a builder that runs on.
RunsOn(C, L, T, x) ==
    x.fault = NoFault => \E D : x = machine(D, L, T) /\ Running(D, L, T) /\ Follows(C, D)

LEMMA FuseRuns ==
    ASSUME NEW B, NEW L, NEW T, Running(B, L, T), NEW sym \in Symbols, NEW values \in Seq(SsaIds(B)),
           NEW r, r = Fuse(machine(B, L, T), sym, values)
    PROVE  RunsOn(B, L, T, r)
<1> DEFINE P == PhiOf(B, values)
           F == add_final_value(P, sym, last_ssa(P))
           C == Then(P, F)
<1>1. SUFFICES ASSUME r.fault = NoFault
               PROVE  \E D : r = machine(D, L, T) /\ Running(D, L, T) /\ Follows(B, D)
  BY DEF RunsOn
<1>2. r = Ir(machine(B, L, T), C)
  <2> DEFINE m == machine(B, L, T)
  <2>1. m.ir = B BY MachineFields
  <2> HIDE DEF m
  <2> QED BY <2>1, Zenon DEF Fuse, m
<1>3. C.fault = NoFault /\ r = machine(C, L, T)
  <2> HIDE DEF C
  <2> QED BY <1>1, <1>2, IrCall
<1>4. P.fault = NoFault /\ C = F
  <2>1. C = Then(P, F) OBVIOUS
  <2> HIDE DEF P, F, C
  <2> QED BY <1>3, <2>1, ThenPasses, Zenon
<1>5. Code(B) /\ Len(B.ssas) \in Nat BY RunningTyped
<1>6. values \in Seq(Nat) /\ \A k \in 1..Len(values) : values[k] \in SsaIds(B)
  <2>1. SsaIds(B) \subseteq Nat BY <1>5 DEF SsaIds
  <2> QED BY <2>1
<1>7. PICK i : i.flags = {} /\ i.block = B.current_block /\ Emitted(B, i, P)
  BY <1>4, <1>5, <1>6, PhiOfPasses, Zenon
<1>8. Running(P, L, T) /\ Follows(B, P)
  <2>1. ~ has_flag(i, "no_value") BY <1>7 DEF has_flag
  <2> QED BY <1>7, <2>1, EmittedRunning
<1>9. ValueOf(P, P.current_block, last_ssa(P))
  <2>1. /\ P.current_block = B.current_block /\ Len(P.ssas) = Len(B.ssas) + 1
        /\ P.ssas[Len(P.ssas)] = i
    BY <1>7 DEF Emitted
  <2>2. Len(P.ssas) \in SsaIds(P) BY <1>5, <2>1 DEF SsaIds
  <2>3. ~ has_flag(i, "no_value") BY <1>7 DEF has_flag
  <2> QED BY <1>7, <2>1, <2>2, <2>3 DEF ValueOf, last_ssa
<1> HIDE DEF P
<1>10. Running(F, L, T) /\ Follows(P, F) BY <1>3, <1>4, <1>8, <1>9, FinalRuns
<1> HIDE DEF F
<1>11. Follows(B, F) BY <1>8, <1>10, FollowsTransitive
<1> QED BY <1>3, <1>4, <1>10, <1>11

LEMMA FuseSymbolRuns ==
    ASSUME NEW B, NEW L, NEW T, Running(B, L, T), NEW sym \in Symbols,
           NEW dominator \in BlockIds(B), NEW merge \in BlockIds(B),
           NEW r, r = FuseSymbol(machine(B, L, T), sym, dominator, merge)
    PROVE  RunsOn(B, L, T, r)
<1> DEFINE m == machine(B, L, T)
           predecessors == B.blocks[merge].predecessors
           own == FinalValues(B, predecessors, sym)
           to_fuse == Reaching(B, own, predecessors, dominator, sym)
           next == Fuse(m, sym, to_fuse)
           known == Len(own) = Len(predecessors) \/ try_get(B.blocks[dominator], sym)
           fits == Len(to_fuse) <= MaxFuse
<1>1. m.ir = B /\ m.fault = NoFault BY MachineFields
<1>2. r = IF own = <<>> THEN m
          ELSE Checked(m, known, "dominator->final_values.try_get(sym, &to_fuse)",
               Checked(m, fits, "fuse full", next))
  BY <1>1, Zenon DEF FuseSymbol
<1>3. Code(B) BY RunningTyped
<1>4. own \in Seq(SsaIds(B))
  <2>1. predecessors \in Seq(Nat)
    <3>1. B \in builder BY <1>3, CodeTyped
    <3>2. B.blocks \in Seq(bb) BY <3>1 DEF builder
    <3>3. B.blocks[merge] \in bb BY <3>2 DEF BlockIds
    <3> QED BY <3>3, Zenon DEF bb
  <2>2. \A k \in 1..Len(predecessors) : predecessors[k] \in BlockIds(B)
    BY <1>3, CodeTyped DEF PredecessorsBranchHere
  <2> HIDE DEF predecessors
  <2>3. predecessors \in Seq(BlockIds(B)) BY <2>1, <2>2
  <2> QED BY <1>3, <2>3, FinalValuesAre
<1>5. SUFFICES ASSUME own # <<>>, r.fault = NoFault
               PROVE  RunsOn(B, L, T, r)
  <2>1. CASE own = <<>>
    <3>1. r = machine(B, L, T) BY <1>2, <2>1
    <3> QED BY <3>1, FollowsItself, Zenon DEF RunsOn
  <2>2. CASE r.fault # NoFault BY <2>2 DEF RunsOn
  <2> QED BY <1>5, <2>1, <2>2
<1>6. known /\ r = next
  <2>1. "dominator->final_values.try_get(sym, &to_fuse)" # NoFault /\ "fuse full" # NoFault
    BY DEF NoFault
  <2>2. /\ [m EXCEPT !.fault = "dominator->final_values.try_get(sym, &to_fuse)"].fault # NoFault
        /\ [m EXCEPT !.fault = "fuse full"].fault # NoFault
    BY <2>1, MachineFails, Zenon
  <2> HIDE DEF m, own, known, fits, next
  <2> QED BY <1>1, <1>2, <1>5, <2>2, Zenon DEF Checked, Then
<1>7. to_fuse \in Seq(SsaIds(B))
  <2>1. CASE Len(own) = Len(predecessors)
    <3>1. to_fuse = own BY <2>1 DEF Reaching
    <3> QED BY <1>4, <3>1
  <2>2. CASE Len(own) # Len(predecessors)
    <3> DEFINE v == B.blocks[dominator].final_values[sym]
    <3>1. try_get(B.blocks[dominator], sym) BY <1>6, <2>2
    <3>2. ValueOf(B, dominator, v) BY <1>3, <3>1, Zenon DEF Code, FinalsLocal
    <3>3. v \in SsaIds(B) BY <3>2 DEF ValueOf
    <3>4. to_fuse = Append(own, v) BY <2>2 DEF Reaching
    <3> HIDE DEF v, own, to_fuse
    <3> QED BY <1>4, <3>3, <3>4
  <2> QED BY <2>1, <2>2
<1> HIDE DEF to_fuse
<1> QED BY <1>6, <1>7, FuseRuns

\* fused[k] is the machine that has joined the first k of the symbols.
FusesFrom(fused, m, symbols, dominator, merge) ==
    /\ fused[0] = m
    /\ \A k \in 1..Len(symbols) :
          fused[k] = Then(fused[k - 1], FuseSymbol(fused[k - 1], symbols[k], dominator, merge))
    /\ FuseAll(m, symbols, dominator, merge) = fused[Len(symbols)]

LEMMA FuseAllUnfolds ==
    ASSUME NEW m, NEW symbols, Len(symbols) \in Nat, NEW dominator, NEW merge
    PROVE  \E fused : FusesFrom(fused, m, symbols, dominator, merge)
<1> DEFINE n == Len(symbols)
           Next1(k, x) == Then(x, FuseSymbol(x, symbols[k], dominator, merge))
           Right(f, j) == f = [k \in 0..j |-> IF k = 0 THEN m ELSE Next1(k, f[k - 1])]
           J == {j \in 0..n : \E f : Right(f, j)}
<1>1. FuseAll(m, symbols, dominator, merge) = (CHOOSE f : Right(f, n))[n]
  BY Zenon DEF FuseAll
<1> HIDE DEF Next1
<1>2. 0 \in J
  <2> DEFINE f == [k \in 0..0 |-> m]
  <2>1. f = [k \in 0..0 |-> IF k = 0 THEN m ELSE Next1(k, f[k - 1])] OBVIOUS
  <2>2. 0 \in 0..n OBVIOUS
  <2> HIDE DEF f
  <2> QED BY <2>1, <2>2
<1>3. ASSUME NEW j \in 1..n, j - 1 \in J PROVE j \in J
  <2>1. PICK f : Right(f, j - 1) BY <1>3
  <2> DEFINE g == [k \in 0..j |-> IF k = j THEN Next1(j, f[j - 1]) ELSE f[k]]
  <2>2. j \in 0..n /\ j # 0 /\ j \in Nat OBVIOUS
  <2>3. \A k \in 0..j : g[k] = IF k = 0 THEN m ELSE Next1(k, g[k - 1])
    <3> SUFFICES ASSUME NEW k \in 0..j PROVE g[k] = IF k = 0 THEN m ELSE Next1(k, g[k - 1])
      OBVIOUS
    <3>1. CASE k = j
      <4>1. j - 1 \in 0..j /\ j - 1 # j BY <2>2
      <4>2. g[j - 1] = f[j - 1] /\ g[j] = Next1(j, f[j - 1]) BY <2>2, <4>1
      <4> QED BY <2>2, <3>1, <4>2
    <3>2. CASE k # j
      <4>1. k \in 0..j - 1 /\ g[k] = f[k] BY <2>2, <3>2
      <4>2. k # 0 => k - 1 \in 0..j /\ k - 1 # j BY <2>2, <3>2
      <4>3. k # 0 => g[k - 1] = f[k - 1] BY <4>2
      <4>4. f[k] = IF k = 0 THEN m ELSE Next1(k, f[k - 1]) BY <2>1, <4>1, Zenon
      <4> HIDE DEF g
      <4> QED BY <4>1, <4>3, <4>4
    <3> QED BY <3>1, <3>2
  <2>4. Right(g, j)
    <3>1. g = [k \in 0..j |-> g[k]] OBVIOUS
    <3> HIDE DEF g
    <3> QED BY <2>3, <3>1, Zenon
  <2> HIDE DEF g, Right
  <2> QED BY <2>2, <2>4
<1> HIDE DEF J
<1>4. n \in J
  <2>1. \A j \in 0..n : j \in J BY <1>2, <1>3, UpTo, Zenon
  <2> QED BY <2>1
<1> DEFINE fused == CHOOSE f : Right(f, n)
<1>5. Right(fused, n)
  <2>1. \E f : Right(f, n) BY <1>4 DEF J
  <2> QED BY <2>1, Zenon
<1>6. FuseAll(m, symbols, dominator, merge) = fused[n] BY <1>1
<1> HIDE DEF fused
<1>7. fused[0] = m /\ \A k \in 1..n : fused[k] = Next1(k, fused[k - 1])
  <2>1. 0 \in 0..n /\ \A k \in 1..n : k \in 0..n /\ k # 0 OBVIOUS
  <2> QED BY <1>5, <2>1
<1> QED BY <1>6, <1>7 DEF Next1, FusesFrom

LEMMA FuseAllRuns ==
    ASSUME NEW B, NEW L, NEW T, Running(B, L, T), NEW symbols \in Seq(Symbols),
           NEW dominator \in BlockIds(B), NEW merge \in BlockIds(B),
           NEW r, r = FuseAll(machine(B, L, T), symbols, dominator, merge)
    PROVE  RunsOn(B, L, T, r)
<1> DEFINE m == machine(B, L, T)
<1>1. Len(symbols) \in Nat OBVIOUS
<1> HIDE DEF m
<1>0. PICK fused : FusesFrom(fused, m, symbols, dominator, merge)
  BY <1>1, FuseAllUnfolds, Zenon
<1>2. /\ fused[0] = m
      /\ \A k \in 1..Len(symbols) :
            fused[k] = Then(fused[k - 1], FuseSymbol(fused[k - 1], symbols[k], dominator, merge))
      /\ FuseAll(m, symbols, dominator, merge) = fused[Len(symbols)]
  BY <1>0, Zenon DEF FusesFrom
<1> DEFINE n == Len(symbols)
<1> DEFINE K == {k \in 0..n : RunsOn(B, L, T, fused[k])}
<1>3. 0 \in K
  <2>1. fused[0] = machine(B, L, T) BY <1>2 DEF m
  <2>2. RunsOn(B, L, T, machine(B, L, T)) BY FollowsItself, Zenon DEF RunsOn
  <2>3. 0 \in 0..n BY <1>1
  <2> QED BY <2>1, <2>2, <2>3
<1>4. ASSUME NEW k \in 1..n, k - 1 \in K PROVE k \in K
  <2> DEFINE x == fused[k - 1]
             y == FuseSymbol(x, symbols[k], dominator, merge)
  <2>1. fused[k] = Then(x, y) /\ RunsOn(B, L, T, x) BY <1>2, <1>4
  <2>2. k \in 0..n /\ symbols[k] \in Symbols BY <1>1
  <2>3. CASE x.fault # NoFault
    <3>1. fused[k] = x BY <2>1, <2>3, Zenon DEF Then
    <3> QED BY <2>1, <2>2, <3>1
  <2>4. CASE x.fault = NoFault
    <3>1. PICK D : x = machine(D, L, T) /\ Running(D, L, T) /\ Follows(B, D)
      BY <2>1, <2>4, Zenon DEF RunsOn
    <3>2. fused[k] = y BY <2>1, <2>4, Zenon DEF Then
    <3>3. dominator \in BlockIds(D) /\ merge \in BlockIds(D) BY <3>1, Zenon DEF Follows, Settled
    <3>4. y = FuseSymbol(machine(D, L, T), symbols[k], dominator, merge) BY <3>1
    <3> HIDE DEF x, y
    <3>5. RunsOn(D, L, T, y) BY <2>2, <3>1, <3>3, <3>4, FuseSymbolRuns
    <3>6. RunsOn(B, L, T, y)
      <4> SUFFICES ASSUME y.fault = NoFault
                   PROVE  \E E : y = machine(E, L, T) /\ Running(E, L, T) /\ Follows(B, E)
        BY DEF RunsOn
      <4>1. PICK E : y = machine(E, L, T) /\ Running(E, L, T) /\ Follows(D, E)
        BY <3>5, Zenon DEF RunsOn
      <4>2. Follows(B, E) BY <3>1, <4>1, FollowsTransitive
      <4> QED BY <4>1, <4>2
    <3> QED BY <2>2, <3>2, <3>6
  <2> QED BY <2>3, <2>4
<1>5. n \in K
  <2> HIDE DEF K
  <2>1. \A k \in 0..n : k \in K BY <1>1, <1>3, <1>4, UpTo, Zenon
  <2> QED BY <1>1, <2>1
<1>6. r = fused[n] BY <1>2 DEF m
<1> QED BY <1>5, <1>6

LEMMA emit_stmt_ifs_mergeRuns ==
    ASSUME NEW B, NEW L, NEW T \in Seq(Task), NEW t \in Task, Merging(t), Good(B, L, Append(T, t)),
           NEW r, r = emit_stmt_ifs_merge(machine(B, L, T), t)
    PROVE  Runs(B, r)
<1> DEFINE m == machine(B, L, T)
           merge == t.merge_block
           no_else == Local(Ir(m, end_block(unconditional_branch(m.ir, merge))), end_scope(m.locals))
           m1 == IF m.ir.current_block # NULL THEN no_else ELSE m
           opened == Ir(m1, start_block(m1.ir, merge, m1.locals.current_scope))
           m2 == Then(m1, opened)
           scope == m2.locals.current_scope
           ok1 == m2.ir.blocks[t.arg1].scope = scope
           ok2 == m2.ir.blocks[merge].scope = scope
           next == FuseAll(m2, VisibleSymbols(m2.locals), t.arg1, merge)
<1>1. SUFFICES ASSUME r.fault = NoFault PROVE Runs(B, r) BY DEF Runs
<1>2. m.ir = B /\ m.locals = L /\ m.fault = NoFault BY MachineFields
<1>3. r = Checked(m2, ok1, "dominator->scope == current_scope",
          Checked(m2, ok2, "merge_block->scope == current_scope", next))
  BY Zenon DEF emit_stmt_ifs_merge
<1>4. /\ t.func = "emit_stmt_ifs" /\ t.step = STEP_MERGE /\ ~ ClosesScope(t) /\ Opens(t) = merge
      /\ ~ IsArm(t) /\ ~ ClosesArm(t) /\ UnderArm(t)
  BY DEF Merging, Is, ClosesScope, ClosesArm, IsArm, Opens, UnderArm,
         STEP_MERGE, STEP_AFTER_CONDITION, STEP_AFTER_STATEMENT
<1>5. /\ Code(B) /\ Scoped(L) /\ Stacked(B, T, {merge}) /\ Shaped(B, t) /\ Above(T, t)
      /\ merge # NULL => merge \in Unstarted(B)
      /\ NoneEvaluating(T) /\ Cardinality(Closers(T)) \in Nat
      /\ Depth(L) = Cardinality(Closers(T)) + 1
      /\ B.current_block # NULL => ~ is_not_empty(B)
  BY <1>4, TaskPopped, Zenon
<1>6. t.arg1 \in BlockIds(B) /\ merge # NULL /\ merge \in Unstarted(B)
  BY <1>4, <1>5 DEF Shaped, IsArm, ClosesArm, Is, STEP_MERGE, STEP_AFTER_CONDITION, STEP_AFTER_STATEMENT
<1>7. m2.fault = NoFault
  <2> HIDE DEF m2, ok1, ok2, next
  <2> QED BY <1>1, <1>3, Zenon DEF Checked, Then
<1>8. m1.fault = NoFault /\ m2 = opened
  <2> HIDE DEF m1, opened
  <2> QED BY <1>7, ThenPasses, Zenon
\* With a block open there would be nothing in it, and end_block refuses that.
<1>9. B.current_block = NULL
  <2> SUFFICES ASSUME B.current_block # NULL PROVE FALSE OBVIOUS
  <2> DEFINE J == unconditional_branch(B, merge)
  <2>1. m1 = Local(Ir(machine(B, L, T), end_block(J)), end_scope(L)) BY <1>2
  <2>2. /\ end_block(J).fault = NoFault /\ J.fault = NoFault
    <3> DEFINE n == Ir(machine(B, L, T), end_block(J))
               E == end_block(J)
    <3>1. n.fault = NoFault
      <4>1. m1 = Local(n, end_scope(L)) BY <2>1
      <4> HIDE DEF m1, n
      <4> QED BY <1>8, <4>1, StillFailed, Zenon
    <3>2. E.fault = NoFault
      <4>1. n = Ir(machine(B, L, T), E) OBVIOUS
      <4> HIDE DEF n, E
      <4> QED BY <3>1, <4>1, IrCall
    <3> QED BY <3>2, StillFailed, Zenon
  <2>3. /\ Kept(B, J) /\ SameSsas(B, J) /\ SameMode(B, J)
        /\ J.blocks[B.current_block].head = B.blocks[B.current_block].head
    BY <1>5, <1>6, <2>2, unconditional_branchPasses
  <2> HIDE DEF J
  <2>4. is_not_empty(J) BY <2>2, <2>3, end_blockPasses DEF Kept
  <2>5. is_not_empty(B) BY <2>3, <2>4 DEF is_not_empty, SameSsas, SameMode
  <2> QED BY <1>5, <2>5
<1> DEFINE C == start_block(B, merge, L.current_scope)
<1>10. m2 = Ir(machine(B, L, T), C) BY <1>2, <1>8, <1>9
<1> HIDE DEF opened, m1, C, m2
<1>11. C.fault = NoFault /\ m2 = machine(C, L, T) BY <1>7, <1>10, IrCall
<1>12. L.current_scope \in Nat BY <1>5, ScopedTyped
<1>13. /\ Code(C) /\ Follows(B, C) /\ C.current_block = merge
       /\ BlockIds(C) = BlockIds(B) /\ Unstarted(C) = Unstarted(B) \ {merge}
       /\ merge \in BlockIds(B)
  BY <1>5, <1>6, <1>11, <1>12, start_blockPasses DEF C
<1>14. Running(C, L, T)
  <2>1. Stacked(C, T, {})
    <3>1. Unstarted(C) \ {} = Unstarted(B) \ {merge} BY <1>13
    <3> QED BY <1>5, <1>13, <3>1, KeptStack
  <2>2. Values(C, T) BY <1>5 DEF Values, NoneEvaluating
  <2>3. Plain(T) BY <1>4, <1>5 DEF Plain, Above
  <2>4. Balanced(L, T) BY <1>5 DEF Balanced
  <2> QED BY <1>5, <1>6, <1>13, <2>1, <2>2, <2>3, <2>4 DEF Running
<1>15. r = next
  <2>1. /\ "dominator->scope == current_scope" # NoFault
        /\ "merge_block->scope == current_scope" # NoFault
    BY DEF NoFault
  <2>2. /\ [m2 EXCEPT !.fault = "dominator->scope == current_scope"].fault # NoFault
        /\ [m2 EXCEPT !.fault = "merge_block->scope == current_scope"].fault # NoFault
    BY <1>11, <2>1, MachineFails, Zenon
  <2> HIDE DEF ok1, ok2, next
  <2> QED BY <1>1, <1>3, <1>7, <2>2, Zenon DEF Checked, Then
<1>16. r = FuseAll(machine(C, L, T), VisibleSymbols(L), t.arg1, merge)
  BY <1>11, <1>15, MachineFields
<1>17. VisibleSymbols(L) \in Seq(Symbols) BY <1>5, VisibleAreSymbols
<1>18. RunsOn(C, L, T, r) BY <1>6, <1>13, <1>14, <1>16, <1>17, FuseAllRuns
<1>19. Runs(C, r) BY <1>18, Zenon DEF Runs, RunsOn
<1> QED BY <1>13, <1>19, RunsAfter

-----------------------------------------------------------------------------
(***************************************************************************)
(* The whole machine: what holds between two tasks, and when all are done. *)
(***************************************************************************)
EmitInv == /\ Code(ir) /\ Scoped(locals) /\ Stacked(ir, tasks, {})
           /\ Balanced(locals, tasks) /\ Values(ir, tasks)
           /\ IF emitted THEN tasks = <<>> ELSE Ready(ir, tasks)

\* A step that keeps the invariant and what earlier steps have finished
StepKeeps == EmitInv' /\ Follows(ir, ir')

\* The task taken off the stack, and the machine its handler is given
LEMMA PoppedMachine ==
    ASSUME EmitInv, fault = NoFault, tasks # <<>>
    PROVE  /\ ~ emitted /\ Front(tasks) \in Seq(Task) /\ Top \in Task
           /\ Good(ir, locals, Append(Front(tasks), Top))
           /\ Popped = machine(ir, locals, Front(tasks))
<1>1. ~ emitted BY DEF EmitInv
<1>2. tasks \in Seq(Task) BY DEF EmitInv, Stacked
<1>3. /\ Front(tasks) \in Seq(Task) /\ Top \in Task /\ tasks = Append(Front(tasks), Top)
  BY <1>2, TopOfStack DEF Top
<1>4. Good(ir, locals, tasks) BY <1>1 DEF EmitInv, Good
<1>5. Popped = machine(ir, locals, Front(tasks)) BY DEF Popped, Machine, machine
<1> QED BY <1>1, <1>3, <1>4, <1>5, Zenon

LEMMA BecomeKeeps ==
    ASSUME EmitInv, ~ emitted, emitted' = emitted, NEW STATE m, GoesOn(ir, m), Become(m)
    PROVE  StepKeeps
<1>1. CASE m.fault = NoFault
  <2>1. PICK C, M, U : m = machine(C, M, U) /\ Good(C, M, U) /\ Follows(ir, C)
    BY <1>1, Zenon DEF GoesOn
  <2>2. ir' = C /\ locals' = M /\ tasks' = U
    <3>1. ir' = m.ir /\ locals' = m.locals /\ tasks' = m.tasks BY <1>1 DEF Become
    <3> QED BY <2>1, <3>1, MachineFields
  <2>3. EmitInv' BY <2>1, <2>2, Zenon DEF EmitInv, Good
  <2> QED BY <2>1, <2>2, <2>3, Zenon DEF StepKeeps
<1>2. CASE m.fault # NoFault
  <2>1. ir' = ir /\ locals' = locals /\ tasks' = tasks BY <1>2 DEF Become
  <2>2. EmitInv' BY <2>1, Zenon DEF EmitInv
  <2> QED BY <2>1, <2>2, FollowsItself, Zenon DEF StepKeeps
<1> QED BY <1>1, <1>2

\* The last step: the open block, if there is one, returns and ends.
LEMMA EndEmitKeeps ==
    ASSUME EmitInv, EndEmit
    PROVE  StepKeeps
<1> DEFINE B == IF current(Machine).br = "UNUSED" THEN ret(ir, NULL) ELSE ir
           C == end_block(B)
           m == IF ir.current_block # NULL THEN Ir(Machine, C) ELSE Machine
<1>1. fault = NoFault /\ tasks = <<>> /\ ~ emitted /\ Become(m) /\ emitted' = TRUE
  BY Zenon DEF EndEmit
<1>2. Machine = machine(ir, locals, tasks) BY <1>1 DEF Machine, machine
<1>3. /\ Code(ir) /\ Scoped(locals) /\ Stacked(ir, tasks, {}) /\ Balanced(locals, tasks)
      /\ Values(ir, tasks) /\ ir.current_block # NULL
  BY <1>1 DEF EmitInv, Ready
<1>4. m = Ir(machine(ir, locals, tasks), C) BY <1>2, <1>3
<1> HIDE DEF m
<1>5. CASE m.fault = NoFault
  <2>1. C.fault = NoFault /\ m = machine(C, locals, tasks)
    <3> HIDE DEF C
    <3> QED BY <1>4, <1>5, IrCall
  <2>2. ir' = C /\ locals' = locals /\ tasks' = tasks
    <3>1. ir' = m.ir /\ locals' = m.locals /\ tasks' = m.tasks BY <1>1, <1>5 DEF Become
    <3> HIDE DEF C
    <3> QED BY <2>1, <3>1, MachineFields
  <2>3. Code(B) /\ Follows(ir, B) /\ BlockIds(B) = BlockIds(ir) /\ Unstarted(B) = Unstarted(ir)
    <3>1. CASE current(Machine).br = "UNUSED"
      <4> DEFINE i == instruction(ir, "ret", {"no_value"}, NULL, NULL)
      <4>1. B = ret(ir, NULL) BY <3>1
      <4>2. B.fault = NoFault BY <2>1, StillFailed, Zenon
      <4>3. NULL \in Nat BY DEF NULL
      <4> HIDE DEF B
      <4>4. Emitted(ir, i, B) BY <1>3, <4>1, <4>2, <4>3, retPasses, Zenon
      <4> QED BY <4>4, Zenon DEF Emitted
    <3>2. CASE current(Machine).br # "UNUSED"
      <4>1. B = ir BY <3>2
      <4> QED BY <1>3, <4>1, FollowsItself, Zenon
    <3> QED BY <3>1, <3>2
  <2> HIDE DEF B
  <2>4. Kept(B, C) BY <2>1, <2>3, end_blockPasses, Zenon
  <2>5. /\ Code(C) /\ Follows(ir, C)
        /\ BlockIds(C) = BlockIds(ir) /\ Unstarted(C) = Unstarted(ir)
    <3> HIDE DEF C
    <3> QED BY <2>3, <2>4, FollowsTransitive DEF Kept
  <2> HIDE DEF C
  <2>6. Stacked(C, tasks, {}) BY <1>3, <2>5, KeptStack
  <2>7. Values(C, tasks) BY <1>1 DEF Values
  <2>8. EmitInv' BY <1>1, <1>3, <2>2, <2>5, <2>6, <2>7, Zenon DEF EmitInv
  <2> QED BY <2>2, <2>5, <2>8, Zenon DEF StepKeeps
<1>6. CASE m.fault # NoFault
  <2>1. ir' = ir /\ locals' = locals /\ tasks' = tasks BY <1>1, <1>6, Zenon DEF Become
  <2>2. EmitInv' BY <1>1, <1>3, <2>1, Zenon DEF EmitInv
  <2> QED BY <2>1, <2>2, FollowsItself, Zenon DEF StepKeeps
<1> QED BY <1>5, <1>6

LEMMA NextKeeps == EmitInv /\ [Next]_vars => StepKeeps
<1> SUFFICES ASSUME EmitInv, [Next]_vars PROVE StepKeeps
  OBVIOUS
<1> DEFINE T == Front(tasks)
           t == Top
\* Each of the other handlers is run with the task on top taken off.
<1>1. ASSUME NEW func, NEW step, Popping(func, step)
      PROVE  /\ ~ emitted /\ emitted' = emitted /\ T \in Seq(Task) /\ t \in Task
             /\ Good(ir, locals, Append(T, t)) /\ Popped = machine(ir, locals, T)
             /\ Is(t, func, step)
  <2>1. fault = NoFault /\ tasks # <<>> /\ Is(Top, func, step) /\ emitted' = emitted
    BY <1>1, Zenon DEF Popping, Is
  <2> QED BY <2>1, PoppedMachine
<1>2. ASSUME NEW func, NEW step, Popping(func, step),
             func \notin {"emit_stmt_ifs", "emit_stmt_block"}
      PROVE  /\ Running(ir, locals, T) /\ Shaped(ir, t) /\ t.func = func /\ t.step = step
             /\ func # "emit_exp_binary" => NoneEvaluating(T)
             /\ Evaluating(t) => ValuesSince(ir, t)
  <2>1. /\ T \in Seq(Task) /\ t \in Task /\ Good(ir, locals, Append(T, t))
        /\ t.func = func /\ t.step = step
    BY <1>1, <1>2, Zenon DEF Is
  <2>2. Simple(t) BY <1>2, <2>1 DEF Simple
  <2> HIDE DEF T, t
  <2>3. /\ Running(ir, locals, T) /\ Shaped(ir, t)
        /\ t.func # "emit_exp_binary" => NoneEvaluating(T)
        /\ Evaluating(t) => ValuesSince(ir, t)
    BY <2>1, <2>2, SimplePopped, Zenon
  <2> QED BY <2>1, <2>3
<1>3. ASSUME NEW func, NEW step, Popping(func, step), NEW STATE m, GoesOn(ir, m), Become(m)
      PROVE  StepKeeps
  BY <1>1, <1>3, BecomeKeeps, Zenon
<1>4. ASSUME NEW func, NEW step, Popping(func, step), NEW STATE m, Runs(ir, m), Become(m)
      PROVE  StepKeeps
  BY <1>3, <1>4, RunsGoesOn, Zenon
<1>5. CASE EmitStmt
  <2> DEFINE m == emit_stmt(Popped, t.node)
  <2>1. Popping("emit_stmt", 0) /\ Become(m) BY <1>5, Zenon DEF EmitStmt
  <2>2. /\ Running(ir, locals, T) /\ Shaped(ir, t) /\ t.func = "emit_stmt" /\ t.step = 0
        /\ NoneEvaluating(T) /\ Popped = machine(ir, locals, T)
    BY <1>1, <1>2, <2>1
  <2>3. t.node \in Stmts
    BY <2>2 DEF Shaped, Is, IsArm, ClosesArm, Merging
  <2>4. Runs(ir, m) BY <2>2, <2>3, emit_stmtRuns
  <2> HIDE DEF m
  <2> QED BY <1>4, <2>1, <2>4, Zenon
<1>6. CASE EmitExp
  <2> DEFINE m == emit_exp(Popped, t.node, "READ", NULL)
  <2>1. Popping("emit_exp", 0) /\ Become(m) BY <1>6, Zenon DEF EmitExp
  <2>2. /\ Running(ir, locals, T) /\ Shaped(ir, t) /\ t.func = "emit_exp" /\ t.step = 0
        /\ Popped = machine(ir, locals, T)
    BY <1>1, <1>2, <2>1
  <2>3. t.node \in AnyExp BY <2>2 DEF Shaped, Is, IsArm, ClosesArm, Merging
  <2>4. Runs(ir, m) BY <2>2, <2>3, emit_expRuns
  <2> HIDE DEF m
  <2> QED BY <1>4, <2>1, <2>4, Zenon
<1>7. CASE BinaryRight
  <2> DEFINE m == emit_exp_binary_1(Popped, t)
  <2>1. Popping("emit_exp_binary", 1) /\ Become(m) BY <1>7, Zenon DEF BinaryRight
  <2>2. /\ Running(ir, locals, T) /\ Shaped(ir, t) /\ t.func = "emit_exp_binary" /\ t \in Task
        /\ Evaluating(t) => ValuesSince(ir, t)
        /\ Popped = machine(ir, locals, T)
    BY <1>1, <1>2, <2>1
  <2>3. ValuesSince(ir, t) BY <2>2 DEF Evaluating
  <2>4. t.node \in AnyExp /\ t.node.kind = "exp_binary"
    BY <2>2 DEF Shaped, Is, IsArm, ClosesArm, Merging
  <2>5. Runs(ir, m) BY <2>2, <2>3, <2>4, emit_exp_binary_1Runs
  <2> HIDE DEF m
  <2> QED BY <1>4, <2>1, <2>5, Zenon
<1>8. CASE BinaryDone
  <2> DEFINE m == emit_exp_binary_2(Popped, t)
  <2>1. Popping("emit_exp_binary", 2) /\ Become(m) BY <1>8, Zenon DEF BinaryDone
  <2>2. /\ Running(ir, locals, T) /\ t.func = "emit_exp_binary" /\ t.step = 2 /\ t \in Task
        /\ Evaluating(t) => ValuesSince(ir, t)
        /\ Popped = machine(ir, locals, T)
    BY <1>1, <1>2, <2>1
  <2>3. ValuesSince(ir, t) BY <2>2 DEF Evaluating
  <2>4. Runs(ir, m) BY <2>2, <2>3, emit_exp_binary_2Runs
  <2> HIDE DEF m
  <2> QED BY <1>4, <2>1, <2>4, Zenon
<1>9. CASE AssignDone
  <2> DEFINE m == emit_stmt_assign_1(Popped, t)
  <2>1. Popping("emit_stmt_assign", 1) /\ Become(m) BY <1>9, Zenon DEF AssignDone
  <2>2. /\ Running(ir, locals, T) /\ Shaped(ir, t) /\ t.func = "emit_stmt_assign" /\ t \in Task
        /\ Evaluating(t) => ValuesSince(ir, t)
        /\ Popped = machine(ir, locals, T)
    BY <1>1, <1>2, <2>1
  <2>3. ValuesSince(ir, t) BY <2>2 DEF Evaluating
  <2>4. t.node \in Stmts /\ t.node.kind = "stmt_assign"
    BY <2>2 DEF Shaped, Is, IsArm, ClosesArm, Merging
  <2>5. Runs(ir, m) BY <2>2, <2>3, <2>4, emit_stmt_assign_1Runs
  <2> HIDE DEF m
  <2> QED BY <1>4, <2>1, <2>5, Zenon
<1>10. CASE DeclDone
  <2> DEFINE m == emit_stmt_local_decl_1(Popped, t)
  <2>1. Popping("emit_stmt_local_decl", 1) /\ Become(m) BY <1>10, Zenon DEF DeclDone
  <2>2. /\ Running(ir, locals, T) /\ t.func = "emit_stmt_local_decl" /\ t \in Task
        /\ Evaluating(t) => ValuesSince(ir, t)
        /\ Popped = machine(ir, locals, T)
    BY <1>1, <1>2, <2>1
  <2>3. ValuesSince(ir, t) BY <2>2 DEF Evaluating
  <2>4. Runs(ir, m) BY <2>2, <2>3, emit_stmt_local_decl_1Runs
  <2> HIDE DEF m
  <2> QED BY <1>4, <2>1, <2>4, Zenon
<1>11. CASE ReturnDone
  <2> DEFINE m == emit_stmt_return_1(Popped, t)
  <2>1. Popping("emit_stmt_return", 1) /\ Become(m) BY <1>11, Zenon DEF ReturnDone
  <2>2. /\ Running(ir, locals, T) /\ t.func = "emit_stmt_return" /\ t \in Task
        /\ Evaluating(t) => ValuesSince(ir, t)
        /\ NoneEvaluating(T) /\ Popped = machine(ir, locals, T)
    BY <1>1, <1>2, <2>1
  <2>3. ValuesSince(ir, t) BY <2>2 DEF Evaluating
  <2>4. Runs(ir, m) BY <2>2, <2>3, emit_stmt_return_1Runs
  <2> HIDE DEF m
  <2> QED BY <1>4, <2>1, <2>4, Zenon
<1>12. CASE BlockDone
  <2> DEFINE m == emit_stmt_block_1(Popped)
  <2>1. Popping("emit_stmt_block", 1) /\ Become(m) BY <1>12, Zenon DEF BlockDone
  <2>2. /\ T \in Seq(Task) /\ t \in Task /\ Good(ir, locals, Append(T, t))
        /\ Is(t, "emit_stmt_block", 1) /\ Popped = machine(ir, locals, T)
    BY <1>1, <2>1
  <2>3. GoesOn(ir, m) BY <2>2, emit_stmt_block_1GoesOn
  <2> HIDE DEF m
  <2> QED BY <1>3, <2>1, <2>3, Zenon
<1>13. CASE IfsAfterCondition
  <2> DEFINE m == emit_stmt_ifs_after_condition(Popped, t)
  <2>1. Popping("emit_stmt_ifs", STEP_AFTER_CONDITION) /\ Become(m)
    BY <1>13, Zenon DEF IfsAfterCondition
  <2>2. /\ T \in Seq(Task) /\ t \in Task /\ Good(ir, locals, Append(T, t))
        /\ IsArm(t) /\ Popped = machine(ir, locals, T)
    BY <1>1, <2>1 DEF IsArm
  <2>3. Runs(ir, m) BY <2>2, emit_stmt_ifs_after_conditionRuns
  <2> HIDE DEF m
  <2> QED BY <1>4, <2>1, <2>3, Zenon
<1>14. CASE IfsAfterStatement
  <2> DEFINE m == emit_stmt_ifs_after_statement(Popped, t)
  <2>1. Popping("emit_stmt_ifs", STEP_AFTER_STATEMENT) /\ Become(m)
    BY <1>14, Zenon DEF IfsAfterStatement
  <2>2. /\ T \in Seq(Task) /\ t \in Task /\ Good(ir, locals, Append(T, t))
        /\ ClosesArm(t) /\ Popped = machine(ir, locals, T)
    BY <1>1, <2>1 DEF ClosesArm
  <2>3. GoesOn(ir, m) BY <2>2, emit_stmt_ifs_after_statementGoesOn
  <2> HIDE DEF m
  <2> QED BY <1>3, <2>1, <2>3, Zenon
<1>15. CASE IfsMerge
  <2> DEFINE m == emit_stmt_ifs_merge(Popped, t)
  <2>1. Popping("emit_stmt_ifs", STEP_MERGE) /\ Become(m) BY <1>15, Zenon DEF IfsMerge
  <2>2. /\ T \in Seq(Task) /\ t \in Task /\ Good(ir, locals, Append(T, t))
        /\ Merging(t) /\ Popped = machine(ir, locals, T)
    BY <1>1, <2>1 DEF Merging
  <2>3. Runs(ir, m) BY <2>2, emit_stmt_ifs_mergeRuns
  <2> HIDE DEF m
  <2> QED BY <1>4, <2>1, <2>3, Zenon
<1>16. CASE EndEmit BY <1>16, EndEmitKeeps
<1>17. CASE Exited \/ UNCHANGED vars
  <2>1. ir' = ir /\ locals' = locals /\ tasks' = tasks /\ emitted' = emitted
    BY <1>17 DEF Exited, vars
  <2>2. EmitInv' BY <2>1, Zenon DEF EmitInv
  <2> QED BY <2>1, <2>2, FollowsItself, Zenon DEF StepKeeps
<1> QED BY <1>5, <1>6, <1>7, <1>8, <1>9, <1>10, <1>11, <1>12, <1>13, <1>14, <1>15,
           <1>16, <1>17 DEF Next, EmitNext

-----------------------------------------------------------------------------
\* The caller has opened the entry block in the root scope, and the tree waits.
LEMMA NewTable == Scoped(NewSymbolTable) /\ Depth(NewSymbolTable) = 1
<1> DEFINE none == [scopes |-> <<>>, symbols |-> <<>>, current_scope |-> NULL, fault |-> NoFault]
           L == [scopes |-> <<[parent |-> NULL, decl_symbols |-> <<>>]>>, symbols |-> <<>>,
                 current_scope |-> 1, fault |-> NoFault]
<1>1. NewSymbolTable = L
  <2>1. Len(none.scopes) < MaxScopes BY EmitBounds, SymbolBounds
  <2>2. NewSymbolTable = Checked(none, Len(none.scopes) < MaxScopes, "Arena reached max capacity",
             [none EXCEPT !.scopes = Append(@, [parent |-> none.current_scope, decl_symbols |-> <<>>]),
                          !.current_scope = Len(none.scopes) + 1])
    BY Zenon DEF NewSymbolTable, new_scope
  <2>3. NewSymbolTable =
            [none EXCEPT !.scopes = Append(@, [parent |-> none.current_scope, decl_symbols |-> <<>>]),
                         !.current_scope = Len(none.scopes) + 1]
    <3>1. none.fault = NoFault OBVIOUS
    <3> HIDE DEF none
    <3> QED BY <2>1, <2>2, <3>1, Zenon DEF Checked, Then
  <2> DEFINE q == [parent |-> NULL, decl_symbols |-> <<>>]
             first == [parent |-> none.current_scope, decl_symbols |-> <<>>]
  <2>4. first = q /\ none.scopes = <<>> OBVIOUS
  <2>5. Append(<<>>, q) = <<q>> /\ Len(<<>>) + 1 = 1
    <3> HIDE DEF q
    <3> QED OBVIOUS
  <2>6. NewSymbolTable = [none EXCEPT !.scopes = Append(@, first), !.current_scope = Len(none.scopes) + 1]
    BY <2>3
  <2>7. NewSymbolTable = [none EXCEPT !.scopes = <<q>>, !.current_scope = 1]
    <3> HIDE DEF none, q, first
    <3> QED BY <2>4, <2>5, <2>6
  <2> QED BY <2>7, Zenon
<1>2. /\ L.scopes = <<[parent |-> NULL, decl_symbols |-> <<>>]>> /\ L.symbols = <<>>
      /\ L.current_scope = 1 /\ L.fault = NoFault
      /\ DOMAIN L = {"scopes", "symbols", "current_scope", "fault"}
  OBVIOUS
<1>3. Scoped(L)
  <2>1. L.scopes \in Seq(scope_t) BY <1>2 DEF scope_t, NULL
  <2>2. L \in running_table
    <3>1. L.symbols \in Seq([scope_decl : Nat]) BY <1>2
    <3> QED BY <1>2, <2>1, <3>1 DEF running_table
  <2>3. ScopeIds(L) = {1} BY <1>2 DEF ScopeIds
  <2>4. L.scopes[1].parent = NULL /\ Decls(L, 1) = <<>> BY <1>2 DEF Decls
  <2>5. Len(L.symbols) <= MaxSymbols BY <1>2, SymbolBounds
  <2> HIDE DEF L
  <2>6. \A s \in ScopeIds(L) : /\ L.scopes[s].parent \in 0..s - 1
                               /\ \A k \in 1..Len(Decls(L, s)) : Decls(L, s)[k] \in 1..Len(L.symbols)
    BY <2>3, <2>4 DEF NULL
  <2> QED BY <1>2, <2>2, <2>3, <2>5, <2>6 DEF Scoped
<1> HIDE DEF L
<1>4. Depth(L) = 1
  <2>1. PICK d : Depths(L, d) /\ Depth(L) = d[L.current_scope] BY <1>3, DepthUnfolds
  <2>2. 1 \in ScopeIds(L) /\ L.scopes[1].parent = 0 BY <1>2 DEF ScopeIds, NULL
  <2> QED BY <1>2, <2>1, <2>2 DEF Depths
<1> QED BY <1>1, <1>3, <1>4

LEMMA NewCode == Code(NewBuilder)
<1>1. /\ NewBuilder.blocks = <<>> /\ NewBuilder.ssas = <<>>
      /\ NewBuilder.fault = NoFault /\ NewBuilder.phi_start = NULL
  BY DEF NewBuilder
<1>2. BlockIds(NewBuilder) = {} /\ SsaIds(NewBuilder) = {} BY <1>1 DEF BlockIds, SsaIds
<1>3. Linked(NewBuilder) /\ FinalsLocal(NewBuilder) /\ OperandsLocal(NewBuilder)
  BY <1>2, Zenon DEF Linked, FinalsLocal, OperandsLocal
<1> QED BY <1>1, <1>3, NewBuilderExact, NewBuilderWired, NewBuilderSliced DEF Code

LEMMA InitHolds == Init => EmitInv
<1> SUFFICES ASSUME Init PROVE EmitInv
  OBVIOUS
<1> DEFINE A == alloc_block(NewBuilder)
           scope == NewSymbolTable.current_scope
           C == start_block(A, 1, scope)
           t == StatementTask(root)
<1>1. /\ root \in Programs /\ locals = NewSymbolTable /\ ir = C /\ tasks = <<t>> /\ emitted = FALSE
  BY Zenon DEF Init
<1>2. Scoped(locals) /\ Depth(locals) = 1 /\ scope \in Nat
  BY <1>1, NewTable, ScopedTyped
<1>3. /\ A.fault = NoFault /\ A.current_block = NULL
  <2>1. /\ NewBuilder.blocks = <<>> /\ NewBuilder.fault = NoFault /\ NewBuilder.current_block = NULL
    BY DEF NewBuilder
  <2>2. Len(NewBuilder.blocks) < MaxBlocks BY <2>1, EmitBounds, IrBounds
  <2>3. A = [NewBuilder EXCEPT !.blocks = Append(@, FreshBlock)]
    BY <2>1, <2>2, Zenon DEF alloc_block, Checked, Then
  <2> HIDE DEF A
  <2> QED BY <2>1, <2>3 DEF NewBuilder
<1>4. Code(A) /\ Unstarted(A) = {1} /\ BlockIds(A) = {1}
  <2>1. /\ last_block(NewBuilder) = 0 /\ BlockIds(NewBuilder) = {} /\ Unstarted(NewBuilder) = {}
    BY DEF NewBuilder, last_block, BlockIds, Unstarted
  <2>2. /\ Code(A) /\ last_block(A) = last_block(NewBuilder) + 1
        /\ BlockIds(A) = BlockIds(NewBuilder) \cup {last_block(A)}
        /\ Unstarted(A) = Unstarted(NewBuilder) \cup {last_block(A)}
    BY <1>3, NewCode, alloc_blockPasses
  <2> QED BY <2>1, <2>2
<1> HIDE DEF A
<1>5. C.fault = NoFault
  <2>1. C = Checked(A, 1 # NULL, "block != NULL",
            Checked(A, A.current_block = NULL, "current_block == NULL",
              WithCurrent(WithBlock(A, 1, [A.blocks[1] EXCEPT !.br = "UNUSED",
                                              !.head = Len(A.ssas) + 1, !.scope = scope]), 1)))
    BY Zenon DEF start_block
  <2>2. 1 # NULL BY DEF NULL
  <2>3. C = WithCurrent(WithBlock(A, 1, [A.blocks[1] EXCEPT !.br = "UNUSED",
                                            !.head = Len(A.ssas) + 1, !.scope = scope]), 1)
    BY <1>3, <2>1, <2>2, Zenon DEF Checked, Then
  <2> HIDE DEF C
  <2>4. A \in builder BY <1>4, CodeTyped
  <2>5. C.fault = A.fault BY <2>3, <2>4 DEF WithCurrent, WithBlock, builder
  <2> QED BY <1>3, <2>5
<1>6. Code(C) /\ C.current_block = 1 /\ BlockIds(C) = {1} /\ Unstarted(C) = {}
  <2>1. 1 \in Unstarted(A) BY <1>4
  <2>2. /\ Code(C) /\ C.current_block = 1
        /\ BlockIds(C) = BlockIds(A) /\ Unstarted(C) = Unstarted(A) \ {1}
    BY <1>2, <1>4, <1>5, <2>1, start_blockPasses
  <2> HIDE DEF C
  <2> QED BY <1>4, <2>2
<1> HIDE DEF C
<1>7. t \in Task /\ Is(t, "emit_stmt", 0) /\ t.node \in Stmts
  <2>1. root \in Stmts BY <1>1, ProgramTrees DEF TreesOf
  <2>2. 0 \in Nat /\ NULL \in Nat /\ "emit_stmt" \in Handlers BY DEF NULL, Handlers
  <2>3. root \in Stmts \cup AnyExp BY <2>1
  <2>4. t = task("emit_stmt", 0, root, NULL, NULL) BY DEF StatementTask
  <2> HIDE DEF t
  <2>5. t \in Task /\ t.func = "emit_stmt" /\ t.step = 0 /\ t.node = root
    BY <2>2, <2>3, <2>4, TaskFields
  <2> QED BY <2>1, <2>5 DEF Is
<1> HIDE DEF t
<1>8. /\ ~ IsArm(t) /\ ~ ClosesArm(t) /\ ~ Merging(t) /\ ~ ClosesScope(t) /\ ~ Evaluating(t)
      /\ ~ UnderArm(t) /\ Opens(t) = NULL /\ ~ BeforeJoin(t)
  BY <1>7 DEF IsArm, ClosesArm, Merging, ClosesScope, Evaluating, UnderArm, IsElse, Opens,
              BeforeJoin, Is
<1>9. tasks \in Seq(Task) /\ Len(tasks) = 1 /\ tasks[1] = t /\ 1..Len(tasks) = {1} /\ tasks # <<>>
  BY <1>1, <1>7
<1>10. Stacked(ir, tasks, {})
  <2>1. Unstarted(ir) = {} BY <1>1, <1>6
  <2>2. Waits(ir, tasks, {}) BY <1>8, <1>9, <2>1 DEF Waits
  <2>3. Shaped(ir, t) BY <1>7 DEF Shaped
  <2>4. SubSeq(tasks, 1, 0) = <<>> BY <1>9
  <2>5. Above(<<>>, t) BY <1>8 DEF Above
  <2>6. ASSUME NEW k \in 1..Len(tasks)
        PROVE  Shaped(ir, tasks[k]) /\ Above(SubSeq(tasks, 1, k - 1), tasks[k])
    <3>1. k = 1 /\ k - 1 = 0 BY <1>9
    <3> QED BY <1>9, <2>3, <2>4, <2>5, <3>1, Zenon
  <2> QED BY <1>9, <2>2, <2>6, Zenon DEF Stacked
<1>11. Balanced(locals, tasks)
  <2>1. Closers(tasks) = {} BY <1>8, <1>9 DEF Closers
  <2>2. Cardinality({}) = 0 BY FS_EmptySet
  <2> QED BY <1>2, <2>1, <2>2 DEF Balanced
<1>12. Values(ir, tasks) BY <1>8, <1>9 DEF Values
<1>13. Ready(ir, tasks) BY <1>1, <1>6, <1>8, <1>9 DEF Ready, NULL
<1> QED BY <1>1, <1>2, <1>6, <1>10, <1>11, <1>12, <1>13 DEF EmitInv

LEMMA AlwaysEmitInv == Spec => []EmitInv
<1>1. EmitInv /\ [Next]_vars => EmitInv' BY NextKeeps DEF StepKeeps
<1> QED BY <1>1, InitHolds, PTL DEF Spec

-----------------------------------------------------------------------------
(***************************************************************************)
(* The theorems.                                                           *)
(***************************************************************************)
\* Whatever the program, the emitter keeps the promises of the builder: exact
\* ranges, one open block at most, phi lists apart, and each edge listed once
\* with the block it enters.
THEOREM IrAlwaysSound == Spec => []IrSound
<1>1. EmitInv => IrSound
  <2> SUFFICES ASSUME EmitInv PROVE IrSound
    OBVIOUS
  <2>1. Code(ir) BY DEF EmitInv
  <2>2. BlocksOwnTheirRange(ir) /\ OneOpenBlock(ir) /\ PhisOwnTheirSlice(ir)
        /\ PredecessorsBranchHere(ir)
    BY <2>1, Zenon DEF Code, Exact, Sliced, Wired
  <2>3. ASSUME NEW p \in Blocks, NEW b \in Targets(ir.blocks[p])
        PROVE  Cardinality({k \in 1..Len(ir.blocks[b].predecessors) :
                               ir.blocks[b].predecessors[k] = p}) = 1
    <3> DEFINE n == Len(ir.blocks[b].predecessors)
               S == {k \in 1..n : ir.blocks[b].predecessors[k] = p}
    <3>1. PICK k \in 1..n : \A j \in 1..n : ir.blocks[b].predecessors[j] = p <=> j = k
      BY <2>1, <2>3, Zenon DEF Code, Linked, Blocks
    <3>2. S = {k} BY <3>1
    <3> HIDE DEF S
    <3>3. Cardinality(S) = 1 BY <3>2, FS_Singleton, Zenon
    <3> QED BY <3>3 DEF S
  <2> QED BY <2>2, <2>3, Zenon DEF IrSound
<1> QED BY <1>1, AlwaysEmitInv, PTL

\* Whatever the program, each arm and each nested block has one pending task
\* that will close its scope, and no other task closes one.
THEOREM ScopesAlwaysBalance == Spec => []ScopesBalance
<1>1. EmitInv => ScopesBalance BY Zenon DEF EmitInv, Balanced, ScopesBalance, Closers, Pending
<1> QED BY <1>1, AlwaysEmitInv, PTL

\* Whatever the program, a block that is allocated and not started waits in
\* exactly one pending task, and no task waits for a started one.
THEOREM TargetsAlwaysPending == Spec => []EveryTargetPending
<1>1. EmitInv => EveryTargetPending
  <2> SUFFICES ASSUME EmitInv, NEW b \in Blocks
               PROVE  Cardinality({k \in 1..Len(tasks) :
                          \/ Merging(tasks[k]) /\ tasks[k].merge_block = b
                          \/ ClosesArm(tasks[k]) /\ tasks[k].arg1 = b})
                        = IF Started(ir.blocks[b]) THEN 0 ELSE 1
    BY Zenon DEF EveryTargetPending, Pending
  <2> DEFINE S == {k \in 1..Len(tasks) : Opens(tasks[k]) = b}
  <2>1. b \in BlockIds(ir) /\ b # NULL BY DEF Blocks, BlockIds, NULL
  <2>2. \A t : (\/ Merging(t) /\ t.merge_block = b
                \/ ClosesArm(t) /\ t.arg1 = b) <=> Opens(t) = b
    BY <2>1 DEF Opens, Merging, ClosesArm, Is, STEP_MERGE, STEP_AFTER_STATEMENT
  <2>3. S = {k \in 1..Len(tasks) : \/ Merging(tasks[k]) /\ tasks[k].merge_block = b
                                   \/ ClosesArm(tasks[k]) /\ tasks[k].arg1 = b}
    BY <2>2, Zenon
  <2>4. Waits(ir, tasks, {}) BY DEF EmitInv, Stacked
  <2>5. CASE Started(ir.blocks[b])
    <3>1. S = {} BY <2>1, <2>4, <2>5 DEF Waits, Unstarted
    <3> HIDE DEF S
    <3>2. Cardinality(S) = 0 BY <3>1, FS_EmptySet
    <3> QED BY <2>3, <2>5, <3>2
  <2>6. CASE ~ Started(ir.blocks[b])
    <3>1. b \in Unstarted(ir) \ {} BY <2>1, <2>6 DEF Unstarted
    <3>2. PICK k \in 1..Len(tasks) : Opens(tasks[k]) = b BY <2>4, <3>1 DEF Waits
    <3>3. \A j \in 1..Len(tasks) : Opens(tasks[j]) = b => j = k
      BY <2>1, <2>4, <3>2, Zenon DEF Waits
    <3>4. S = {k} BY <3>2, <3>3
    <3> HIDE DEF S
    <3>5. Cardinality(S) = 1 BY <3>4, FS_Singleton, Zenon
    <3> QED BY <2>3, <2>6, <3>5
  <2> QED BY <2>5, <2>6
<1> QED BY <1>1, AlwaysEmitInv, PTL

\* Whatever the program, a block is open whenever a handler starts, except
\* for the merge after an else, which expects none.
THEOREM BlockAlwaysOpen == Spec => []OpenBlockBetweenTasks
<1>1. EmitInv => OpenBlockBetweenTasks
  BY DEF EmitInv, Ready, OpenBlockBetweenTasks, Top, Last
<1> QED BY <1>1, AlwaysEmitInv, PTL

\* Whatever the program, the final value of a symbol in a block is one of the
\* block's own instructions and has a value.
THEOREM FinalValuesStayLocal == Spec => []FinalValuesAreLocal
<1>1. EmitInv => FinalValuesAreLocal
  BY Zenon DEF EmitInv, Code, FinalsLocal, ValueOf, FinalValuesAreLocal, Blocks, Ssas
<1> QED BY <1>1, AlwaysEmitInv, PTL

\* Whatever the program, an instruction takes older instructions of its own
\* block that have a value: no operand needs a default.
THEOREM OperandsStayLocal == Spec => []OperandsAreLocal
<1>1. EmitInv => OperandsAreLocal
  <2> SUFFICES ASSUME EmitInv, NEW s \in Ssas, NEW o \in OperandsOf(ir.ssas[s])
               PROVE  /\ o \in 1..s - 1
                      /\ ir.ssas[o].block = ir.ssas[s].block
                      /\ ~ has_flag(ir.ssas[o], "no_value")
    BY Zenon DEF OperandsAreLocal, OperandsOf
  <2>1. o \in 1..s - 1 /\ ValueOf(ir, ir.ssas[s].block, o)
    BY Zenon DEF EmitInv, Code, OperandsLocal, Ssas
  <2> QED BY <2>1 DEF ValueOf
<1> QED BY <1>1, AlwaysEmitInv, PTL

\* Whatever the program, a block that has been left never changes again and a
\* block that has been entered gets no new predecessor.
THEOREM LeftBlocksStay == Spec => LeftBlocksFrozen
<1> DEFINE Stay == \A b \in Blocks :
                      /\ Ended(ir.blocks[b]) => ir'.blocks[b] = ir.blocks[b]
                      /\ Started(ir.blocks[b]) =>
                            ir'.blocks[b].predecessors = ir.blocks[b].predecessors
<1>1. EmitInv /\ [Next]_vars => [Stay]_vars
  <2> SUFFICES ASSUME EmitInv, [Next]_vars, NEW b \in Blocks
               PROVE  /\ Ended(ir.blocks[b]) => ir'.blocks[b] = ir.blocks[b]
                      /\ Started(ir.blocks[b]) =>
                            ir'.blocks[b].predecessors = ir.blocks[b].predecessors
    BY Zenon
  <2>1. StepKeeps BY NextKeeps
  <2>2. Frozen(ir, ir') /\ Settled(ir, ir') /\ b \in BlockIds(ir)
    BY <2>1, Zenon DEF StepKeeps, Follows, Blocks
  <2>3. Started(ir.blocks[b]) => ir'.blocks[b].predecessors = ir.blocks[b].predecessors
    BY <2>2, Zenon DEF Settled
  <2>4. ASSUME Ended(ir.blocks[b]) PROVE ir'.blocks[b] = ir.blocks[b]
    <3>1. Code(ir) /\ Code(ir') BY <2>1, Zenon DEF StepKeeps, EmitInv
    <3>2. Started(ir.blocks[b]) BY <2>2, <2>4, <3>1, Zenon DEF Code, Exact, OneOpenBlock
    <3>3. ir \in builder /\ ir' \in builder BY <3>1, CodeTyped
    <3>4. ir'.blocks[b] = [ir.blocks[b] EXCEPT !.predecessors = ir'.blocks[b].predecessors]
      BY <2>2, <2>4, <3>3, FrozenRecord
    <3>5. ir.blocks[b] \in bb BY <2>2, <3>3 DEF builder, BlockIds
    <3> QED BY <2>3, <3>2, <3>4, <3>5, Zenon DEF bb
  <2> QED BY <2>3, <2>4
<1> QED BY <1>1, AlwaysEmitInv, PTL DEF Spec, LeftBlocksFrozen

=============================================================================
