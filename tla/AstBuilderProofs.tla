-------------------------- MODULE AstBuilderProofs ---------------------------
(***************************************************************************)
(* Proofs about AstBuilder, for every capacity and every client.           *)
(*                                                                         *)
(* Statements S, expressions E and lists L only grow: what a node says of  *)
(* older ones stays true.  What has to be shown is what a new node says,   *)
(* and that a list in progress, in a slot that is used again and again,    *)
(* goes to one node and to no other.  The second half reads nodes as       *)
(* trees, and shows that each action does to them what TreeBuilder says.   *)
(***************************************************************************)
EXTENDS AstBuilder, SequenceTheorems, FiniteSetTheorems, WellFoundedInduction, TLAPS

StmtKinds == {"stmt_assign", "stmt_local_decl", "stmt_nop", "stmt_return", "UNUSED",
              "_stmt_raw_if", "stmt_block", "stmt_ifs"}
ExpKinds  == {"exp_binary", "UNUSED", "exp_ident", "exp_literal"}

\* A sequence, of whatever it holds
IsSeq(s) == Len(s) \in Nat /\ s \in Seq({s[i] : i \in 1..Len(s)})

StmtsOf(S)  == {s \in 1..Len(S) : S[s].kind # "_stmt_raw_if"}
PairsOf(S)  == 1..Len(S) \ StmtsOf(S)
IdentsOf(E) == {e \in 1..Len(E) : E[e].kind = "exp_ident"}
MaybeOf(E)  == 1..Len(E) \cup {NULL}
ListsOf(S)  == {s \in StmtsOf(S) : S[s].kind \in {"stmt_block", "stmt_ifs"}}
SliceOf(n)  == n.first .. n.first + n.count - 1

ExpIn(n, i) ==
    /\ n.kind \in ExpKinds
    /\ n.kind = "exp_binary"  => /\ n.left \in 1..i - 1 /\ n.right \in 1..i - 1 /\ n.op \in op
    /\ n.kind = "UNUSED"      => n.expression \in 1..i - 1
    /\ n.kind = "exp_ident"   => n.name \in Names
    /\ n.kind = "exp_literal" => n.val_u64 \in Literals

OlderStmt(S, s, i) == s \in 1..i - 1 /\ S[s].kind # "_stmt_raw_if"
OlderPair(S, s, i) == s \in 1..i - 1 /\ S[s].kind = "_stmt_raw_if"
Filled(L, n)   == n.first \in Nat \ {0} /\ n.count \in Nat \ {0} /\ SliceOf(n) \subseteq 1..Len(L)

StmtIn(S, E, L, n, i) ==
    /\ n.kind \in StmtKinds
    /\ n.kind = "stmt_assign"     => n.left \in MaybeOf(E) /\ n.right \in MaybeOf(E)
    /\ n.kind = "stmt_local_decl" => n.name \in IdentsOf(E) /\ n.maybe_expression \in MaybeOf(E)
    /\ n.kind = "stmt_return"     => n.maybe_expression \in MaybeOf(E)
    /\ n.kind = "UNUSED"          => OlderStmt(S, n.statement, i)
    /\ n.kind = "_stmt_raw_if"    =>
          n.maybe_condition \in MaybeOf(E) /\ OlderStmt(S, n.statement, i)
    /\ n.kind = "stmt_block"      => Filled(L, n) /\ \A k \in SliceOf(n) : OlderStmt(S, L[k], i)
    /\ n.kind = "stmt_ifs"        => Filled(L, n) /\ \A k \in SliceOf(n) : OlderPair(S, L[k], i)

Made(S, E, L) ==
    /\ IsSeq(S) /\ IsSeq(E) /\ L \in Seq(1..Len(S))
    /\ \A i \in 1..Len(S) : StmtIn(S, E, L, S[i], i)
    /\ \A i \in 1..Len(E) : ExpIn(E[i], i)

\* The slots of a stack may hold anything; those in use, lists of Members.
Stack(st, Members) ==
    /\ st \in [slots : [1..MaxOpen -> Seq(Nat)], count : 0..MaxOpen]
    /\ \A i \in 1..st.count : st.slots[i] \in Seq(Members) /\ Len(st.slots[i]) <= MaxList

\* Each entry of L belongs to one node.
EntriesOwned(S, L) ==
    \A k \in 1..Len(L) : \E s \in ListsOf(S) :
        /\ k \in SliceOf(S[s])
        /\ \A t \in ListsOf(S) : k \in SliceOf(S[t]) => s = t

\* A pair is once in L, or once in the open slots of I.
InList(L, k, p)    == k \in 1..Len(L) /\ L[k] = p
InSlot(I, i, j, p) == i \in 1..I.count /\ j \in 1..Len(I.slots[i]) /\ I.slots[i][j] = p
Owned(L, I, p) ==
    \/ /\ \E k : InList(L, k, p) /\ \A l : InList(L, l, p) => l = k
       /\ \A i, j : ~ InSlot(I, i, j, p)
    \/ /\ \E i, j : InSlot(I, i, j, p) /\ \A e, f : InSlot(I, e, f, p) => e = i /\ f = j
       /\ \A k : ~ InList(L, k, p)

Good(S, E, L, B, I) ==
    /\ Made(S, E, L)
    /\ Stack(B, StmtsOf(S)) /\ Stack(I, PairsOf(S))
    /\ EntriesOwned(S, L)
    /\ \A p \in PairsOf(S) : Owned(L, I, p)

-----------------------------------------------------------------------------
(***************************************************************************)
(* Numbers and sequences.                                                  *)
(***************************************************************************)
LEMMA LeastNumber ==
    ASSUME NEW N \in SUBSET Nat, N # {}
    PROVE  \E n \in N : \A m \in N : n <= m
<1> DEFINE R == {ss \in Nat \X Nat : ss[1] < ss[2]}
<1>1. IsWellFoundedOn(R, Nat) BY NatLessThanWellFounded DEF OpToRel
<1>2. \A n, m \in Nat : <<n, m>> \in R <=> n < m OBVIOUS
<1> HIDE DEF R
<1>3. PICK n \in N : \A m \in N : ~ (<<m, n>> \in R) BY <1>1, WFMin
<1>4. \A m \in N : m \in Nat /\ n \in Nat /\ ~ (m < n) BY <1>2, <1>3
<1>5. \A m \in N : n <= m BY <1>4
<1> QED BY <1>5

LEMMA Bounds ==
    /\ MaxStatements \in Nat /\ MaxExpressions \in Nat /\ MaxPtrs \in Nat
    /\ MaxOpen \in Nat /\ MaxList \in Nat
BY BuilderBounds

LEMMA Appended ==
    ASSUME NEW s, IsSeq(s), NEW x
    PROVE  /\ IsSeq(Append(s, x)) /\ Len(Append(s, x)) = Len(s) + 1
           /\ Append(s, x)[Len(s) + 1] = x
           /\ \A i \in 1..Len(s) : Append(s, x)[i] = s[i]
<1> DEFINE D == {s[i] : i \in 1..Len(s)}
           q == Append(s, x)
<1>1. Len(s) \in Nat /\ s \in Seq(D) /\ s \in Seq(D \cup {x}) BY DEF IsSeq
<1>2. /\ q \in Seq(D \cup {x}) /\ Len(q) = Len(s) + 1 /\ q[Len(s) + 1] = x
      /\ \A i \in 1..Len(s) : q[i] = s[i]
  <2> HIDE DEF D
  <2> QED BY <1>1
<1> HIDE DEF q
<1>3. q \in Seq({q[i] : i \in 1..Len(q)}) BY <1>2
<1>4. IsSeq(q) BY <1>1, <1>2, <1>3 DEF IsSeq
<1> QED BY <1>2, <1>4 DEF q

LEMMA Joined ==
    ASSUME NEW M, NEW s \in Seq(M), NEW t \in Seq(M)
    PROVE  /\ s \o t \in Seq(M) /\ Len(s \o t) = Len(s) + Len(t)
           /\ Len(s) \in Nat /\ Len(t) \in Nat
           /\ \A i \in 1..Len(s) : (s \o t)[i] = s[i]
           /\ \A j \in 1..Len(t) : (s \o t)[Len(s) + j] = t[j]
OBVIOUS

LEMMA Members == ASSUME NEW M, NEW s \in Seq(M) PROVE \A i \in 1..Len(s) : s[i] \in M
OBVIOUS

LEMMA Wider == ASSUME NEW M, NEW W, M \subseteq W, NEW s \in Seq(M) PROVE s \in Seq(W)
OBVIOUS

-----------------------------------------------------------------------------
(***************************************************************************)
(* Growth keeps what nodes say.                                            *)
(***************************************************************************)
Grown(s, t) == /\ Len(s) \in Nat /\ Len(t) \in Nat /\ Len(s) <= Len(t)
               /\ \A i \in 1..Len(s) : t[i] = s[i]

LEMMA GrownSelf == ASSUME NEW s, Len(s) \in Nat PROVE Grown(s, s)
BY DEF Grown

LEMMA GrownAppend == ASSUME NEW s, IsSeq(s), NEW x PROVE Grown(s, Append(s, x))
<1>1. Len(s) \in Nat BY DEF IsSeq
<1> QED BY <1>1, Appended DEF Grown

LEMMA StmtKept ==
    ASSUME NEW S, NEW S2, Grown(S, S2), NEW E, NEW E2, Grown(E, E2), NEW L, NEW L2,
           Grown(L, L2), NEW n, NEW i \in 1..Len(S) + 1, StmtIn(S, E, L, n, i)
    PROVE  StmtIn(S2, E2, L2, n, i)
<1>1. \A s : OlderStmt(S, s, i) => OlderStmt(S2, s, i)
  <2> SUFFICES ASSUME NEW s, OlderStmt(S, s, i) PROVE OlderStmt(S2, s, i) OBVIOUS
  <2>1. s \in 1..i - 1 /\ s \in 1..Len(S) BY DEF OlderStmt, Grown
  <2> QED BY <2>1 DEF OlderStmt, Grown
<1>2. \A s : OlderPair(S, s, i) => OlderPair(S2, s, i)
  <2> SUFFICES ASSUME NEW s, OlderPair(S, s, i) PROVE OlderPair(S2, s, i) OBVIOUS
  <2>1. s \in 1..i - 1 /\ s \in 1..Len(S) BY DEF OlderPair, Grown
  <2> QED BY <2>1 DEF OlderPair, Grown
<1>3. IdentsOf(E) \subseteq IdentsOf(E2) /\ MaybeOf(E) \subseteq MaybeOf(E2)
  <2>1. 1..Len(E) \subseteq 1..Len(E2) BY DEF Grown
  <2> QED BY <2>1 DEF IdentsOf, MaybeOf, Grown
<1>4. Filled(L, n) => Filled(L2, n) /\ \A k \in SliceOf(n) : L2[k] = L[k]
  <2>1. 1..Len(L) \subseteq 1..Len(L2) BY DEF Grown
  <2> QED BY <2>1 DEF Filled, Grown
<1>5. /\ n.kind = "stmt_assign"     => n.left \in MaybeOf(E2) /\ n.right \in MaybeOf(E2)
      /\ n.kind = "stmt_local_decl" =>
            n.name \in IdentsOf(E2) /\ n.maybe_expression \in MaybeOf(E2)
      /\ n.kind = "stmt_return"     => n.maybe_expression \in MaybeOf(E2)
  BY <1>3, Zenon DEF StmtIn
<1>6. /\ n.kind = "UNUSED"          => OlderStmt(S2, n.statement, i)
      /\ n.kind = "_stmt_raw_if"    =>
            n.maybe_condition \in MaybeOf(E2) /\ OlderStmt(S2, n.statement, i)
  BY <1>1, <1>3, Zenon DEF StmtIn
<1>7. n.kind = "stmt_block" => Filled(L2, n) /\ \A k \in SliceOf(n) : OlderStmt(S2, L2[k], i)
  BY <1>1, <1>4 DEF StmtIn
<1>8. n.kind = "stmt_ifs" => Filled(L2, n) /\ \A k \in SliceOf(n) : OlderPair(S2, L2[k], i)
  BY <1>2, <1>4 DEF StmtIn
<1> QED BY <1>5, <1>6, <1>7, <1>8, Zenon DEF StmtIn

\* A node appended
LEMMA MadeStmt ==
    ASSUME NEW S, NEW E, NEW L, Made(S, E, L), NEW n, NEW L2, Grown(L, L2),
           L2 \in Seq(1..Len(S)), StmtIn(S, E, L2, n, Len(S) + 1)
    PROVE  Made(Append(S, n), E, L2)
<1> DEFINE S2 == Append(S, n)
<1>1. /\ IsSeq(S) /\ IsSeq(E) /\ \A i \in 1..Len(S) : StmtIn(S, E, L, S[i], i)
      /\ \A i \in 1..Len(E) : ExpIn(E[i], i)
  BY DEF Made
<1>2. /\ IsSeq(S2) /\ Len(S2) = Len(S) + 1 /\ S2[Len(S) + 1] = n /\ Len(S) \in Nat
      /\ \A i \in 1..Len(S) : S2[i] = S[i]
      /\ Len(E) \in Nat /\ Grown(S, S2) /\ Grown(E, E)
  <2>1. Len(S) \in Nat /\ Len(E) \in Nat BY <1>1 DEF IsSeq
  <2>2. Grown(S, S2) /\ Grown(E, E) BY <1>1, <2>1, GrownAppend, GrownSelf
  <2>3. /\ IsSeq(S2) /\ Len(S2) = Len(S) + 1 /\ S2[Len(S) + 1] = n
        /\ \A i \in 1..Len(S) : S2[i] = S[i]
    BY <1>1, Appended
  <2> QED BY <2>1, <2>2, <2>3
<1>3. Grown(L2, L2) BY GrownSelf DEF Grown
<1> HIDE DEF S2
<1>4. L2 \in Seq(1..Len(S2))
  <2>1. 1..Len(S) \subseteq 1..Len(S2) BY <1>2
  <2> QED BY <2>1, Wider
<1>5. /\ \A i \in 1..Len(S) : i \in 1..Len(S) + 1
      /\ Len(S) + 1 \in 1..Len(S) + 1
      /\ \A i \in 1..Len(S2) : i \in 1..Len(S) \/ i = Len(S) + 1
  BY <1>2
<1>6. \A i \in 1..Len(S) : StmtIn(S2, E, L2, S2[i], i)
  <2> SUFFICES ASSUME NEW i \in 1..Len(S) PROVE StmtIn(S2, E, L2, S[i], i)
    BY <1>2
  <2>1. StmtIn(S, E, L, S[i], i) /\ i \in 1..Len(S) + 1 BY <1>1, <1>5
  <2> QED BY <1>2, <2>1, StmtKept
<1>7. StmtIn(S2, E, L2, n, Len(S) + 1)
  BY <1>2, <1>3, <1>5, StmtKept
<1>8. \A i \in 1..Len(S2) : StmtIn(S2, E, L2, S2[i], i)
  BY <1>2, <1>5, <1>6, <1>7, Zenon
<1> QED BY <1>1, <1>2, <1>4, <1>8, Zenon DEF Made, S2

LEMMA MadeExp ==
    ASSUME NEW S, NEW E, NEW L, Made(S, E, L), NEW n, ExpIn(n, Len(E) + 1)
    PROVE  Made(S, Append(E, n), L)
<1> DEFINE E2 == Append(E, n)
<1>1. /\ IsSeq(S) /\ IsSeq(E) /\ \A i \in 1..Len(S) : StmtIn(S, E, L, S[i], i)
      /\ \A i \in 1..Len(E) : ExpIn(E[i], i) /\ L \in Seq(1..Len(S))
  BY DEF Made
<1>2. /\ IsSeq(E2) /\ Len(E2) = Len(E) + 1 /\ E2[Len(E) + 1] = n /\ Len(E) \in Nat
      /\ \A i \in 1..Len(E) : E2[i] = E[i]
      /\ Len(S) \in Nat /\ Grown(S, S) /\ Grown(E, E2)
  <2>1. Len(S) \in Nat /\ Len(E) \in Nat BY <1>1 DEF IsSeq
  <2>2. Grown(E, E2) /\ Grown(S, S) BY <1>1, <2>1, GrownAppend, GrownSelf
  <2>3. /\ IsSeq(E2) /\ Len(E2) = Len(E) + 1 /\ E2[Len(E) + 1] = n
        /\ \A i \in 1..Len(E) : E2[i] = E[i]
    BY <1>1, Appended
  <2> QED BY <2>1, <2>2, <2>3
<1>3. Grown(L, L)
  <2>1. Len(L) \in Nat BY <1>1
  <2> QED BY <2>1, GrownSelf
<1> HIDE DEF E2
<1>4. \A i \in 1..Len(S) : i \in 1..Len(S) + 1 BY <1>2
<1>5. \A i \in 1..Len(S) : StmtIn(S, E2, L, S[i], i)
  <2> SUFFICES ASSUME NEW i \in 1..Len(S) PROVE StmtIn(S, E2, L, S[i], i)
    OBVIOUS
  <2>1. StmtIn(S, E, L, S[i], i) /\ i \in 1..Len(S) + 1 BY <1>1, <1>4
  <2> QED BY <1>2, <1>3, <2>1, StmtKept
<1>6. \A i \in 1..Len(E2) : i \in 1..Len(E) \/ i = Len(E) + 1 BY <1>2
<1>7. \A i \in 1..Len(E2) : ExpIn(E2[i], i) BY <1>1, <1>2, <1>6, Zenon
<1> QED BY <1>1, <1>2, <1>5, <1>7, Zenon DEF Made, E2

LEMMA StmtsAppended ==
    ASSUME NEW S, IsSeq(S), NEW n
    PROVE  /\ StmtsOf(Append(S, n)) = IF n.kind = "_stmt_raw_if" THEN StmtsOf(S)
                                      ELSE StmtsOf(S) \cup {Len(S) + 1}
           /\ PairsOf(Append(S, n)) = IF n.kind = "_stmt_raw_if" THEN PairsOf(S) \cup {Len(S) + 1}
                                      ELSE PairsOf(S)
           /\ ListsOf(Append(S, n)) = IF n.kind \in {"stmt_block", "stmt_ifs"}
                                      THEN ListsOf(S) \cup {Len(S) + 1} ELSE ListsOf(S)
<1> DEFINE S2 == Append(S, n)
<1>1. /\ Len(S2) = Len(S) + 1 /\ S2[Len(S) + 1] = n /\ Len(S) \in Nat
      /\ \A i \in 1..Len(S) : S2[i] = S[i]
  BY Appended DEF IsSeq
<1>2. 1..Len(S2) = 1..Len(S) \cup {Len(S) + 1} /\ Len(S) + 1 \notin 1..Len(S) BY <1>1
<1> HIDE DEF S2
<1>3. StmtsOf(S2) = IF n.kind = "_stmt_raw_if" THEN StmtsOf(S) ELSE StmtsOf(S) \cup {Len(S) + 1}
  BY <1>1, <1>2 DEF StmtsOf
<1>4. PairsOf(S2) = IF n.kind = "_stmt_raw_if" THEN PairsOf(S) \cup {Len(S) + 1} ELSE PairsOf(S)
  BY <1>2, <1>3 DEF PairsOf, StmtsOf
<1>5. ListsOf(S2) = IF n.kind \in {"stmt_block", "stmt_ifs"}
                    THEN ListsOf(S) \cup {Len(S) + 1} ELSE ListsOf(S)
  BY <1>1, <1>2, <1>3 DEF ListsOf, StmtsOf
<1> QED BY <1>3, <1>4, <1>5 DEF S2

-----------------------------------------------------------------------------
(***************************************************************************)
(* The stacks.                                                             *)
(***************************************************************************)
LEMMA StackFields ==
    ASSUME NEW M, NEW st, Stack(st, M)
    PROVE  /\ st.count \in 0..MaxOpen /\ st.slots \in [1..MaxOpen -> Seq(Nat)]
           /\ \A i \in 1..st.count : i \in 1..MaxOpen
           /\ st.count # 0 => st.count \in 1..st.count
BY Bounds DEF Stack

LEMMA StackWider ==
    ASSUME NEW M, NEW W, M \subseteq W, NEW st, Stack(st, M)
    PROVE  Stack(st, W)
BY Wider DEF Stack

LEMMA Opened ==
    ASSUME NEW M, NEW st, Stack(st, M), st.count < MaxOpen, NEW t, t = opened(st)
    PROVE  /\ Stack(t, M) /\ t.count = st.count + 1 /\ t.slots[t.count] = <<>>
           /\ \A i \in 1..st.count : t.slots[i] = st.slots[i]
           /\ \A i \in 1..t.count : i \in 1..st.count \/ i = t.count
<1> DEFINE n == st.count + 1
           slots == [st.slots EXCEPT ![n] = <<>>]
<1>1. st \in [slots : [1..MaxOpen -> Seq(Nat)], count : 0..MaxOpen] BY DEF Stack
<1>2. n \in 1..MaxOpen /\ n \in 0..MaxOpen /\ st.count \in 0..MaxOpen BY <1>1, Bounds
<1>3. slots \in [1..MaxOpen -> Seq(Nat)] /\ slots[n] = <<>>
  <2>1. <<>> \in Seq(Nat) OBVIOUS
  <2>2. st.slots \in [1..MaxOpen -> Seq(Nat)] BY <1>1
  <2> HIDE DEF n
  <2> QED BY <1>2, <2>1, <2>2
<1>4. \A i \in 1..st.count : i \in 1..MaxOpen /\ i # n
  <2> DEFINE k == st.count
  <2>1. k \in 0..MaxOpen BY <1>2
  <2> HIDE DEF k
  <2>2. \A i \in 1..k : i \in 1..MaxOpen /\ i # k + 1 BY <2>1, Bounds
  <2> QED BY <2>2 DEF k
<1>5. t \in [slots : [1..MaxOpen -> Seq(Nat)], count : 0..MaxOpen] /\ t.count = n
      /\ t.slots = slots
  BY <1>1, <1>2, <1>3 DEF opened
<1>6. \A i \in 1..st.count : slots[i] = st.slots[i] BY <1>1, <1>4
<1>7. \A i \in 1..n : i \in 1..st.count \/ i = n BY <1>2
<1>8. \A i \in 1..st.count : st.slots[i] \in Seq(M) /\ Len(st.slots[i]) <= MaxList
  BY DEF Stack
<1>9. <<>> \in Seq(M) /\ Len(<<>>) <= MaxList BY Bounds
<1> HIDE DEF n, slots
<1>10. Stack(t, M) BY <1>3, <1>5, <1>6, <1>7, <1>8, <1>9 DEF Stack
<1> QED BY <1>3, <1>5, <1>6, <1>7, <1>10 DEF n

LEMMA Closed ==
    ASSUME NEW M, NEW st, Stack(st, M), st.count # 0, NEW t, t = closed(st)
    PROVE  /\ Stack(t, M) /\ t.count = st.count - 1 /\ t.slots = st.slots
           /\ \A i : i \in 1..t.count <=> i \in 1..st.count /\ i # st.count
<1>1. st \in [slots : [1..MaxOpen -> Seq(Nat)], count : 0..MaxOpen] BY DEF Stack
<1>2. st.count - 1 \in 0..MaxOpen BY <1>1, Bounds
<1>3. /\ t \in [slots : [1..MaxOpen -> Seq(Nat)], count : 0..MaxOpen]
      /\ t.count = st.count - 1 /\ t.slots = st.slots
  BY <1>1, <1>2 DEF closed
<1>4. \A i : i \in 1..t.count <=> i \in 1..st.count /\ i # st.count BY <1>1, <1>3
<1> QED BY <1>3, <1>4 DEF Stack

LEMMA Pushed ==
    ASSUME NEW M, NEW st, Stack(st, M), st.count # 0, M \subseteq Nat, NEW x \in M,
           Len(st.slots[st.count]) + 1 <= MaxList, NEW t, t = pushed(st, x)
    PROVE  /\ Stack(t, M) /\ t.count = st.count
           /\ t.slots[st.count] = Append(st.slots[st.count], x)
           /\ \A i \in 1..st.count : i # st.count => t.slots[i] = st.slots[i]
           /\ st.slots[st.count] \in Seq(M)
<1> DEFINE n == st.count
           top == st.slots[n]
           slots == [st.slots EXCEPT ![n] = Append(top, x)]
<1>1. st \in [slots : [1..MaxOpen -> Seq(Nat)], count : 0..MaxOpen] BY DEF Stack
<1>2. n \in 1..n /\ n \in 1..MaxOpen /\ \A i \in 1..n : i \in 1..MaxOpen BY <1>1, Bounds
<1>3. top \in Seq(M) BY <1>2 DEF Stack
<1>4. Append(top, x) \in Seq(M) /\ Len(Append(top, x)) <= MaxList
  <2>1. Append(top, x) \in Seq(M) /\ Len(Append(top, x)) = Len(top) + 1
    <3> HIDE DEF top
    <3> QED BY <1>3
  <2> QED BY <2>1
<1>5. Append(top, x) \in Seq(Nat) BY <1>4, Wider
<1> HIDE DEF top, n
<1>6. /\ slots \in [1..MaxOpen -> Seq(Nat)] /\ slots[n] = Append(top, x)
      /\ \A i \in 1..MaxOpen : i # n => slots[i] = st.slots[i]
  BY <1>1, <1>2, <1>5
<1>7. /\ t \in [slots : [1..MaxOpen -> Seq(Nat)], count : 0..MaxOpen] /\ t.count = n
      /\ t.slots = slots
  BY <1>1, <1>5, <1>6 DEF pushed, n, top
<1>8. \A i \in 1..n : st.slots[i] \in Seq(M) /\ Len(st.slots[i]) <= MaxList
  BY DEF Stack, n
<1> HIDE DEF slots
<1>9. Stack(t, M)
  <2>1. \A i \in 1..n : t.slots[i] \in Seq(M) /\ Len(t.slots[i]) <= MaxList
    BY <1>2, <1>4, <1>6, <1>7, <1>8
  <2> QED BY <1>7, <2>1 DEF Stack
<1> QED BY <1>2, <1>3, <1>6, <1>7, <1>9 DEF n, top

-----------------------------------------------------------------------------
(***************************************************************************)
(* What the functions of the builder do to it.                             *)
(***************************************************************************)
LEMMA GoodFacts ==
    ASSUME NEW S, NEW E, NEW L, NEW B, NEW I, Good(S, E, L, B, I)
    PROVE  /\ IsSeq(S) /\ IsSeq(E) /\ Len(S) \in Nat /\ Len(E) \in Nat /\ Len(L) \in Nat
           /\ L \in Seq(1..Len(S)) /\ Made(S, E, L)
           /\ Stack(B, StmtsOf(S)) /\ Stack(I, PairsOf(S)) /\ EntriesOwned(S, L)
           /\ \A p \in PairsOf(S) : Owned(L, I, p)
           /\ StmtsOf(S) \subseteq Nat /\ PairsOf(S) \subseteq Nat
           /\ StmtsOf(S) \subseteq 1..Len(S) /\ PairsOf(S) \subseteq 1..Len(S)
           /\ Grown(L, L)
<1>1. /\ IsSeq(S) /\ IsSeq(E) /\ L \in Seq(1..Len(S)) BY DEF Good, Made
<1>2. Len(S) \in Nat /\ Len(E) \in Nat /\ Len(L) \in Nat BY <1>1 DEF IsSeq
<1>3. Grown(L, L) BY <1>2, GrownSelf
<1>4. StmtsOf(S) \subseteq 1..Len(S) /\ PairsOf(S) \subseteq 1..Len(S) BY DEF StmtsOf, PairsOf
<1>5. StmtsOf(S) \subseteq Nat /\ PairsOf(S) \subseteq Nat BY <1>4
<1> QED BY <1>1, <1>2, <1>3, <1>4, <1>5 DEF Good

LEMMA OwnedSlot ==
    ASSUME NEW L, NEW I, NEW p, NEW i, NEW j, InSlot(I, i, j, p),
           \A e, f : InSlot(I, e, f, p) => e = i /\ f = j, \A k : ~ InList(L, k, p)
    PROVE  Owned(L, I, p)
BY DEF Owned

LEMMA OwnedEntry ==
    ASSUME NEW L, NEW I, NEW p, NEW k, InList(L, k, p),
           \A l : InList(L, l, p) => l = k, \A i, j : ~ InSlot(I, i, j, p)
    PROVE  Owned(L, I, p)
BY Zenon DEF Owned

LEMMA OwnedSame ==
    ASSUME NEW L, NEW I, NEW K, NEW J, NEW p, Owned(L, I, p),
           \A k : InList(K, k, p) <=> InList(L, k, p),
           \A i, j : InSlot(J, i, j, p) <=> InSlot(I, i, j, p)
    PROVE  Owned(K, J, p)
<1>1. CASE /\ \E k : InList(L, k, p) /\ \A l : InList(L, l, p) => l = k
           /\ \A i, j : ~ InSlot(I, i, j, p)
  <2>1. PICK k : InList(L, k, p) /\ \A l : InList(L, l, p) => l = k BY <1>1
  <2> QED BY <1>1, <2>1, OwnedEntry, Zenon
<1>2. CASE /\ \E i, j : InSlot(I, i, j, p) /\ \A e, f : InSlot(I, e, f, p) => e = i /\ f = j
           /\ \A k : ~ InList(L, k, p)
  <2>1. PICK i, j : InSlot(I, i, j, p) /\ \A e, f : InSlot(I, e, f, p) => e = i /\ f = j
    BY <1>2
  <2> QED BY <1>2, <2>1, OwnedSlot
<1> QED BY <1>1, <1>2 DEF Owned

LEMMA GoodStmt ==
    ASSUME NEW S, NEW E, NEW L, NEW B, NEW I, Good(S, E, L, B, I), NEW n,
           n.kind \notin {"_stmt_raw_if", "stmt_block", "stmt_ifs"},
           StmtIn(S, E, L, n, Len(S) + 1)
    PROVE  Good(Append(S, n), E, L, B, I)
<1> DEFINE S2 == Append(S, n)
<1>1. /\ IsSeq(S) /\ Len(S) \in Nat /\ L \in Seq(1..Len(S)) /\ Made(S, E, L) /\ Grown(L, L)
      /\ Stack(B, StmtsOf(S)) /\ Stack(I, PairsOf(S)) /\ EntriesOwned(S, L)
      /\ \A p \in PairsOf(S) : Owned(L, I, p)
  BY GoodFacts
<1>2. Made(S2, E, L) BY <1>1, MadeStmt
<1>3. StmtsOf(S) \subseteq StmtsOf(S2) /\ PairsOf(S2) = PairsOf(S) /\ ListsOf(S2) = ListsOf(S)
  BY <1>1, StmtsAppended
<1>4. \A s \in ListsOf(S) : S2[s] = S[s]
  <2>1. \A s \in ListsOf(S) : s \in 1..Len(S) BY DEF ListsOf, StmtsOf
  <2> QED BY <1>1, <2>1, Appended
<1> HIDE DEF S2
<1>5. EntriesOwned(S2, L) BY <1>1, <1>3, <1>4 DEF EntriesOwned
<1>6. Stack(B, StmtsOf(S2)) /\ Stack(I, PairsOf(S2)) BY <1>1, <1>3, StackWider
<1> QED BY <1>1, <1>2, <1>3, <1>5, <1>6 DEF Good, S2

LEMMA GoodExp ==
    ASSUME NEW S, NEW E, NEW L, NEW B, NEW I, Good(S, E, L, B, I), NEW n,
           ExpIn(n, Len(E) + 1)
    PROVE  Good(S, Append(E, n), L, B, I)
BY MadeExp DEF Good

LEMMA GoodBlocks ==
    ASSUME NEW S, NEW E, NEW L, NEW B, NEW I, Good(S, E, L, B, I), NEW C,
           Stack(C, StmtsOf(S))
    PROVE  Good(S, E, L, C, I)
BY DEF Good

LEMMA GoodStartIfs ==
    ASSUME NEW S, NEW E, NEW L, NEW B, NEW I, Good(S, E, L, B, I), I.count < MaxOpen,
           NEW J, J = opened(I)
    PROVE  Good(S, E, L, B, J)
<1>1. Stack(I, PairsOf(S)) /\ \A p \in PairsOf(S) : Owned(L, I, p) BY GoodFacts
<1>2. /\ Stack(J, PairsOf(S)) /\ J.count = I.count + 1 /\ J.slots[J.count] = <<>>
      /\ \A i \in 1..I.count : J.slots[i] = I.slots[i]
      /\ \A i \in 1..J.count : i \in 1..I.count \/ i = J.count
      /\ I.count \in Nat
  <2>1. I.count \in Nat
    <3>1. I.count \in 0..MaxOpen BY <1>1, StackFields
    <3> QED BY <3>1, Bounds
  <2> DEFINE M == PairsOf(S)
  <2>2. Stack(I, M) BY <1>1
  <2> HIDE DEF M
  <2>3. /\ Stack(J, M) /\ J.count = I.count + 1 /\ J.slots[J.count] = <<>>
        /\ \A i \in 1..I.count : J.slots[i] = I.slots[i]
        /\ \A i \in 1..J.count : i \in 1..I.count \/ i = J.count
    BY <2>2, Opened
  <2> QED BY <2>1, <2>3 DEF M
<1>3. 1..I.count \subseteq 1..J.count /\ 1..Len(<<>>) = {} BY <1>2
<1>4. \A i, j, p : InSlot(J, i, j, p) <=> InSlot(I, i, j, p)
  <2>1. ASSUME NEW i, NEW j, NEW p, InSlot(J, i, j, p) PROVE InSlot(I, i, j, p)
    BY <1>2, <1>3, <2>1 DEF InSlot
  <2>2. ASSUME NEW i, NEW j, NEW p, InSlot(I, i, j, p) PROVE InSlot(J, i, j, p)
    BY <1>2, <1>3, <2>2 DEF InSlot
  <2> QED BY <2>1, <2>2
<1>5. \A p \in PairsOf(S) : Owned(L, J, p) BY <1>1, <1>4, OwnedSame, Zenon
<1> QED BY <1>2, <1>5 DEF Good

\* A pair is made, and waits in the innermost slot and nowhere else.
LEMMA GoodPair ==
    ASSUME NEW S, NEW E, NEW L, NEW B, NEW I, Good(S, E, L, B, I), NEW n,
           n.kind = "_stmt_raw_if", StmtIn(S, E, L, n, Len(S) + 1),
           I.count # 0, Len(I.slots[I.count]) + 1 <= MaxList,
           NEW J, J = pushed(I, Len(S) + 1)
    PROVE  Good(Append(S, n), E, L, B, J)
<1> DEFINE S2 == Append(S, n)
           q == Len(S) + 1
           c == I.count
           top == I.slots[c]
<1>1. /\ IsSeq(S) /\ Len(S) \in Nat /\ L \in Seq(1..Len(S)) /\ Made(S, E, L) /\ Grown(L, L)
      /\ Stack(B, StmtsOf(S)) /\ Stack(I, PairsOf(S)) /\ EntriesOwned(S, L)
      /\ \A p \in PairsOf(S) : Owned(L, I, p)
      /\ PairsOf(S) \subseteq 1..Len(S) /\ PairsOf(S) \subseteq Nat
  BY GoodFacts
<1>2. Made(S2, E, L) BY <1>1, MadeStmt
<1>3. /\ StmtsOf(S2) = StmtsOf(S) /\ PairsOf(S2) = PairsOf(S) \cup {q}
      /\ ListsOf(S2) = ListsOf(S)
  BY <1>1, StmtsAppended
<1>4. \A s \in ListsOf(S) : S2[s] = S[s]
  <2>1. \A s \in ListsOf(S) : s \in 1..Len(S) BY DEF ListsOf, StmtsOf
  <2> QED BY <1>1, <2>1, Appended
<1> HIDE DEF S2
<1>5. EntriesOwned(S2, L) BY <1>1, <1>3, <1>4 DEF EntriesOwned
<1>6. q \in PairsOf(S2) /\ PairsOf(S2) \subseteq Nat /\ q \notin 1..Len(S) BY <1>1, <1>3
<1>7. Stack(I, PairsOf(S2)) BY <1>1, <1>3, StackWider
<1>8. c \in 1..c BY <1>1, StackFields
<1>9. /\ Stack(J, PairsOf(S2)) /\ J.count = c /\ J.slots[c] = Append(top, q)
      /\ \A i \in 1..c : i # c => J.slots[i] = I.slots[i]
  BY <1>6, <1>7, Pushed, SMTT(30)
<1>10. top \in Seq(PairsOf(S)) BY <1>1, <1>8 DEF Stack
<1>11. /\ Len(Append(top, q)) = Len(top) + 1 /\ Append(top, q)[Len(top) + 1] = q
       /\ \A j \in 1..Len(top) : Append(top, q)[j] = top[j]
       /\ Len(top) \in Nat
  <2> HIDE DEF top, q
  <2> QED BY <1>10
<1>12. /\ 1..Len(top) \subseteq 1..Len(top) + 1 /\ Len(top) + 1 \in 1..Len(top) + 1
       /\ \A j \in 1..Len(top) + 1 : j \in 1..Len(top) \/ j = Len(top) + 1
  BY <1>11
<1>13. \A k, p : InList(L, k, p) => p # q
  <2> SUFFICES ASSUME NEW k, InList(L, k, q) PROVE FALSE OBVIOUS
  <2>1. L[k] \in 1..Len(S) BY <1>1 DEF InList
  <2> QED BY <1>6, <2>1 DEF InList
<1>14. \A i, j, p : InSlot(I, i, j, p) => p # q
  <2> SUFFICES ASSUME NEW i, NEW j, InSlot(I, i, j, q) PROVE FALSE OBVIOUS
  <2>1. I.slots[i] \in Seq(PairsOf(S)) BY <1>1 DEF InSlot, Stack
  <2>2. I.slots[i][j] \in PairsOf(S) BY <2>1, Members DEF InSlot
  <2> QED BY <1>1, <1>6, <2>2 DEF InSlot
<1> HIDE DEF q, top, c
<1>15. \A i, j, p : p # q => (InSlot(J, i, j, p) <=> InSlot(I, i, j, p))
  <2> SUFFICES ASSUME NEW i, NEW j, NEW p, p # q
               PROVE  InSlot(J, i, j, p) <=> InSlot(I, i, j, p)
    OBVIOUS
  <2>1. CASE i = c
    BY <1>9, <1>11, <1>12, <2>1 DEF InSlot, top, c
  <2>2. CASE i # c BY <1>9, <2>2 DEF InSlot, c
  <2> QED BY <2>1, <2>2
<1>16. \A i, j : InSlot(J, i, j, q) <=> i = c /\ j = Len(top) + 1
  <2>1. ASSUME NEW i, NEW j, InSlot(J, i, j, q) PROVE i = c /\ j = Len(top) + 1
    <3>1. i \in 1..c /\ j \in 1..Len(J.slots[i]) /\ J.slots[i][j] = q
      BY <1>9, <2>1 DEF InSlot
    <3>2. CASE i # c
      <4>1. InSlot(I, i, j, q) BY <1>9, <3>1, <3>2 DEF InSlot, c
      <4> QED BY <1>14, <4>1
    <3>3. CASE i = c
      <4>1. j \in 1..Len(top) => InSlot(I, i, j, q)
        BY <1>9, <1>11, <3>1, <3>3 DEF InSlot, c, top
      <4> QED BY <1>9, <1>11, <1>12, <1>14, <3>1, <3>3, <4>1
    <3> QED BY <3>2, <3>3
  <2>2. InSlot(J, c, Len(top) + 1, q) BY <1>8, <1>9, <1>11, <1>12 DEF InSlot
  <2> QED BY <2>1, <2>2
<1>17. \A p \in PairsOf(S2) : Owned(L, J, p)
  <2>1. Owned(L, J, q)
    <3>1. /\ InSlot(J, c, Len(top) + 1, q)
          /\ \A e, f : InSlot(J, e, f, q) => e = c /\ f = Len(top) + 1
          /\ \A k : ~ InList(L, k, q)
      BY <1>13, <1>16, Zenon
    <3> QED BY <3>1, OwnedSlot
  <2>2. ASSUME NEW p \in PairsOf(S), p # q PROVE Owned(L, J, p)
    <3>1. \A i, j : InSlot(J, i, j, p) <=> InSlot(I, i, j, p) BY <1>15, <2>2
    <3>2. Owned(L, I, p) BY <1>1
    <3> QED BY <3>1, <3>2, OwnedSame, Zenon
  <2> QED BY <1>3, <2>1, <2>2
<1>18. Stack(B, StmtsOf(S2)) BY <1>1, <1>3
<1> QED BY <1>2, <1>5, <1>9, <1>17, <1>18 DEF Good, S2

\* The list in progress goes to the end of L, and to the node made for it.
LEMMA Ending ==
    ASSUME NEW S, NEW E, NEW L, NEW B, NEW I, Good(S, E, L, B, I),
           NEW top \in Seq(1..Len(S)), top # <<>>, NEW n,
           n.count = Len(top), n.first = Len(L) + 1,
           \/ n.kind = "stmt_block" /\ top \in Seq(StmtsOf(S))
           \/ n.kind = "stmt_ifs" /\ top \in Seq(PairsOf(S))
    PROVE  /\ Made(Append(S, n), E, L \o top) /\ EntriesOwned(Append(S, n), L \o top)
           /\ StmtsOf(S) \subseteq StmtsOf(Append(S, n))
           /\ PairsOf(Append(S, n)) = PairsOf(S)
<1> DEFINE S2 == Append(S, n)
           L2 == L \o top
           q  == Len(S) + 1
<1>1. /\ IsSeq(S) /\ Len(S) \in Nat /\ L \in Seq(1..Len(S)) /\ Made(S, E, L)
      /\ EntriesOwned(S, L) /\ Len(L) \in Nat
  BY GoodFacts
<1>2. /\ L2 \in Seq(1..Len(S)) /\ Len(L2) = Len(L) + Len(top) /\ Len(top) \in Nat
      /\ \A k \in 1..Len(L) : L2[k] = L[k]
      /\ \A j \in 1..Len(top) : L2[Len(L) + j] = top[j]
  BY <1>1, Joined
<1>3. Len(top) # 0
  <2>1. top \in Seq(1..Len(S)) /\ top # <<>> OBVIOUS
  <2> QED BY <2>1
<1>4. Grown(L, L2) BY <1>1, <1>2 DEF Grown
<1>5. SliceOf(n) = Len(L) + 1 .. Len(L2)
  <2>1. Len(L) + 1 + Len(top) - 1 = Len(L2) BY <1>1, <1>2
  <2> QED BY <2>1 DEF SliceOf
<1> HIDE DEF L2
<1>6. Filled(L2, n)
  <2>1. Len(L) + 1 .. Len(L2) \subseteq 1..Len(L2) BY <1>1, <1>2
  <2>2. n.first \in Nat \ {0} /\ n.count \in Nat \ {0} BY <1>1, <1>2, <1>3
  <2> QED BY <1>5, <2>1, <2>2 DEF Filled
<1>7. \A k \in SliceOf(n) : \E j \in 1..Len(top) : L2[k] = top[j]
  <2> SUFFICES ASSUME NEW k \in Len(L) + 1 .. Len(L2) PROVE \E j \in 1..Len(top) : L2[k] = top[j]
    BY <1>5
  <2>1. k - Len(L) \in 1..Len(top) /\ Len(L) + (k - Len(L)) = k BY <1>1, <1>2
  <2> QED BY <1>2, <2>1
<1>8. StmtIn(S, E, L2, n, q)
  <2>1. 1..q - 1 = 1..Len(S) BY <1>1
  <2>2. CASE n.kind = "stmt_block" /\ top \in Seq(StmtsOf(S))
    <3>1. \A k \in SliceOf(n) : L2[k] \in StmtsOf(S) BY <1>7, <2>2, Members
    <3>2. \A k \in SliceOf(n) : OlderStmt(S, L2[k], q)
      BY <2>1, <3>1 DEF OlderStmt, StmtsOf
    <3> QED BY <1>6, <2>2, <3>2 DEF StmtIn, StmtKinds
  <2>3. CASE n.kind = "stmt_ifs" /\ top \in Seq(PairsOf(S))
    <3>1. \A k \in SliceOf(n) : L2[k] \in PairsOf(S) BY <1>7, <2>3, Members
    <3>2. \A k \in SliceOf(n) : OlderPair(S, L2[k], q)
      BY <2>1, <3>1 DEF OlderPair, PairsOf, StmtsOf
    <3> QED BY <1>6, <2>3, <3>2 DEF StmtIn, StmtKinds
  <2> QED BY <2>2, <2>3
<1>9. Made(S2, E, L2) BY <1>1, <1>2, <1>4, <1>8, MadeStmt
<1>10. /\ StmtsOf(S2) = StmtsOf(S) \cup {q} /\ PairsOf(S2) = PairsOf(S)
       /\ ListsOf(S2) = ListsOf(S) \cup {q}
  BY <1>1, StmtsAppended
<1>11. S2[q] = n /\ \A s \in ListsOf(S) : S2[s] = S[s] /\ SliceOf(S[s]) \subseteq 1..Len(L)
  <2>1. \A s \in ListsOf(S) : s \in 1..Len(S) BY DEF ListsOf, StmtsOf
  <2>2. \A s \in ListsOf(S) : Filled(L, S[s])
    <3> SUFFICES ASSUME NEW s \in ListsOf(S) PROVE Filled(L, S[s]) OBVIOUS
    <3>1. StmtIn(S, E, L, S[s], s) BY <1>1, <2>1 DEF Made
    <3>2. S[s].kind = "stmt_block" \/ S[s].kind = "stmt_ifs" BY DEF ListsOf
    <3> QED BY <3>1, <3>2, Zenon DEF StmtIn
  <2>3. S2[q] = n /\ \A i \in 1..Len(S) : S2[i] = S[i] BY <1>1, Appended
  <2> QED BY <2>1, <2>2, <2>3 DEF Filled
<1> HIDE DEF S2, q
<1>12. EntriesOwned(S2, L2)
  <2> SUFFICES ASSUME NEW k \in 1..Len(L2)
               PROVE  \E s \in ListsOf(S2) : /\ k \in SliceOf(S2[s])
                         /\ \A t \in ListsOf(S2) : k \in SliceOf(S2[t]) => s = t
    BY DEF EntriesOwned
  <2>1. CASE k \in 1..Len(L)
    <3>1. PICK s \in ListsOf(S) : /\ k \in SliceOf(S[s])
                                  /\ \A t \in ListsOf(S) : k \in SliceOf(S[t]) => s = t
      BY <1>1, <2>1 DEF EntriesOwned
    <3>2. k \notin SliceOf(n) BY <1>1, <1>5, <2>1
    <3> QED BY <1>10, <1>11, <3>1, <3>2
  <2>2. CASE k \in Len(L) + 1 .. Len(L2)
    <3>1. k \notin 1..Len(L) BY <1>1, <2>2
    <3>2. \A t \in ListsOf(S) : k \notin SliceOf(S[t]) BY <1>11, <3>1
    <3>3. k \in SliceOf(S2[q]) BY <1>5, <1>11, <2>2
    <3> QED BY <1>10, <1>11, <3>2, <3>3
  <2>3. k \in 1..Len(L) \/ k \in Len(L) + 1 .. Len(L2) BY <1>1, <1>2
  <2> QED BY <2>1, <2>2, <2>3
<1> QED BY <1>9, <1>10, <1>12 DEF S2, L2

LEMMA GoodEndBlock ==
    ASSUME NEW S, NEW E, NEW L, NEW B, NEW I, Good(S, E, L, B, I), B.count # 0,
           NEW top, top = B.slots[B.count], top # <<>>, NEW n, n.kind = "stmt_block",
           n.count = Len(top), n.first = Len(L) + 1, NEW C, C = closed(B)
    PROVE  Good(Append(S, n), E, L \o top, C, I)
<1> DEFINE S2 == Append(S, n)
           L2 == L \o top
<1>1. /\ Stack(B, StmtsOf(S)) /\ Stack(I, PairsOf(S)) /\ \A p \in PairsOf(S) : Owned(L, I, p)
      /\ StmtsOf(S) \subseteq 1..Len(S) /\ L \in Seq(1..Len(S)) /\ Len(L) \in Nat
  BY GoodFacts
<1>2. top \in Seq(StmtsOf(S))
  <2>1. B.count \in 1..B.count BY <1>1, StackFields
  <2> QED BY <1>1, <2>1 DEF Stack
<1>3. top \in Seq(1..Len(S)) BY <1>1, <1>2, Wider
<1>4. /\ Made(S2, E, L2) /\ EntriesOwned(S2, L2)
      /\ StmtsOf(S) \subseteq StmtsOf(S2) /\ PairsOf(S2) = PairsOf(S)
  BY <1>2, <1>3, Ending
<1>5. Stack(C, StmtsOf(S)) BY <1>1, Closed
<1>6. Stack(C, StmtsOf(S2)) BY <1>4, <1>5, StackWider
<1>7. /\ Len(L2) = Len(L) + Len(top) /\ Len(top) \in Nat
      /\ \A k \in 1..Len(L) : L2[k] = L[k]
      /\ \A j \in 1..Len(top) : L2[Len(L) + j] = top[j]
  BY <1>1, <1>3, Joined, SMTT(30)
<1> HIDE DEF S2, L2
<1>8. \A p \in PairsOf(S) : \A k : InList(L2, k, p) <=> InList(L, k, p)
  <2> SUFFICES ASSUME NEW p \in PairsOf(S), NEW k PROVE InList(L2, k, p) <=> InList(L, k, p)
    OBVIOUS
  <2>1. CASE k \in 1..Len(L)
    <3>1. k \in 1..Len(L2) BY <1>1, <1>7, <2>1
    <3> QED BY <1>7, <2>1, <3>1 DEF InList
  <2>2. CASE k \notin 1..Len(L)
    <3>1. ASSUME InList(L2, k, p) PROVE FALSE
      <4>1. k - Len(L) \in 1..Len(top) /\ Len(L) + (k - Len(L)) = k
        BY <1>1, <1>7, <2>2, <3>1 DEF InList
      <4>2. p = top[k - Len(L)] BY <1>7, <3>1, <4>1 DEF InList
      <4>3. p \in StmtsOf(S) BY <1>2, <4>1, <4>2, Members
      <4> QED BY <4>3 DEF PairsOf
    <3> QED BY <2>2, <3>1 DEF InList
  <2> QED BY <2>1, <2>2
<1>9. \A p \in PairsOf(S2) : Owned(L2, I, p) BY <1>1, <1>4, <1>8, OwnedSame, Zenon
<1>10. Stack(I, PairsOf(S2)) BY <1>1, <1>4
<1> QED BY <1>4, <1>6, <1>9, <1>10 DEF Good, S2, L2

\* The pairs of the innermost slot move to L together.
LEMMA GoodEndIfs ==
    ASSUME NEW S, NEW E, NEW L, NEW B, NEW I, Good(S, E, L, B, I), I.count # 0,
           NEW top, top = I.slots[I.count], top # <<>>, NEW n, n.kind = "stmt_ifs",
           n.count = Len(top), n.first = Len(L) + 1, NEW J, J = closed(I)
    PROVE  Good(Append(S, n), E, L \o top, B, J)
<1> DEFINE S2 == Append(S, n)
           L2 == L \o top
           c  == I.count
<1>1. /\ Stack(B, StmtsOf(S)) /\ Stack(I, PairsOf(S)) /\ \A p \in PairsOf(S) : Owned(L, I, p)
      /\ PairsOf(S) \subseteq 1..Len(S) /\ L \in Seq(1..Len(S)) /\ Len(L) \in Nat
  BY GoodFacts
<1>2. top \in Seq(PairsOf(S)) /\ c \in 1..c
  <2>1. c \in 1..c BY <1>1, StackFields
  <2> QED BY <1>1, <2>1 DEF Stack
<1>3. top \in Seq(1..Len(S)) BY <1>1, <1>2, Wider
<1>4. /\ Made(S2, E, L2) /\ EntriesOwned(S2, L2)
      /\ StmtsOf(S) \subseteq StmtsOf(S2) /\ PairsOf(S2) = PairsOf(S)
  BY <1>2, <1>3, Ending
<1>5. /\ Stack(J, PairsOf(S)) /\ J.slots = I.slots
      /\ \A i : i \in 1..J.count <=> i \in 1..c /\ i # c
  BY <1>1, Closed
<1>6. /\ Len(L2) = Len(L) + Len(top) /\ Len(top) \in Nat
      /\ \A k \in 1..Len(L) : L2[k] = L[k]
      /\ \A j \in 1..Len(top) : L2[Len(L) + j] = top[j]
  BY <1>1, <1>3, Joined, SMTT(30)
<1> HIDE DEF S2, L2, c
<1>7. \A i, j, p : InSlot(J, i, j, p) <=> InSlot(I, i, j, p) /\ i # c
  BY <1>5 DEF InSlot, c
<1>8. \A j, p : InSlot(I, c, j, p) <=> j \in 1..Len(top) /\ top[j] = p
  BY <1>2 DEF InSlot, c
<1>9. \A k, p : InList(L2, k, p) <=> InList(L, k, p) \/ (k \notin 1..Len(L) /\ InList(L2, k, p))
  <2> SUFFICES ASSUME NEW k, k \in 1..Len(L), NEW p PROVE InList(L2, k, p) <=> InList(L, k, p)
    BY DEF InList
  <2>1. k \in 1..Len(L2) BY <1>1, <1>6
  <2> QED BY <1>6, <2>1 DEF InList
<1>10. \A k, p : k \notin 1..Len(L) /\ InList(L2, k, p) => InSlot(I, c, k - Len(L), p)
  <2> SUFFICES ASSUME NEW k, NEW p, k \notin 1..Len(L), InList(L2, k, p)
               PROVE  InSlot(I, c, k - Len(L), p)
    OBVIOUS
  <2>1. k - Len(L) \in 1..Len(top) /\ Len(L) + (k - Len(L)) = k BY <1>1, <1>6 DEF InList
  <2> QED BY <1>6, <1>8, <2>1, SMTT(30) DEF InList
<1>11. \A j, p : InSlot(I, c, j, p) => InList(L2, Len(L) + j, p) /\ Len(L) + j \notin 1..Len(L)
  <2> SUFFICES ASSUME NEW j, NEW p, InSlot(I, c, j, p)
               PROVE  InList(L2, Len(L) + j, p) /\ Len(L) + j \notin 1..Len(L)
    OBVIOUS
  <2>1. j \in 1..Len(top) /\ top[j] = p BY <1>8
  <2>2. Len(L) + j \in 1..Len(L2) /\ Len(L) + j \notin 1..Len(L) BY <1>1, <1>6, <2>1
  <2> QED BY <1>6, <2>1, <2>2 DEF InList
<1>12. ASSUME NEW p \in PairsOf(S) PROVE Owned(L2, J, p)
  <2>1. CASE /\ \E k : InList(L, k, p) /\ \A l : InList(L, l, p) => l = k
             /\ \A i, j : ~ InSlot(I, i, j, p)
    <3>1. \A k : InList(L2, k, p) <=> InList(L, k, p) BY <1>9, <1>10, <2>1
    <3>2. \A i, j : InSlot(J, i, j, p) <=> InSlot(I, i, j, p) BY <1>7, <2>1
    <3>3. Owned(L, I, p) BY <1>1
    <3> QED BY <3>1, <3>2, <3>3, OwnedSame, Zenon
  <2>2. ASSUME NEW i, NEW j, InSlot(I, i, j, p),
               \A e, f : InSlot(I, e, f, p) => e = i /\ f = j, \A k : ~ InList(L, k, p)
        PROVE  Owned(L2, J, p)
    <3>1. CASE i = c
      <4>1. InList(L2, Len(L) + j, p) BY <1>11, <2>2, <3>1
      <4>2. ASSUME NEW l, InList(L2, l, p) PROVE l = Len(L) + j
        <5>1. InSlot(I, c, l - Len(L), p) BY <1>9, <1>10, <2>2, <4>2
        <5>2. l - Len(L) = j BY <2>2, <5>1
        <5>3. l \in 1..Len(L2) BY <4>2 DEF InList
        <5> QED BY <1>1, <5>2, <5>3
      <4>3. \A e, f : ~ InSlot(J, e, f, p) BY <1>7, <2>2, <3>1
      <4> QED BY <4>1, <4>2, <4>3, OwnedEntry
    <3>2. CASE i # c
      <4>1. InSlot(J, i, j, p) BY <1>7, <2>2, <3>2
      <4>2. \A e, f : InSlot(J, e, f, p) => e = i /\ f = j BY <1>7, <2>2
      <4>3. \A k : ~ InList(L2, k, p)
        <5> SUFFICES ASSUME NEW k, InList(L2, k, p) PROVE FALSE OBVIOUS
        <5>1. InSlot(I, c, k - Len(L), p) BY <1>9, <1>10, <2>2
        <5> QED BY <2>2, <3>2, <5>1
      <4> QED BY <4>1, <4>2, <4>3, OwnedSlot
    <3> QED BY <3>1, <3>2
  <2>3. Owned(L, I, p) BY <1>1
  <2> QED BY <2>1, <2>2, <2>3 DEF Owned
<1>13. \A p \in PairsOf(S2) : Owned(L2, J, p) BY <1>4, <1>12
<1>14. Stack(B, StmtsOf(S2)) /\ Stack(J, PairsOf(S2)) BY <1>1, <1>4, <1>5, StackWider
<1> QED BY <1>4, <1>13, <1>14 DEF Good, S2, L2

-----------------------------------------------------------------------------
(***************************************************************************)
(* One lemma per function: what a call leaves behind, whether it stops the *)
(* process or not.                                                         *)
(***************************************************************************)
Faults == {NoFault, "Arena reached max capacity", "!= NULL", "!is_empty()", "next < max",
           "!ip->is_empty()", "!else_first", "!multiple_else", "op != UNUSED"}

\* Asserts, each with a reason for the process to stop
Asserts(a) == Len(a) \in Nat /\ \A i \in 1..Len(a) : a[i][2] \in Faults
Stopped == fault' \in Faults /\ UNCHANGED <<statements, expressions, ptr_lists, ip_blocks, ip_ifs>>

LEMMA FirstFailed ==
    ASSUME NEW a, Asserts(a), NEW failed,
           failed = {i \in 1..Len(a) : ~ a[i][1]}, failed # {}
    PROVE  a[CHOOSE i \in failed : \A j \in failed : i <= j][2] \in Faults
<1>1. failed \in SUBSET Nat /\ failed \subseteq 1..Len(a) BY DEF Asserts
<1>2. \E i \in failed : \A j \in failed : i <= j BY <1>1, LeastNumber
<1>3. (CHOOSE i \in failed : \A j \in failed : i <= j) \in failed BY <1>2
<1> QED BY <1>1, <1>3 DEF Asserts

LEMMA CallCases ==
    ASSUME NEW STATE a, Asserts(a), NEW ACTION step, Call(a, step)
    PROVE  Stopped \/ (step /\ fault' = fault /\ \A i \in 1..Len(a) : a[i][1])
<1> DEFINE failed == {i \in 1..Len(a) : ~ a[i][1]}
<1>1. CASE failed = {} BY <1>1 DEF Call
<1>2. CASE failed # {}
  <2>1. a[CHOOSE i \in failed : \A j \in failed : i <= j][2] \in Faults BY <1>2, FirstFailed
  <2> QED BY <1>2, <2>1 DEF Call, Stopped
<1> QED BY <1>1, <1>2

\* The inductive invariant
TypedIn(S, E, L, B, I) ==
    /\ Good(S, E, L, B, I)
    /\ Len(S) <= MaxStatements /\ Len(E) <= MaxExpressions /\ Len(L) <= MaxPtrs
IInv == TypedIn(statements, expressions, ptr_lists, ip_blocks, ip_ifs) /\ fault \in Faults

LEMMA StopKeeps == ASSUME IInv, Stopped PROVE IInv'
BY DEF IInv, Stopped, TypedIn

LEMMA Reasons ==
    /\ \A list, n, cap : room(list, n, cap)[2] \in Faults
    /\ \A p : given(p)[2] \in Faults
    /\ \A st : unclosed(st)[2] \in Faults /\ unopened(st)[2] \in Faults
BY DEF room, given, unclosed, unopened, Faults

\* What a call does, by the asserts it makes
LEMMA Call1 ==
    ASSUME NEW STATE x, x[2] \in Faults, NEW ACTION step, Call(<<x>>, step)
    PROVE  Stopped \/ (step /\ fault' = fault /\ x[1])
<1>1. Asserts(<<x>>) BY DEF Asserts
<1>2. Stopped \/ (step /\ fault' = fault /\ \A i \in 1..Len(<<x>>) : <<x>>[i][1])
  BY <1>1, CallCases
<1> QED BY <1>2

LEMMA Call3 ==
    ASSUME NEW STATE x, x[2] \in Faults, NEW STATE y, y[2] \in Faults,
           NEW STATE z, z[2] \in Faults, NEW ACTION step, Call(<<x, y, z>>, step)
    PROVE  Stopped \/ (step /\ fault' = fault /\ x[1] /\ y[1] /\ z[1])
<1> DEFINE a == <<x, y, z>>
<1>1. Asserts(a) BY DEF Asserts
<1>2. (\A i \in 1..Len(a) : a[i][1]) => a[1][1] /\ a[2][1] /\ a[3][1] OBVIOUS
<1>3. a[1] = x /\ a[2] = y /\ a[3] = z OBVIOUS
<1> HIDE DEF a
<1>4. Stopped \/ (step /\ fault' = fault /\ \A i \in 1..Len(a) : a[i][1])
  BY <1>1, CallCases DEF a
<1> QED BY <1>2, <1>3, <1>4

LEMMA Call4 ==
    ASSUME NEW STATE x, x[2] \in Faults, NEW STATE y, y[2] \in Faults,
           NEW STATE z, z[2] \in Faults, NEW STATE u, u[2] \in Faults,
           NEW ACTION step, Call(<<x, y, z, u>>, step)
    PROVE  Stopped \/ (step /\ fault' = fault /\ x[1] /\ y[1] /\ z[1] /\ u[1])
<1> DEFINE a == <<x, y, z, u>>
<1>1. Asserts(a) BY DEF Asserts
<1>2. (\A i \in 1..Len(a) : a[i][1]) => a[1][1] /\ a[2][1] /\ a[3][1] /\ a[4][1] OBVIOUS
<1>3. a[1] = x /\ a[2] = y /\ a[3] = z /\ a[4] = u OBVIOUS
<1> HIDE DEF a
<1>4. Stopped \/ (step /\ fault' = fault /\ \A i \in 1..Len(a) : a[i][1])
  BY <1>1, CallCases DEF a
<1> QED BY <1>2, <1>3, <1>4

LEMMA StartBlockKeeps == ASSUME IInv, StartBlock PROVE IInv'
<1> DEFINE step == /\ ip_blocks' = opened(ip_blocks)
                   /\ UNCHANGED <<statements, expressions, ptr_lists, ip_ifs>>
<1>1. Call(<<unopened(ip_blocks)>>, step) BY Zenon DEF StartBlock
<1> HIDE DEF step
<1>2. Stopped \/ (step /\ fault' = fault /\ unopened(ip_blocks)[1])
  BY <1>1, Reasons, Call1
<1>3. CASE step /\ fault' = fault /\ ip_blocks.count < MaxOpen
  <2>1. Good(statements, expressions, ptr_lists, ip_blocks, ip_ifs) BY DEF IInv, TypedIn
  <2>2. Stack(ip_blocks, StmtsOf(statements)) BY <2>1, GoodFacts
  <2>3. Stack(opened(ip_blocks), StmtsOf(statements)) BY <1>3, <2>2, Opened
  <2>4. Good(statements, expressions, ptr_lists, opened(ip_blocks), ip_ifs)
    BY <2>1, <2>3, GoodBlocks
  <2> QED BY <1>3, <2>4 DEF IInv, TypedIn, step
<1> QED BY <1>2, <1>3, StopKeeps DEF unopened
LEMMA PushBlockStmtKeeps ==
    ASSUME IInv, NEW s \in MaybeStmt, PushBlockStmt(s) PROVE IInv'
<1> DEFINE step == /\ ip_blocks' = pushed(ip_blocks, s)
                   /\ UNCHANGED <<statements, expressions, ptr_lists, ip_ifs>>
<1>1. Call(<<given(s), unclosed(ip_blocks), room(peek(ip_blocks), 1, MaxList)>>, step)
  BY Zenon DEF PushBlockStmt
<1> HIDE DEF step
<1>2. \/ Stopped
      \/ step /\ fault' = fault /\ given(s)[1] /\ unclosed(ip_blocks)[1]
              /\ room(peek(ip_blocks), 1, MaxList)[1]
  BY <1>1, Reasons, Call3
<1>3. CASE /\ step /\ fault' = fault /\ s # NULL /\ ip_blocks.count # 0
           /\ Len(ip_blocks.slots[ip_blocks.count]) + 1 <= MaxList
  <2>1. Good(statements, expressions, ptr_lists, ip_blocks, ip_ifs) BY DEF IInv, TypedIn
  <2>2. Stack(ip_blocks, StmtsOf(statements)) /\ StmtsOf(statements) \subseteq Nat
    BY <2>1, GoodFacts
  <2>3. s \in StmtsOf(statements) BY <1>3 DEF MaybeStmt, Stmts, StmtsOf
  <2>4. Stack(pushed(ip_blocks, s), StmtsOf(statements)) BY <1>3, <2>2, <2>3, Pushed
  <2>5. Good(statements, expressions, ptr_lists, pushed(ip_blocks, s), ip_ifs)
    BY <2>1, <2>4, GoodBlocks
  <2> QED BY <1>3, <2>5 DEF IInv, TypedIn, step
<1> QED BY <1>2, <1>3, StopKeeps DEF given, unclosed, room, peek, is_empty

LEMMA StartIfsKeeps == ASSUME IInv, StartIfs PROVE IInv'
<1> DEFINE step == /\ ip_ifs' = opened(ip_ifs)
                   /\ UNCHANGED <<statements, expressions, ptr_lists, ip_blocks>>
<1>1. Call(<<unopened(ip_ifs)>>, step) BY Zenon DEF StartIfs
<1> HIDE DEF step
<1>2. Stopped \/ (step /\ fault' = fault /\ unopened(ip_ifs)[1])
  BY <1>1, Reasons, Call1
<1>3. CASE step /\ fault' = fault /\ ip_ifs.count < MaxOpen
  <2>1. Good(statements, expressions, ptr_lists, ip_blocks, ip_ifs) BY DEF IInv, TypedIn
  <2>2. Good(statements, expressions, ptr_lists, ip_blocks, opened(ip_ifs))
    BY <1>3, <2>1, GoodStartIfs
  <2> QED BY <1>3, <2>2 DEF IInv, TypedIn, step
<1> QED BY <1>2, <1>3, StopKeeps DEF unopened

LEMMA PushIfKeeps ==
    ASSUME IInv, NEW c \in MaybeExp, NEW s \in MaybeStmt, PushIf(c, s) PROVE IInv'
<1> DEFINE ip == peek(ip_ifs)
           n  == PairNode(c, s)
           no_else_first == <<~ (c = NULL /\ ip = <<>>), "!else_first">>
           no_multiple   == <<~ multiple_else(c, ip), "!multiple_else">>
           step == /\ statements' = Append(statements, n)
                   /\ ip_ifs' = pushed(ip_ifs, Len(statements) + 1)
                   /\ UNCHANGED <<expressions, ptr_lists, ip_blocks>>
           an_s  == given(s)
           open  == unclosed(ip_ifs)
           node_room == room(statements, 1, MaxStatements)
           slot_room == room(ip, 1, MaxList)
           a == <<an_s, open, no_else_first, no_multiple, node_room, slot_room>>
<1>1. Call(a, step) BY Zenon DEF PushIf
<1>2. /\ an_s[2] \in Faults /\ open[2] \in Faults /\ no_else_first[2] \in Faults
      /\ no_multiple[2] \in Faults /\ node_room[2] \in Faults /\ slot_room[2] \in Faults
  BY Reasons DEF Faults
<1> HIDE DEF an_s, open, no_else_first, no_multiple, node_room, slot_room, step, n, ip
<1>3. Stopped \/ (step /\ fault' = fault /\ an_s[1] /\ open[1] /\ node_room[1] /\ slot_room[1])
  <2>1. Asserts(a) BY <1>2 DEF Asserts
  <2>2. (\A i \in 1..Len(a) : a[i][1]) => a[1][1] /\ a[2][1] /\ a[5][1] /\ a[6][1] OBVIOUS
  <2>3. a[1] = an_s /\ a[2] = open /\ a[5] = node_room /\ a[6] = slot_room OBVIOUS
  <2> HIDE DEF a
  <2>4. Stopped \/ (step /\ fault' = fault /\ \A i \in 1..Len(a) : a[i][1])
    BY <1>1, <2>1, CallCases
  <2> QED BY <2>2, <2>3, <2>4
<1>4. CASE /\ step /\ fault' = fault /\ s # NULL /\ ip_ifs.count # 0
           /\ Len(statements) + 1 <= MaxStatements
           /\ Len(ip_ifs.slots[ip_ifs.count]) + 1 <= MaxList
  <2>1. Good(statements, expressions, ptr_lists, ip_blocks, ip_ifs) BY DEF IInv, TypedIn
  <2>2. n.kind = "_stmt_raw_if" /\ n.maybe_condition = c /\ n.statement = s
    BY DEF n, PairNode
  <2>3. OlderStmt(statements, s, Len(statements) + 1)
    <3>1. Len(statements) \in Nat BY <2>1, GoodFacts
    <3> QED BY <1>4, <3>1 DEF MaybeStmt, Stmts, OlderStmt
  <2>4. StmtIn(statements, expressions, ptr_lists, n, Len(statements) + 1)
    BY <2>2, <2>3 DEF StmtIn, StmtKinds, MaybeExp, Exps, MaybeOf
  <2>5. Good(Append(statements, n), expressions, ptr_lists, ip_blocks,
             pushed(ip_ifs, Len(statements) + 1))
    BY <1>4, <2>1, <2>2, <2>4, GoodPair
  <2>6. Len(Append(statements, n)) = Len(statements) + 1 BY <2>1, GoodFacts, Appended
  <2> QED BY <1>4, <2>5, <2>6 DEF IInv, TypedIn, step
<1> QED BY <1>3, <1>4, StopKeeps DEF given, unclosed, room, peek, is_empty, ip,
                                     an_s, open, node_room, slot_room

LEMMA EndBlockKeeps == ASSUME IInv, EndBlock PROVE IInv'
<1> DEFINE top == peek(ip_blocks)
           n   == ListNode("stmt_block", top)
           filled == <<top # <<>>, "!ip->is_empty()">>
           step == /\ statements' = Append(statements, n)
                   /\ ptr_lists' = ptr_lists \o top
                   /\ expressions' = expressions
                   /\ ip_blocks' = closed(ip_blocks) /\ UNCHANGED ip_ifs
<1>1. Call(<<unclosed(ip_blocks), filled, room(statements, 1, MaxStatements),
             room(ptr_lists, Len(top), MaxPtrs)>>, step)
  BY Zenon DEF EndBlock, EndList
<1>2. filled[2] \in Faults /\ filled[1] = (top # <<>>) BY DEF Faults
<1> HIDE DEF filled, step, n, top
<1>3. \/ Stopped
      \/ /\ step /\ fault' = fault /\ unclosed(ip_blocks)[1] /\ filled[1]
         /\ room(statements, 1, MaxStatements)[1] /\ room(ptr_lists, Len(top), MaxPtrs)[1]
  BY <1>1, <1>2, Reasons, Call4
<1>4. CASE /\ step /\ fault' = fault /\ ip_blocks.count # 0 /\ top # <<>>
           /\ Len(statements) + 1 <= MaxStatements /\ Len(ptr_lists) + Len(top) <= MaxPtrs
  <2>1. Good(statements, expressions, ptr_lists, ip_blocks, ip_ifs) BY DEF IInv, TypedIn
  <2>2. top = ip_blocks.slots[ip_blocks.count] BY <1>4 DEF top, peek, is_empty
  <2>3. n.kind = "stmt_block" /\ n.count = Len(top) /\ n.first = Len(ptr_lists) + 1
    BY DEF n, ListNode
  <2>4. Good(Append(statements, n), expressions, ptr_lists \o top, closed(ip_blocks), ip_ifs)
    BY <1>4, <2>1, <2>2, <2>3, GoodEndBlock
  <2>5. Len(Append(statements, n)) = Len(statements) + 1 BY <2>1, GoodFacts, Appended
  <2>6. Len(ptr_lists \o top) = Len(ptr_lists) + Len(top)
    <3>1. ptr_lists \in Seq(Nat)
      <4>1. ptr_lists \in Seq(1..Len(statements)) /\ Len(statements) \in Nat BY <2>1, GoodFacts
      <4> QED BY <4>1
    <3>2. top \in Seq(Nat)
      <4>1. Stack(ip_blocks, StmtsOf(statements)) BY <2>1, GoodFacts
      <4>2. ip_blocks.count \in 1..MaxOpen BY <1>4, <4>1, StackFields
      <4> QED BY <2>2, <4>1, <4>2 DEF Stack
    <3> QED BY <3>1, <3>2, Joined
  <2> QED BY <1>4, <2>4, <2>5, <2>6 DEF IInv, TypedIn, step
<1> QED BY <1>2, <1>3, <1>4, StopKeeps DEF unclosed, room, is_empty

LEMMA EndIfsKeeps == ASSUME IInv, EndIfs PROVE IInv'
<1> DEFINE top == peek(ip_ifs)
           n   == ListNode("stmt_ifs", top)
           filled == <<top # <<>>, "!ip->is_empty()">>
           step == /\ statements' = Append(statements, n)
                   /\ ptr_lists' = ptr_lists \o top
                   /\ expressions' = expressions
                   /\ ip_ifs' = closed(ip_ifs) /\ UNCHANGED ip_blocks
<1>1. Call(<<unclosed(ip_ifs), filled, room(statements, 1, MaxStatements),
             room(ptr_lists, Len(top), MaxPtrs)>>, step)
  BY Zenon DEF EndIfs, EndList
<1>2. filled[2] \in Faults /\ filled[1] = (top # <<>>) BY DEF Faults
<1> HIDE DEF filled, step, n, top
<1>3. \/ Stopped
      \/ /\ step /\ fault' = fault /\ unclosed(ip_ifs)[1] /\ filled[1]
         /\ room(statements, 1, MaxStatements)[1] /\ room(ptr_lists, Len(top), MaxPtrs)[1]
  BY <1>1, <1>2, Reasons, Call4
<1>4. CASE /\ step /\ fault' = fault /\ ip_ifs.count # 0 /\ top # <<>>
           /\ Len(statements) + 1 <= MaxStatements /\ Len(ptr_lists) + Len(top) <= MaxPtrs
  <2>1. Good(statements, expressions, ptr_lists, ip_blocks, ip_ifs) BY DEF IInv, TypedIn
  <2>2. top = ip_ifs.slots[ip_ifs.count] BY <1>4 DEF top, peek, is_empty
  <2>3. n.kind = "stmt_ifs" /\ n.count = Len(top) /\ n.first = Len(ptr_lists) + 1
    BY DEF n, ListNode
  <2>4. Good(Append(statements, n), expressions, ptr_lists \o top, ip_blocks, closed(ip_ifs))
    BY <1>4, <2>1, <2>2, <2>3, GoodEndIfs
  <2>5. Len(Append(statements, n)) = Len(statements) + 1 BY <2>1, GoodFacts, Appended
  <2>6. Len(ptr_lists \o top) = Len(ptr_lists) + Len(top)
    <3>1. ptr_lists \in Seq(Nat)
      <4>1. ptr_lists \in Seq(1..Len(statements)) /\ Len(statements) \in Nat BY <2>1, GoodFacts
      <4> QED BY <4>1
    <3>2. top \in Seq(Nat)
      <4>1. Stack(ip_ifs, PairsOf(statements)) BY <2>1, GoodFacts
      <4>2. ip_ifs.count \in 1..MaxOpen BY <1>4, <4>1, StackFields
      <4> QED BY <2>2, <4>1, <4>2 DEF Stack
    <3> QED BY <3>1, <3>2, Joined
  <2> QED BY <1>4, <2>4, <2>5, <2>6 DEF IInv, TypedIn, step
<1> QED BY <1>2, <1>3, <1>4, StopKeeps DEF unclosed, room, is_empty
\* A statement that holds no list
SimpleStmt(n) == /\ n.kind \notin {"_stmt_raw_if", "stmt_block", "stmt_ifs"}
                 /\ StmtIn(statements, expressions, ptr_lists, n, Len(statements) + 1)

LEMMA NewStmtKeeps ==
    ASSUME IInv, NEW STATE n, SimpleStmt(n), Len(statements) + 1 <= MaxStatements,
           statements' = Append(statements, n), fault' = fault,
           UNCHANGED <<expressions, ptr_lists, ip_blocks, ip_ifs>>
    PROVE  IInv'
<1>1. Good(statements, expressions, ptr_lists, ip_blocks, ip_ifs) BY DEF IInv, TypedIn
<1>2. Good(Append(statements, n), expressions, ptr_lists, ip_blocks, ip_ifs)
  BY <1>1, GoodStmt DEF SimpleStmt
<1>3. Len(Append(statements, n)) = Len(statements) + 1 BY <1>1, GoodFacts, Appended
<1> QED BY <1>2, <1>3 DEF IInv, TypedIn

LEMMA NewExpKeeps ==
    ASSUME IInv, NEW STATE n, ExpIn(n, Len(expressions) + 1),
           Len(expressions) + 1 <= MaxExpressions,
           expressions' = Append(expressions, n), fault' = fault,
           UNCHANGED <<statements, ptr_lists, ip_blocks, ip_ifs>>
    PROVE  IInv'
<1>1. Good(statements, expressions, ptr_lists, ip_blocks, ip_ifs) BY DEF IInv, TypedIn
<1>2. Good(statements, Append(expressions, n), ptr_lists, ip_blocks, ip_ifs)
  BY <1>1, GoodExp
<1>3. Len(Append(expressions, n)) = Len(expressions) + 1 BY <1>1, GoodFacts, Appended
<1> QED BY <1>2, <1>3 DEF IInv, TypedIn

Passed(a) == \A i \in 1..Len(a) : a[i][1]

LEMMA OneMore ==
    ASSUME NEW a, IsSeq(a), Asserts(a), NEW x, x[2] \in Faults
    PROVE  /\ Asserts(Append(a, x))
           /\ (\A i \in 1..Len(Append(a, x)) : Append(a, x)[i][1]) => Passed(a) /\ x[1]
<1>1. /\ Len(Append(a, x)) = Len(a) + 1 /\ Append(a, x)[Len(a) + 1] = x /\ Len(a) \in Nat
      /\ \A i \in 1..Len(a) : Append(a, x)[i] = a[i]
  BY Appended DEF IsSeq
<1> DEFINE b == Append(a, x)
<1> HIDE DEF b
<1>2. /\ \A i \in 1..Len(b) : i \in 1..Len(a) \/ i = Len(a) + 1
      /\ \A i \in 1..Len(a) : i \in 1..Len(b)
      /\ Len(a) + 1 \in 1..Len(b) /\ Len(b) \in Nat
  BY <1>1 DEF b
<1>3. Asserts(b) BY <1>1, <1>2 DEF Asserts, b
<1>4. (\A i \in 1..Len(b) : b[i][1]) => Passed(a) /\ x[1] BY <1>1, <1>2 DEF Passed, b
<1> QED BY <1>3, <1>4 DEF b

LEMMA NewStmtCall ==
    ASSUME IInv, NEW STATE a, IsSeq(a), Asserts(a), NEW STATE n, Passed(a) => SimpleStmt(n),
           NewStmt(a, n)
    PROVE  IInv'
<1> DEFINE fits == room(statements, 1, MaxStatements)
           b    == Append(a, fits)
           step == /\ statements' = Append(statements, n)
                   /\ UNCHANGED <<expressions, ptr_lists, ip_blocks, ip_ifs>>
<1>1. Call(b, step) BY Zenon DEF NewStmt
<1>2. fits[2] \in Faults BY Reasons
<1> HIDE DEF step, fits
<1>3. Asserts(b) /\ ((\A i \in 1..Len(b) : b[i][1]) => Passed(a) /\ fits[1]) BY <1>2, OneMore
<1> HIDE DEF b
<1>4. Stopped \/ (step /\ fault' = fault /\ \A i \in 1..Len(b) : b[i][1])
  BY <1>1, <1>3, CallCases
<1>5. CASE step /\ fault' = fault /\ Passed(a) /\ Len(statements) + 1 <= MaxStatements
  BY <1>5, NewStmtKeeps DEF step
<1> QED BY <1>3, <1>4, <1>5, StopKeeps DEF room, fits

LEMMA NewExpCall ==
    ASSUME IInv, NEW STATE a, IsSeq(a), Asserts(a), NEW STATE n,
           Passed(a) => ExpIn(n, Len(expressions) + 1), NewExp(a, n)
    PROVE  IInv'
<1> DEFINE fits == room(expressions, 1, MaxExpressions)
           b    == Append(a, fits)
           step == /\ expressions' = Append(expressions, n)
                   /\ UNCHANGED <<statements, ptr_lists, ip_blocks, ip_ifs>>
<1>1. Call(b, step) BY Zenon DEF NewExp
<1>2. fits[2] \in Faults BY Reasons
<1> HIDE DEF step, fits
<1>3. Asserts(b) /\ ((\A i \in 1..Len(b) : b[i][1]) => Passed(a) /\ fits[1]) BY <1>2, OneMore
<1> HIDE DEF b
<1>4. Stopped \/ (step /\ fault' = fault /\ \A i \in 1..Len(b) : b[i][1])
  BY <1>1, <1>3, CallCases
<1>5. CASE step /\ fault' = fault /\ Passed(a) /\ Len(expressions) + 1 <= MaxExpressions
  BY <1>5, NewExpKeeps DEF step
<1> QED BY <1>3, <1>4, <1>5, StopKeeps DEF room, fits

LEMMA Tuple0 == IsSeq(<<>>) /\ Asserts(<<>>)
BY DEF IsSeq, Asserts

LEMMA Tuple1 ==
    ASSUME NEW x, x[2] \in Faults
    PROVE  IsSeq(<<x>>) /\ Asserts(<<x>>) /\ (Passed(<<x>>) => x[1])
BY DEF IsSeq, Asserts, Passed

LEMMA Tuple2 ==
    ASSUME NEW x, x[2] \in Faults, NEW y, y[2] \in Faults
    PROVE  IsSeq(<<x, y>>) /\ Asserts(<<x, y>>) /\ (Passed(<<x, y>>) => x[1] /\ y[1])
BY DEF IsSeq, Asserts, Passed

LEMMA Tuple3 ==
    ASSUME NEW x, x[2] \in Faults, NEW y, y[2] \in Faults, NEW z, z[2] \in Faults
    PROVE  /\ IsSeq(<<x, y, z>>) /\ Asserts(<<x, y, z>>)
           /\ Passed(<<x, y, z>>) => x[1] /\ y[1] /\ z[1]
BY DEF IsSeq, Asserts, Passed

-----------------------------------------------------------------------------
LEMMA Clients ==
    ASSUME IInv
    PROVE  /\ MaybeExp = MaybeOf(expressions) /\ Stmts = StmtsOf(statements)
           /\ \A e \in MaybeExp : e # NULL => e \in 1..Len(expressions) + 1 - 1
           /\ \A s \in MaybeStmt : s # NULL => OlderStmt(statements, s, Len(statements) + 1)
           /\ \A n \in MaybeIdent : n # NULL => n \in IdentsOf(expressions)
<1>1. Good(statements, expressions, ptr_lists, ip_blocks, ip_ifs) BY DEF IInv, TypedIn
<1>2. Len(statements) \in Nat /\ Len(expressions) \in Nat BY <1>1, GoodFacts
<1>3. \A n \in MaybeIdent : n # NULL => n \in IdentsOf(expressions)
  BY DEF MaybeIdent, Idents, IdentsOf, Exps
<1>4. MaybeExp = MaybeOf(expressions) /\ Stmts = StmtsOf(statements)
  BY DEF MaybeExp, MaybeOf, Exps, Stmts, StmtsOf
<1>5. \A e \in MaybeExp : e # NULL => e \in 1..Len(expressions) + 1 - 1
  BY <1>2 DEF MaybeExp, Exps
<1>6. \A s \in MaybeStmt : s # NULL => OlderStmt(statements, s, Len(statements) + 1)
  BY <1>2 DEF MaybeStmt, Stmts, OlderStmt
<1> QED BY <1>3, <1>4, <1>5, <1>6

LEMMA StatementsKeep ==
    ASSUME IInv
    PROVE  /\ \A l, r \in MaybeExp : Assign(l, r) => IInv'
           /\ \A t, m \in MaybeIdent, e \in MaybeExp : LocalDecl(t, m, e) => IInv'
           /\ Nop => IInv'
           /\ \A e \in MaybeExp : ReturnStmt(e) => IInv'
           /\ \A s \in MaybeStmt : DBGStmt(s) => IInv'
<1>1. ASSUME NEW l \in MaybeExp, NEW r \in MaybeExp, Assign(l, r) PROVE IInv'
  <2> DEFINE n == assign(l, r)
  <2>1. n.kind = "stmt_assign" /\ n.left = l /\ n.right = r BY DEF assign
  <2>2. NewStmt(<<>>, n) BY <1>1 DEF Assign
  <2> HIDE DEF n
  <2>3. SimpleStmt(n) BY <2>1, Clients DEF SimpleStmt, StmtIn, StmtKinds
  <2> QED BY <2>2, <2>3, Tuple0, NewStmtCall
<1>2. ASSUME NEW t \in MaybeIdent, NEW m \in MaybeIdent, NEW e \in MaybeExp, LocalDecl(t, m, e)
      PROVE  IInv'
  <2> DEFINE n == local_decl(m, e)
             x == given(t)
             y == given(m)
  <2>1. n.kind = "stmt_local_decl" /\ n.name = m /\ n.maybe_expression = e BY DEF local_decl
  <2>2. NewStmt(<<x, y>>, n) BY <1>2 DEF LocalDecl
  <2>3. x[2] \in Faults /\ y[2] \in Faults /\ (y[1] => m # NULL) BY Reasons DEF given
  <2> HIDE DEF n, x, y
  <2>4. m # NULL => SimpleStmt(n) BY <2>1, Clients DEF SimpleStmt, StmtIn, StmtKinds
  <2> QED BY <2>2, <2>3, <2>4, Tuple2, NewStmtCall
<1>3. ASSUME Nop PROVE IInv'
  <2> DEFINE n == nop_stmt
  <2>1. n.kind = "stmt_nop" BY DEF nop_stmt
  <2>2. NewStmt(<<>>, n) BY <1>3 DEF Nop
  <2> HIDE DEF n
  <2>3. SimpleStmt(n) BY <2>1 DEF SimpleStmt, StmtIn, StmtKinds
  <2> QED BY <2>2, <2>3, Tuple0, NewStmtCall
<1>4. ASSUME NEW e \in MaybeExp, ReturnStmt(e) PROVE IInv'
  <2> DEFINE n == return_stmt(e)
  <2>1. n.kind = "stmt_return" /\ n.maybe_expression = e BY DEF return_stmt
  <2>2. NewStmt(<<>>, n) BY <1>4 DEF ReturnStmt
  <2> HIDE DEF n
  <2>3. SimpleStmt(n) BY <2>1, Clients DEF SimpleStmt, StmtIn, StmtKinds
  <2> QED BY <2>2, <2>3, Tuple0, NewStmtCall
<1>5. ASSUME NEW s \in MaybeStmt, DBGStmt(s) PROVE IInv'
  <2> DEFINE n == DBG_stmt(s)
             x == given(s)
  <2>1. n.kind = "UNUSED" /\ n.statement = s BY DEF DBG_stmt
  <2>2. NewStmt(<<x>>, n) BY <1>5 DEF DBGStmt
  <2>3. x[2] \in Faults /\ (x[1] => s # NULL) BY Reasons DEF given
  <2> HIDE DEF n, x
  <2>4. s # NULL => SimpleStmt(n) BY <2>1, Clients DEF SimpleStmt, StmtIn, StmtKinds
  <2> QED BY <2>2, <2>3, <2>4, Tuple1, NewStmtCall
<1> QED BY <1>1, <1>2, <1>3, <1>4, <1>5

LEMMA ExpressionsKeep ==
    ASSUME IInv
    PROVE  /\ \A l, r \in MaybeExp, o \in op \cup {"UNUSED"} : BinaryExp(l, o, r) => IInv'
           /\ \A name \in Names : Ident(name) => IInv'
           /\ \A v \in Literals : Literal(v) => IInv'
           /\ \A e \in MaybeExp : DBGExp(e) => IInv'
<1>1. ASSUME NEW l \in MaybeExp, NEW r \in MaybeExp, NEW o \in op \cup {"UNUSED"},
             BinaryExp(l, o, r)
      PROVE  IInv'
  <2> DEFINE n == binary_exp(l, o, r)
             x == given(l)
             y == given(r)
             z == <<o # "UNUSED", "op != UNUSED">>
  <2>1. n.kind = "exp_binary" /\ n.left = l /\ n.right = r /\ n.op = o BY DEF binary_exp
  <2>2. NewExp(<<x, y, z>>, n) BY <1>1 DEF BinaryExp
  <2>3. /\ x[2] \in Faults /\ y[2] \in Faults /\ z[2] \in Faults
        /\ (x[1] => l # NULL) /\ (y[1] => r # NULL) /\ (z[1] => o # "UNUSED")
    BY Reasons DEF given, Faults
  <2> HIDE DEF n, x, y, z
  <2>4. l # NULL /\ r # NULL /\ o # "UNUSED" => ExpIn(n, Len(expressions) + 1)
    BY <2>1, Clients DEF ExpIn, ExpKinds
  <2> QED BY <2>2, <2>3, <2>4, Tuple3, NewExpCall
<1>2. ASSUME NEW name \in Names, Ident(name) PROVE IInv'
  <2> DEFINE n == ident(name)
  <2>1. n.kind = "exp_ident" /\ n.name = name BY DEF ident
  <2>2. NewExp(<<>>, n) BY <1>2 DEF Ident
  <2> HIDE DEF n
  <2>3. ExpIn(n, Len(expressions) + 1) BY <2>1 DEF ExpIn, ExpKinds
  <2> QED BY <2>2, <2>3, Tuple0, NewExpCall
<1>3. ASSUME NEW v \in Literals, Literal(v) PROVE IInv'
  <2> DEFINE n == literal_exp(v)
  <2>1. n.kind = "exp_literal" /\ n.val_u64 = v BY DEF literal_exp
  <2>2. NewExp(<<>>, n) BY <1>3 DEF Literal
  <2> HIDE DEF n
  <2>3. ExpIn(n, Len(expressions) + 1) BY <2>1 DEF ExpIn, ExpKinds
  <2> QED BY <2>2, <2>3, Tuple0, NewExpCall
<1>4. ASSUME NEW e \in MaybeExp, DBGExp(e) PROVE IInv'
  <2> DEFINE n == DBG_exp(e)
             x == given(e)
  <2>1. n.kind = "UNUSED" /\ n.expression = e BY DEF DBG_exp
  <2>2. NewExp(<<x>>, n) BY <1>4 DEF DBGExp
  <2>3. x[2] \in Faults /\ (x[1] => e # NULL) BY Reasons DEF given
  <2> HIDE DEF n, x
  <2>4. e # NULL => ExpIn(n, Len(expressions) + 1) BY <2>1, Clients DEF ExpIn, ExpKinds
  <2> QED BY <2>2, <2>3, <2>4, Tuple1, NewExpCall
<1> QED BY <1>1, <1>2, <1>3, <1>4

LEMMA Initially == ASSUME Init PROVE IInv
<1> DEFINE s == <<>>
<1>1. IsSeq(s) /\ Len(s) = 0 /\ s \in Seq(1..Len(s)) BY DEF IsSeq
<1>2. 1..Len(s) = {} BY <1>1
<1> HIDE DEF s
<1>3. Made(s, s, s) BY <1>1, <1>2 DEF Made
<1>4. StmtsOf(s) = {} /\ PairsOf(s) = {} BY <1>2 DEF StmtsOf, PairsOf
<1>5. ASSUME NEW M PROVE Stack(EmptyStack, M)
  <2>1. EmptyStack.slots \in [1..MaxOpen -> Seq(Nat)] /\ EmptyStack.count = 0
    BY DEF EmptyStack
  <2>2. EmptyStack \in [slots : [1..MaxOpen -> Seq(Nat)], count : 0..MaxOpen]
    BY Bounds DEF EmptyStack
  <2>3. 1..0 = {} OBVIOUS
  <2> QED BY <2>1, <2>2, <2>3 DEF Stack
<1>6. EntriesOwned(s, s) BY <1>2 DEF EntriesOwned
<1>7. Good(s, s, s, EmptyStack, EmptyStack) BY <1>3, <1>4, <1>5, <1>6 DEF Good
<1> QED BY <1>1, <1>7, Bounds DEF Init, IInv, TypedIn, Faults, s

LEMMA NextKeeps == ASSUME IInv, [Next]_vars PROVE IInv'
<1>1. CASE StartBlock \/ EndBlock \/ StartIfs \/ EndIfs
  BY <1>1, StartBlockKeeps, EndBlockKeeps, StartIfsKeeps, EndIfsKeeps
<1>2. CASE \E s \in MaybeStmt : PushBlockStmt(s) BY <1>2, PushBlockStmtKeeps
<1>3. CASE \E s \in MaybeStmt, e \in MaybeExp : PushIf(e, s) BY <1>3, PushIfKeeps
<1>4. CASE \/ Nop \/ \E l, r \in MaybeExp : Assign(l, r)
           \/ \E t, n \in MaybeIdent, e \in MaybeExp : LocalDecl(t, n, e)
           \/ \E e \in MaybeExp : ReturnStmt(e)
           \/ \E s \in MaybeStmt : DBGStmt(s)
  BY <1>4, StatementsKeep, Zenon
<1>5. CASE \/ \E l, r \in MaybeExp, o \in op \cup {"UNUSED"} : BinaryExp(l, o, r)
           \/ \E n \in Names : Ident(n)
           \/ \E v \in Literals : Literal(v)
           \/ \E e \in MaybeExp : DBGExp(e)
  BY <1>5, ExpressionsKeep, Zenon
<1>6. CASE Exited \/ UNCHANGED vars BY <1>6 DEF Exited, vars, IInv
<1> QED BY <1>1, <1>2, <1>3, <1>4, <1>5, <1>6, Zenon DEF Next

LEMMA IInvHolds == Spec => []IInv
BY Initially, NextKeeps, PTL DEF Spec

-----------------------------------------------------------------------------
(***************************************************************************)
(* What the invariant says in the words of AstBuilder.                     *)
(***************************************************************************)
LEMMA Same == /\ Exps = 1..Len(expressions) /\ Idents = IdentsOf(expressions)
              /\ Stmts = StmtsOf(statements) /\ MaybeExp = MaybeOf(expressions)
              /\ 1..Len(statements) \ Stmts = PairsOf(statements)
              /\ ListNodes = ListsOf(statements)
              /\ \A s : Slice(s) = SliceOf(statements[s])
BY DEF Exps, Idents, IdentsOf, Stmts, StmtsOf, MaybeExp, MaybeOf, PairsOf, ListNodes, ListsOf,
       Slice, SliceOf

LEMMA ExpsOK ==
    ASSUME Made(statements, expressions, ptr_lists), NEW i \in Exps PROVE ExpOK(i)
<1> DEFINE n == expressions[i]
<1>1. ExpIn(n, i) /\ i \in Nat \ {0} BY DEF Made, Exps
<1>2. \A e \in 1..i - 1 : e # NULL /\ Before(i, e) BY <1>1 DEF Before, NULL
<1> HIDE DEF n
<1>3. CASE n.kind = "exp_binary" BY <1>1, <1>2, <1>3 DEF ExpIn, ExpOK, n
<1>4. CASE n.kind = "UNUSED" BY <1>1, <1>2, <1>4 DEF ExpIn, ExpOK, n
<1>5. CASE n.kind = "exp_ident" BY <1>1, <1>5 DEF ExpIn, ExpOK, n
<1>6. CASE n.kind = "exp_literal" BY <1>1, <1>6 DEF ExpIn, ExpOK, n
<1> QED BY <1>1, <1>3, <1>4, <1>5, <1>6 DEF ExpIn, ExpKinds

LEMMA StmtsOK ==
    ASSUME Made(statements, expressions, ptr_lists), NEW i \in 1..Len(statements)
    PROVE  StmtOK(i)
<1> DEFINE n == statements[i]
<1>1. StmtIn(statements, expressions, ptr_lists, n, i) /\ Len(statements) \in Nat
  BY DEF Made, IsSeq
<1>2. \A s : OlderStmt(statements, s, i) => s \in Stmts /\ s < i
  <2> SUFFICES ASSUME NEW s, OlderStmt(statements, s, i) PROVE s \in Stmts /\ s < i OBVIOUS
  <2>1. s \in 1..Len(statements) /\ s < i BY <1>1 DEF OlderStmt
  <2> QED BY <2>1 DEF OlderStmt, Stmts
<1>3. Filled(ptr_lists, n) => Slice(i) # {} /\ Slice(i) \subseteq 1..Len(ptr_lists)
  <2> SUFFICES ASSUME Filled(ptr_lists, n)
               PROVE  Slice(i) # {} /\ Slice(i) \subseteq 1..Len(ptr_lists)
    OBVIOUS
  <2>1. n.first \in SliceOf(n) BY DEF Filled, SliceOf
  <2> QED BY <2>1, Same DEF Filled
<1>4. Slice(i) = SliceOf(n) BY Same
<1> HIDE DEF n
<1>5. CASE n.kind = "stmt_assign" BY <1>1, <1>5, Same DEF StmtIn, StmtOK, n
<1>6. CASE n.kind = "stmt_local_decl" BY <1>1, <1>6, Same DEF StmtIn, StmtOK, n
<1>7. CASE n.kind = "stmt_nop" BY <1>7 DEF StmtOK, n
<1>8. CASE n.kind = "stmt_return" BY <1>1, <1>8, Same DEF StmtIn, StmtOK, n
<1>9. CASE n.kind = "UNUSED" BY <1>1, <1>2, <1>9 DEF StmtIn, StmtOK, n
<1>10. CASE n.kind = "_stmt_raw_if" BY <1>1, <1>2, <1>10, Same DEF StmtIn, StmtOK, n
<1>11. CASE n.kind = "stmt_block"
  <2>1. \A k \in Slice(i) : ptr_lists[k] \in Stmts /\ ptr_lists[k] < i
    BY <1>1, <1>2, <1>4, <1>11 DEF StmtIn
  <2>2. Filled(ptr_lists, n) BY <1>1, <1>11 DEF StmtIn
  <2> QED BY <1>3, <1>11, <2>1, <2>2 DEF StmtOK, n
<1>12. CASE n.kind = "stmt_ifs"
  <2>1. \A k \in Slice(i) : /\ ptr_lists[k] \in 1..i - 1
                            /\ statements[ptr_lists[k]].kind = "_stmt_raw_if"
    BY <1>1, <1>4, <1>12 DEF StmtIn, OlderPair
  <2>2. Filled(ptr_lists, n) BY <1>1, <1>12 DEF StmtIn
  <2> QED BY <1>3, <1>12, <2>1, <2>2 DEF StmtOK, n
<1>13. n.kind \in StmtKinds BY <1>1 DEF StmtIn
<1> QED BY <1>5, <1>6, <1>7, <1>8, <1>9, <1>10, <1>11, <1>12, <1>13 DEF StmtKinds

\* Whatever clients call, every pointer of a node is to a node made before, of
\* the kind it must be, and a list lies within ptr_lists.
THEOREM AstTypeCorrect == Spec => []TypeOK
<1>1. ASSUME IInv PROVE TypeOK
  <2>1. Good(statements, expressions, ptr_lists, ip_blocks, ip_ifs)
    BY <1>1 DEF IInv, TypedIn
  <2>2. /\ Made(statements, expressions, ptr_lists) /\ ptr_lists \in Seq(1..Len(statements))
        /\ Stack(ip_blocks, StmtsOf(statements)) /\ Stack(ip_ifs, PairsOf(statements))
    BY <2>1, GoodFacts
  <2>3. \A i \in 1..Len(statements) : StmtOK(i) BY <2>2, StmtsOK
  <2>4. \A i \in Exps : ExpOK(i) BY <2>2, ExpsOK
  <2>5. ip_blocks.count \in 0..MaxOpen /\ ip_ifs.count \in 0..MaxOpen BY <2>2, StackFields
  <2>6. \A l \in Open(ip_blocks) : l \in Seq(Stmts) /\ Len(l) <= MaxList
    BY <2>2, Same DEF Stack, Open
  <2>7. \A l \in Open(ip_ifs) : l \in Seq(1..Len(statements) \ Stmts) /\ Len(l) <= MaxList
    BY <2>2, Same DEF Stack, Open
  <2> QED BY <1>1, <2>2, <2>3, <2>4, <2>5, <2>6, <2>7 DEF TypeOK, IInv, TypedIn, Faults
<1> QED BY <1>1, IInvHolds, PTL

LEMMA OneAndNone == \A m, n : (m = 1 /\ n = 0) \/ (m = 0 /\ n = 1) => m + n = 1
OBVIOUS

LEMMA OneOf ==
    ASSUME NEW p \in PairsOf(statements), Owned(ptr_lists, ip_ifs, p),
           Stack(ip_ifs, PairsOf(statements)),
           NEW finished, finished = {k \in 1..Len(ptr_lists) : ptr_lists[k] = p},
           NEW pending, pending = {at \in (1..ip_ifs.count) \X (1..MaxList) :
                                      /\ at[2] <= Len(ip_ifs.slots[at[1]])
                                      /\ ip_ifs.slots[at[1]][at[2]] = p}
    PROVE  Cardinality(finished) + Cardinality(pending) = 1
<1>1. \A k : k \in finished <=> InList(ptr_lists, k, p) BY DEF InList
<1>2. \A at \in pending : InSlot(ip_ifs, at[1], at[2], p)
  <2> SUFFICES ASSUME NEW at \in pending PROVE InSlot(ip_ifs, at[1], at[2], p) OBVIOUS
  <2>1. at[1] \in 1..ip_ifs.count /\ at[2] \in 1..MaxList OBVIOUS
  <2>2. ip_ifs.slots[at[1]] \in Seq(PairsOf(statements)) BY <2>1 DEF Stack
  <2>3. at[2] \in 1..Len(ip_ifs.slots[at[1]]) BY <2>1, <2>2, Bounds
  <2> QED BY <2>1, <2>3 DEF InSlot
<1>3. \A i, j : InSlot(ip_ifs, i, j, p) => <<i, j>> \in pending
  <2> SUFFICES ASSUME NEW i, NEW j, InSlot(ip_ifs, i, j, p) PROVE <<i, j>> \in pending OBVIOUS
  <2>1. i \in 1..ip_ifs.count /\ j \in 1..Len(ip_ifs.slots[i]) BY DEF InSlot
  <2>2. ip_ifs.slots[i] \in Seq(PairsOf(statements)) /\ Len(ip_ifs.slots[i]) <= MaxList
    BY <2>1 DEF Stack
  <2>3. j \in 1..MaxList /\ j <= Len(ip_ifs.slots[i]) BY <2>1, <2>2, Bounds
  <2> QED BY <2>1, <2>3 DEF InSlot
<1>4. \A at \in pending : at = <<at[1], at[2]>> OBVIOUS
<1>5. Cardinality({}) = 0 /\ \A x : Cardinality({x}) = 1 BY FS_EmptySet, FS_Singleton
<1>6. CASE /\ \E k : InList(ptr_lists, k, p) /\ \A l : InList(ptr_lists, l, p) => l = k
           /\ \A i, j : ~ InSlot(ip_ifs, i, j, p)
  <2>1. PICK k : InList(ptr_lists, k, p) /\ \A l : InList(ptr_lists, l, p) => l = k BY <1>6
  <2>2. finished = {k} BY <1>1, <2>1, Zenon
  <2>3. pending = {} BY <1>2, <1>6, Zenon
  <2>4. Cardinality(finished) = 1 /\ Cardinality(pending) = 0 BY <1>5, <2>2, <2>3, Zenon
  <2> QED BY <2>4, OneAndNone
<1>7. CASE /\ \E i, j : /\ InSlot(ip_ifs, i, j, p)
                       /\ \A e, f : InSlot(ip_ifs, e, f, p) => e = i /\ f = j
           /\ \A k : ~ InList(ptr_lists, k, p)
  <2>1. PICK i, j : /\ InSlot(ip_ifs, i, j, p)
                    /\ \A e, f : InSlot(ip_ifs, e, f, p) => e = i /\ f = j
    BY <1>7
  <2>2. \A at \in pending : at = <<i, j>> BY <1>2, <1>4, <2>1
  <2>3. <<i, j>> \in pending BY <1>3, <2>1
  <2>4. pending = {<<i, j>>} BY <2>2, <2>3, Zenon
  <2>5. finished = {} BY <1>1, <1>7, Zenon
  <2>6. Cardinality(finished) = 0 /\ Cardinality(pending) = 1 BY <1>5, <2>4, <2>5, Zenon
  <2> QED BY <2>6, OneAndNone
<1> QED BY <1>6, <1>7 DEF Owned

\* However blocks and ifs nest and slots are used again, each entry of
\* ptr_lists belongs to one list of one node, and each if pair to one chain,
\* finished or under construction.
THEOREM OwnersKept == Spec => []OneOwnerEach
<1>1. ASSUME IInv PROVE OneOwnerEach
  <2>1. Good(statements, expressions, ptr_lists, ip_blocks, ip_ifs)
    BY <1>1 DEF IInv, TypedIn
  <2>2. /\ EntriesOwned(statements, ptr_lists) /\ Stack(ip_ifs, PairsOf(statements))
        /\ \A p \in PairsOf(statements) : Owned(ptr_lists, ip_ifs, p)
    BY <2>1, GoodFacts
  <2>3. \A k \in 1..Len(ptr_lists) : \E s \in ListNodes :
           k \in Slice(s) /\ \A t \in ListNodes : k \in Slice(t) => s = t
    BY <2>2, Same DEF EntriesOwned
  <2>4. \A p \in 1..Len(statements) \ Stmts :
          LET finished == {k \in 1..Len(ptr_lists) : ptr_lists[k] = p}
              pending  == {at \in (1..ip_ifs.count) \X (1..MaxList) :
                              /\ at[2] <= Len(ip_ifs.slots[at[1]])
                              /\ ip_ifs.slots[at[1]][at[2]] = p}
          IN  Cardinality(finished) + Cardinality(pending) = 1
    <3> SUFFICES ASSUME NEW p \in PairsOf(statements)
                 PROVE  Cardinality({k \in 1..Len(ptr_lists) : ptr_lists[k] = p})
                        + Cardinality({at \in (1..ip_ifs.count) \X (1..MaxList) :
                              /\ at[2] <= Len(ip_ifs.slots[at[1]])
                              /\ ip_ifs.slots[at[1]][at[2]] = p}) = 1
      BY Same
    <3>1. Owned(ptr_lists, ip_ifs, p) BY <2>2
    <3> QED BY <2>2, <3>1, OneOf
  <2> QED BY <2>3, <2>4 DEF OneOwnerEach
<1> QED BY <1>1, IInvHolds, PTL

-----------------------------------------------------------------------------
(***************************************************************************)
(* The trees that nodes stand for.  A tree is read off a node and the      *)
(* trees of older nodes, so there is one function that gives them, and     *)
(* nodes that are added change none.                                       *)
(***************************************************************************)
\* The tree of the expression node n, f being the trees of older ones
ExpValue(n, f) == CASE n.kind = "exp_binary" -> binary_exp(f[n.left], n.op, f[n.right])
                    [] n.kind = "UNUSED"     -> DBG_exp(f[n.expression])
                    [] OTHER                 -> n

ExpNode(E, f, e) == IF e = NULL THEN NoExp ELSE ExpValue(E[e], f)
ExpsTo(E, f, m)  == f = [e \in 0..m |-> ExpNode(E, f, e)]
ExpsMade(E)      == IsSeq(E) /\ \A i \in 1..Len(E) : ExpIn(E[i], i)

LEMMA ExpValueLocal ==
    ASSUME NEW n, NEW i, ExpIn(n, i), NEW f, NEW g, \A d \in 1..i - 1 : f[d] = g[d]
    PROVE  ExpValue(n, f) = ExpValue(n, g)
<1>1. CASE n.kind = "exp_binary"
  <2>1. f[n.left] = g[n.left] /\ f[n.right] = g[n.right] BY <1>1 DEF ExpIn
  <2> QED BY <1>1, <2>1, Zenon DEF ExpValue
<1>2. CASE n.kind = "UNUSED"
  <2>1. f[n.expression] = g[n.expression] BY <1>2 DEF ExpIn
  <2>2. n.kind # "exp_binary" BY <1>2
  <2>3. ExpValue(n, f) = DBG_exp(f[n.expression]) /\ ExpValue(n, g) = DBG_exp(g[n.expression])
    BY <1>2, <2>2 DEF ExpValue
  <2> QED BY <2>1, <2>3
<1>3. CASE n.kind # "exp_binary" /\ n.kind # "UNUSED" BY <1>3 DEF ExpValue
<1> QED BY <1>1, <1>2, <1>3

LEMMA ExpNodeLocal ==
    ASSUME NEW E, ExpsMade(E), NEW e \in 0..Len(E), NEW f, NEW g,
           \A d \in 0..Len(E) : d < e => f[d] = g[d]
    PROVE  ExpNode(E, f, e) = ExpNode(E, g, e)
<1>1. CASE e = NULL BY <1>1 DEF ExpNode
<1>2. CASE e # NULL
  <2>1. e \in 1..Len(E) /\ Len(E) \in Nat BY <1>2 DEF ExpsMade, IsSeq, NULL
  <2>2. ExpIn(E[e], e) BY <2>1 DEF ExpsMade
  <2>3. \A d \in 1..e - 1 : f[d] = g[d] BY <2>1
  <2>4. ExpValue(E[e], f) = ExpValue(E[e], g) BY <2>2, <2>3, ExpValueLocal
  <2> QED BY <1>2, <2>4 DEF ExpNode
<1> QED BY <1>1, <1>2

\* At most one
LEMMA ExpsAgree ==
    ASSUME NEW E, ExpsMade(E), NEW E2, ExpsMade(E2), Grown(E, E2), NEW m \in 0..Len(E),
           NEW m2 \in 0..Len(E2), NEW f, ExpsTo(E, f, m), NEW g, ExpsTo(E2, g, m2)
    PROVE  \A e \in 0..m : e <= m2 => g[e] = f[e]
<1> DEFINE N == {e \in 0..m : e <= m2 /\ g[e] # f[e]}
<1> SUFFICES ASSUME N # {} PROVE FALSE
  OBVIOUS
<1>1. N \in SUBSET Nat OBVIOUS
<1> HIDE DEF N
<1>2. PICK e \in N : \A d \in N : e <= d BY <1>1, LeastNumber
<1>3. e \in 0..m /\ e <= m2 /\ g[e] # f[e] BY <1>2 DEF N
<1>4. \A d \in 0..m : d < e => g[d] = f[d] BY <1>2, <1>3 DEF N
<1>5. /\ e \in 0..Len(E) /\ e \in 0..m2 /\ Len(E) \in Nat /\ m \in Nat
      /\ \A d \in 0..Len(E) : d < e => f[d] = g[d]
  BY <1>3, <1>4 DEF Grown
<1>6. ExpNode(E, f, e) = ExpNode(E, g, e) BY <1>5, ExpNodeLocal
<1>7. ExpNode(E, g, e) = ExpNode(E2, g, e)
  <2>1. e # NULL => E2[e] = E[e] BY <1>5 DEF Grown, NULL
  <2> QED BY <2>1 DEF ExpNode
<1>8. f[e] = ExpNode(E, f, e) BY <1>3, Zenon DEF ExpsTo
<1>9. g[e] = ExpNode(E2, g, e) BY <1>5, Zenon DEF ExpsTo
<1> QED BY <1>3, <1>6, <1>7, <1>8, <1>9

\* At least one
LEMMA ExpsExist ==
    ASSUME NEW E, ExpsMade(E)
    PROVE  \E f : ExpsTo(E, f, Len(E))
<1> DEFINE N == {m \in 0..Len(E) : \A f : ~ ExpsTo(E, f, m)}
<1> SUFFICES ASSUME N # {} PROVE FALSE
  <2>1. Len(E) \in 0..Len(E) BY DEF ExpsMade, IsSeq
  <2> QED BY <2>1
<1>1. N \in SUBSET Nat OBVIOUS
<1> HIDE DEF N
<1>2. PICK m \in N : \A k \in N : m <= k BY <1>1, LeastNumber
<1>3. m \in 0..Len(E) /\ Len(E) \in Nat /\ \A f : ~ ExpsTo(E, f, m)
  BY <1>2 DEF N, ExpsMade, IsSeq
<1>4. PICK f : \A d \in 0..m - 1 : f[d] = ExpNode(E, f, d)
  <2>1. CASE m = 0
    <3>1. 0..m - 1 = {} BY <2>1
    <3> QED BY <3>1
  <2>2. CASE m # 0
    <3>1. m - 1 \in 0..Len(E) /\ m - 1 \notin N BY <1>2, <1>3, <2>2
    <3>2. PICK f : ExpsTo(E, f, m - 1) BY <3>1 DEF N
    <3>3. \A d \in 0..m - 1 : f[d] = ExpNode(E, f, d) BY <3>2, Zenon DEF ExpsTo
    <3> QED BY <3>3
  <2> QED BY <2>1, <2>2
<1> DEFINE g == [e \in 0..m |-> IF e = m THEN ExpNode(E, f, m) ELSE f[e]]
<1>5. \A d \in 0..m : d < m => g[d] = f[d] OBVIOUS
<1>6. g[m] = ExpNode(E, f, m) BY <1>3
<1>7. ASSUME NEW e \in 0..m PROVE g[e] = ExpNode(E, g, e)
  <2> HIDE DEF g
  <2>1. e \in 0..Len(E) /\ \A d \in 0..Len(E) : d < e => f[d] = g[d] BY <1>3, <1>5
  <2>2. ExpNode(E, f, e) = ExpNode(E, g, e) BY <2>1, ExpNodeLocal
  <2>3. CASE e = m BY <1>6, <2>2, <2>3
  <2>4. CASE e # m
    <3>1. e \in 0..m - 1 /\ e < m BY <1>3, <2>4
    <3> QED BY <1>4, <1>5, <2>2, <3>1
  <2> QED BY <2>3, <2>4
<1>8. g = [e \in 0..m |-> g[e]] OBVIOUS
<1> HIDE DEF g
<1>9. ExpsTo(E, g, m) BY <1>7, <1>8, Zenon DEF ExpsTo
<1> QED BY <1>3, <1>9

ExpTreeOf(E) == CHOOSE f : ExpsTo(E, f, Len(E))

LEMMA ExpTreeOfIs ==
    ASSUME NEW E, ExpsMade(E)
    PROVE  /\ ExpsTo(E, ExpTreeOf(E), Len(E)) /\ ExpTreeOf(E)[NULL] = NoExp
           /\ \A e \in 1..Len(E) : ExpTreeOf(E)[e] = ExpValue(E[e], ExpTreeOf(E))
<1> DEFINE f == ExpTreeOf(E)
<1>1. ExpsTo(E, f, Len(E)) BY ExpsExist, Zenon DEF ExpTreeOf
<1> HIDE DEF f
<1>2. \A e \in 0..Len(E) : f[e] = ExpNode(E, f, e) BY <1>1, Zenon DEF ExpsTo
<1>3. /\ NULL \in 0..Len(E)
      /\ \A e \in 1..Len(E) : e \in 0..Len(E) /\ e # NULL
  BY DEF NULL, ExpsMade, IsSeq
<1>4. f[NULL] = NoExp BY <1>2, <1>3, Zenon DEF ExpNode
<1>5. \A e \in 1..Len(E) : f[e] = ExpValue(E[e], f) BY <1>2, <1>3, Zenon DEF ExpNode
<1> QED BY <1>1, <1>4, <1>5, Zenon DEF f

\* Of a node, a tree; of no node, none
LEMMA ExpTreeKinds ==
    ASSUME NEW E, ExpsMade(E), NEW e \in 1..Len(E)
    PROVE  ExpTreeOf(E)[e] # NoExp
<1> DEFINE f == ExpTreeOf(E)
           n == E[e]
<1>1. f[e] = ExpValue(n, f) BY ExpTreeOfIs
<1>2. n.kind \in ExpKinds BY DEF ExpsMade, ExpIn
<1> HIDE DEF f, n
<1>3. NoExp.kind = "NULL" BY DEF NoExp
<1>4. CASE n.kind = "exp_binary"
  <2>1. f[e] = binary_exp(f[n.left], n.op, f[n.right]) BY <1>1, <1>4, Zenon DEF ExpValue
  <2>2. f[e].kind = "exp_binary" BY <2>1 DEF binary_exp
  <2> QED BY <1>3, <2>2 DEF f
<1>5. CASE n.kind = "UNUSED"
  <2>1. n.kind # "exp_binary" BY <1>5
  <2>2. f[e] = DBG_exp(f[n.expression]) BY <1>1, <1>5, <2>1, Zenon DEF ExpValue
  <2>3. f[e].kind = "UNUSED" BY <2>2 DEF DBG_exp
  <2> QED BY <1>3, <2>3 DEF f
<1>6. CASE n.kind \in {"exp_ident", "exp_literal"}
  <2>1. f[e] = n BY <1>1, <1>6 DEF ExpValue
  <2> QED BY <1>3, <1>6, <2>1 DEF f
<1> QED BY <1>2, <1>4, <1>5, <1>6 DEF ExpKinds

LEMMA ExpTreesKept ==
    ASSUME NEW E, ExpsMade(E), NEW E2, ExpsMade(E2), Grown(E, E2)
    PROVE  \A e \in MaybeOf(E) : ExpTreeOf(E2)[e] = ExpTreeOf(E)[e]
<1>1. ExpsTo(E, ExpTreeOf(E), Len(E)) /\ ExpsTo(E2, ExpTreeOf(E2), Len(E2)) BY ExpTreeOfIs
<1>2. /\ Len(E) \in 0..Len(E) /\ Len(E2) \in 0..Len(E2)
      /\ \A e \in MaybeOf(E) : e \in 0..Len(E) /\ e <= Len(E2)
  BY DEF Grown, MaybeOf, NULL
<1> HIDE DEF ExpTreeOf
<1> QED BY <1>1, <1>2, ExpsAgree

\* The trees of expressions, in the order of their making
ExpsOf(E) == [e \in 1..Len(E) |-> ExpTreeOf(E)[e]]

\* A sequence given by a function
LEMMA FunctionSeq ==
    ASSUME NEW m \in Nat, NEW f
    PROVE  /\ IsSeq([i \in 1..m |-> f[i]]) /\ Len([i \in 1..m |-> f[i]]) = m
<1> DEFINE s == [i \in 1..m |-> f[i]]
           D == {f[i] : i \in 1..m}
<1>1. s \in Seq(D) /\ Len(s) = m
  <2>1. s \in [1..m -> D] OBVIOUS
  <2> HIDE DEF s, D
  <2> QED BY <2>1
<1>2. {s[i] : i \in 1..Len(s)} = D BY <1>1
<1> HIDE DEF s, D
<1> QED BY <1>1, <1>2 DEF IsSeq, s

LEMMA SameSeq ==
    ASSUME NEW s, IsSeq(s), NEW t, IsSeq(t), Len(s) = Len(t), \A i \in 1..Len(s) : s[i] = t[i]
    PROVE  s = t
<1> DEFINE M == {s[i] : i \in 1..Len(s)} \cup {t[i] : i \in 1..Len(t)}
<1>1. s \in Seq(M) /\ t \in Seq(M)
  <2>1. s \in Seq({s[i] : i \in 1..Len(s)}) /\ t \in Seq({t[i] : i \in 1..Len(t)}) BY DEF IsSeq
  <2> QED BY <2>1, Wider
<1> HIDE DEF M
<1> QED BY <1>1, SeqEqual

LEMMA ExpsOfAppended ==
    ASSUME NEW E, ExpsMade(E), NEW n, ExpIn(n, Len(E) + 1)
    PROVE  /\ ExpsMade(Append(E, n)) /\ Grown(E, Append(E, n))
           /\ ExpsOf(Append(E, n)) = Append(ExpsOf(E), ExpValue(n, ExpTreeOf(E)))
<1> DEFINE E2 == Append(E, n)
           m  == Len(E)
<1>1. /\ IsSeq(E2) /\ Len(E2) = m + 1 /\ E2[m + 1] = n /\ m \in Nat
      /\ \A i \in 1..m : E2[i] = E[i]
  BY Appended DEF ExpsMade, IsSeq
<1>2. Grown(E, E2) BY GrownAppend DEF ExpsMade
<1> HIDE DEF E2
<1>3. ExpsMade(E2)
  <2>1. \A i \in 1..m + 1 : i \in 1..m \/ i = m + 1 BY <1>1
  <2> QED BY <1>1, <2>1 DEF ExpsMade
<1>4. \A e \in MaybeOf(E) : ExpTreeOf(E2)[e] = ExpTreeOf(E)[e] BY <1>2, <1>3, ExpTreesKept
<1>5. ExpTreeOf(E2)[m + 1] = ExpValue(n, ExpTreeOf(E))
  <2>1. ExpTreeOf(E2)[m + 1] = ExpValue(n, ExpTreeOf(E2))
    <3>1. m + 1 \in 1..Len(E2) BY <1>1
    <3> QED BY <1>1, <1>3, <3>1, ExpTreeOfIs
  <2>2. \A d \in 1..m + 1 - 1 : ExpTreeOf(E2)[d] = ExpTreeOf(E)[d]
    <3>1. \A d \in 1..m + 1 - 1 : d \in MaybeOf(E) BY <1>1 DEF MaybeOf
    <3> QED BY <1>4, <3>1
  <2> HIDE DEF ExpTreeOf
  <2>3. ExpValue(n, ExpTreeOf(E2)) = ExpValue(n, ExpTreeOf(E)) BY <2>2, ExpValueLocal
  <2> QED BY <2>1, <2>3
<1> HIDE DEF ExpTreeOf
<1>6. ExpsOf(E2) = Append(ExpsOf(E), ExpValue(n, ExpTreeOf(E)))
  <2> DEFINE s == ExpsOf(E)
             x == ExpValue(n, ExpTreeOf(E))
             t == ExpsOf(E2)
  <2>1. IsSeq(s) /\ Len(s) = m /\ \A i \in 1..m : s[i] = ExpTreeOf(E)[i]
    BY <1>1, FunctionSeq DEF ExpsOf
  <2>2. IsSeq(t) /\ Len(t) = m + 1 /\ \A i \in 1..m + 1 : t[i] = ExpTreeOf(E2)[i]
    <3>1. Len(E2) \in Nat /\ Len(E2) = m + 1 BY <1>1
    <3> QED BY <3>1, FunctionSeq DEF ExpsOf
  <2> HIDE DEF s, t, x
  <2>3. /\ IsSeq(Append(s, x)) /\ Len(Append(s, x)) = m + 1 /\ Append(s, x)[m + 1] = x
        /\ \A i \in 1..m : Append(s, x)[i] = s[i]
    BY <2>1, Appended
  <2>4. \A i \in 1..m + 1 : t[i] = Append(s, x)[i]
    <3>1. t[m + 1] = x
      <4>1. m + 1 \in 1..m + 1 BY <1>1
      <4> QED BY <1>5, <2>2, <4>1 DEF x
    <3>2. \A i \in 1..m : t[i] = s[i]
      <4>1. \A i \in 1..m : i \in 1..m + 1 /\ i \in MaybeOf(E) BY <1>1 DEF MaybeOf
      <4> QED BY <1>4, <2>1, <2>2, <4>1
    <3>3. \A i \in 1..m + 1 : i \in 1..m \/ i = m + 1 BY <1>1
    <3> QED BY <2>3, <3>1, <3>2, <3>3
  <2>5. t = Append(s, x) BY <2>2, <2>3, <2>4, SameSeq
  <2> QED BY <2>5 DEF s, t, x
<1> QED BY <1>2, <1>3, <1>6 DEF E2

ListOf(L, n)      == [k \in 1..n.count |-> L[n.first + k - 1]]
TreesIn(L, n, f)  == [k \in 1..Len(ListOf(L, n)) |-> f[ListOf(L, n)[k]]]

\* The tree of the statement node n, ef and f being the trees of older ones
StmtValue(E, L, n, ef, f) ==
    CASE n.kind = "stmt_assign"     -> assign(ef[n.left], ef[n.right])
      [] n.kind = "stmt_local_decl" -> local_decl(E[n.name].name, ef[n.maybe_expression])
      [] n.kind = "stmt_nop"        -> n
      [] n.kind = "stmt_return"     -> return_stmt(ef[n.maybe_expression])
      [] n.kind = "UNUSED"          -> DBG_stmt(f[n.statement])
      [] n.kind = "_stmt_raw_if"    -> if_pair(ef[n.maybe_condition], f[n.statement])
      [] n.kind = "stmt_block"      -> block(TreesIn(L, n, f))
      [] n.kind = "stmt_ifs"        -> ifs(TreesIn(L, n, f))

StmtsTo(S, E, L, ef, f, m) == f = [s \in 1..m |-> StmtValue(E, L, S[s], ef, f)]

LEMMA TreesInLocal ==
    ASSUME NEW L, NEW L2, Grown(L, L2), NEW n, Filled(L, n), NEW f, NEW g,
           \A k \in SliceOf(n) : f[L[k]] = g[L[k]]
    PROVE  TreesIn(L, n, f) = TreesIn(L2, n, g)
<1>1. n.first \in Nat \ {0} /\ n.count \in Nat \ {0} /\ SliceOf(n) \subseteq 1..Len(L)
  BY DEF Filled
<1>2. \A k \in 1..n.count : n.first + k - 1 \in SliceOf(n) BY <1>1 DEF SliceOf
<1>3. ListOf(L, n) = ListOf(L2, n)
  <2>1. \A k \in 1..n.count : L2[n.first + k - 1] = L[n.first + k - 1]
    BY <1>1, <1>2 DEF Grown
  <2> QED BY <2>1, Zenon DEF ListOf
<1>4. Len(ListOf(L, n)) = n.count /\ \A k \in 1..n.count : ListOf(L, n)[k] = L[n.first + k - 1]
  <2> DEFINE h == [k \in 1..n.count |-> L[n.first + k - 1]]
  <2>1. Len([i \in 1..n.count |-> h[i]]) = n.count BY <1>1, FunctionSeq
  <2>2. [i \in 1..n.count |-> h[i]] = h OBVIOUS
  <2> QED BY <2>1, <2>2 DEF ListOf
<1>5. \A k \in 1..Len(ListOf(L, n)) : f[ListOf(L, n)[k]] = g[ListOf(L, n)[k]]
  BY <1>2, <1>4
<1> QED BY <1>3, <1>5, Zenon DEF TreesIn

LEMMA StmtValueLocal ==
    ASSUME NEW S, NEW E, NEW E2, Grown(E, E2), NEW L, NEW L2, Grown(L, L2),
           NEW n, NEW i, StmtIn(S, E, L, n, i), NEW ef, NEW eg,
           \A e \in MaybeOf(E) : ef[e] = eg[e],
           NEW f, NEW g, \A d \in 1..i - 1 : f[d] = g[d]
    PROVE  StmtValue(E, L, n, ef, f) = StmtValue(E2, L2, n, eg, g)
<1>1. CASE n.kind = "stmt_assign"
  <2>1. ef[n.left] = eg[n.left] /\ ef[n.right] = eg[n.right] BY <1>1, Zenon DEF StmtIn
  <2> QED BY <1>1, <2>1, Zenon DEF StmtValue
<1>2. CASE n.kind = "stmt_local_decl"
  <2>1. n.name \in 1..Len(E) /\ ef[n.maybe_expression] = eg[n.maybe_expression]
    BY <1>2, Zenon DEF StmtIn, IdentsOf
  <2>2. E2[n.name] = E[n.name] BY <2>1 DEF Grown
  <2>3. \A x, y : StmtValue(x, y, n, ef, f) = local_decl(x[n.name].name, ef[n.maybe_expression])
    BY <1>2 DEF StmtValue
  <2>4. \A x, y : StmtValue(x, y, n, eg, g) = local_decl(x[n.name].name, eg[n.maybe_expression])
    BY <1>2 DEF StmtValue
  <2> QED BY <2>1, <2>2, <2>3, <2>4, Zenon
<1>3. CASE n.kind = "stmt_nop"
  <2>1. \A x, y, h, k : StmtValue(x, y, n, h, k) = n BY <1>3 DEF StmtValue
  <2> QED BY <2>1, Zenon
<1>4. CASE n.kind = "stmt_return"
  <2>1. ef[n.maybe_expression] = eg[n.maybe_expression] BY <1>4, Zenon DEF StmtIn
  <2>2. \A x, y, h, k : StmtValue(x, y, n, h, k) = return_stmt(h[n.maybe_expression])
    BY <1>4 DEF StmtValue
  <2> QED BY <2>1, <2>2
<1>5. CASE n.kind = "UNUSED"
  <2>1. f[n.statement] = g[n.statement] BY <1>5, Zenon DEF StmtIn, OlderStmt
  <2>2. \A x, y, h, k : StmtValue(x, y, n, h, k) = DBG_stmt(k[n.statement])
    BY <1>5 DEF StmtValue
  <2> QED BY <2>1, <2>2
<1>6. CASE n.kind = "_stmt_raw_if"
  <2>1. f[n.statement] = g[n.statement] /\ ef[n.maybe_condition] = eg[n.maybe_condition]
    BY <1>6, Zenon DEF StmtIn, OlderStmt
  <2>2. \A x, y, h, k : StmtValue(x, y, n, h, k) = if_pair(h[n.maybe_condition], k[n.statement])
    BY <1>6 DEF StmtValue
  <2> QED BY <2>1, <2>2
<1>7. CASE n.kind \in {"stmt_block", "stmt_ifs"}
  <2>1. Filled(L, n) /\ \A k \in SliceOf(n) : L[k] \in 1..i - 1
    BY <1>7, Zenon DEF StmtIn, OlderStmt, OlderPair
  <2>2. TreesIn(L, n, f) = TreesIn(L2, n, g) BY <2>1, TreesInLocal
  <2>3. \/ /\ StmtValue(E, L, n, ef, f) = block(TreesIn(L, n, f))
           /\ StmtValue(E2, L2, n, eg, g) = block(TreesIn(L2, n, g))
        \/ /\ StmtValue(E, L, n, ef, f) = ifs(TreesIn(L, n, f))
           /\ StmtValue(E2, L2, n, eg, g) = ifs(TreesIn(L2, n, g))
    <3> HIDE DEF TreesIn
    <3> QED BY <1>7 DEF StmtValue
  <2> QED BY <2>2, <2>3
<1> QED BY <1>1, <1>2, <1>3, <1>4, <1>5, <1>6, <1>7, Zenon DEF StmtIn, StmtKinds

\* The builder S2, E2, L2 has what S, E, L had.
Later(S, E, L, S2, E2, L2) == /\ Made(S, E, L) /\ Made(S2, E2, L2)
                              /\ Grown(S, S2) /\ Grown(E, E2) /\ Grown(L, L2)

LEMMA StmtsAgree ==
    ASSUME NEW S, NEW E, NEW L, NEW S2, NEW E2, NEW L2, Later(S, E, L, S2, E2, L2),
           NEW ef, NEW eg, \A e \in MaybeOf(E) : ef[e] = eg[e],
           NEW f, StmtsTo(S, E, L, ef, f, Len(S)), NEW g, StmtsTo(S2, E2, L2, eg, g, Len(S2))
    PROVE  \A s \in 1..Len(S) : g[s] = f[s]
<1> DEFINE m == Len(S)
           m2 == Len(S2)
           N == {s \in 1..m : s <= m2 /\ g[s] # f[s]}
<1> SUFFICES ASSUME N # {} PROVE FALSE
  BY DEF Later, Grown
<1>1. N \in SUBSET Nat OBVIOUS
<1> HIDE DEF N
<1>2. PICK s \in N : \A d \in N : s <= d BY <1>1, LeastNumber
<1>3. s \in 1..m /\ s <= m2 /\ g[s] # f[s] BY <1>2 DEF N
<1>4. \A d \in 1..m : d < s => g[d] = f[d] BY <1>2, <1>3 DEF N
<1>5. s \in 1..Len(S) /\ s \in 1..m2 /\ \A d \in 1..s - 1 : f[d] = g[d]
  BY <1>3, <1>4 DEF Grown
<1>6. StmtIn(S, E, L, S[s], s) /\ S2[s] = S[s] /\ Grown(E, E2) /\ Grown(L, L2)
  BY <1>5 DEF Later, Made, Grown
<1>7. StmtValue(E, L, S[s], ef, f) = StmtValue(E2, L2, S2[s], eg, g)
  BY <1>5, <1>6, StmtValueLocal
<1>8. f[s] = StmtValue(E, L, S[s], ef, f) BY <1>3, Zenon DEF StmtsTo
<1>9. g[s] = StmtValue(E2, L2, S2[s], eg, g) BY <1>5, Zenon DEF StmtsTo
<1> QED BY <1>3, <1>7, <1>8, <1>9

LEMMA StmtsExist ==
    ASSUME NEW S, NEW E, NEW L, Made(S, E, L), NEW ef
    PROVE  \E f : StmtsTo(S, E, L, ef, f, Len(S))
<1> DEFINE N == {m \in 0..Len(S) : \A f : ~ StmtsTo(S, E, L, ef, f, m)}
<1> SUFFICES ASSUME N # {} PROVE FALSE
  <2>1. Len(S) \in 0..Len(S) BY DEF Made, IsSeq
  <2> QED BY <2>1
<1>1. N \in SUBSET Nat OBVIOUS
<1> HIDE DEF N
<1>2. PICK m \in N : \A k \in N : m <= k BY <1>1, LeastNumber
<1>3. m \in 0..Len(S) /\ Len(S) \in Nat /\ \A f : ~ StmtsTo(S, E, L, ef, f, m)
  BY <1>2 DEF N, Made, IsSeq
<1>4. PICK f : \A d \in 1..m - 1 : f[d] = StmtValue(E, L, S[d], ef, f)
  <2>1. CASE m = 0
    <3>1. 1..m - 1 = {} BY <2>1
    <3> QED BY <3>1
  <2>2. CASE m # 0
    <3>1. m - 1 \in 0..Len(S) /\ m - 1 \notin N BY <1>2, <1>3, <2>2
    <3>2. PICK f : StmtsTo(S, E, L, ef, f, m - 1) BY <3>1 DEF N
    <3>3. \A d \in 1..m - 1 : f[d] = StmtValue(E, L, S[d], ef, f) BY <3>2, Zenon DEF StmtsTo
    <3> QED BY <3>3
  <2> QED BY <2>1, <2>2
<1> DEFINE g == [s \in 1..m |-> IF s = m THEN StmtValue(E, L, S[m], ef, f) ELSE f[s]]
<1>5. \A d \in 1..m : d < m => g[d] = f[d] OBVIOUS
<1>6. m \in 1..m => g[m] = StmtValue(E, L, S[m], ef, f) OBVIOUS
<1>7. ASSUME NEW s \in 1..m PROVE g[s] = StmtValue(E, L, S[s], ef, g)
  <2> HIDE DEF g
  <2>1. s \in 1..Len(S) /\ \A d \in 1..s - 1 : f[d] = g[d] BY <1>3, <1>5
  <2>2. StmtIn(S, E, L, S[s], s) /\ Grown(E, E) /\ Grown(L, L)
    <3>1. Len(E) \in Nat /\ Len(L) \in Nat BY DEF Made, IsSeq
    <3> QED BY <2>1, <3>1, GrownSelf DEF Made
  <2>3. StmtValue(E, L, S[s], ef, f) = StmtValue(E, L, S[s], ef, g)
    BY <2>1, <2>2, StmtValueLocal
  <2>4. CASE s = m BY <1>6, <2>3, <2>4
  <2>5. CASE s # m
    <3>1. s \in 1..m - 1 /\ s < m BY <1>3, <2>5
    <3> QED BY <1>4, <1>5, <2>3, <3>1
  <2> QED BY <2>4, <2>5
<1>8. g = [s \in 1..m |-> g[s]] OBVIOUS
<1> HIDE DEF g
<1>9. StmtsTo(S, E, L, ef, g, m) BY <1>7, <1>8, Zenon DEF StmtsTo
<1> QED BY <1>3, <1>9

StmtTreeOf(S, E, L) == CHOOSE f : StmtsTo(S, E, L, ExpTreeOf(E), f, Len(S))

LEMMA StmtTreeOfIs ==
    ASSUME NEW S, NEW E, NEW L, Made(S, E, L)
    PROVE  /\ StmtsTo(S, E, L, ExpTreeOf(E), StmtTreeOf(S, E, L), Len(S))
           /\ \A s \in 1..Len(S) :
                 StmtTreeOf(S, E, L)[s] = StmtValue(E, L, S[s], ExpTreeOf(E), StmtTreeOf(S, E, L))
<1> DEFINE f == StmtTreeOf(S, E, L)
<1>1. StmtsTo(S, E, L, ExpTreeOf(E), f, Len(S)) BY StmtsExist, Zenon DEF StmtTreeOf
<1> HIDE DEF f
<1>2. \A s \in 1..Len(S) : f[s] = StmtValue(E, L, S[s], ExpTreeOf(E), f)
  BY <1>1, Zenon DEF StmtsTo
<1> QED BY <1>1, <1>2, Zenon DEF f

LEMMA ExpressionsMade == ASSUME NEW S, NEW E, NEW L, Made(S, E, L) PROVE ExpsMade(E)
BY DEF Made, ExpsMade

LEMMA StmtTreesKept ==
    ASSUME NEW S, NEW E, NEW L, NEW S2, NEW E2, NEW L2, Later(S, E, L, S2, E2, L2)
    PROVE  \A s \in 1..Len(S) : StmtTreeOf(S2, E2, L2)[s] = StmtTreeOf(S, E, L)[s]
<1> DEFINE ef == ExpTreeOf(E)
           eg == ExpTreeOf(E2)
           f  == StmtTreeOf(S, E, L)
           g  == StmtTreeOf(S2, E2, L2)
<1>1. \A e \in MaybeOf(E) : ef[e] = eg[e] BY ExpressionsMade, ExpTreesKept DEF Later
<1>2. StmtsTo(S, E, L, ef, f, Len(S)) /\ StmtsTo(S2, E2, L2, eg, g, Len(S2))
  BY StmtTreeOfIs DEF Later
<1> HIDE DEF ef, eg, f, g
<1>3. \A s \in 1..Len(S) : g[s] = f[s] BY <1>1, <1>2, StmtsAgree
<1> QED BY <1>3 DEF f, g

LEMMA StmtTreeNew ==
    ASSUME NEW S, NEW E, NEW L, Made(S, E, L), NEW n, NEW L2, Grown(L, L2),
           Made(Append(S, n), E, L2)
    PROVE  StmtTreeOf(Append(S, n), E, L2)[Len(S) + 1]
              = StmtValue(E, L2, n, ExpTreeOf(E), StmtTreeOf(S, E, L))
<1> DEFINE S2 == Append(S, n)
           m  == Len(S)
           g  == StmtTreeOf(S2, E, L2)
           f  == StmtTreeOf(S, E, L)
<1>1. /\ Len(S2) = m + 1 /\ S2[m + 1] = n /\ m \in Nat /\ Len(E) \in Nat /\ Len(L2) \in Nat
      /\ Grown(S, S2) /\ Grown(E, E) /\ Grown(L2, L2)
  <2>1. IsSeq(S) /\ Len(E) \in Nat BY DEF Made, IsSeq
  <2>2. Len(L2) \in Nat /\ Grown(S, S2) BY <2>1, GrownAppend DEF Grown
  <2> QED BY <2>1, <2>2, Appended, GrownSelf DEF IsSeq
<1>2. \A s \in 1..m : g[s] = f[s]
  <2>1. Later(S, E, L, S2, E, L2) BY <1>1 DEF Later
  <2> HIDE DEF S2
  <2> QED BY <2>1, StmtTreesKept
<1>3. g[m + 1] = StmtValue(E, L2, n, ExpTreeOf(E), g)
  <2>1. m + 1 \in 1..Len(S2) BY <1>1
  <2> QED BY <1>1, <2>1, StmtTreeOfIs
<1>4. \A d \in 1..m + 1 - 1 : g[d] = f[d] BY <1>1, <1>2
<1> HIDE DEF S2, g, f
<1>6. StmtIn(S2, E, L2, n, m + 1)
  <2>1. m + 1 \in 1..Len(S2) BY <1>1
  <2> QED BY <1>1, <2>1 DEF Made, S2
<1>5. StmtValue(E, L2, n, ExpTreeOf(E), g) = StmtValue(E, L2, n, ExpTreeOf(E), f)
  BY <1>1, <1>4, <1>6, StmtValueLocal
<1> QED BY <1>3, <1>5 DEF S2, g, f

-----------------------------------------------------------------------------
(***************************************************************************)
(* The statements returned, as trees in the order of their making.         *)
(***************************************************************************)
MadeNode(S, t, h, i) == IF i = 0 THEN <<>>
                        ELSE IF i \in StmtsOf(S) THEN Append(h[i - 1], t[i]) ELSE h[i - 1]
MadeTo(S, t, h, m) == h = [i \in 0..m |-> MadeNode(S, t, h, i)]

LEMMA MadeExists ==
    ASSUME NEW S, NEW t, NEW m \in Nat
    PROVE  \E h : MadeTo(S, t, h, m)
<1> DEFINE N == {k \in Nat : \A h : ~ MadeTo(S, t, h, k)}
<1> SUFFICES ASSUME N # {} PROVE FALSE
  OBVIOUS
<1>1. N \in SUBSET Nat OBVIOUS
<1> HIDE DEF N
<1>2. PICK k \in N : \A j \in N : k <= j BY <1>1, LeastNumber
<1>3. k \in Nat /\ \A h : ~ MadeTo(S, t, h, k) BY <1>2 DEF N
<1>4. PICK h : \A i \in 0..k - 1 : h[i] = MadeNode(S, t, h, i)
  <2>1. CASE k = 0
    <3>1. 0..k - 1 = {} BY <2>1
    <3> QED BY <3>1
  <2>2. CASE k # 0
    <3>1. k - 1 \in Nat /\ k - 1 \notin N BY <1>2, <1>3, <2>2
    <3>2. PICK h : MadeTo(S, t, h, k - 1) BY <3>1 DEF N
    <3>3. \A i \in 0..k - 1 : h[i] = MadeNode(S, t, h, i) BY <3>2, Zenon DEF MadeTo
    <3> QED BY <3>3
  <2> QED BY <2>1, <2>2
<1> DEFINE g == [i \in 0..k |-> IF i = k THEN MadeNode(S, t, h, k) ELSE h[i]]
<1>5. \A i \in 0..k : i < k => g[i] = h[i] OBVIOUS
<1>6. g[k] = MadeNode(S, t, h, k) BY <1>3
<1>7. ASSUME NEW i \in 0..k PROVE g[i] = MadeNode(S, t, g, i)
  <2> HIDE DEF g
  <2>1. MadeNode(S, t, h, i) = MadeNode(S, t, g, i)
    <3>1. i # 0 => h[i - 1] = g[i - 1] BY <1>3, <1>5
    <3> QED BY <3>1, Zenon DEF MadeNode
  <2>2. CASE i = k BY <1>6, <2>1, <2>2
  <2>3. CASE i # k
    <3>1. i \in 0..k - 1 /\ i < k BY <1>3, <2>3
    <3> QED BY <1>4, <1>5, <2>1, <3>1
  <2> QED BY <2>2, <2>3
<1>8. g = [i \in 0..k |-> g[i]] OBVIOUS
<1> HIDE DEF g
<1>9. MadeTo(S, t, g, k) BY <1>7, <1>8, Zenon DEF MadeTo
<1> QED BY <1>3, <1>9

MadeFn(S, t)  == CHOOSE h : MadeTo(S, t, h, Len(S))
MadeSeq(S, t) == MadeFn(S, t)[Len(S)]

LEMMA MadeFnIs ==
    ASSUME NEW S, Len(S) \in Nat, NEW t
    PROVE  /\ MadeTo(S, t, MadeFn(S, t), Len(S))
           /\ \A i \in 0..Len(S) : MadeFn(S, t)[i] = MadeNode(S, t, MadeFn(S, t), i)
<1> DEFINE h == MadeFn(S, t)
<1>1. MadeTo(S, t, h, Len(S)) BY MadeExists, Zenon DEF MadeFn
<1> HIDE DEF h
<1>2. \A i \in 0..Len(S) : h[i] = MadeNode(S, t, h, i) BY <1>1, Zenon DEF MadeTo
<1> QED BY <1>1, <1>2, Zenon DEF h

LEMMA MadeAgree ==
    ASSUME NEW S, NEW S2, Grown(S, S2), NEW t, NEW u, \A s \in 1..Len(S) : u[s] = t[s]
    PROVE  MadeFn(S2, u)[Len(S)] = MadeFn(S, t)[Len(S)]
<1> DEFINE h == MadeFn(S, t)
           g == MadeFn(S2, u)
           N == {i \in 0..Len(S) : g[i] # h[i]}
<1>1. /\ \A i \in 0..Len(S) : h[i] = MadeNode(S, t, h, i)
      /\ \A i \in 0..Len(S2) : g[i] = MadeNode(S2, u, g, i)
      /\ Len(S) \in Nat /\ Len(S2) \in Nat /\ Len(S) <= Len(S2)
  BY MadeFnIs DEF Grown
<1> HIDE DEF h, g
<1>2. ASSUME N # {} PROVE FALSE
  <2>1. N \in SUBSET Nat OBVIOUS
  <2> HIDE DEF N
  <2>2. PICK i \in N : \A j \in N : i <= j BY <1>2, <2>1, LeastNumber
  <2>3. i \in 0..Len(S) /\ i \in 0..Len(S2) /\ g[i] # h[i] BY <1>1, <2>2 DEF N
  <2>4. g[i] = MadeNode(S2, u, g, i) /\ h[i] = MadeNode(S, t, h, i) BY <1>1, <2>3
  <2>5. CASE i = 0 BY <2>3, <2>4, <2>5 DEF MadeNode
  <2>6. CASE i # 0
    <3>1. i \in 1..Len(S) /\ i \in 1..Len(S2) /\ i - 1 \in 0..Len(S) /\ ~ i <= i - 1
      BY <2>3, <2>6
    <3>2. g[i - 1] = h[i - 1] BY <2>2, <3>1 DEF N
    <3>3. u[i] = t[i] /\ (i \in StmtsOf(S2) <=> i \in StmtsOf(S)) BY <3>1 DEF Grown, StmtsOf
    <3> QED BY <2>3, <2>4, <2>6, <3>2, <3>3, Zenon DEF MadeNode
  <2> QED BY <2>5, <2>6
<1>3. Len(S) \in 0..Len(S) BY <1>1
<1>4. g[Len(S)] = h[Len(S)] BY <1>2, <1>3
<1> QED BY <1>4 DEF g, h

\* A sequence, with the tree of each statement
Lists(S, t, h, i) == /\ IsSeq(h)
                     /\ \A s \in StmtsOf(S) : s <= i => \E k \in 1..Len(h) : h[k] = t[s]

LEMMA MadeSeqLists ==
    ASSUME NEW S, Len(S) \in Nat, NEW t
    PROVE  /\ IsSeq(MadeSeq(S, t))
           /\ \A s \in StmtsOf(S) : \E k \in 1..Len(MadeSeq(S, t)) : MadeSeq(S, t)[k] = t[s]
<1> DEFINE m == Len(S)
           h == MadeFn(S, t)
           N == {i \in 0..m : ~ Lists(S, t, h[i], i)}
<1>1. \A i \in 0..m : h[i] = MadeNode(S, t, h, i) BY MadeFnIs
<1> HIDE DEF h
<1>2. \A s \in StmtsOf(S) : s \in 1..m BY DEF StmtsOf
<1>3. ASSUME N # {} PROVE FALSE
  <2>1. N \in SUBSET Nat OBVIOUS
  <2> HIDE DEF N
  <2>2. PICK i \in N : \A j \in N : i <= j BY <1>3, <2>1, LeastNumber
  <2>3. i \in 0..m /\ ~ Lists(S, t, h[i], i) /\ h[i] = MadeNode(S, t, h, i) BY <1>1, <2>2 DEF N
  <2>4. CASE i = 0
    <3>1. h[i] = <<>> BY <2>3, <2>4 DEF MadeNode
    <3>2. IsSeq(<<>>) BY DEF IsSeq
    <3>3. \A s \in StmtsOf(S) : ~ s <= i BY <1>2, <2>4
    <3> QED BY <2>3, <3>1, <3>2, <3>3 DEF Lists
  <2>5. CASE i # 0
    <3>1. i - 1 \in 0..m /\ ~ i <= i - 1 BY <2>3, <2>5
    <3>2. Lists(S, t, h[i - 1], i - 1) BY <2>2, <3>1 DEF N
    <3>3. \A s \in StmtsOf(S) : s <= i => s <= i - 1 \/ s = i BY <1>2, <2>3
    <3>4. CASE i \in StmtsOf(S)
      <4> DEFINE q == h[i - 1]
      <4>1. h[i] = Append(q, t[i]) BY <2>3, <2>5, <3>4, Zenon DEF MadeNode
      <4>2. IsSeq(q) /\ \A s \in StmtsOf(S) : s <= i - 1 => \E k \in 1..Len(q) : q[k] = t[s]
        BY <3>2 DEF Lists
      <4> HIDE DEF q
      <4>3. /\ IsSeq(Append(q, t[i])) /\ Len(Append(q, t[i])) = Len(q) + 1
            /\ Append(q, t[i])[Len(q) + 1] = t[i] /\ Len(q) \in Nat
            /\ \A k \in 1..Len(q) : Append(q, t[i])[k] = q[k] /\ k \in 1..Len(q) + 1
        <5>1. Len(q) \in Nat BY <4>2 DEF IsSeq
        <5>2. \A k \in 1..Len(q) : k \in 1..Len(q) + 1 BY <5>1
        <5> QED BY <4>2, <5>1, <5>2, Appended
      <4>4. Len(q) + 1 \in 1..Len(q) + 1 BY <4>3
      <4>5. \A s \in StmtsOf(S) : s <= i =>
               \E k \in 1..Len(Append(q, t[i])) : Append(q, t[i])[k] = t[s]
        BY <3>3, <4>2, <4>3, <4>4
      <4> QED BY <2>3, <4>1, <4>3, <4>5, Zenon DEF Lists
    <3>5. CASE i \notin StmtsOf(S)
      <4>1. h[i] = h[i - 1] BY <2>3, <2>5, <3>5, Zenon DEF MadeNode
      <4>2. \A s \in StmtsOf(S) : s <= i => s <= i - 1 BY <3>3, <3>5
      <4> QED BY <2>3, <3>2, <4>1, <4>2 DEF Lists
    <3> QED BY <3>4, <3>5
  <2> QED BY <2>4, <2>5
<1>4. Lists(S, t, h[m], m)
  <2>1. m \in 0..m OBVIOUS
  <2> QED BY <1>3, <2>1
<1>5. \A s \in StmtsOf(S) : s <= m BY <1>2
<1> QED BY <1>4, <1>5 DEF Lists, MadeSeq, h

SameOn(M, t, u) == \A s \in M : u[s] = t[s]

LEMMA MadeSeqSame ==
    ASSUME NEW S, Len(S) \in Nat, NEW t, NEW u, \A s \in 1..Len(S) : u[s] = t[s]
    PROVE  MadeSeq(S, u) = MadeSeq(S, t)
<1>1. Grown(S, S) BY GrownSelf
<1>2. MadeFn(S, u)[Len(S)] = MadeFn(S, t)[Len(S)] BY <1>1, MadeAgree
<1> QED BY <1>2 DEF MadeSeq

LEMMA MadeSeqAppended ==
    ASSUME NEW S, IsSeq(S), NEW n, NEW t, NEW u, SameOn(1..Len(S), t, u)
    PROVE  MadeSeq(Append(S, n), u) = IF n.kind = "_stmt_raw_if" THEN MadeSeq(S, t)
                                      ELSE Append(MadeSeq(S, t), u[Len(S) + 1])
<1> DEFINE S2 == Append(S, n)
           m  == Len(S)
           q  == Len(S) + 1
           g  == MadeFn(S2, u)
<1>1. /\ m \in Nat /\ Len(S2) = q /\ S2[q] = n /\ Grown(S, S2)
      /\ q \in Nat /\ q \in 0..q /\ q # 0 /\ q - 1 = m /\ q \in 1..q
  <2>1. m \in Nat BY DEF IsSeq
  <2> QED BY <2>1, Appended, GrownAppend
<1> HIDE DEF S2
<1>2. g[m] = MadeFn(S, t)[m] BY <1>1, MadeAgree DEF SameOn
<1>3. g[q] = MadeNode(S2, u, g, q)
  <2>1. \A i \in 0..Len(S2) : g[i] = MadeNode(S2, u, g, i) BY <1>1, MadeFnIs
  <2> HIDE DEF g, q, m
  <2> QED BY <1>1, <2>1
<1>4. q \in StmtsOf(S2) <=> n.kind # "_stmt_raw_if" BY <1>1 DEF StmtsOf
<1>5. MadeSeq(S2, u) = g[q]
  <2> HIDE DEF q
  <2> QED BY <1>1, Zenon DEF MadeSeq
<1>6. MadeSeq(S, t) = MadeFn(S, t)[m] BY DEF MadeSeq
<1> HIDE DEF g, q, m
<1>7. g[q] = IF q \in StmtsOf(S2) THEN Append(g[q - 1], u[q]) ELSE g[q - 1]
  BY <1>1, <1>3, Zenon DEF MadeNode
<1> QED BY <1>1, <1>2, <1>4, <1>5, <1>6, <1>7 DEF S2, q

-----------------------------------------------------------------------------
(***************************************************************************)
(* The lists under construction, as lists of trees.                        *)
(***************************************************************************)
TreesOf(list, t)  == [k \in 1..Len(list) |-> t[list[k]]]
OpenOf(st, t)     == [i \in 1..st.count |-> TreesOf(st.slots[i], t)]

LEMMA TreesOfIs ==
    ASSUME NEW M, NEW list \in Seq(M), NEW t
    PROVE  /\ IsSeq(TreesOf(list, t)) /\ Len(TreesOf(list, t)) = Len(list) /\ Len(list) \in Nat
           /\ \A k \in 1..Len(list) : TreesOf(list, t)[k] = t[list[k]]
<1>1. Len(list) \in Nat OBVIOUS
<1> DEFINE f == [k \in 1..Len(list) |-> t[list[k]]]
<1>2. IsSeq([k \in 1..Len(list) |-> f[k]]) /\ Len([k \in 1..Len(list) |-> f[k]]) = Len(list)
  BY <1>1, FunctionSeq
<1>3. [k \in 1..Len(list) |-> f[k]] = f OBVIOUS
<1> QED BY <1>1, <1>2, <1>3 DEF TreesOf

LEMMA TreesOfSame ==
    ASSUME NEW M, NEW list \in Seq(M), NEW t, NEW u, \A s \in M : u[s] = t[s]
    PROVE  TreesOf(list, u) = TreesOf(list, t)
<1>1. \A k \in 1..Len(list) : list[k] \in M OBVIOUS
<1>2. \A k \in 1..Len(list) : u[list[k]] = t[list[k]] BY <1>1
<1> QED BY <1>2, Zenon DEF TreesOf

LEMMA TreesOfAppended ==
    ASSUME NEW M, NEW list \in Seq(M), NEW s \in M, NEW t
    PROVE  TreesOf(Append(list, s), t) = Append(TreesOf(list, t), t[s])
<1> DEFINE b == TreesOf(list, t)
           q == Append(list, s)
           c == TreesOf(q, t)
           m == Len(list)
<1>1. /\ q \in Seq(M) /\ Len(q) = m + 1 /\ q[m + 1] = s /\ m \in Nat
      /\ \A k \in 1..m : q[k] = list[k]
  OBVIOUS
<1>2. IsSeq(b) /\ Len(b) = m /\ \A k \in 1..m : b[k] = t[list[k]] BY TreesOfIs
<1> HIDE DEF q
<1>3. IsSeq(c) /\ Len(c) = m + 1 /\ \A k \in 1..m + 1 : c[k] = t[q[k]] BY <1>1, TreesOfIs
<1> HIDE DEF b, c
<1>4. /\ IsSeq(Append(b, t[s])) /\ Len(Append(b, t[s])) = m + 1
      /\ Append(b, t[s])[m + 1] = t[s] /\ \A k \in 1..m : Append(b, t[s])[k] = b[k]
  BY <1>2, Appended
<1>5. \A k \in 1..m + 1 : k \in 1..m \/ k = m + 1 BY <1>1
<1>6. m + 1 \in 1..m + 1 /\ \A k \in 1..m : k \in 1..m + 1 BY <1>1
<1>7. \A k \in 1..m + 1 : c[k] = Append(b, t[s])[k]
  BY <1>1, <1>2, <1>3, <1>4, <1>5, <1>6
<1>8. c = Append(b, t[s]) BY <1>3, <1>4, <1>7, SameSeq
<1> QED BY <1>8 DEF b, c, q

LEMMA OpenOfIs ==
    ASSUME NEW M, NEW st, Stack(st, M), NEW t
    PROVE  /\ IsSeq(OpenOf(st, t)) /\ Len(OpenOf(st, t)) = st.count /\ st.count \in Nat
           /\ \A i \in 1..st.count : OpenOf(st, t)[i] = TreesOf(st.slots[i], t)
<1>1. st.count \in Nat
  <2>1. st.count \in 0..MaxOpen BY StackFields
  <2> QED BY <2>1, Bounds
<1> DEFINE f == [i \in 1..st.count |-> TreesOf(st.slots[i], t)]
<1>2. IsSeq([i \in 1..st.count |-> f[i]]) /\ Len([i \in 1..st.count |-> f[i]]) = st.count
  BY <1>1, FunctionSeq
<1>3. [i \in 1..st.count |-> f[i]] = f OBVIOUS
<1> QED BY <1>1, <1>2, <1>3 DEF OpenOf


LEMMA OpenOfSame ==
    ASSUME NEW M, NEW st, Stack(st, M), NEW t, NEW u, SameOn(M, t, u)
    PROVE  OpenOf(st, u) = OpenOf(st, t)
<1>1. \A i \in 1..st.count : TreesOf(st.slots[i], u) = TreesOf(st.slots[i], t)
  <2> SUFFICES ASSUME NEW i \in 1..st.count
               PROVE  TreesOf(st.slots[i], u) = TreesOf(st.slots[i], t)
    OBVIOUS
  <2>1. st.slots[i] \in Seq(M) BY DEF Stack
  <2> QED BY <2>1, TreesOfSame DEF SameOn
<1> QED BY <1>1, Zenon DEF OpenOf

LEMMA FrontIs ==
    ASSUME NEW s, IsSeq(s), Len(s) # 0
    PROVE  /\ IsSeq(Front(s)) /\ Len(Front(s)) = Len(s) - 1
           /\ \A i \in 1..Len(s) - 1 : Front(s)[i] = s[i]
<1> DEFINE D == {s[i] : i \in 1..Len(s)}
           f == SubSeq(s, 1, Len(s) - 1)
<1>1. s \in Seq(D) /\ Len(s) \in Nat \ {0} BY DEF IsSeq
<1>2. f \in Seq(D) /\ Len(f) = Len(s) - 1 /\ \A i \in 1..Len(s) - 1 : f[i] = s[i]
  <2> HIDE DEF D
  <2> DEFINE n == Len(s) - 1
  <2>1. 1 \in Int /\ n \in Int /\ n \in Nat /\ \A i \in 1..n : s[i] \in D BY <1>1
  <2>2. /\ SubSeq(s, 1, n) \in Seq(D) /\ Len(SubSeq(s, 1, n)) = IF 1 <= n THEN n - 1 + 1 ELSE 0
        /\ \A i \in 1..n - 1 + 1 : SubSeq(s, 1, n)[i] = s[1 + i - 1]
    <3> HIDE DEF n
    <3> QED BY <2>1, SubSeqProperties
  <2>3. /\ n - 1 + 1 = n /\ (IF 1 <= n THEN n - 1 + 1 ELSE 0) = n
        /\ \A i \in 1..n : i \in 1..n - 1 + 1 /\ 1 + i - 1 = i
    <3> HIDE DEF n
    <3> QED BY <2>1
  <2> HIDE DEF n
  <2>4. Len(SubSeq(s, 1, n)) = n BY <2>2, <2>3
  <2>5. \A i \in 1..n : SubSeq(s, 1, n)[i] = s[i] BY <2>2, <2>3
  <2> QED BY <2>2, <2>4, <2>5 DEF n
<1> HIDE DEF f, D
<1>3. Len(f) \in Nat BY <1>1, <1>2
<1>4. f \in Seq({f[i] : i \in 1..Len(f)}) BY <1>2, <1>3
<1> QED BY <1>2, <1>3, <1>4 DEF IsSeq, Front, f

LEMMA FrontAnd ==
    ASSUME NEW s, IsSeq(s), Len(s) # 0, NEW x
    PROVE  /\ IsSeq(Front(s) \o <<x>>) /\ Len(Front(s) \o <<x>>) = Len(s)
           /\ \A i \in 1..Len(s) - 1 : (Front(s) \o <<x>>)[i] = s[i]
           /\ (Front(s) \o <<x>>)[Len(s)] = x
<1> DEFINE f == Front(s)
           D == {f[i] : i \in 1..Len(f)} \cup {x}
           q == f \o <<x>>
           m == Len(s)
<1>1. /\ IsSeq(f) /\ Len(f) = m - 1 /\ \A i \in 1..m - 1 : f[i] = s[i]
      /\ m \in Nat \ {0}
  BY FrontIs DEF IsSeq
<1> HIDE DEF f, m
<1>2. f \in Seq(D)
  <2>1. f \in Seq({f[i] : i \in 1..Len(f)}) BY <1>1 DEF IsSeq
  <2> QED BY <2>1, Wider
<1>3. <<x>> \in Seq(D) /\ Len(<<x>>) = 1 /\ <<x>>[1] = x OBVIOUS
<1> HIDE DEF D
<1>4. /\ q \in Seq(D) /\ Len(q) = m /\ \A i \in 1..m - 1 : q[i] = f[i]
      /\ q[m] = x
  <2>1. q \in Seq(D) /\ Len(q) = Len(f) + 1 /\ \A i \in 1..Len(f) : q[i] = f[i]
    BY <1>2, <1>3, Joined
  <2>2. q[Len(f) + 1] = x
    <3>1. 1 \in 1..Len(<<x>>) BY <1>3
    <3>2. \A j \in 1..Len(<<x>>) : q[Len(f) + j] = <<x>>[j] BY <1>2, <1>3, Joined
    <3> QED BY <1>3, <3>1, <3>2
  <2> HIDE DEF q
  <2> QED BY <1>1, <2>1, <2>2
<1> HIDE DEF q
<1>5. q \in Seq({q[i] : i \in 1..Len(q)}) BY <1>4
<1>6. IsSeq(q) BY <1>1, <1>4, <1>5 DEF IsSeq
<1> QED BY <1>1, <1>4, <1>6 DEF q, f, m

LEMMA OpenOpened ==
    ASSUME NEW M, NEW st, Stack(st, M), st.count < MaxOpen, NEW t
    PROVE  OpenOf(opened(st), t) = Append(OpenOf(st, t), <<>>)
<1> DEFINE u == opened(st)
           a == OpenOf(st, t)
           b == OpenOf(u, t)
           c == st.count
           n == st.count + 1
<1>1. /\ Stack(u, M) /\ u.count = n /\ u.slots[n] = <<>>
      /\ \A i \in 1..c : u.slots[i] = st.slots[i]
      /\ \A i \in 1..n : i \in 1..c \/ i = n
  <2>1. u = opened(st) OBVIOUS
  <2> HIDE DEF u
  <2> QED BY <2>1, Opened
<1> HIDE DEF u
<1>2. /\ IsSeq(a) /\ Len(a) = c /\ c \in Nat
      /\ \A i \in 1..c : a[i] = TreesOf(st.slots[i], t)
  BY OpenOfIs
<1>3. /\ IsSeq(b) /\ Len(b) = n /\ \A i \in 1..n : b[i] = TreesOf(u.slots[i], t)
  BY <1>1, OpenOfIs
<1> HIDE DEF a, b
<1>4. /\ IsSeq(Append(a, <<>>)) /\ Len(Append(a, <<>>)) = n /\ Append(a, <<>>)[n] = <<>>
      /\ \A i \in 1..c : Append(a, <<>>)[i] = a[i]
  BY <1>2, Appended
<1>5. TreesOf(<<>>, t) = <<>>
  <2>1. 1..Len(<<>>) = {} OBVIOUS
  <2>2. IsSeq(TreesOf(<<>>, t)) /\ Len(TreesOf(<<>>, t)) = Len(<<>>)
    <3>1. <<>> \in Seq({}) OBVIOUS
    <3> QED BY <3>1, TreesOfIs
  <2>3. IsSeq(<<>>) BY DEF IsSeq
  <2> QED BY <2>1, <2>2, <2>3, SameSeq
<1>6. n \in 1..n /\ \A i \in 1..c : i \in 1..n BY <1>2
<1> HIDE DEF c, n
<1>7. \A i \in 1..n : b[i] = Append(a, <<>>)[i]
  BY <1>1, <1>2, <1>3, <1>4, <1>5, <1>6
<1>8. b = Append(a, <<>>) BY <1>3, <1>4, <1>7, SameSeq
<1> QED BY <1>8 DEF a, b, u

LEMMA OpenPushed ==
    ASSUME NEW M, NEW st, Stack(st, M), st.count # 0, M \subseteq Nat, NEW x \in M,
           Len(st.slots[st.count]) + 1 <= MaxList, NEW t
    PROVE  OpenOf(pushed(st, x), t)
              = Front(OpenOf(st, t)) \o <<Append(Last(OpenOf(st, t)), t[x])>>
<1> DEFINE u == pushed(st, x)
           a == OpenOf(st, t)
           b == OpenOf(u, t)
           c == st.count
           y == Append(Last(a), t[x])
           q == Front(a) \o <<y>>
<1>1. /\ Stack(u, M) /\ u.count = c
      /\ u.slots[c] = Append(st.slots[c], x)
      /\ \A i \in 1..c : i # c => u.slots[i] = st.slots[i]
      /\ st.slots[c] \in Seq(M)
  <2>1. u = pushed(st, x) OBVIOUS
  <2> HIDE DEF u
  <2> QED BY <2>1, Pushed
<1> HIDE DEF u
<1>2. /\ IsSeq(a) /\ Len(a) = c /\ c \in Nat
      /\ \A i \in 1..c : a[i] = TreesOf(st.slots[i], t)
  BY OpenOfIs
<1>3. /\ IsSeq(b) /\ Len(b) = c /\ \A i \in 1..c : b[i] = TreesOf(u.slots[i], t)
  BY <1>1, OpenOfIs
<1>4. c # 0 OBVIOUS
<1>5. Last(a) = a[c] BY <1>2 DEF Last
<1> HIDE DEF a, b, c
<1>6. c \in 1..c BY <1>2, <1>4
<1>7. y = b[c]
  <2>1. TreesOf(Append(st.slots[c], x), t) = Append(TreesOf(st.slots[c], t), t[x])
    BY <1>1, TreesOfAppended
  <2> QED BY <1>1, <1>2, <1>3, <1>5, <1>6, <2>1
<1> HIDE DEF y
<1>8. /\ IsSeq(q) /\ Len(q) = c /\ q[c] = y /\ \A i \in 1..c - 1 : q[i] = a[i]
  BY <1>2, <1>4, FrontAnd
<1> HIDE DEF q
<1>9. \A i \in 1..c : i = c \/ (i \in 1..c - 1 /\ i # c) BY <1>2
<1>10. \A i \in 1..c : b[i] = q[i] BY <1>1, <1>2, <1>3, <1>7, <1>8, <1>9
<1>11. b = q BY <1>3, <1>8, <1>10, SameSeq
<1> QED BY <1>11 DEF a, b, q, u, y

LEMMA OpenClosed ==
    ASSUME NEW M, NEW st, Stack(st, M), st.count # 0, NEW t
    PROVE  /\ OpenOf(closed(st), t) = Front(OpenOf(st, t))
           /\ Last(OpenOf(st, t)) = TreesOf(st.slots[st.count], t)
           /\ OpenOf(st, t) # <<>>
<1> DEFINE u == closed(st)
           a == OpenOf(st, t)
           b == OpenOf(u, t)
           c == st.count
           q == Front(a)
<1>1. Stack(u, M) /\ u.count = c - 1 /\ u.slots = st.slots
  <2>1. u = closed(st) OBVIOUS
  <2> HIDE DEF u
  <2> QED BY <2>1, Closed
<1> HIDE DEF u
<1>2. /\ IsSeq(a) /\ Len(a) = c /\ c \in Nat
      /\ \A i \in 1..c : a[i] = TreesOf(st.slots[i], t)
  BY OpenOfIs
<1>3. /\ IsSeq(b) /\ Len(b) = c - 1 /\ \A i \in 1..c - 1 : b[i] = TreesOf(u.slots[i], t)
  BY <1>1, OpenOfIs
<1>4. c # 0 OBVIOUS
<1>5. Last(a) = a[c] BY <1>2 DEF Last
<1> HIDE DEF a, b, c
<1>6. c \in 1..c /\ \A i \in 1..c - 1 : i \in 1..c BY <1>2, <1>4
<1>7. IsSeq(q) /\ Len(q) = c - 1 /\ \A i \in 1..c - 1 : q[i] = a[i] BY <1>2, <1>4, FrontIs
<1> HIDE DEF q
<1>8. \A i \in 1..c - 1 : b[i] = q[i] BY <1>1, <1>2, <1>3, <1>6, <1>7
<1>9. b = q BY <1>3, <1>7, <1>8, SameSeq
<1>10. a # <<>> BY <1>2, <1>4
<1>11. Last(a) = TreesOf(st.slots[c], t) BY <1>2, <1>5, <1>6
<1> QED BY <1>9, <1>10, <1>11 DEF a, b, q, u, c

-----------------------------------------------------------------------------
(***************************************************************************)
(* What the nodes of the builder amount to, in these words.                *)
(***************************************************************************)
LEMMA ExpTreeIs ==
    ASSUME ExpsMade(expressions)
    PROVE  ExpTree = ExpTreeOf(expressions)
<1> DEFINE E == expressions
           m == Len(E)
           P(t) == t = [e \in MaybeExp |->
                           IF e = NULL THEN NoExp
                           ELSE LET n == expressions[e]
                                IN CASE n.kind = "exp_binary" -> binary_exp(t[n.left], n.op, t[n.right])
                                     [] n.kind = "UNUSED"     -> DBG_exp(t[n.expression])
                                     [] OTHER                 -> n]
           f == ExpTreeOf(E)
           g == ExpTree
<1>1. m \in Nat /\ MaybeExp = 0..m BY DEF ExpsMade, IsSeq, MaybeExp, Exps, NULL
<1>2. \A t : P(t) <=> t = [e \in MaybeExp |-> ExpNode(E, t, e)]
  BY Zenon DEF ExpNode, ExpValue
<1>3. \A t : P(t) <=> ExpsTo(E, t, m)
  <2> HIDE DEF P, m
  <2> QED BY <1>1, <1>2 DEF ExpsTo
<1>4. ExpsTo(E, f, m) BY ExpTreeOfIs
<1>5. \E t : P(t)
  <2> HIDE DEF P, f, m
  <2> QED BY <1>3, <1>4, Zenon
<1>6. P(g) BY <1>5, Zenon DEF ExpTree
<1> HIDE DEF P, f, g
<1>7. ExpsTo(E, g, m) BY <1>3, <1>6
<1>8. \A e \in 0..m : g[e] = f[e]
  <2>1. Grown(E, E) /\ m \in 0..Len(E) /\ \A e \in 0..m : e <= m BY <1>1, GrownSelf
  <2> HIDE DEF m
  <2>2. \A e \in 0..m : e <= m => g[e] = f[e] BY <1>4, <1>7, <2>1, ExpsAgree
  <2> QED BY <2>1, <2>2
<1>9. g = [e \in 0..m |-> g[e]] /\ f = [e \in 0..m |-> f[e]]
  <2>1. g = [e \in 0..m |-> ExpNode(E, g, e)] /\ f = [e \in 0..m |-> ExpNode(E, f, e)]
    BY <1>4, <1>7, Zenon DEF ExpsTo
  <2> HIDE DEF m
  <2> QED BY <2>1
<1>10. g = f BY <1>8, <1>9
<1> QED BY <1>10 DEF g, f

LEMMA MadeExpsIs ==
    ASSUME ExpsMade(expressions)
    PROVE  MadeExps = ExpsOf(expressions)
BY ExpTreeIs DEF MadeExps, ExpsOf, Exps

LEMMA StmtsOne ==
    ASSUME NEW S, NEW E, NEW L, Made(S, E, L), NEW ef,
           NEW f, StmtsTo(S, E, L, ef, f, Len(S)), NEW g, StmtsTo(S, E, L, ef, g, Len(S))
    PROVE  g = f
<1> DEFINE m == Len(S)
           N == {s \in 1..m : g[s] # f[s]}
<1>1. Grown(E, E) /\ Grown(L, L)
  <2>1. Len(E) \in Nat /\ Len(L) \in Nat BY DEF Made, IsSeq
  <2> QED BY <2>1, GrownSelf
<1>2. ASSUME N # {} PROVE FALSE
  <2>1. N \in SUBSET Nat OBVIOUS
  <2> HIDE DEF N
  <2>2. PICK s \in N : \A d \in N : s <= d BY <1>2, <2>1, LeastNumber
  <2>3. s \in 1..m /\ g[s] # f[s] /\ \A d \in 1..s - 1 : f[d] = g[d]
    <3>1. s \in 1..m /\ m \in Nat /\ g[s] # f[s] BY <2>2 DEF N, Made, IsSeq
    <3>2. \A d \in 1..s - 1 : d \in 1..m /\ ~ s <= d BY <3>1
    <3> QED BY <2>2, <3>1, <3>2 DEF N
  <2>4. StmtIn(S, E, L, S[s], s) BY <2>3 DEF Made
  <2>5. StmtValue(E, L, S[s], ef, f) = StmtValue(E, L, S[s], ef, g)
    BY <1>1, <2>3, <2>4, StmtValueLocal
  <2>6. f[s] = StmtValue(E, L, S[s], ef, f) BY <2>3, Zenon DEF StmtsTo
  <2>7. g[s] = StmtValue(E, L, S[s], ef, g) BY <2>3, Zenon DEF StmtsTo
  <2> QED BY <2>3, <2>5, <2>6, <2>7
<1>3. StmtsTo(S, E, L, ef, f, m) /\ StmtsTo(S, E, L, ef, g, m) OBVIOUS
<1>5. \A s \in 1..m : g[s] = f[s] BY <1>2
<1> HIDE DEF m
<1>6. f = [s \in 1..m |-> StmtValue(E, L, S[s], ef, f)]
  BY <1>3, Zenon DEF StmtsTo
<1>7. g = [s \in 1..m |-> StmtValue(E, L, S[s], ef, g)]
  BY <1>3, Zenon DEF StmtsTo
<1>8. f = [s \in 1..m |-> f[s]] BY <1>6
<1>9. g = [s \in 1..m |-> g[s]] BY <1>7
<1> QED BY <1>5, <1>8, <1>9

LEMMA StmtTreeIs ==
    ASSUME Made(statements, expressions, ptr_lists)
    PROVE  StmtTree = StmtTreeOf(statements, expressions, ptr_lists)
<1> DEFINE S == statements
           E == expressions
           L == ptr_lists
           m == Len(S)
           ef == ExpTree
           P(t) == t = [s \in 1..Len(statements) |->
                 LET n == statements[s]
                     trees == [k \in 1..Len(List(s)) |-> t[List(s)[k]]]
                 IN CASE n.kind = "stmt_assign"     -> assign(ef[n.left], ef[n.right])
                      [] n.kind = "stmt_local_decl" -> local_decl(expressions[n.name].name,
                                                                  ef[n.maybe_expression])
                      [] n.kind = "stmt_nop"        -> n
                      [] n.kind = "stmt_return"     -> return_stmt(ef[n.maybe_expression])
                      [] n.kind = "UNUSED"          -> DBG_stmt(t[n.statement])
                      [] n.kind = "_stmt_raw_if"    -> if_pair(ef[n.maybe_condition], t[n.statement])
                      [] n.kind = "stmt_block"      -> block(trees)
                      [] n.kind = "stmt_ifs"        -> ifs(trees)]
           f == StmtTreeOf(S, E, L)
           g == StmtTree
<1>1. \A s : List(s) = ListOf(L, S[s]) BY Zenon DEF List, ListOf
<1>2. \A t : P(t) <=> StmtsTo(S, E, L, ef, t, m)
  <2> HIDE DEF ef
  <2> QED BY Zenon DEF StmtsTo, StmtValue, TreesIn, List, ListOf
<1>3. ef = ExpTreeOf(E) BY ExpressionsMade, ExpTreeIs
<1> HIDE DEF ef
<1>4. StmtsTo(S, E, L, ef, f, m) BY <1>3, StmtTreeOfIs
<1>5. \E t : P(t)
  <2> HIDE DEF P, f
  <2> QED BY <1>2, <1>4, Zenon
<1>6. P(g) BY <1>5, Zenon DEF StmtTree, ef
<1> HIDE DEF P, f, g
<1>7. StmtsTo(S, E, L, ef, g, m) BY <1>2, <1>6
<1>8. g = f BY <1>4, <1>7, StmtsOne
<1> QED BY <1>8 DEF g, f

MadeNow == Made(statements, expressions, ptr_lists)

Mapped == LET t == StmtTreeOf(statements, expressions, ptr_lists)
          IN  /\ MadeExps = ExpsOf(expressions) /\ MadeStmts = MadeSeq(statements, t)
              /\ OpenTrees(ip_blocks) = OpenOf(ip_blocks, t)
              /\ OpenTrees(ip_ifs) = OpenOf(ip_ifs, t)

LEMMA MappedNow == MadeNow => Mapped
<1> SUFFICES ASSUME MadeNow PROVE Mapped
  OBVIOUS
<1>1. MadeExps = ExpsOf(expressions) BY ExpressionsMade, MadeExpsIs DEF MadeNow
<1>2. StmtTree = StmtTreeOf(statements, expressions, ptr_lists) BY StmtTreeIs DEF MadeNow
<1>3. MadeStmts = MadeSeq(statements, StmtTree)
  BY Zenon DEF MadeStmts, MadeSeq, MadeFn, MadeTo, MadeNode, Stmts, StmtsOf
<1>4. \A st : OpenTrees(st) = OpenOf(st, StmtTree)
  BY Zenon DEF OpenTrees, Trees, OpenOf, TreesOf
<1> QED BY <1>1, <1>2, <1>3, <1>4 DEF Mapped

LEMMA MappedNext == MadeNow' => Mapped'
BY MappedNow, PTL

-----------------------------------------------------------------------------
(***************************************************************************)
(* What the functions of the builder do to the trees.                      *)
(***************************************************************************)
LEMMA OpenKept ==
    ASSUME NEW S, NEW E, NEW L, NEW S2, NEW E2, NEW L2, Later(S, E, L, S2, E2, L2),
           NEW M \in SUBSET (1..Len(S)), NEW st, Stack(st, M)
    PROVE  OpenOf(st, StmtTreeOf(S2, E2, L2)) = OpenOf(st, StmtTreeOf(S, E, L))
<1> DEFINE t == StmtTreeOf(S, E, L)
           u == StmtTreeOf(S2, E2, L2)
<1>1. SameOn(M, t, u) BY StmtTreesKept DEF SameOn
<1> HIDE DEF t, u
<1>2. OpenOf(st, u) = OpenOf(st, t) BY <1>1, OpenOfSame
<1> QED BY <1>2 DEF t, u

LEMMA StmtStep ==
    ASSUME NEW S, NEW E, NEW L, NEW B, NEW I, Good(S, E, L, B, I), NEW n,
           n.kind \notin {"_stmt_raw_if", "stmt_block", "stmt_ifs"},
           StmtIn(S, E, L, n, Len(S) + 1)
    PROVE  LET S2 == Append(S, n)
               t  == StmtTreeOf(S, E, L)
               u  == StmtTreeOf(S2, E, L)
           IN  /\ MadeSeq(S2, u) = Append(MadeSeq(S, t), StmtValue(E, L, n, ExpTreeOf(E), t))
               /\ OpenOf(B, u) = OpenOf(B, t) /\ OpenOf(I, u) = OpenOf(I, t)
<1> DEFINE S2 == Append(S, n)
           t  == StmtTreeOf(S, E, L)
           u  == StmtTreeOf(S2, E, L)
<1>0. S2 = Append(S, n) /\ t = StmtTreeOf(S, E, L) /\ u = StmtTreeOf(S2, E, L) OBVIOUS
<1> HIDE DEF S2, t, u
<1> USE <1>0
<1>1. /\ IsSeq(S) /\ Made(S, E, L) /\ Stack(B, StmtsOf(S)) /\ Stack(I, PairsOf(S))
      /\ StmtsOf(S) \subseteq 1..Len(S) /\ PairsOf(S) \subseteq 1..Len(S)
      /\ L \in Seq(1..Len(S)) /\ Grown(L, L) /\ Len(E) \in Nat
  BY GoodFacts
<1>2. Made(S2, E, L) BY <1>1, MadeStmt
<1>3. Later(S, E, L, S2, E, L) BY <1>1, <1>2, GrownAppend, GrownSelf DEF Later
<1>4. OpenOf(B, u) = OpenOf(B, t) /\ OpenOf(I, u) = OpenOf(I, t)
  <2> HIDE DEF StmtTreeOf
  <2> QED BY <1>1, <1>3, OpenKept
<1>5. \A s \in 1..Len(S) : u[s] = t[s] BY <1>3, StmtTreesKept
<1>6. u[Len(S) + 1] = StmtValue(E, L, n, ExpTreeOf(E), t) BY <1>1, <1>2, StmtTreeNew
<1>7. MadeSeq(S2, u) = Append(MadeSeq(S, t), u[Len(S) + 1])
  BY <1>1, <1>5, MadeSeqAppended DEF SameOn
<1> QED BY <1>4, <1>6, <1>7, Zenon

LEMMA ExpStep ==
    ASSUME NEW S, NEW E, NEW L, NEW B, NEW I, Good(S, E, L, B, I), NEW n,
           ExpIn(n, Len(E) + 1)
    PROVE  LET E2 == Append(E, n)
               t  == StmtTreeOf(S, E, L)
               u  == StmtTreeOf(S, E2, L)
           IN  /\ ExpsOf(E2) = Append(ExpsOf(E), ExpValue(n, ExpTreeOf(E)))
               /\ MadeSeq(S, u) = MadeSeq(S, t)
               /\ OpenOf(B, u) = OpenOf(B, t) /\ OpenOf(I, u) = OpenOf(I, t)
<1> DEFINE E2 == Append(E, n)
           t  == StmtTreeOf(S, E, L)
           u  == StmtTreeOf(S, E2, L)
<1>0. E2 = Append(E, n) /\ t = StmtTreeOf(S, E, L) /\ u = StmtTreeOf(S, E2, L) OBVIOUS
<1> HIDE DEF E2, t, u
<1> USE <1>0
<1>1. /\ IsSeq(S) /\ Made(S, E, L) /\ Stack(B, StmtsOf(S)) /\ Stack(I, PairsOf(S))
      /\ StmtsOf(S) \subseteq 1..Len(S) /\ PairsOf(S) \subseteq 1..Len(S)
      /\ Grown(L, L) /\ Len(S) \in Nat /\ IsSeq(E)
  BY GoodFacts
<1>2. Made(S, E2, L) BY <1>1, MadeExp
<1>3. Later(S, E, L, S, E2, L) BY <1>1, <1>2, GrownAppend, GrownSelf DEF Later
<1>4. OpenOf(B, u) = OpenOf(B, t) /\ OpenOf(I, u) = OpenOf(I, t)
  <2> HIDE DEF StmtTreeOf
  <2> QED BY <1>1, <1>3, OpenKept
<1>5. \A s \in 1..Len(S) : u[s] = t[s] BY <1>3, StmtTreesKept
<1>6. MadeSeq(S, u) = MadeSeq(S, t) BY <1>1, <1>5, MadeSeqSame
<1>7. ExpsOf(E2) = Append(ExpsOf(E), ExpValue(n, ExpTreeOf(E)))
  BY <1>1, ExpressionsMade, ExpsOfAppended
<1> QED BY <1>4, <1>6, <1>7, Zenon

LEMMA PairStep ==
    ASSUME NEW S, NEW E, NEW L, NEW B, NEW I, Good(S, E, L, B, I), NEW n,
           n.kind = "_stmt_raw_if", StmtIn(S, E, L, n, Len(S) + 1),
           I.count # 0, Len(I.slots[I.count]) + 1 <= MaxList
    PROVE  LET S2 == Append(S, n)
               t  == StmtTreeOf(S, E, L)
               u  == StmtTreeOf(S2, E, L)
           IN  /\ MadeSeq(S2, u) = MadeSeq(S, t) /\ OpenOf(B, u) = OpenOf(B, t)
               /\ OpenOf(pushed(I, Len(S) + 1), u)
                    = Front(OpenOf(I, t)) \o
                         <<Append(Last(OpenOf(I, t)), StmtValue(E, L, n, ExpTreeOf(E), t))>>
<1> DEFINE S2 == Append(S, n)
           t  == StmtTreeOf(S, E, L)
           u  == StmtTreeOf(S2, E, L)
           q == Len(S) + 1
           M == PairsOf(S2)
<1>0. S2 = Append(S, n) /\ t = StmtTreeOf(S, E, L) /\ u = StmtTreeOf(S2, E, L) OBVIOUS
<1> HIDE DEF S2, t, u
<1> USE <1>0
<1>1. /\ IsSeq(S) /\ Made(S, E, L) /\ Stack(B, StmtsOf(S)) /\ Stack(I, PairsOf(S))
      /\ StmtsOf(S) \subseteq 1..Len(S) /\ PairsOf(S) \subseteq 1..Len(S)
      /\ PairsOf(S) \subseteq Nat /\ Len(S) \in Nat
      /\ L \in Seq(1..Len(S)) /\ Grown(L, L) /\ Len(E) \in Nat
  BY GoodFacts
<1>2. Made(S2, E, L) BY <1>1, MadeStmt
<1>3. Later(S, E, L, S2, E, L) BY <1>1, <1>2, GrownAppend, GrownSelf DEF Later
<1>4. OpenOf(B, u) = OpenOf(B, t) /\ OpenOf(I, u) = OpenOf(I, t)
  <2> HIDE DEF StmtTreeOf
  <2> QED BY <1>1, <1>3, OpenKept
<1>5. \A s \in 1..Len(S) : u[s] = t[s] BY <1>3, StmtTreesKept
<1>6. u[q] = StmtValue(E, L, n, ExpTreeOf(E), t) BY <1>1, <1>2, StmtTreeNew
<1>7. MadeSeq(S2, u) = MadeSeq(S, t) BY <1>1, <1>5, MadeSeqAppended DEF SameOn
<1>8. M = PairsOf(S) \cup {q} BY <1>1, StmtsAppended
<1>9. q \in M /\ M \subseteq Nat /\ PairsOf(S) \subseteq M BY <1>1, <1>8
<1>10. Stack(I, M) BY <1>1, <1>9, StackWider
<1> HIDE DEF q, M
<1>11. OpenOf(pushed(I, q), u)
          = Front(OpenOf(I, u)) \o <<Append(Last(OpenOf(I, u)), u[q])>>
  BY <1>9, <1>10, OpenPushed
<1> QED BY <1>4, <1>6, <1>7, <1>11, Zenon DEF q

\* A node with the list of its own that was in progress
Ends(S, L, n, top) == /\ top \in Seq(1..Len(S)) /\ top # <<>>
                      /\ n.count = Len(top) /\ n.first = Len(L) + 1
                      /\ \/ n.kind = "stmt_block" /\ top \in Seq(StmtsOf(S))
                         \/ n.kind = "stmt_ifs" /\ top \in Seq(PairsOf(S))

LEMMA EndStep ==
    ASSUME NEW S, NEW E, NEW L, NEW B, NEW I, Good(S, E, L, B, I),
           NEW n, NEW top, Ends(S, L, n, top)
    PROVE  LET S2 == Append(S, n)
               t  == StmtTreeOf(S, E, L)
               u  == StmtTreeOf(S2, E, L \o top)
           IN  /\ MadeSeq(S2, u) = Append(MadeSeq(S, t),
                                          IF n.kind = "stmt_block" THEN block(TreesOf(top, t))
                                          ELSE ifs(TreesOf(top, t)))
               /\ OpenOf(B, u) = OpenOf(B, t) /\ OpenOf(I, u) = OpenOf(I, t)
<1> DEFINE S2 == Append(S, n)
           L2 == L \o top
           t  == StmtTreeOf(S, E, L)
           u  == StmtTreeOf(S2, E, L2)
<1>0. /\ S2 = Append(S, n) /\ L2 = L \o top
      /\ t = StmtTreeOf(S, E, L) /\ u = StmtTreeOf(S2, E, L2)
      /\ top \in Seq(1..Len(S)) /\ top # <<>>
      /\ n.count = Len(top) /\ n.first = Len(L) + 1
      /\ \/ n.kind = "stmt_block" /\ top \in Seq(StmtsOf(S))
         \/ n.kind = "stmt_ifs" /\ top \in Seq(PairsOf(S))
  BY Zenon DEF Ends
<1> HIDE DEF S2, L2, t, u
<1> USE <1>0
<1>1. /\ IsSeq(S) /\ Made(S, E, L) /\ Stack(B, StmtsOf(S)) /\ Stack(I, PairsOf(S))
      /\ StmtsOf(S) \subseteq 1..Len(S) /\ PairsOf(S) \subseteq 1..Len(S)
      /\ L \in Seq(1..Len(S)) /\ Len(L) \in Nat /\ Len(E) \in Nat
  BY GoodFacts
<1>2. Made(S2, E, L2) BY Ending
<1>3. /\ Len(L2) = Len(L) + Len(top) /\ Len(top) \in Nat
      /\ \A k \in 1..Len(L) : L2[k] = L[k]
      /\ \A j \in 1..Len(top) : L2[Len(L) + j] = top[j]
  BY <1>1, Joined
<1>4. Grown(L, L2) BY <1>1, <1>3 DEF Grown
<1>5. Later(S, E, L, S2, E, L2) BY <1>1, <1>2, <1>4, GrownAppend, GrownSelf DEF Later
<1>6. OpenOf(B, u) = OpenOf(B, t) /\ OpenOf(I, u) = OpenOf(I, t)
  <2> HIDE DEF StmtTreeOf
  <2> QED BY <1>1, <1>5, OpenKept
<1>7. \A s \in 1..Len(S) : u[s] = t[s] BY <1>5, StmtTreesKept
<1>8. u[Len(S) + 1] = StmtValue(E, L2, n, ExpTreeOf(E), t) BY <1>1, <1>2, <1>4, StmtTreeNew
<1>9. MadeSeq(S2, u) = Append(MadeSeq(S, t), u[Len(S) + 1])
  <2>1. n.kind # "_stmt_raw_if" OBVIOUS
  <2>2. SameOn(1..Len(S), t, u) BY <1>7 DEF SameOn
  <2>3. MadeSeq(S2, u) = IF n.kind = "_stmt_raw_if" THEN MadeSeq(S, t)
                         ELSE Append(MadeSeq(S, t), u[Len(S) + 1])
    BY <1>1, <2>2, MadeSeqAppended
  <2> QED BY <2>1, <2>3
<1>10. TreesIn(L2, n, t) = TreesOf(top, t)
  <2> DEFINE l == ListOf(L2, n)
  <2>1. l = [k \in 1..Len(top) |-> top[k]]
    <3>1. \A k \in 1..Len(top) : L2[Len(L) + 1 + k - 1] = top[k]
      <4>1. \A k \in 1..Len(top) : Len(L) + 1 + k - 1 = Len(L) + k BY <1>1, <1>3
      <4> QED BY <1>3, <4>1
    <3> QED BY <3>1 DEF ListOf
  <2>2. top = [k \in 1..Len(top) |-> top[k]] OBVIOUS
  <2>3. l = top BY <2>1, <2>2
  <2> QED BY <2>3, Zenon DEF TreesIn, TreesOf
<1>11. StmtValue(E, L2, n, ExpTreeOf(E), t) = IF n.kind = "stmt_block" THEN block(TreesOf(top, t))
                                              ELSE ifs(TreesOf(top, t))
  <2>1. CASE n.kind = "stmt_block"
    <3> HIDE DEF TreesIn, TreesOf
    <3> QED BY <1>10, <2>1 DEF StmtValue
  <2>2. CASE n.kind = "stmt_ifs"
    <3> HIDE DEF TreesIn, TreesOf
    <3> QED BY <1>10, <2>2 DEF StmtValue
  <2> QED BY <2>1, <2>2
<1> QED BY <1>6, <1>8, <1>9, <1>11, Zenon

-----------------------------------------------------------------------------
(***************************************************************************)
(* Each function of the builder does to the trees what TreeBuilder says.   *)
(***************************************************************************)
Tree == StmtTreeOf(statements, expressions, ptr_lists)

Simulated == \/ T!Next
             \/ UNCHANGED <<MadeExps, MadeStmts, OpenTrees(ip_blocks), OpenTrees(ip_ifs),
                            fault # NoFault>>

LEMMA CallRuns == ASSUME NEW STATE a, NEW ACTION step, Call(a, step) PROVE fault = NoFault
BY DEF Call

LEMMA MappedBoth ==
    ASSUME MadeNow, MadeNow'
    PROVE  /\ MadeExps = ExpsOf(expressions) /\ MadeExps' = ExpsOf(expressions')
           /\ MadeStmts = MadeSeq(statements, Tree) /\ MadeStmts' = MadeSeq(statements', Tree')
           /\ OpenTrees(ip_blocks) = OpenOf(ip_blocks, Tree)
           /\ OpenTrees(ip_blocks)' = OpenOf(ip_blocks', Tree')
           /\ OpenTrees(ip_ifs) = OpenOf(ip_ifs, Tree)
           /\ OpenTrees(ip_ifs)' = OpenOf(ip_ifs', Tree')
<1>1. Mapped BY MappedNow
<1>2. Mapped' BY MappedNext
<1> QED BY <1>1, <1>2, Zenon DEF Mapped, Tree

LEMMA SameTree ==
    ASSUME UNCHANGED <<statements, expressions, ptr_lists>> PROVE Tree' = Tree
BY DEF Tree

LEMMA StopSimulates ==
    ASSUME MadeNow, MadeNow', Stopped, fault = NoFault PROVE Simulated
<1>1. UNCHANGED <<statements, expressions, ptr_lists, ip_blocks, ip_ifs>> BY DEF Stopped
<1>2. Tree' = Tree BY <1>1, SameTree
<1>3. UNCHANGED <<MadeExps, MadeStmts, OpenTrees(ip_blocks), OpenTrees(ip_ifs)>>
  BY <1>1, <1>2, MappedBoth
<1>4. CASE fault' = NoFault BY <1>3, <1>4 DEF Simulated
<1>5. CASE fault' # NoFault BY <1>3, <1>5 DEF Simulated, T!Next, T!Stop
<1> QED BY <1>4, <1>5

LEMMA StartBlockSimulates ==
    ASSUME IInv, MadeNow, MadeNow', StartBlock PROVE Simulated
<1> DEFINE step == /\ ip_blocks' = opened(ip_blocks)
                   /\ UNCHANGED <<statements, expressions, ptr_lists, ip_ifs>>
<1>1. Call(<<unopened(ip_blocks)>>, step) BY Zenon DEF StartBlock
<1> HIDE DEF step
<1>2. fault = NoFault BY <1>1, CallRuns
<1>3. Stopped \/ (step /\ fault' = fault /\ unopened(ip_blocks)[1])
  BY <1>1, Reasons, Call1
<1>4. CASE step /\ fault' = fault /\ ip_blocks.count < MaxOpen
  <2>1. Stack(ip_blocks, StmtsOf(statements)) BY GoodFacts DEF IInv, TypedIn
  <2>2. Tree' = Tree BY <1>4, SameTree DEF step
  <2>3. OpenOf(opened(ip_blocks), Tree) = Append(OpenOf(ip_blocks, Tree), <<>>)
    BY <1>4, <2>1, OpenOpened
  <2>4. /\ OpenTrees(ip_blocks)' = Append(OpenTrees(ip_blocks), <<>>)
        /\ UNCHANGED <<MadeExps, MadeStmts, OpenTrees(ip_ifs)>>
    BY <1>4, <2>2, <2>3, MappedBoth DEF step
  <2> QED BY <1>2, <1>4, <2>4 DEF Simulated, T!Next, T!StartBlock
<1> QED BY <1>2, <1>3, <1>4, StopSimulates DEF unopened

LEMMA StartIfsSimulates ==
    ASSUME IInv, MadeNow, MadeNow', StartIfs PROVE Simulated
<1> DEFINE step == /\ ip_ifs' = opened(ip_ifs)
                   /\ UNCHANGED <<statements, expressions, ptr_lists, ip_blocks>>
<1>1. Call(<<unopened(ip_ifs)>>, step) BY Zenon DEF StartIfs
<1> HIDE DEF step
<1>2. fault = NoFault BY <1>1, CallRuns
<1>3. Stopped \/ (step /\ fault' = fault /\ unopened(ip_ifs)[1])
  BY <1>1, Reasons, Call1
<1>4. CASE step /\ fault' = fault /\ ip_ifs.count < MaxOpen
  <2>1. Stack(ip_ifs, PairsOf(statements)) BY GoodFacts DEF IInv, TypedIn
  <2>2. Tree' = Tree BY <1>4, SameTree DEF step
  <2>3. OpenOf(opened(ip_ifs), Tree) = Append(OpenOf(ip_ifs, Tree), <<>>)
    BY <1>4, <2>1, OpenOpened
  <2>4. /\ OpenTrees(ip_ifs)' = Append(OpenTrees(ip_ifs), <<>>)
        /\ UNCHANGED <<MadeExps, MadeStmts, OpenTrees(ip_blocks)>>
    BY <1>4, <2>2, <2>3, MappedBoth DEF step
  <2> QED BY <1>2, <1>4, <2>4 DEF Simulated, T!Next, T!StartIfs
<1> QED BY <1>2, <1>3, <1>4, StopSimulates DEF unopened

LEMMA SameWords ==
    /\ \A s : T!Range(s) = Range(s) /\ T!Front(s) = Front(s) /\ T!Last(s) = Last(s)
    /\ T!NoExp = NoExp /\ T!op = op
    /\ \A x, y : /\ T!assign(x, y) = assign(x, y) /\ T!local_decl(x, y) = local_decl(x, y)
                 /\ T!if_pair(x, y) = if_pair(x, y)
    /\ \A x, y, z : T!binary_exp(x, y, z) = binary_exp(x, y, z)
    /\ \A x : /\ T!literal_exp(x) = literal_exp(x) /\ T!ident(x) = ident(x)
              /\ T!DBG_exp(x) = DBG_exp(x) /\ T!DBG_stmt(x) = DBG_stmt(x)
              /\ T!return_stmt(x) = return_stmt(x)
              /\ T!block(x) = block(x) /\ T!ifs(x) = ifs(x)
    /\ T!nop_stmt = nop_stmt
BY Zenon DEF T!Range, Range, T!Front, Front, T!Last, Last, T!NoExp, NoExp, T!op, op,
             T!assign, assign, T!local_decl, local_decl, T!if_pair, if_pair,
             T!binary_exp, binary_exp, T!literal_exp, literal_exp, T!ident, ident,
             T!DBG_exp, DBG_exp, T!DBG_stmt, DBG_stmt, T!return_stmt, return_stmt,
             T!block, block, T!ifs, ifs, T!nop_stmt, nop_stmt

LEMMA InRange ==
    ASSUME NEW s, IsSeq(s), NEW x, \E k \in 1..Len(s) : s[k] = x
    PROVE  x \in Range(s)
<1>1. DOMAIN s = 1..Len(s) BY DEF IsSeq
<1> QED BY <1>1 DEF Range

\* What is passed to a function stands for a tree that was made.
LEMMA GivenTrees ==
    ASSUME MadeNow
    PROVE  /\ \A s \in StmtsOf(statements) : Tree[s] \in T!AStmt
           /\ \A e \in 1..Len(expressions) : ExpTreeOf(expressions)[e] \in T!AnExp
           /\ \A e \in MaybeOf(expressions) : ExpTreeOf(expressions)[e] \in T!MaybeExp
           /\ \A e \in MaybeOf(expressions) : ExpTreeOf(expressions)[e] = NoExp <=> e = NULL
<1> DEFINE m == MadeSeq(statements, Tree)
           f == ExpTreeOf(expressions)
<1>1. Mapped BY MappedNow
<1>2. MadeStmts = m /\ MadeExps = ExpsOf(expressions) BY <1>1 DEF Mapped, Tree
<1>3. Len(statements) \in Nat /\ Len(expressions) \in Nat /\ ExpsMade(expressions)
  BY ExpressionsMade DEF MadeNow, Made, IsSeq
<1>4. IsSeq(m) /\ \A s \in StmtsOf(statements) : \E k \in 1..Len(m) : m[k] = Tree[s]
  BY <1>3, MadeSeqLists
<1> HIDE DEF m
<1>5. \A s \in StmtsOf(statements) : Tree[s] \in T!AStmt
  <2>1. \A s \in StmtsOf(statements) : Tree[s] \in Range(m) BY <1>4, InRange
  <2> QED BY <1>2, <2>1, SameWords DEF T!AStmt
<1>6. \A e \in 1..Len(expressions) : f[e] \in T!AnExp
  <2> DEFINE x == ExpsOf(expressions)
  <2>1. x = [e \in 1..Len(expressions) |-> f[e]] BY DEF ExpsOf
  <2> HIDE DEF x, f
  <2>2. IsSeq(x) /\ Len(x) = Len(expressions) BY <1>3, <2>1, FunctionSeq
  <2>3. \A e \in 1..Len(expressions) : f[e] \in Range(x) BY <2>1 DEF Range
  <2> QED BY <1>2, <2>3, SameWords DEF T!AnExp, x
<1>7. f[NULL] = NoExp BY <1>3, ExpTreeOfIs
<1>8. \A e \in 1..Len(expressions) : f[e] # NoExp BY <1>3, ExpTreeKinds
<1>9. \A e \in MaybeOf(expressions) : e = NULL \/ (e \in 1..Len(expressions) /\ e # NULL)
  BY DEF MaybeOf, NULL
<1> HIDE DEF f
<1>10. \A e \in MaybeOf(expressions) : f[e] \in T!MaybeExp
  BY <1>6, <1>7, <1>9, SameWords DEF T!MaybeExp
<1>11. \A e \in MaybeOf(expressions) : f[e] = NoExp <=> e = NULL BY <1>7, <1>8, <1>9
<1> QED BY <1>5, <1>6, <1>10, <1>11 DEF f

LEMMA PushBlockStmtSimulates ==
    ASSUME IInv, MadeNow, MadeNow', NEW s \in MaybeStmt, PushBlockStmt(s) PROVE Simulated
<1> DEFINE step == /\ ip_blocks' = pushed(ip_blocks, s)
                   /\ UNCHANGED <<statements, expressions, ptr_lists, ip_ifs>>
<1>1. Call(<<given(s), unclosed(ip_blocks), room(peek(ip_blocks), 1, MaxList)>>, step)
  BY Zenon DEF PushBlockStmt
<1> HIDE DEF step
<1>2. fault = NoFault BY <1>1, CallRuns
<1>3. \/ Stopped
      \/ step /\ fault' = fault /\ given(s)[1] /\ unclosed(ip_blocks)[1]
              /\ room(peek(ip_blocks), 1, MaxList)[1]
  BY <1>1, Reasons, Call3
<1>4. CASE /\ step /\ fault' = fault /\ s # NULL /\ ip_blocks.count # 0
           /\ Len(ip_blocks.slots[ip_blocks.count]) + 1 <= MaxList
  <2>1. Stack(ip_blocks, StmtsOf(statements)) /\ StmtsOf(statements) \subseteq Nat
    BY GoodFacts DEF IInv, TypedIn
  <2>2. s \in StmtsOf(statements) BY <1>4 DEF MaybeStmt, Stmts, StmtsOf
  <2>3. Tree' = Tree BY <1>4, SameTree DEF step
  <2>4. OpenOf(pushed(ip_blocks, s), Tree)
           = Front(OpenOf(ip_blocks, Tree)) \o <<Append(Last(OpenOf(ip_blocks, Tree)), Tree[s])>>
    BY <1>4, <2>1, <2>2, OpenPushed
  <2>5. OpenOf(ip_blocks, Tree) # <<>> BY <1>4, <2>1, OpenClosed
  <2>6. /\ OpenTrees(ip_blocks)'
              = Front(OpenTrees(ip_blocks)) \o <<Append(Last(OpenTrees(ip_blocks)), Tree[s])>>
        /\ OpenTrees(ip_blocks) # <<>>
        /\ UNCHANGED <<MadeExps, MadeStmts, OpenTrees(ip_ifs)>>
    BY <1>4, <2>3, <2>4, <2>5, MappedBoth DEF step
  <2>7. Tree[s] \in T!AStmt BY <2>2, GivenTrees
  <2>8. T!PushBlockStmt BY <1>4, <2>6, <2>7, SameWords, Zenon DEF T!PushBlockStmt
  <2> QED BY <1>2, <2>8 DEF Simulated, T!Next
<1> QED BY <1>2, <1>3, <1>4, StopSimulates DEF given, unclosed, room, peek, is_empty

LEMMA EndBlockSimulates ==
    ASSUME IInv, MadeNow, MadeNow', EndBlock PROVE Simulated
<1> DEFINE top == peek(ip_blocks)
           n   == ListNode("stmt_block", top)
           filled == <<top # <<>>, "!ip->is_empty()">>
           step == /\ statements' = Append(statements, n)
                   /\ ptr_lists' = ptr_lists \o top
                   /\ expressions' = expressions
                   /\ ip_blocks' = closed(ip_blocks) /\ UNCHANGED ip_ifs
<1>1. Call(<<unclosed(ip_blocks), filled, room(statements, 1, MaxStatements),
             room(ptr_lists, Len(top), MaxPtrs)>>, step)
  BY Zenon DEF EndBlock, EndList
<1>2. filled[2] \in Faults /\ filled[1] = (top # <<>>) BY DEF Faults
<1> HIDE DEF filled, step, n, top
<1>3. fault = NoFault BY <1>1, CallRuns
<1>4. \/ Stopped
      \/ /\ step /\ fault' = fault /\ unclosed(ip_blocks)[1] /\ filled[1]
         /\ room(statements, 1, MaxStatements)[1] /\ room(ptr_lists, Len(top), MaxPtrs)[1]
  BY <1>1, <1>2, Reasons, Call4
<1>5. CASE step /\ fault' = fault /\ ip_blocks.count # 0 /\ top # <<>>
  <2>1. Good(statements, expressions, ptr_lists, ip_blocks, ip_ifs) BY DEF IInv, TypedIn
  <2>2. top = ip_blocks.slots[ip_blocks.count] BY <1>5 DEF top, peek, is_empty
  <2>3. n.kind = "stmt_block" /\ n.count = Len(top) /\ n.first = Len(ptr_lists) + 1
    BY DEF n, ListNode
  <2>4. /\ Stack(ip_blocks, StmtsOf(statements)) /\ StmtsOf(statements) \subseteq 1..Len(statements)
        /\ Stack(ip_ifs, PairsOf(statements))
    BY <2>1, GoodFacts
  <2>5. top \in Seq(StmtsOf(statements)) /\ top \in Seq(1..Len(statements))
    <3>1. top \in Seq(StmtsOf(statements))
      <4>1. ip_blocks.count \in 1..ip_blocks.count BY <1>5, <2>4, StackFields
      <4> QED BY <2>2, <2>4, <4>1 DEF Stack
    <3> QED BY <2>4, <3>1, Wider
  <2>6. /\ statements' = Append(statements, n) /\ ptr_lists' = ptr_lists \o top
        /\ expressions' = expressions /\ ip_blocks' = closed(ip_blocks) /\ ip_ifs' = ip_ifs
        /\ Tree' = StmtTreeOf(Append(statements, n), expressions, ptr_lists \o top)
    BY <1>5, Zenon DEF step, Tree
  <2>7. /\ MadeSeq(Append(statements, n), Tree')
              = Append(MadeSeq(statements, Tree), block(TreesOf(top, Tree)))
        /\ OpenOf(ip_blocks, Tree') = OpenOf(ip_blocks, Tree)
        /\ OpenOf(ip_ifs, Tree') = OpenOf(ip_ifs, Tree)
    <3>1. Ends(statements, ptr_lists, n, top) BY <1>5, <2>3, <2>5 DEF Ends
    <3> QED BY <2>1, <2>3, <2>6, <3>1, EndStep DEF Tree
  <2>8. /\ OpenOf(closed(ip_blocks), Tree') = Front(OpenOf(ip_blocks, Tree'))
        /\ Last(OpenOf(ip_blocks, Tree)) = TreesOf(top, Tree)
        /\ OpenOf(ip_blocks, Tree) # <<>>
    BY <1>5, <2>2, <2>4, OpenClosed
  <2>9. TreesOf(top, Tree) # <<>>
    <3>1. Len(TreesOf(top, Tree)) = Len(top) BY <2>5, TreesOfIs
    <3>2. Len(top) # 0 BY <1>5, <2>5
    <3> QED BY <3>1, <3>2
  <2>10. /\ MadeStmts' = Append(MadeStmts, block(Last(OpenTrees(ip_blocks))))
         /\ OpenTrees(ip_blocks)' = Front(OpenTrees(ip_blocks))
         /\ OpenTrees(ip_blocks) # <<>> /\ Last(OpenTrees(ip_blocks)) # <<>>
         /\ UNCHANGED <<MadeExps, OpenTrees(ip_ifs)>>
    BY <2>6, <2>7, <2>8, <2>9, MappedBoth
  <2>11. T!EndBlock BY <1>5, <2>10, SameWords, Zenon DEF T!EndBlock
  <2> QED BY <1>3, <2>11 DEF Simulated, T!Next
<1> QED BY <1>2, <1>3, <1>4, <1>5, StopSimulates DEF unclosed, is_empty

LEMMA EndIfsSimulates ==
    ASSUME IInv, MadeNow, MadeNow', EndIfs PROVE Simulated
<1> DEFINE top == peek(ip_ifs)
           n   == ListNode("stmt_ifs", top)
           filled == <<top # <<>>, "!ip->is_empty()">>
           step == /\ statements' = Append(statements, n)
                   /\ ptr_lists' = ptr_lists \o top
                   /\ expressions' = expressions
                   /\ ip_ifs' = closed(ip_ifs) /\ UNCHANGED ip_blocks
<1>1. Call(<<unclosed(ip_ifs), filled, room(statements, 1, MaxStatements),
             room(ptr_lists, Len(top), MaxPtrs)>>, step)
  BY Zenon DEF EndIfs, EndList
<1>2. filled[2] \in Faults /\ filled[1] = (top # <<>>) BY DEF Faults
<1> HIDE DEF filled, step, n, top
<1>3. fault = NoFault BY <1>1, CallRuns
<1>4. \/ Stopped
      \/ /\ step /\ fault' = fault /\ unclosed(ip_ifs)[1] /\ filled[1]
         /\ room(statements, 1, MaxStatements)[1] /\ room(ptr_lists, Len(top), MaxPtrs)[1]
  BY <1>1, <1>2, Reasons, Call4
<1>5. CASE step /\ fault' = fault /\ ip_ifs.count # 0 /\ top # <<>>
  <2>1. Good(statements, expressions, ptr_lists, ip_blocks, ip_ifs) BY DEF IInv, TypedIn
  <2>2. top = ip_ifs.slots[ip_ifs.count] BY <1>5 DEF top, peek, is_empty
  <2>3. n.kind = "stmt_ifs" /\ n.count = Len(top) /\ n.first = Len(ptr_lists) + 1
    BY DEF n, ListNode
  <2>4. /\ Stack(ip_ifs, PairsOf(statements)) /\ PairsOf(statements) \subseteq 1..Len(statements)
        /\ Stack(ip_blocks, StmtsOf(statements))
    BY <2>1, GoodFacts
  <2>5. top \in Seq(PairsOf(statements)) /\ top \in Seq(1..Len(statements))
    <3>1. top \in Seq(PairsOf(statements))
      <4>1. ip_ifs.count \in 1..ip_ifs.count BY <1>5, <2>4, StackFields
      <4> QED BY <2>2, <2>4, <4>1 DEF Stack
    <3> QED BY <2>4, <3>1, Wider
  <2>6. /\ statements' = Append(statements, n) /\ ptr_lists' = ptr_lists \o top
        /\ expressions' = expressions /\ ip_ifs' = closed(ip_ifs) /\ ip_blocks' = ip_blocks
        /\ Tree' = StmtTreeOf(Append(statements, n), expressions, ptr_lists \o top)
    BY <1>5, Zenon DEF step, Tree
  <2>7. /\ MadeSeq(Append(statements, n), Tree')
              = Append(MadeSeq(statements, Tree), ifs(TreesOf(top, Tree)))
        /\ OpenOf(ip_ifs, Tree') = OpenOf(ip_ifs, Tree)
        /\ OpenOf(ip_blocks, Tree') = OpenOf(ip_blocks, Tree)
    <3>1. Ends(statements, ptr_lists, n, top) BY <1>5, <2>3, <2>5 DEF Ends
    <3> QED BY <2>1, <2>3, <2>6, <3>1, EndStep DEF Tree
  <2>8. /\ OpenOf(closed(ip_ifs), Tree') = Front(OpenOf(ip_ifs, Tree'))
        /\ Last(OpenOf(ip_ifs, Tree)) = TreesOf(top, Tree)
        /\ OpenOf(ip_ifs, Tree) # <<>>
    BY <1>5, <2>2, <2>4, OpenClosed
  <2>9. TreesOf(top, Tree) # <<>>
    <3>1. Len(TreesOf(top, Tree)) = Len(top) BY <2>5, TreesOfIs
    <3>2. Len(top) # 0 BY <1>5, <2>5
    <3> QED BY <3>1, <3>2
  <2>10. /\ MadeStmts' = Append(MadeStmts, ifs(Last(OpenTrees(ip_ifs))))
         /\ OpenTrees(ip_ifs)' = Front(OpenTrees(ip_ifs))
         /\ OpenTrees(ip_ifs) # <<>> /\ Last(OpenTrees(ip_ifs)) # <<>>
         /\ UNCHANGED <<MadeExps, OpenTrees(ip_blocks)>>
    BY <2>6, <2>7, <2>8, <2>9, MappedBoth
  <2>11. T!EndIfs BY <1>5, <2>10, SameWords, Zenon DEF T!EndIfs
  <2> QED BY <1>3, <2>11 DEF Simulated, T!Next
<1> QED BY <1>2, <1>3, <1>4, <1>5, StopSimulates DEF unclosed, is_empty

\* In a chain of pairs, no else comes first or after an else.
ChainOf(S, l) == \A j \in 1..Len(l) :
                    S[l[j]].maybe_condition = NULL =>
                        j > 1 /\ S[l[j - 1]].maybe_condition # NULL
Chained(S, I) == \A i \in 1..I.count : ChainOf(S, I.slots[i])

LEMMA PairTree ==
    ASSUME NEW S, NEW E, NEW L, Made(S, E, L), NEW p \in PairsOf(S)
    PROVE  StmtTreeOf(S, E, L)[p].maybe_condition = NoExp <=> S[p].maybe_condition = NULL
<1> DEFINE f == StmtTreeOf(S, E, L)
           g == ExpTreeOf(E)
           n == S[p]
<1>1. p \in 1..Len(S) /\ n.kind = "_stmt_raw_if" BY DEF PairsOf, StmtsOf
<1>2. f[p] = StmtValue(E, L, n, g, f) BY <1>1, StmtTreeOfIs
<1>3. n.maybe_condition \in MaybeOf(E) BY <1>1 DEF Made, StmtIn
<1>4. ExpsMade(E) BY ExpressionsMade
<1>5. g[n.maybe_condition] = NoExp <=> n.maybe_condition = NULL
  <2>1. g[NULL] = NoExp /\ \A e \in 1..Len(E) : g[e] # NoExp /\ e # NULL
    BY <1>4, ExpTreeOfIs, ExpTreeKinds DEF NULL
  <2>2. n.maybe_condition = NULL \/ n.maybe_condition \in 1..Len(E) BY <1>3 DEF MaybeOf
  <2> HIDE DEF g
  <2> QED BY <2>1, <2>2
<1> HIDE DEF f, g
<1>6. f[p] = if_pair(g[n.maybe_condition], f[n.statement]) BY <1>1, <1>2 DEF StmtValue
<1>7. f[p].maybe_condition = g[n.maybe_condition] BY <1>6 DEF if_pair
<1> QED BY <1>5, <1>7 DEF f

LEMMA ChainAccepted ==
    ASSUME NEW S, NEW E, NEW L, Made(S, E, L), NEW l \in Seq(PairsOf(S)), ChainOf(S, l)
    PROVE  PushIfAccepts(TreesOf(l, StmtTreeOf(S, E, L)))
<1> DEFINE t == StmtTreeOf(S, E, L)
           b == TreesOf(l, t)
           M == PairsOf(S)
<1>1. \A p \in M : t[p].maybe_condition = NoExp <=> S[p].maybe_condition = NULL BY PairTree
<1> HIDE DEF t, M
<1>2. l \in Seq(M) /\ \A j \in 1..Len(l) : l[j] \in M
  <2>1. l \in Seq(M) BY DEF M
  <2> QED BY <2>1, Members
<1>3. Len(b) = Len(l) /\ Len(l) \in Nat /\ \A k \in 1..Len(l) : b[k] = t[l[k]]
  BY <1>2, TreesOfIs
<1> HIDE DEF b
<1>4. ASSUME NEW i \in 1..Len(b), b[i].maybe_condition = NoExp
      PROVE  i > 1 /\ b[i - 1].maybe_condition # NoExp
  <2>1. i \in 1..Len(l) /\ S[l[i]].maybe_condition = NULL BY <1>1, <1>2, <1>3, <1>4
  <2>2. i > 1 /\ S[l[i - 1]].maybe_condition # NULL BY <2>1 DEF ChainOf
  <2>3. i - 1 \in 1..Len(l) BY <1>3, <2>1, <2>2
  <2> QED BY <1>1, <1>2, <1>3, <2>2, <2>3
<1> QED BY <1>4, Zenon DEF PushIfAccepts, b, t

\* What push_if asserts of the chain l before it adds a pair with condition c
CanFollow(S, l, c) == c = NULL => l # <<>> /\ S[l[Len(l)]].maybe_condition # NULL

LEMMA PairAccepted ==
    ASSUME NEW S, NEW E, NEW L, Made(S, E, L), NEW l \in Seq(PairsOf(S)), ChainOf(S, l),
           NEW c, CanFollow(S, l, c), NEW x, x.maybe_condition = NoExp <=> c = NULL
    PROVE  PushIfAccepts(Append(TreesOf(l, StmtTreeOf(S, E, L)), x))
<1> DEFINE t == StmtTreeOf(S, E, L)
           b == TreesOf(l, t)
           d == Append(b, x)
           M == PairsOf(S)
<1>1. \A p \in M : t[p].maybe_condition = NoExp <=> S[p].maybe_condition = NULL BY PairTree
<1>2. PushIfAccepts(b) BY ChainAccepted
<1> HIDE DEF t, M
<1>3. l \in Seq(M) /\ Len(l) \in Nat /\ \A j \in 1..Len(l) : l[j] \in M
  <2>1. l \in Seq(M) BY DEF M
  <2> QED BY <2>1, Members
<1>4. IsSeq(b) /\ Len(b) = Len(l) /\ \A k \in 1..Len(l) : b[k] = t[l[k]]
  BY <1>3, TreesOfIs
<1> HIDE DEF b
<1>5. Len(d) = Len(l) + 1 /\ d[Len(l) + 1] = x /\ \A k \in 1..Len(l) : d[k] = b[k]
  BY <1>4, Appended
<1> HIDE DEF d
<1>6. ASSUME NEW i \in 1..Len(d), d[i].maybe_condition = NoExp
      PROVE  i > 1 /\ d[i - 1].maybe_condition # NoExp
  <2>1. CASE i \in 1..Len(l)
    <3>1. i > 1 /\ b[i - 1].maybe_condition # NoExp
      BY <1>2, <1>4, <1>5, <1>6, <2>1, Zenon DEF PushIfAccepts
    <3>2. i - 1 \in 1..Len(l) BY <1>3, <2>1, <3>1
    <3> QED BY <1>5, <3>1, <3>2
  <2>2. CASE i = Len(l) + 1
    <3>1. l # <<>> /\ S[l[Len(l)]].maybe_condition # NULL
      BY <1>5, <1>6, <2>2 DEF CanFollow
    <3>2. Len(l) \in 1..Len(l) /\ i > 1 /\ i - 1 = Len(l) BY <1>3, <2>2, <3>1
    <3>3. b[Len(l)].maybe_condition # NoExp BY <1>1, <1>3, <1>4, <3>1, <3>2
    <3> QED BY <1>5, <3>2, <3>3
  <2> QED BY <1>3, <1>5, <2>1, <2>2
<1> QED BY <1>6, Zenon DEF PushIfAccepts, d, b, t

LEMMA ChainGrown ==
    ASSUME NEW S, NEW S2, Grown(S, S2), NEW l \in Seq(1..Len(S)), ChainOf(S, l)
    PROVE  ChainOf(S2, l)
<1>1. \A j \in 1..Len(l) : l[j] \in 1..Len(S) BY Members
<1>2. \A j \in 1..Len(l) : j > 1 => j - 1 \in 1..Len(l)
  <2>1. Len(l) \in Nat OBVIOUS
  <2> QED BY <2>1
<1> QED BY <1>1, <1>2 DEF ChainOf, Grown

LEMMA ChainLonger ==
    ASSUME NEW S, NEW S2, Grown(S, S2), NEW l \in Seq(1..Len(S)), ChainOf(S, l),
           NEW q, CanFollow(S, l, S2[q].maybe_condition)
    PROVE  ChainOf(S2, Append(l, q))
<1> DEFINE d == Append(l, q)
<1>1. ChainOf(S2, l) BY ChainGrown
<1>2. Len(l) \in Nat /\ \A j \in 1..Len(l) : l[j] \in 1..Len(S) BY Members
<1>3. Len(d) = Len(l) + 1 /\ d[Len(l) + 1] = q /\ \A k \in 1..Len(l) : d[k] = l[k]
  OBVIOUS
<1> HIDE DEF d
<1>4. ASSUME NEW i \in 1..Len(d), S2[d[i]].maybe_condition = NULL
      PROVE  i > 1 /\ S2[d[i - 1]].maybe_condition # NULL
  <2>1. CASE i \in 1..Len(l)
    <3>1. i > 1 /\ S2[l[i - 1]].maybe_condition # NULL
      BY <1>1, <1>3, <1>4, <2>1 DEF ChainOf
    <3>2. i - 1 \in 1..Len(l) BY <1>2, <2>1, <3>1
    <3> QED BY <1>3, <3>1, <3>2
  <2>2. CASE i = Len(l) + 1
    <3>1. l # <<>> /\ S[l[Len(l)]].maybe_condition # NULL
      BY <1>3, <1>4, <2>2 DEF CanFollow
    <3>2. Len(l) \in 1..Len(l) /\ i > 1 /\ i - 1 = Len(l) BY <1>2, <2>2, <3>1
    <3>3. S2[l[Len(l)]] = S[l[Len(l)]] BY <1>2, <3>2 DEF Grown
    <3> QED BY <1>3, <3>1, <3>2, <3>3
  <2> QED BY <1>2, <1>3, <2>1, <2>2
<1> QED BY <1>4 DEF ChainOf, d

\* What a call of push_if that returns has seen and done
Pushes(c, s) ==
    /\ statements' = Append(statements, PairNode(c, s))
    /\ ip_ifs' = pushed(ip_ifs, Len(statements) + 1)
    /\ UNCHANGED <<expressions, ptr_lists, ip_blocks, fault>>
    /\ s # NULL /\ ip_ifs.count # 0
    /\ CanFollow(statements, ip_ifs.slots[ip_ifs.count], c)
    /\ Len(ip_ifs.slots[ip_ifs.count]) + 1 <= MaxList

LEMMA PushIfDoes ==
    ASSUME NEW c \in MaybeExp, NEW s \in MaybeStmt, PushIf(c, s)
    PROVE  Stopped \/ Pushes(c, s)
<1> DEFINE ip == peek(ip_ifs)
           n  == PairNode(c, s)
           no_else_first == <<~ (c = NULL /\ ip = <<>>), "!else_first">>
           no_multiple   == <<~ multiple_else(c, ip), "!multiple_else">>
           step == /\ statements' = Append(statements, n)
                   /\ ip_ifs' = pushed(ip_ifs, Len(statements) + 1)
                   /\ UNCHANGED <<expressions, ptr_lists, ip_blocks>>
           an_s  == given(s)
           open  == unclosed(ip_ifs)
           node_room == room(statements, 1, MaxStatements)
           slot_room == room(ip, 1, MaxList)
           a == <<an_s, open, no_else_first, no_multiple, node_room, slot_room>>
<1>1. Call(a, step) BY Zenon DEF PushIf
<1>2. /\ an_s[2] \in Faults /\ open[2] \in Faults /\ no_else_first[2] \in Faults
      /\ no_multiple[2] \in Faults /\ node_room[2] \in Faults /\ slot_room[2] \in Faults
  BY Reasons DEF Faults
<1>3. /\ an_s[1] => s # NULL
      /\ open[1] => ip_ifs.count # 0 /\ ip = ip_ifs.slots[ip_ifs.count]
      /\ no_else_first[1] /\ no_multiple[1] => CanFollow(statements, ip, c)
      /\ slot_room[1] => Len(ip) + 1 <= MaxList
  BY DEF given, unclosed, room, is_empty, peek, multiple_else, CanFollow, Last
<1> HIDE DEF an_s, open, no_else_first, no_multiple, node_room, slot_room, step, n, ip
<1>4. \/ Stopped
      \/ /\ step /\ fault' = fault /\ an_s[1] /\ open[1] /\ no_else_first[1]
         /\ no_multiple[1] /\ slot_room[1]
  <2>1. Asserts(a) BY <1>2 DEF Asserts
  <2>2. (\A i \in 1..Len(a) : a[i][1]) => a[1][1] /\ a[2][1] /\ a[3][1] /\ a[4][1] /\ a[6][1]
    OBVIOUS
  <2>3. /\ a[1] = an_s /\ a[2] = open /\ a[3] = no_else_first /\ a[4] = no_multiple
        /\ a[6] = slot_room
    OBVIOUS
  <2> HIDE DEF a
  <2>4. Stopped \/ (step /\ fault' = fault /\ \A i \in 1..Len(a) : a[i][1])
    BY <1>1, <2>1, CallCases
  <2> QED BY <2>2, <2>3, <2>4
<1> QED BY <1>3, <1>4 DEF Pushes, step, n

LEMMA PushIfSimulates ==
    ASSUME IInv, MadeNow, MadeNow', Chained(statements, ip_ifs),
           NEW c \in MaybeExp, NEW s \in MaybeStmt, PushIf(c, s)
    PROVE  Simulated
<1>1. fault = NoFault BY Zenon, CallRuns DEF PushIf
<1>2. CASE Pushes(c, s)
  <2> DEFINE n  == PairNode(c, s)
             ip == ip_ifs.slots[ip_ifs.count]
             g  == ExpTreeOf(expressions)
             x  == if_pair(g[c], Tree[s])
  <2>1. Good(statements, expressions, ptr_lists, ip_blocks, ip_ifs) BY DEF IInv, TypedIn
  <2>2. n.kind = "_stmt_raw_if" /\ n.maybe_condition = c /\ n.statement = s
    BY DEF PairNode
  <2>3. /\ c \in MaybeOf(expressions) /\ s \in StmtsOf(statements)
        /\ OlderStmt(statements, s, Len(statements) + 1)
    BY <1>2, Clients DEF Pushes, MaybeStmt
  <2>4. /\ statements' = Append(statements, n) /\ ip_ifs' = pushed(ip_ifs, Len(statements) + 1)
        /\ expressions' = expressions /\ ptr_lists' = ptr_lists /\ ip_blocks' = ip_blocks
        /\ fault' = fault /\ ip_ifs.count # 0 /\ CanFollow(statements, ip, c)
        /\ Len(ip) + 1 <= MaxList
        /\ Tree' = StmtTreeOf(Append(statements, n), expressions, ptr_lists)
    BY <1>2, Zenon DEF Pushes, Tree
  <2> HIDE DEF n
  <2>5. StmtIn(statements, expressions, ptr_lists, n, Len(statements) + 1)
    BY <2>2, <2>3 DEF StmtIn, StmtKinds
  <2>6. StmtValue(expressions, ptr_lists, n, g, Tree) = x
    <3> HIDE DEF g
    <3> QED BY <2>2 DEF StmtValue, if_pair
  <2>7. /\ MadeSeq(statements', Tree') = MadeSeq(statements, Tree)
        /\ OpenOf(ip_blocks', Tree') = OpenOf(ip_blocks, Tree)
        /\ OpenOf(ip_ifs', Tree')
              = Front(OpenOf(ip_ifs, Tree)) \o <<Append(Last(OpenOf(ip_ifs, Tree)), x)>>
    <3> DEFINE u == StmtTreeOf(Append(statements, n), expressions, ptr_lists)
    <3>1. n.kind = "_stmt_raw_if" /\ Len(ip_ifs.slots[ip_ifs.count]) + 1 <= MaxList
      BY <2>2, <2>4
    <3> DEFINE t == StmtTreeOf(statements, expressions, ptr_lists)
    <3>2. /\ MadeSeq(Append(statements, n), u) = MadeSeq(statements, t)
          /\ OpenOf(ip_blocks, u) = OpenOf(ip_blocks, t)
          /\ OpenOf(pushed(ip_ifs, Len(statements) + 1), u)
                = Front(OpenOf(ip_ifs, t)) \o
                     <<Append(Last(OpenOf(ip_ifs, t)),
                              StmtValue(expressions, ptr_lists, n, ExpTreeOf(expressions), t))>>
      <4>1. ip_ifs.count # 0 BY <2>4
      <4> HIDE DEF x, ip
      <4> QED BY <2>1, <4>1, <2>5, <3>1, PairStep
    <3>4. t = Tree BY DEF Tree
    <3> HIDE DEF x, u, t
    <3>3. u = Tree' BY <2>4 DEF u
    <3> QED BY <2>4, <2>6, <3>2, <3>3, <3>4, Zenon
  <2>8. /\ Stack(ip_ifs, PairsOf(statements)) /\ ip \in Seq(PairsOf(statements))
        /\ ChainOf(statements, ip)
    <3>1. Stack(ip_ifs, PairsOf(statements)) BY <2>1, GoodFacts
    <3>2. ip_ifs.count \in 1..ip_ifs.count BY <2>4, <3>1, StackFields
    <3> QED BY <3>1, <3>2 DEF Stack, Chained
  <2>9. Last(OpenOf(ip_ifs, Tree)) = TreesOf(ip, Tree) /\ OpenOf(ip_ifs, Tree) # <<>>
    BY <2>4, <2>8, OpenClosed
  <2>10. g[c] \in T!MaybeExp /\ Tree[s] \in T!AStmt /\ (g[c] = NoExp <=> c = NULL)
    BY <2>3, GivenTrees
  <2>11. x.maybe_condition = NoExp <=> c = NULL
    <3> HIDE DEF g
    <3> QED BY <2>10 DEF if_pair
  <2> HIDE DEF x, ip
  <2>12. PushIfAccepts(Append(TreesOf(ip, Tree), x))
    BY <2>4, <2>8, <2>11, PairAccepted DEF MadeNow, Tree
  <2>13. /\ OpenTrees(ip_ifs)'
              = Front(OpenTrees(ip_ifs)) \o <<Append(Last(OpenTrees(ip_ifs)), x)>>
         /\ OpenTrees(ip_ifs) # <<>> /\ PushIfAccepts(Append(Last(OpenTrees(ip_ifs)), x))
         /\ UNCHANGED <<MadeExps, MadeStmts, OpenTrees(ip_blocks)>>
    BY <2>4, <2>7, <2>9, <2>12, MappedBoth
  <2>14. T!PushIfAccepts(Append(Last(OpenTrees(ip_ifs)), x))
    BY <2>13, SameWords, Zenon DEF T!PushIfAccepts, PushIfAccepts
  <2>15. x = T!if_pair(g[c], Tree[s]) BY SameWords DEF x
  <2> HIDE DEF g
  <2>16. T!PushIf BY <2>4, <2>10, <2>13, <2>14, <2>15, SameWords, Zenon DEF T!PushIf
  <2> QED BY <1>1, <2>16 DEF Simulated, T!Next
<1> QED BY <1>1, <1>2, PushIfDoes, StopSimulates

-----------------------------------------------------------------------------
\* A statement or an expression with tree v was made.
StmtMade(v) == /\ fault = NoFault /\ MadeStmts' = Append(MadeStmts, v)
               /\ UNCHANGED <<MadeExps, OpenTrees(ip_blocks), OpenTrees(ip_ifs), fault>>
ExpMade(v)  == /\ fault = NoFault /\ MadeExps' = Append(MadeExps, v)
               /\ UNCHANGED <<MadeStmts, OpenTrees(ip_blocks), OpenTrees(ip_ifs), fault>>

LEMMA NewStmtMakes ==
    ASSUME IInv, MadeNow, MadeNow', NEW STATE a, IsSeq(a), Asserts(a),
           NEW STATE n, Passed(a) => SimpleStmt(n), NewStmt(a, n)
    PROVE  \/ Simulated
           \/ /\ Passed(a)
              /\ StmtMade(StmtValue(expressions, ptr_lists, n, ExpTreeOf(expressions), Tree))
<1> DEFINE fits == room(statements, 1, MaxStatements)
           b    == Append(a, fits)
           step == /\ statements' = Append(statements, n)
                   /\ UNCHANGED <<expressions, ptr_lists, ip_blocks, ip_ifs>>
           v    == StmtValue(expressions, ptr_lists, n, ExpTreeOf(expressions), Tree)
<1>1. Call(b, step) BY Zenon DEF NewStmt
<1>2. fits[2] \in Faults BY Reasons
<1> HIDE DEF step, fits, v
<1>3. Asserts(b) /\ ((\A i \in 1..Len(b) : b[i][1]) => Passed(a) /\ fits[1]) BY <1>2, OneMore
<1> HIDE DEF b
<1>4. fault = NoFault BY <1>1, CallRuns
<1>5. Stopped \/ (step /\ fault' = fault /\ \A i \in 1..Len(b) : b[i][1])
  BY <1>1, <1>3, CallCases
<1>6. CASE step /\ fault' = fault /\ Passed(a)
  <2>1. Good(statements, expressions, ptr_lists, ip_blocks, ip_ifs) BY DEF IInv, TypedIn
  <2>2. /\ statements' = Append(statements, n) /\ expressions' = expressions
        /\ ip_blocks' = ip_blocks /\ ip_ifs' = ip_ifs
        /\ Tree' = StmtTreeOf(Append(statements, n), expressions, ptr_lists)
    BY <1>6, Zenon DEF step, Tree
  <2>3. /\ n.kind \notin {"_stmt_raw_if", "stmt_block", "stmt_ifs"}
        /\ StmtIn(statements, expressions, ptr_lists, n, Len(statements) + 1)
    BY <1>6 DEF SimpleStmt
  <2> DEFINE t == StmtTreeOf(statements, expressions, ptr_lists)
             u == StmtTreeOf(Append(statements, n), expressions, ptr_lists)
             w == StmtValue(expressions, ptr_lists, n, ExpTreeOf(expressions), t)
  <2>4. /\ MadeSeq(Append(statements, n), u) = Append(MadeSeq(statements, t), w)
        /\ OpenOf(ip_blocks, u) = OpenOf(ip_blocks, t) /\ OpenOf(ip_ifs, u) = OpenOf(ip_ifs, t)
    BY <2>1, <2>3, StmtStep
  <2>5. w = v /\ t = Tree /\ u = Tree' BY <2>2, Zenon DEF Tree, v
  <2> HIDE DEF t, u, w
  <2>6. /\ MadeStmts' = Append(MadeStmts, v)
        /\ UNCHANGED <<MadeExps, OpenTrees(ip_blocks), OpenTrees(ip_ifs)>>
    BY <2>2, <2>4, <2>5, MappedBoth
  <2> QED BY <1>4, <1>6, <2>6 DEF StmtMade, v
<1> QED BY <1>3, <1>4, <1>5, <1>6, StopSimulates

LEMMA NewExpMakes ==
    ASSUME IInv, MadeNow, MadeNow', NEW STATE a, IsSeq(a), Asserts(a),
           NEW STATE n, Passed(a) => ExpIn(n, Len(expressions) + 1), NewExp(a, n)
    PROVE  \/ Simulated
           \/ Passed(a) /\ ExpMade(ExpValue(n, ExpTreeOf(expressions)))
<1> DEFINE fits == room(expressions, 1, MaxExpressions)
           b    == Append(a, fits)
           step == /\ expressions' = Append(expressions, n)
                   /\ UNCHANGED <<statements, ptr_lists, ip_blocks, ip_ifs>>
           v    == ExpValue(n, ExpTreeOf(expressions))
<1>1. Call(b, step) BY Zenon DEF NewExp
<1>2. fits[2] \in Faults BY Reasons
<1> HIDE DEF step, fits, v
<1>3. Asserts(b) /\ ((\A i \in 1..Len(b) : b[i][1]) => Passed(a) /\ fits[1]) BY <1>2, OneMore
<1> HIDE DEF b
<1>4. fault = NoFault BY <1>1, CallRuns
<1>5. Stopped \/ (step /\ fault' = fault /\ \A i \in 1..Len(b) : b[i][1])
  BY <1>1, <1>3, CallCases
<1>6. CASE step /\ fault' = fault /\ Passed(a)
  <2>1. Good(statements, expressions, ptr_lists, ip_blocks, ip_ifs) BY DEF IInv, TypedIn
  <2>2. /\ statements' = statements /\ expressions' = Append(expressions, n)
        /\ ip_blocks' = ip_blocks /\ ip_ifs' = ip_ifs
        /\ Tree' = StmtTreeOf(statements, Append(expressions, n), ptr_lists)
    BY <1>6, Zenon DEF step, Tree
  <2>3. ExpIn(n, Len(expressions) + 1) BY <1>6
  <2> DEFINE t == StmtTreeOf(statements, expressions, ptr_lists)
             u == StmtTreeOf(statements, Append(expressions, n), ptr_lists)
             w == ExpValue(n, ExpTreeOf(expressions))
  <2>4. /\ ExpsOf(Append(expressions, n)) = Append(ExpsOf(expressions), w)
        /\ MadeSeq(statements, u) = MadeSeq(statements, t)
        /\ OpenOf(ip_blocks, u) = OpenOf(ip_blocks, t) /\ OpenOf(ip_ifs, u) = OpenOf(ip_ifs, t)
    BY <2>1, <2>3, ExpStep
  <2>5. w = v /\ t = Tree /\ u = Tree' BY <2>2, Zenon DEF Tree, v
  <2> HIDE DEF t, u, w
  <2>6. /\ MadeExps' = Append(MadeExps, v)
        /\ UNCHANGED <<MadeStmts, OpenTrees(ip_blocks), OpenTrees(ip_ifs)>>
    BY <2>2, <2>4, <2>5, MappedBoth
  <2> QED BY <1>4, <1>6, <2>6 DEF ExpMade, v
<1> QED BY <1>3, <1>4, <1>5, <1>6, StopSimulates

LEMMA StmtSimulated ==
    ASSUME NEW v, StmtMade(v),
           \/ \E l, r \in T!MaybeExp : v = T!assign(l, r)
           \/ \E n \in T!NamesMade, e \in T!MaybeExp : v = T!local_decl(n, e)
           \/ v = T!nop_stmt
           \/ \E e \in T!MaybeExp : v = T!return_stmt(e)
           \/ \E s \in T!AStmt : v = T!DBG_stmt(s)
    PROVE  Simulated
<1>1. T!Stmt BY Zenon DEF T!Stmt, StmtMade
<1> QED BY <1>1 DEF Simulated, T!Next, StmtMade

LEMMA ExpSimulated ==
    ASSUME NEW v, ExpMade(v),
           \/ \E x \in Literals : v = T!literal_exp(x)
           \/ \E n \in Names : v = T!ident(n)
           \/ \E l, r \in T!AnExp, o \in T!op : v = T!binary_exp(l, o, r)
           \/ \E e \in T!AnExp : v = T!DBG_exp(e)
    PROVE  Simulated
<1>1. T!Exp BY Zenon DEF T!Exp, ExpMade
<1> QED BY <1>1 DEF Simulated, T!Next, ExpMade

\* An identifier has a name and nothing else.
Named(E) == \A e \in IdentsOf(E) : E[e] = ident(E[e].name)

LEMMA NameMade ==
    ASSUME MadeNow, Named(expressions), NEW m \in IdentsOf(expressions)
    PROVE  expressions[m].name \in T!NamesMade
<1> DEFINE n == expressions[m]
<1>1. m \in 1..Len(expressions) /\ n.kind = "exp_ident" /\ n = ident(n.name)
  BY DEF IdentsOf, Named
<1>2. ExpsMade(expressions) BY ExpressionsMade DEF MadeNow
<1>3. n.name \in Names BY <1>1, <1>2 DEF ExpsMade, ExpIn
<1>4. ExpTreeOf(expressions)[m] = ExpValue(n, ExpTreeOf(expressions)) BY <1>1, <1>2, ExpTreeOfIs
<1> HIDE DEF n
<1>5. \A f : ExpValue(n, f) = n BY <1>1 DEF ExpValue
<1>6. n \in T!AnExp BY <1>1, <1>4, <1>5, GivenTrees
<1> QED BY <1>1, <1>3, <1>6, SameWords, Zenon DEF T!NamesMade, n

LEMMA StatementsSimulate ==
    ASSUME IInv, MadeNow, MadeNow', Named(expressions)
    PROVE  /\ \A l, r \in MaybeExp : Assign(l, r) => Simulated
           /\ \A t, m \in MaybeIdent, e \in MaybeExp : LocalDecl(t, m, e) => Simulated
           /\ Nop => Simulated
           /\ \A e \in MaybeExp : ReturnStmt(e) => Simulated
           /\ \A s \in MaybeStmt : DBGStmt(s) => Simulated
<1> DEFINE g == ExpTreeOf(expressions)
           value(n) == StmtValue(expressions, ptr_lists, n, g, Tree)
<1>0. \A e \in MaybeExp : g[e] \in T!MaybeExp BY Clients, GivenTrees
<1>1. ASSUME NEW l \in MaybeExp, NEW r \in MaybeExp, Assign(l, r) PROVE Simulated
  <2> DEFINE n == assign(l, r)
  <2>1. n.kind = "stmt_assign" /\ n.left = l /\ n.right = r BY DEF assign
  <2>2. NewStmt(<<>>, n) BY <1>1 DEF Assign
  <2> HIDE DEF n
  <2>3. SimpleStmt(n) BY <2>1, Clients DEF SimpleStmt, StmtIn, StmtKinds
  <2>4. value(n) = assign(g[l], g[r])
    <3> HIDE DEF g
    <3> QED BY <2>1 DEF StmtValue
  <2>5. Simulated \/ StmtMade(value(n)) BY <2>2, <2>3, Tuple0, NewStmtMakes
  <2>6. g[l] \in T!MaybeExp /\ g[r] \in T!MaybeExp /\ value(n) = T!assign(g[l], g[r])
    BY <1>0, <2>4, SameWords
  <2> HIDE DEF value, g
  <2> QED BY <2>5, <2>6, StmtSimulated
<1>2. ASSUME NEW t \in MaybeIdent, NEW m \in MaybeIdent, NEW e \in MaybeExp, LocalDecl(t, m, e)
      PROVE  Simulated
  <2> DEFINE n == local_decl(m, e)
             x == given(t)
             y == given(m)
             name == expressions[m].name
  <2>1. n.kind = "stmt_local_decl" /\ n.name = m /\ n.maybe_expression = e BY DEF local_decl
  <2>2. NewStmt(<<x, y>>, n) BY <1>2 DEF LocalDecl
  <2>3. x[2] \in Faults /\ y[2] \in Faults /\ (y[1] => m # NULL) BY Reasons DEF given
  <2> HIDE DEF n, x, y
  <2>4. m # NULL => SimpleStmt(n) BY <2>1, Clients DEF SimpleStmt, StmtIn, StmtKinds
  <2>5. value(n) = local_decl(name, g[e])
    <3> HIDE DEF g
    <3> QED BY <2>1 DEF StmtValue
  <2>6. Simulated \/ (m # NULL /\ StmtMade(value(n)))
    BY <2>2, <2>3, <2>4, Tuple2, NewStmtMakes
  <2>7. m # NULL => name \in T!NamesMade BY Clients, NameMade
  <2>8. g[e] \in T!MaybeExp /\ value(n) = T!local_decl(name, g[e]) BY <1>0, <2>5, SameWords
  <2> HIDE DEF value, g, name
  <2> QED BY <2>6, <2>7, <2>8, StmtSimulated
<1>3. ASSUME Nop PROVE Simulated
  <2> DEFINE n == nop_stmt
  <2>1. n.kind = "stmt_nop" BY DEF nop_stmt
  <2>2. NewStmt(<<>>, n) BY <1>3 DEF Nop
  <2> HIDE DEF n
  <2>3. SimpleStmt(n) BY <2>1 DEF SimpleStmt, StmtIn, StmtKinds
  <2>4. value(n) = n
    <3> HIDE DEF g
    <3> QED BY <2>1 DEF StmtValue
  <2>5. Simulated \/ StmtMade(value(n)) BY <2>2, <2>3, Tuple0, NewStmtMakes
  <2>6. value(n) = T!nop_stmt BY <2>4, SameWords DEF n
  <2> HIDE DEF value
  <2> QED BY <2>5, <2>6, StmtSimulated
<1>4. ASSUME NEW e \in MaybeExp, ReturnStmt(e) PROVE Simulated
  <2> DEFINE n == return_stmt(e)
  <2>1. n.kind = "stmt_return" /\ n.maybe_expression = e BY DEF return_stmt
  <2>2. NewStmt(<<>>, n) BY <1>4 DEF ReturnStmt
  <2> HIDE DEF n
  <2>3. SimpleStmt(n) BY <2>1, Clients DEF SimpleStmt, StmtIn, StmtKinds
  <2>4. value(n) = return_stmt(g[e])
    <3> HIDE DEF g
    <3> QED BY <2>1 DEF StmtValue
  <2>5. Simulated \/ StmtMade(value(n)) BY <2>2, <2>3, Tuple0, NewStmtMakes
  <2>6. g[e] \in T!MaybeExp /\ value(n) = T!return_stmt(g[e]) BY <1>0, <2>4, SameWords
  <2> HIDE DEF value, g
  <2> QED BY <2>5, <2>6, StmtSimulated
<1>5. ASSUME NEW s \in MaybeStmt, DBGStmt(s) PROVE Simulated
  <2> DEFINE n == DBG_stmt(s)
             x == given(s)
  <2>1. n.kind = "UNUSED" /\ n.statement = s BY DEF DBG_stmt
  <2>2. NewStmt(<<x>>, n) BY <1>5 DEF DBGStmt
  <2>3. x[2] \in Faults /\ (x[1] => s # NULL) BY Reasons DEF given
  <2> HIDE DEF n, x
  <2>4. s # NULL => SimpleStmt(n) BY <2>1, Clients DEF SimpleStmt, StmtIn, StmtKinds
  <2>5. value(n) = DBG_stmt(Tree[s])
    <3> HIDE DEF g
    <3> QED BY <2>1 DEF StmtValue
  <2>6. Simulated \/ (s # NULL /\ StmtMade(value(n)))
    BY <2>2, <2>3, <2>4, Tuple1, NewStmtMakes
  <2>7. s # NULL => Tree[s] \in T!AStmt BY Clients, GivenTrees DEF MaybeStmt
  <2>8. value(n) = T!DBG_stmt(Tree[s]) BY <2>5, SameWords
  <2> HIDE DEF value
  <2> QED BY <2>6, <2>7, <2>8, StmtSimulated
<1> QED BY <1>1, <1>2, <1>3, <1>4, <1>5

LEMMA ExpressionsSimulate ==
    ASSUME IInv, MadeNow, MadeNow'
    PROVE  /\ \A l, r \in MaybeExp, o \in op \cup {"UNUSED"} : BinaryExp(l, o, r) => Simulated
           /\ \A name \in Names : Ident(name) => Simulated
           /\ \A v \in Literals : Literal(v) => Simulated
           /\ \A e \in MaybeExp : DBGExp(e) => Simulated
<1> DEFINE g == ExpTreeOf(expressions)
           value(n) == ExpValue(n, g)
<1>0. \A e \in MaybeExp : e # NULL => g[e] \in T!AnExp
  BY GivenTrees DEF MaybeExp, Exps
<1>1. ASSUME NEW l \in MaybeExp, NEW r \in MaybeExp, NEW o \in op \cup {"UNUSED"},
             BinaryExp(l, o, r)
      PROVE  Simulated
  <2> DEFINE n == binary_exp(l, o, r)
             x == given(l)
             y == given(r)
             z == <<o # "UNUSED", "op != UNUSED">>
  <2>1. n.kind = "exp_binary" /\ n.left = l /\ n.right = r /\ n.op = o BY DEF binary_exp
  <2>2. NewExp(<<x, y, z>>, n) BY <1>1 DEF BinaryExp
  <2>3. /\ x[2] \in Faults /\ y[2] \in Faults /\ z[2] \in Faults
        /\ (x[1] => l # NULL) /\ (y[1] => r # NULL) /\ (z[1] => o # "UNUSED")
    BY Reasons DEF given, Faults
  <2> HIDE DEF n, x, y, z
  <2>4. l # NULL /\ r # NULL /\ o # "UNUSED" => ExpIn(n, Len(expressions) + 1)
    BY <2>1, Clients DEF ExpIn, ExpKinds
  <2>5. value(n) = binary_exp(g[l], o, g[r])
    <3> HIDE DEF g
    <3> QED BY <2>1 DEF ExpValue
  <2>6. Simulated \/ (l # NULL /\ r # NULL /\ o # "UNUSED" /\ ExpMade(value(n)))
    BY <2>2, <2>3, <2>4, Tuple3, NewExpMakes
  <2>7. value(n) = T!binary_exp(g[l], o, g[r]) /\ T!op = op BY <2>5, SameWords
  <2> HIDE DEF value, g
  <2> QED BY <1>0, <2>6, <2>7, ExpSimulated
<1>2. ASSUME NEW name \in Names, Ident(name) PROVE Simulated
  <2> DEFINE n == ident(name)
  <2>1. n.kind = "exp_ident" /\ n.name = name BY DEF ident
  <2>2. NewExp(<<>>, n) BY <1>2 DEF Ident
  <2> HIDE DEF n
  <2>3. ExpIn(n, Len(expressions) + 1) BY <2>1 DEF ExpIn, ExpKinds
  <2>4. value(n) = n
    <3> HIDE DEF g
    <3> QED BY <2>1 DEF ExpValue
  <2>5. Simulated \/ ExpMade(value(n)) BY <2>2, <2>3, Tuple0, NewExpMakes
  <2>6. value(n) = T!ident(name) BY <2>4, SameWords DEF n
  <2> HIDE DEF value
  <2> QED BY <2>5, <2>6, ExpSimulated
<1>3. ASSUME NEW v \in Literals, Literal(v) PROVE Simulated
  <2> DEFINE n == literal_exp(v)
  <2>1. n.kind = "exp_literal" /\ n.val_u64 = v BY DEF literal_exp
  <2>2. NewExp(<<>>, n) BY <1>3 DEF Literal
  <2> HIDE DEF n
  <2>3. ExpIn(n, Len(expressions) + 1) BY <2>1 DEF ExpIn, ExpKinds
  <2>4. value(n) = n
    <3> HIDE DEF g
    <3> QED BY <2>1 DEF ExpValue
  <2>5. Simulated \/ ExpMade(value(n)) BY <2>2, <2>3, Tuple0, NewExpMakes
  <2>6. value(n) = T!literal_exp(v) BY <2>4, SameWords DEF n
  <2> HIDE DEF value
  <2> QED BY <2>5, <2>6, ExpSimulated
<1>4. ASSUME NEW e \in MaybeExp, DBGExp(e) PROVE Simulated
  <2> DEFINE n == DBG_exp(e)
             x == given(e)
  <2>1. n.kind = "UNUSED" /\ n.expression = e BY DEF DBG_exp
  <2>2. NewExp(<<x>>, n) BY <1>4 DEF DBGExp
  <2>3. x[2] \in Faults /\ (x[1] => e # NULL) BY Reasons DEF given
  <2> HIDE DEF n, x
  <2>4. e # NULL => ExpIn(n, Len(expressions) + 1) BY <2>1, Clients DEF ExpIn, ExpKinds
  <2>5. value(n) = DBG_exp(g[e])
    <3> HIDE DEF g
    <3> QED BY <2>1 DEF ExpValue
  <2>6. Simulated \/ (e # NULL /\ ExpMade(value(n)))
    BY <2>2, <2>3, <2>4, Tuple1, NewExpMakes
  <2>7. value(n) = T!DBG_exp(g[e]) BY <2>5, SameWords
  <2> HIDE DEF value, g
  <2> QED BY <1>0, <2>6, <2>7, ExpSimulated
<1> QED BY <1>1, <1>2, <1>3, <1>4

-----------------------------------------------------------------------------
(***************************************************************************)
(* Two more facts the simulation rests on, and that every step keeps.      *)
(***************************************************************************)
Chains == Chained(statements, ip_ifs)
IdentsNamed == Named(expressions)

LEMMA CallEither ==
    ASSUME NEW STATE a, NEW ACTION step, Call(a, step)
    PROVE  step \/ UNCHANGED <<statements, expressions, ptr_lists, ip_blocks, ip_ifs>>
BY DEF Call

LEMMA SlotPairs ==
    ASSUME IInv
    PROVE  /\ IsSeq(statements) /\ IsSeq(expressions)
           /\ Stack(ip_ifs, PairsOf(statements))
           /\ \A i \in 1..ip_ifs.count : ip_ifs.slots[i] \in Seq(1..Len(statements))
<1>1. /\ IsSeq(statements) /\ IsSeq(expressions) /\ Stack(ip_ifs, PairsOf(statements))
      /\ PairsOf(statements) \subseteq 1..Len(statements)
  BY GoodFacts DEF IInv, TypedIn
<1> QED BY <1>1, Wider DEF Stack

LEMMA NamedAppended ==
    ASSUME NEW E, IsSeq(E), Named(E), NEW n, n.kind = "exp_ident" => n = ident(n.name)
    PROVE  Named(Append(E, n))
<1> DEFINE E2 == Append(E, n)
<1>1. /\ Len(E2) = Len(E) + 1 /\ E2[Len(E) + 1] = n /\ Len(E) \in Nat
      /\ \A i \in 1..Len(E) : E2[i] = E[i]
  BY Appended DEF IsSeq
<1> HIDE DEF E2
<1>2. ASSUME NEW e \in IdentsOf(E2) PROVE E2[e] = ident(E2[e].name)
  <2>1. e \in 1..Len(E) \/ e = Len(E) + 1 BY <1>1 DEF IdentsOf
  <2>2. CASE e \in 1..Len(E)
    <3>1. e \in IdentsOf(E) BY <1>1, <2>2 DEF IdentsOf
    <3> QED BY <1>1, <2>2, <3>1 DEF Named
  <2>3. CASE e = Len(E) + 1 BY <1>1, <2>3 DEF IdentsOf
  <2> QED BY <2>1, <2>2, <2>3
<1> QED BY <1>2 DEF Named, E2

LEMMA ChainsAppended ==
    ASSUME IInv, Chains, NEW n
    PROVE  Chained(Append(statements, n), ip_ifs)
<1>1. Grown(statements, Append(statements, n)) BY SlotPairs, GrownAppend
<1> QED BY <1>1, SlotPairs, ChainGrown DEF Chains, Chained

\* A list that starts, grows or ends is the innermost one.
LEMMA IfsKeepChains ==
    ASSUME IInv, Chains
    PROVE  /\ StartIfs => Chains'
           /\ \A s \in MaybeStmt, c \in MaybeExp : PushIf(c, s) => Chains'
           /\ EndIfs => Chains'
<1> DEFINE S == statements
           I == ip_ifs
<1>0. Stack(I, PairsOf(S)) BY SlotPairs
<1>1. ASSUME StartIfs PROVE Chains'
  <2> DEFINE step == /\ ip_ifs' = opened(ip_ifs)
                     /\ UNCHANGED <<statements, expressions, ptr_lists, ip_blocks>>
  <2>1. Call(<<unopened(ip_ifs)>>, step) BY <1>1, Zenon DEF StartIfs
  <2> HIDE DEF step
  <2>2. Stopped \/ (step /\ unopened(ip_ifs)[1]) BY <2>1, Reasons, Call1
  <2>3. CASE Stopped BY <2>3 DEF Stopped, Chains, Chained, ChainOf
  <2>4. CASE step /\ unopened(ip_ifs)[1]
    <3>1. I.count < MaxOpen /\ ip_ifs' = opened(I) /\ statements' = S
      BY <2>4 DEF step, unopened
    <3>2. /\ ip_ifs'.slots[ip_ifs'.count] = <<>>
          /\ \A i \in 1..I.count : ip_ifs'.slots[i] = I.slots[i]
          /\ \A i \in 1..ip_ifs'.count : i \in 1..I.count \/ i = ip_ifs'.count
      <4> DEFINE t == opened(I)
                 M == PairsOf(S)
      <4>0. t = opened(I) /\ I.count < MaxOpen /\ Stack(I, M) BY <1>0, <3>1
      <4> HIDE DEF I, t, M
      <4>1. /\ Stack(t, M) /\ t.count = I.count + 1 /\ t.slots[t.count] = <<>>
            /\ \A i \in 1..I.count : t.slots[i] = I.slots[i]
            /\ \A i \in 1..t.count : i \in 1..I.count \/ i = t.count
        BY <4>0, Opened
      <4>2. ip_ifs' = t BY <3>1, <4>0, Zenon
      <4> QED BY <4>1, <4>2, Zenon
    <3>3. ChainOf(S, <<>>) BY DEF ChainOf
    <3>4. Chained(S, ip_ifs') BY <3>2, <3>3, Zenon DEF Chains, Chained
    <3> QED BY <3>1, <3>4 DEF Chains
  <2> QED BY <2>2, <2>3, <2>4
<1>2. ASSUME NEW s \in MaybeStmt, NEW c \in MaybeExp, PushIf(c, s) PROVE Chains'
  <2>1. CASE Stopped BY <2>1 DEF Stopped, Chains, Chained, ChainOf
  <2>2. CASE Pushes(c, s)
    <3> DEFINE n  == PairNode(c, s)
               S2 == Append(S, n)
               q  == Len(S) + 1
               ip == I.slots[I.count]
    <3>1. /\ statements' = S2 /\ ip_ifs' = pushed(I, q) /\ I.count # 0
          /\ CanFollow(S, ip, c) /\ Len(ip) + 1 <= MaxList
      BY <2>2 DEF Pushes
    <3>2. /\ S2[q] = n /\ Grown(S, S2) /\ n.kind = "_stmt_raw_if" /\ n.maybe_condition = c
          /\ IsSeq(S) /\ Len(S) \in Nat
      <4>1. IsSeq(S) /\ Len(S) \in Nat BY SlotPairs DEF IsSeq
      <4> QED BY <4>1, Appended, GrownAppend DEF PairNode
    <3> HIDE DEF n
    <3>3. PairsOf(S2) = PairsOf(S) \cup {q} /\ PairsOf(S2) \subseteq Nat
      <4>1. PairsOf(S2) = PairsOf(S) \cup {q} BY <3>2, StmtsAppended
      <4>2. PairsOf(S) \subseteq Nat /\ q \in Nat BY <3>2 DEF PairsOf
      <4> QED BY <4>1, <4>2
    <3> HIDE DEF S2, q
    <3>4. Stack(I, PairsOf(S2)) /\ q \in PairsOf(S2)
      <4>1. PairsOf(S) \subseteq PairsOf(S2) /\ q \in PairsOf(S2) BY <3>3
      <4> QED BY <1>0, <4>1, StackWider
    <3>5. /\ ip_ifs'.count = I.count /\ ip_ifs'.slots[I.count] = Append(ip, q)
          /\ \A i \in 1..I.count : i # I.count => ip_ifs'.slots[i] = I.slots[i]
      BY <3>1, <3>3, <3>4, Pushed
    <3>6. \A i \in 1..I.count : I.slots[i] \in Seq(1..Len(S)) /\ ChainOf(S, I.slots[i])
      BY SlotPairs DEF Chains, Chained
    <3>7. \A i \in 1..I.count : ChainOf(S2, I.slots[i]) BY <3>2, <3>6, ChainGrown
    <3>8. ChainOf(S2, Append(ip, q))
      <4>1. I.count \in 1..I.count BY <1>0, <3>1, StackFields
      <4>2. CanFollow(S, ip, S2[q].maybe_condition) BY <3>1, <3>2
      <4>3. ip \in Seq(1..Len(S)) /\ ChainOf(S, ip) BY <3>6, <4>1
      <4> HIDE DEF ip
      <4> QED BY <3>2, <4>2, <4>3, ChainLonger
    <3>9. Chained(S2, ip_ifs') BY <3>5, <3>7, <3>8, Zenon DEF Chained
    <3> QED BY <3>1, <3>9 DEF Chains
  <2> QED BY <1>2, <2>1, <2>2, PushIfDoes
<1>3. ASSUME EndIfs PROVE Chains'
  <2> DEFINE top == peek(ip_ifs)
             n   == ListNode("stmt_ifs", top)
             filled == <<top # <<>>, "!ip->is_empty()">>
             step == /\ statements' = Append(statements, n)
                     /\ ptr_lists' = ptr_lists \o top
                     /\ expressions' = expressions
                     /\ ip_ifs' = closed(ip_ifs) /\ UNCHANGED ip_blocks
  <2>1. Call(<<unclosed(ip_ifs), filled, room(statements, 1, MaxStatements),
               room(ptr_lists, Len(top), MaxPtrs)>>, step)
    BY <1>3, Zenon DEF EndIfs, EndList
  <2>2. filled[2] \in Faults BY DEF Faults
  <2> HIDE DEF filled, step, n, top
  <2>3. Stopped \/ (step /\ unclosed(ip_ifs)[1]) BY <2>1, <2>2, Reasons, Call4
  <2>4. CASE Stopped BY <2>4 DEF Stopped, Chains, Chained, ChainOf
  <2>5. CASE step /\ unclosed(ip_ifs)[1]
    <3>1. I.count # 0 /\ ip_ifs' = closed(I) /\ statements' = Append(S, n)
      BY <2>5 DEF step, unclosed, is_empty
    <3>2. /\ ip_ifs'.slots = I.slots
          /\ \A i : i \in 1..ip_ifs'.count => i \in 1..I.count
      BY <1>0, <3>1, Closed
    <3>3. Chained(Append(S, n), I) BY ChainsAppended
    <3>4. Chained(Append(S, n), ip_ifs') BY <3>2, <3>3, Zenon DEF Chained
    <3> QED BY <3>1, <3>4 DEF Chains
  <2> QED BY <2>3, <2>4, <2>5
<1> QED BY <1>1, <1>2, <1>3

\* Identifiers and chains when the if chains are left alone
LEMMA OthersKeep ==
    ASSUME IInv, Chains, IdentsNamed,
           \/ /\ UNCHANGED <<expressions, ip_ifs>>
              /\ statements' = statements \/ \E n : statements' = Append(statements, n)
           \/ /\ UNCHANGED <<statements, ip_ifs>>
              /\ \E n : /\ expressions' = Append(expressions, n)
                        /\ n.kind = "exp_ident" => n = ident(n.name)
    PROVE  Chains' /\ IdentsNamed'
<1>1. CASE UNCHANGED <<statements, expressions, ip_ifs>>
  BY <1>1 DEF Chains, Chained, ChainOf, IdentsNamed, Named, IdentsOf
<1>2. ASSUME NEW n, statements' = Append(statements, n), UNCHANGED <<expressions, ip_ifs>>
      PROVE  Chains' /\ IdentsNamed'
  <2>1. Chained(Append(statements, n), ip_ifs) BY ChainsAppended
  <2>2. Chains' BY <1>2, <2>1 DEF Chains
  <2>3. IdentsNamed' BY <1>2 DEF IdentsNamed
  <2> QED BY <2>2, <2>3
<1>3. ASSUME NEW n, expressions' = Append(expressions, n), UNCHANGED <<statements, ip_ifs>>,
             n.kind = "exp_ident" => n = ident(n.name)
      PROVE  Chains' /\ IdentsNamed'
  <2>1. Named(Append(expressions, n)) BY <1>3, SlotPairs, NamedAppended DEF IdentsNamed
  <2>2. IdentsNamed' BY <1>3, <2>1 DEF IdentsNamed
  <2>3. Chains' BY <1>3 DEF Chains
  <2> QED BY <2>2, <2>3
<1> QED BY <1>1, <1>2, <1>3

LEMMA NewStmtKeepsThem ==
    ASSUME IInv, Chains, IdentsNamed, NEW STATE a, NEW STATE n, NewStmt(a, n)
    PROVE  Chains' /\ IdentsNamed'
<1> DEFINE step == /\ statements' = Append(statements, n)
                   /\ UNCHANGED <<expressions, ptr_lists, ip_blocks, ip_ifs>>
<1>1. Call(Append(a, room(statements, 1, MaxStatements)), step) BY Zenon DEF NewStmt
<1> HIDE DEF step
<1>2. step \/ UNCHANGED <<statements, expressions, ptr_lists, ip_blocks, ip_ifs>>
  BY <1>1, CallEither
<1> QED BY <1>2, OthersKeep DEF step

LEMMA NewExpKeepsThem ==
    ASSUME IInv, Chains, IdentsNamed, NEW STATE a, NEW STATE n,
           n.kind = "exp_ident" => n = ident(n.name), NewExp(a, n)
    PROVE  Chains' /\ IdentsNamed'
<1> DEFINE step == /\ expressions' = Append(expressions, n)
                   /\ UNCHANGED <<statements, ptr_lists, ip_blocks, ip_ifs>>
<1>1. Call(Append(a, room(expressions, 1, MaxExpressions)), step) BY Zenon DEF NewExp
<1> HIDE DEF step
<1>2. step \/ UNCHANGED <<statements, expressions, ptr_lists, ip_blocks, ip_ifs>>
  BY <1>1, CallEither
<1> QED BY <1>2, OthersKeep DEF step

LEMMA BlocksKeepThem ==
    ASSUME IInv, Chains, IdentsNamed,
           StartBlock \/ EndBlock \/ \E s \in MaybeStmt : PushBlockStmt(s)
    PROVE  Chains' /\ IdentsNamed'
<1>1. CASE StartBlock
  <2> DEFINE step == /\ ip_blocks' = opened(ip_blocks)
                     /\ UNCHANGED <<statements, expressions, ptr_lists, ip_ifs>>
  <2>1. Call(<<unopened(ip_blocks)>>, step) BY <1>1, Zenon DEF StartBlock
  <2> HIDE DEF step
  <2>2. step \/ UNCHANGED <<statements, expressions, ptr_lists, ip_blocks, ip_ifs>>
    BY <2>1, CallEither
  <2> QED BY <2>2, OthersKeep DEF step
<1>2. CASE \E s \in MaybeStmt : PushBlockStmt(s)
  <2>0. PICK s \in MaybeStmt : PushBlockStmt(s) BY <1>2
  <2> DEFINE step == /\ ip_blocks' = pushed(ip_blocks, s)
                     /\ UNCHANGED <<statements, expressions, ptr_lists, ip_ifs>>
  <2>1. Call(<<given(s), unclosed(ip_blocks), room(peek(ip_blocks), 1, MaxList)>>, step)
    BY <2>0, Zenon DEF PushBlockStmt
  <2> HIDE DEF step
  <2>2. step \/ UNCHANGED <<statements, expressions, ptr_lists, ip_blocks, ip_ifs>>
    BY <2>1, CallEither
  <2> QED BY <2>2, OthersKeep DEF step
<1>3. CASE EndBlock
  <2> DEFINE top == peek(ip_blocks)
             n   == ListNode("stmt_block", top)
             step == /\ statements' = Append(statements, n)
                     /\ ptr_lists' = ptr_lists \o top
                     /\ expressions' = expressions
                     /\ ip_blocks' = closed(ip_blocks) /\ UNCHANGED ip_ifs
             a == <<unclosed(ip_blocks), <<top # <<>>, "!ip->is_empty()">>,
                    room(statements, 1, MaxStatements), room(ptr_lists, Len(top), MaxPtrs)>>
  <2>1. Call(a, step) BY <1>3, Zenon DEF EndBlock, EndList
  <2> HIDE DEF step, a, n
  <2>2. step \/ UNCHANGED <<statements, expressions, ptr_lists, ip_blocks, ip_ifs>>
    BY <2>1, CallEither
  <2> QED BY <2>2, OthersKeep DEF step
<1> QED BY <1>1, <1>2, <1>3

LEMMA NodesKeepThem ==
    ASSUME IInv, Chains, IdentsNamed,
           \/ Nop \/ \E l, r \in MaybeExp : Assign(l, r)
           \/ \E t, n \in MaybeIdent, e \in MaybeExp : LocalDecl(t, n, e)
           \/ \E e \in MaybeExp : ReturnStmt(e)
           \/ \E s \in MaybeStmt : DBGStmt(s)
           \/ \E l, r \in MaybeExp, o \in op \cup {"UNUSED"} : BinaryExp(l, o, r)
           \/ \E n \in Names : Ident(n)
           \/ \E v \in Literals : Literal(v)
           \/ \E e \in MaybeExp : DBGExp(e)
    PROVE  Chains' /\ IdentsNamed'
<1>1. CASE Nop BY <1>1, NewStmtKeepsThem DEF Nop
<1>2. ASSUME NEW l, NEW r, Assign(l, r) PROVE Chains' /\ IdentsNamed'
  BY <1>2, NewStmtKeepsThem DEF Assign
<1>3. ASSUME NEW t, NEW n, NEW e, LocalDecl(t, n, e) PROVE Chains' /\ IdentsNamed'
  BY <1>3, NewStmtKeepsThem DEF LocalDecl
<1>4. ASSUME NEW e, ReturnStmt(e) PROVE Chains' /\ IdentsNamed'
  BY <1>4, NewStmtKeepsThem DEF ReturnStmt
<1>5. ASSUME NEW s, DBGStmt(s) PROVE Chains' /\ IdentsNamed'
  BY <1>5, NewStmtKeepsThem DEF DBGStmt
<1>6. ASSUME NEW l, NEW r, NEW o, BinaryExp(l, o, r) PROVE Chains' /\ IdentsNamed'
  <2> DEFINE n == binary_exp(l, o, r)
  <2>1. n.kind = "exp_binary" BY DEF binary_exp
  <2> HIDE DEF n
  <2> QED BY <1>6, <2>1, NewExpKeepsThem DEF BinaryExp, n
<1>7. ASSUME NEW name, Ident(name) PROVE Chains' /\ IdentsNamed'
  <2> DEFINE n == ident(name)
  <2>1. n = ident(n.name) BY DEF ident
  <2>2. NewExp(<<>>, n) BY <1>7 DEF Ident
  <2> HIDE DEF n
  <2> QED BY <2>1, <2>2, NewExpKeepsThem
<1>8. ASSUME NEW v, Literal(v) PROVE Chains' /\ IdentsNamed'
  <2> DEFINE n == literal_exp(v)
  <2>1. n.kind = "exp_literal" BY DEF literal_exp
  <2>2. NewExp(<<>>, n) BY <1>8 DEF Literal
  <2> HIDE DEF n
  <2> QED BY <2>1, <2>2, NewExpKeepsThem
<1>9. ASSUME NEW e, DBGExp(e) PROVE Chains' /\ IdentsNamed'
  <2> DEFINE n == DBG_exp(e)
  <2>1. n.kind = "UNUSED" BY DEF DBG_exp
  <2>2. NewExp(<<given(e)>>, n) BY <1>9 DEF DBGExp
  <2> HIDE DEF n
  <2> QED BY <2>1, <2>2, NewExpKeepsThem
<1> QED BY <1>1, <1>2, <1>3, <1>4, <1>5, <1>6, <1>7, <1>8, <1>9, Zenon

\* Identifiers, when the if chains change
LEMMA IfsKeepNames ==
    ASSUME IInv, IdentsNamed,
           StartIfs \/ EndIfs \/ \E s \in MaybeStmt, c \in MaybeExp : PushIf(c, s)
    PROVE  IdentsNamed'
<1>1. expressions' = expressions
  <2>1. CASE StartIfs BY <2>1 DEF StartIfs, Call
  <2>2. CASE EndIfs BY <2>2 DEF EndIfs, EndList, Call
  <2>3. CASE \E s \in MaybeStmt, c \in MaybeExp : PushIf(c, s)
    BY <2>3, PushIfDoes DEF Stopped, Pushes
  <2> QED BY <2>1, <2>2, <2>3
<1> QED BY <1>1 DEF IdentsNamed

TreeInv == IInv /\ Chains /\ IdentsNamed

LEMMA MadeAlways == IInv => MadeNow
BY GoodFacts DEF IInv, TypedIn, MadeNow

LEMMA TreeInvStarts == ASSUME Init PROVE TreeInv
<1>1. IInv BY Initially
<1>2. ip_ifs.count = 0 /\ expressions = <<>> BY DEF Init, EmptyStack
<1>3. 1..0 = {} /\ 1..Len(<<>>) = {} OBVIOUS
<1>4. Chains BY <1>2, <1>3 DEF Chains, Chained
<1>5. IdentsNamed BY <1>2, <1>3 DEF IdentsNamed, Named, IdentsOf
<1> QED BY <1>1, <1>4, <1>5 DEF TreeInv

LEMMA TreeInvKept == ASSUME TreeInv, [Next]_vars PROVE TreeInv'
<1>0. IInv /\ Chains /\ IdentsNamed BY DEF TreeInv
<1>1. IInv' BY <1>0, NextKeeps
<1>2. CASE StartBlock \/ EndBlock \/ \E s \in MaybeStmt : PushBlockStmt(s)
  BY <1>0, <1>1, <1>2, BlocksKeepThem DEF TreeInv
<1>3. CASE StartIfs \/ EndIfs \/ \E s \in MaybeStmt, c \in MaybeExp : PushIf(c, s)
  BY <1>0, <1>1, <1>3, IfsKeepChains, IfsKeepNames, Zenon DEF TreeInv
<1>4. CASE \/ Nop \/ \E l, r \in MaybeExp : Assign(l, r)
           \/ \E t, n \in MaybeIdent, e \in MaybeExp : LocalDecl(t, n, e)
           \/ \E e \in MaybeExp : ReturnStmt(e)
           \/ \E s \in MaybeStmt : DBGStmt(s)
           \/ \E l, r \in MaybeExp, o \in op \cup {"UNUSED"} : BinaryExp(l, o, r)
           \/ \E n \in Names : Ident(n)
           \/ \E v \in Literals : Literal(v)
           \/ \E e \in MaybeExp : DBGExp(e)
  BY <1>0, <1>1, <1>4, NodesKeepThem DEF TreeInv
<1>5. CASE Exited \/ UNCHANGED vars
  BY <1>0, <1>1, <1>5 DEF Exited, vars, TreeInv, Chains, Chained, ChainOf, IdentsNamed, Named,
                          IdentsOf
<1> QED BY <1>2, <1>3, <1>4, <1>5, Zenon DEF Next

LEMMA NextSimulates == ASSUME TreeInv, TreeInv', [Next]_vars PROVE Simulated
<1>0. IInv /\ MadeNow /\ MadeNow' /\ Named(expressions) /\ Chained(statements, ip_ifs)
  <2>1. IInv /\ IInv' BY DEF TreeInv
  <2>2. IInv' => MadeNow' BY MadeAlways, PTL
  <2> QED BY <2>1, <2>2, MadeAlways DEF TreeInv, Chains, IdentsNamed
<1>1. CASE StartBlock \/ EndBlock \/ StartIfs \/ EndIfs
  BY <1>0, <1>1, StartBlockSimulates, EndBlockSimulates, StartIfsSimulates, EndIfsSimulates
<1>2. CASE \E s \in MaybeStmt : PushBlockStmt(s) BY <1>0, <1>2, PushBlockStmtSimulates
<1>3. CASE \E s \in MaybeStmt, e \in MaybeExp : PushIf(e, s) BY <1>0, <1>3, PushIfSimulates
<1>4. CASE \/ Nop \/ \E l, r \in MaybeExp : Assign(l, r)
           \/ \E t, n \in MaybeIdent, e \in MaybeExp : LocalDecl(t, n, e)
           \/ \E e \in MaybeExp : ReturnStmt(e)
           \/ \E s \in MaybeStmt : DBGStmt(s)
  BY <1>0, <1>4, StatementsSimulate, Zenon
<1>5. CASE \/ \E l, r \in MaybeExp, o \in op \cup {"UNUSED"} : BinaryExp(l, o, r)
           \/ \E n \in Names : Ident(n)
           \/ \E v \in Literals : Literal(v)
           \/ \E e \in MaybeExp : DBGExp(e)
  BY <1>0, <1>5, ExpressionsSimulate, Zenon
<1>6. CASE Exited \/ UNCHANGED vars
  <2>1. UNCHANGED vars BY <1>6 DEF Exited
  <2>2. /\ Tree' = Tree /\ expressions' = expressions /\ statements' = statements
        /\ ip_blocks' = ip_blocks /\ ip_ifs' = ip_ifs /\ fault' = fault
    BY <2>1, SameTree DEF vars
  <2>3. UNCHANGED <<MadeExps, MadeStmts, OpenTrees(ip_blocks), OpenTrees(ip_ifs)>>
    BY <1>0, <2>2, MappedBoth
  <2> QED BY <2>2, <2>3 DEF Simulated
<1> QED BY <1>1, <1>2, <1>3, <1>4, <1>5, <1>6, Zenon DEF Next

LEMMA NoTrees == ASSUME Init PROVE T!Init
<1>1. MadeNow BY Initially, MadeAlways
<1>2. Mapped BY <1>1, MappedNow
<1>3. /\ Len(expressions) = 0 /\ Len(statements) = 0
      /\ ip_blocks.count = 0 /\ ip_ifs.count = 0 /\ fault = NoFault
  BY DEF Init, EmptyStack
<1>4. 1..0 = {} /\ \A f : [i \in {} |-> f[i]] = <<>> OBVIOUS
<1>5. MadeExps = <<>> BY <1>2, <1>3, <1>4 DEF Mapped, ExpsOf
<1>6. MadeStmts = <<>>
  <2> DEFINE h == MadeFn(statements, Tree)
  <2>1. h[0] = MadeNode(statements, Tree, h, 0) BY <1>3, MadeFnIs
  <2> HIDE DEF h
  <2>2. h[0] = <<>> BY <2>1 DEF MadeNode
  <2> QED BY <1>2, <1>3, <2>2 DEF Mapped, MadeSeq, h, Tree
<1>7. OpenTrees(ip_blocks) = <<>> /\ OpenTrees(ip_ifs) = <<>>
  BY <1>2, <1>3, <1>4, Zenon DEF Mapped, OpenOf
<1> QED BY <1>3, <1>5, <1>6, <1>7 DEF T!Init

\* Whatever is called, in whatever order and however deep blocks and ifs nest,
\* the nodes, the lists cut from one arena and the slots used again and again
\* stand for trees made of trees made before and never changed, and a block or
\* an if chain gets what was pushed while it was innermost, and nothing else.
THEOREM TreeBuilderImplemented == Spec => ImplementsTreeBuilder
<1>1. Init => T!Init BY NoTrees
<1>2. Init => TreeInv BY TreeInvStarts
<1>3. TreeInv /\ [Next]_vars => TreeInv' BY TreeInvKept
<1>4. TreeInv /\ TreeInv' /\ [Next]_vars =>
         [T!Next]_<<MadeExps, MadeStmts, OpenTrees(ip_blocks), OpenTrees(ip_ifs), fault # NoFault>>
  BY NextSimulates DEF Simulated
<1> QED BY <1>1, <1>2, <1>3, <1>4, PTL DEF Spec, ImplementsTreeBuilder, T!Spec

=============================================================================
