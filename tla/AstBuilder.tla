----------------------------- MODULE AstBuilder ------------------------------
(***************************************************************************)
(* ast::builder (ast-builder.hpp): nodes in arenas that point at nodes,    *)
(* lists of pointers cut from one arena, and two stacks of arenas that are *)
(* cleared and used again for the lists under construction.  One action    *)
(* per function of the builder.                                            *)
(*                                                                         *)
(* A node has the shape of its tree (Ast), with pointers for trees.  An    *)
(* if pair is part of its node in statements, so both have one pointer.    *)
(***************************************************************************)
EXTENDS Ast, Memory, SequencesExt

CONSTANTS Names, Literals,
          MaxStatements, MaxExpressions, MaxPtrs,    \* the arenas' capacities
          MaxOpen,                                   \* slots of a stack
          MaxList                                    \* capacity of a slot

ASSUME BuilderBounds == {MaxStatements, MaxExpressions, MaxPtrs, MaxOpen, MaxList} \subseteq Nat

VARIABLES statements, expressions, ptr_lists,
          ip_blocks, ip_ifs,      \* stacks: their slots, and how many are in use
          fault

vars == <<statements, expressions, ptr_lists, ip_blocks, ip_ifs, fault>>

EmptyStack == [slots |-> [i \in 1..MaxOpen |-> <<>>], count |-> 0]

Init == /\ statements = <<>> /\ expressions = <<>> /\ ptr_lists = <<>>
        /\ ip_blocks = EmptyStack /\ ip_ifs = EmptyStack
        /\ fault = NoFault

\* The nodes the builder has returned: what a client can pass to it
Exps   == 1..Len(expressions)
Idents == {e \in Exps : expressions[e].kind = "exp_ident"}
Stmts  == {s \in 1..Len(statements) : statements[s].kind # "_stmt_raw_if"}

is_empty(stack) == stack.count = 0
peek(stack)     == IF is_empty(stack) THEN <<>> ELSE stack.slots[stack.count]

-----------------------------------------------------------------------------
\* A function of the builder: the first assertion that fails, or step
Call(asserts, step) ==
    LET failed == {i \in 1..Len(asserts) : ~ asserts[i][1]}
    IN  /\ fault = NoFault
        /\ IF failed = {} THEN step /\ fault' = fault
           ELSE /\ fault' = asserts[CHOOSE i \in failed : \A j \in failed : i <= j][2]
                /\ UNCHANGED <<statements, expressions, ptr_lists, ip_blocks, ip_ifs>>

room(list, n, cap) == <<Len(list) + n <= cap, "Arena reached max capacity">>
given(ptr)         == <<ptr # NULL, "!= NULL">>
unclosed(stack)    == <<~ is_empty(stack), "!is_empty()">>
unopened(stack)    == <<stack.count < MaxOpen, "next < max">>

opened_Stale(stack) == [stack EXCEPT !.count = @ + 1]     \* mutant: without clear()
opened(stack) == [stack EXCEPT !.count = @ + 1, !.slots[stack.count + 1] = <<>>]
closed(stack) == [stack EXCEPT !.count = @ - 1]
pushed(stack, ptr) == [stack EXCEPT !.slots[stack.count] = Append(@, ptr)]

ListNode_Early(kind, list) ==                             \* mutant: one slot before
    [kind |-> kind, count |-> Len(list), first |-> Len(ptr_lists)]

\* A node with the next part of ptr_lists
ListNode(kind, list) == [kind |-> kind, count |-> Len(list), first |-> Len(ptr_lists) + 1]

\* The list in progress is copied to ptr_lists, for a node of its own.
EndList(kind, stack, pop) ==
    Call(<<unclosed(stack), <<peek(stack) # <<>>, "!ip->is_empty()">>,
           room(statements, 1, MaxStatements), room(ptr_lists, Len(peek(stack)), MaxPtrs)>>,
         /\ statements' = Append(statements, ListNode(kind, peek(stack)))
         /\ ptr_lists' = ptr_lists \o peek(stack)
         /\ expressions' = expressions
         /\ pop)

StartBlock == Call(<<unopened(ip_blocks)>>,
                   /\ ip_blocks' = opened(ip_blocks)
                   /\ UNCHANGED <<statements, expressions, ptr_lists, ip_ifs>>)

PushBlockStmt(s) == Call(<<given(s), unclosed(ip_blocks), room(peek(ip_blocks), 1, MaxList)>>,
                         /\ ip_blocks' = pushed(ip_blocks, s)
                         /\ UNCHANGED <<statements, expressions, ptr_lists, ip_ifs>>)

EndBlock == EndList("stmt_block", ip_blocks,
                    ip_blocks' = closed(ip_blocks) /\ UNCHANGED ip_ifs)

StartIfs == Call(<<unopened(ip_ifs)>>,
                 /\ ip_ifs' = opened(ip_ifs)
                 /\ UNCHANGED <<statements, expressions, ptr_lists, ip_blocks>>)

multiple_else_Never(condition, pairs) == FALSE            \* mutant: not looked for
multiple_else(condition, pairs) ==
    condition = NULL /\ pairs # <<>> /\ statements[Last(pairs)].maybe_condition = NULL

\* A pair and its node have one pointer.
PairNode(condition, s) == [kind |-> "_stmt_raw_if", maybe_condition |-> condition, statement |-> s]

\* push_if, and push_else when condition is NULL
PushIf(condition, s) ==
    LET ip == peek(ip_ifs)
    IN  Call(<<given(s), unclosed(ip_ifs),
               <<~ (condition = NULL /\ ip = <<>>), "!else_first">>,
               <<~ multiple_else(condition, ip), "!multiple_else">>,
               room(statements, 1, MaxStatements), room(ip, 1, MaxList)>>,
             /\ statements' = Append(statements, PairNode(condition, s))
             /\ ip_ifs' = pushed(ip_ifs, Len(statements) + 1)
             /\ UNCHANGED <<expressions, ptr_lists, ip_blocks>>)

EndIfs == EndList("stmt_ifs", ip_ifs, ip_ifs' = closed(ip_ifs) /\ UNCHANGED ip_blocks)

-----------------------------------------------------------------------------
\* Statements and expressions: asserts, then a node
NewStmt(asserts, n) == Call(Append(asserts, room(statements, 1, MaxStatements)),
                            /\ statements' = Append(statements, n)
                            /\ UNCHANGED <<expressions, ptr_lists, ip_blocks, ip_ifs>>)

NewExp(asserts, n) == Call(Append(asserts, room(expressions, 1, MaxExpressions)),
                           /\ expressions' = Append(expressions, n)
                           /\ UNCHANGED <<statements, ptr_lists, ip_blocks, ip_ifs>>)

Assign(l, r)             == NewStmt(<<>>, assign(l, r))
LocalDecl(type, name, e) == NewStmt(<<given(type), given(name)>>, local_decl(name, e))
Nop                      == NewStmt(<<>>, nop_stmt)
ReturnStmt(e)            == NewStmt(<<>>, return_stmt(e))
DBGStmt(s)               == NewStmt(<<given(s)>>, DBG_stmt(s))

BinaryExp(l, o, r) == NewExp(<<given(l), given(r), <<o # "UNUSED", "op != UNUSED">> >>,
                             binary_exp(l, o, r))
Ident(name)        == NewExp(<<>>, ident(name))
Literal(val)       == NewExp(<<>>, literal_exp(val))
DBGExp(e)          == NewExp(<<given(e)>>, DBG_exp(e))

Exited == fault # NoFault /\ UNCHANGED vars

MaybeExp   == Exps \cup {NULL}
MaybeStmt  == Stmts \cup {NULL}
MaybeIdent == Idents \cup {NULL}

Next == \/ StartBlock \/ EndBlock \/ StartIfs \/ EndIfs \/ Nop \/ Exited
        \/ \E s \in MaybeStmt : PushBlockStmt(s) \/ DBGStmt(s)
        \/ \E s \in MaybeStmt, e \in MaybeExp : PushIf(e, s)
        \/ \E l, r \in MaybeExp : Assign(l, r)
        \/ \E t, n \in MaybeIdent, e \in MaybeExp : LocalDecl(t, n, e)
        \/ \E e \in MaybeExp : ReturnStmt(e) \/ DBGExp(e)
        \/ \E l, r \in MaybeExp, o \in op \cup {"UNUSED"} : BinaryExp(l, o, r)
        \/ \E n \in Names : Ident(n)
        \/ \E v \in Literals : Literal(v)

Spec == Init /\ [][Next]_vars

-----------------------------------------------------------------------------
(***************************************************************************)
(* Properties.                                                             *)
(***************************************************************************)
ListNodes == {s \in Stmts : statements[s].kind \in {"stmt_block", "stmt_ifs"}}
Slice(s)  == statements[s].first .. statements[s].first + statements[s].count - 1
List(s)   == [k \in 1..statements[s].count |-> ptr_lists[statements[s].first + k - 1]]

\* The lists under construction, of blocks or of ifs
Open(stack) == {stack.slots[i] : i \in 1..stack.count}

\* Every pointer is to a node made before.
Before(i, e) == e \in 0..i - 1
ExpOK(i) == LET n == expressions[i] IN
            CASE n.kind = "exp_binary"  -> /\ n.left # NULL /\ Before(i, n.left) /\ n.op \in op
                                           /\ n.right # NULL /\ Before(i, n.right)
              [] n.kind = "UNUSED"      -> n.expression # NULL /\ Before(i, n.expression)
              [] n.kind = "exp_ident"   -> n.name \in Names
              [] n.kind = "exp_literal" -> n.val_u64 \in Literals
StmtOK(i) == LET n == statements[i]
                 aStmt(s) == s \in Stmts /\ s < i
             IN
             CASE n.kind = "stmt_assign"     -> {n.left, n.right} \subseteq MaybeExp
               [] n.kind = "stmt_local_decl" -> n.name \in Idents /\ n.maybe_expression \in MaybeExp
               [] n.kind = "stmt_nop"        -> TRUE
               [] n.kind = "stmt_return"     -> n.maybe_expression \in MaybeExp
               [] n.kind = "UNUSED"          -> aStmt(n.statement)
               [] n.kind = "_stmt_raw_if"    -> n.maybe_condition \in MaybeExp /\ aStmt(n.statement)
               [] n.kind = "stmt_block"      -> /\ Slice(i) # {} /\ Slice(i) \subseteq 1..Len(ptr_lists)
                                                /\ \A k \in Slice(i) : aStmt(ptr_lists[k])
               [] n.kind = "stmt_ifs"        -> /\ Slice(i) # {} /\ Slice(i) \subseteq 1..Len(ptr_lists)
                                                /\ \A k \in Slice(i) :
                                                      /\ ptr_lists[k] \in 1..i - 1
                                                      /\ statements[ptr_lists[k]].kind = "_stmt_raw_if"

TypeOK ==
    /\ Len(statements) <= MaxStatements /\ \A i \in 1..Len(statements) : StmtOK(i)
    /\ Len(expressions) <= MaxExpressions /\ \A i \in Exps : ExpOK(i)
    /\ Len(ptr_lists) <= MaxPtrs /\ ptr_lists \in Seq(1..Len(statements))
    /\ {ip_blocks.count, ip_ifs.count} \subseteq 0..MaxOpen
    /\ \A l \in Open(ip_blocks) : l \in Seq(Stmts) /\ Len(l) <= MaxList
    /\ \A l \in Open(ip_ifs) : l \in Seq(1..Len(statements) \ Stmts) /\ Len(l) <= MaxList
    /\ fault \in {NoFault, "Arena reached max capacity", "!= NULL", "!is_empty()",
                  "next < max", "!ip->is_empty()", "!else_first", "!multiple_else",
                  "op != UNUSED"}

\* However blocks and ifs nest, each entry of ptr_lists belongs to one list of
\* one node, and each if pair to one chain, finished or under construction:
\* slots of the stacks that are used again hand nothing on.
OneOwnerEach ==
    /\ \A k \in 1..Len(ptr_lists) : \E s \in ListNodes :
          k \in Slice(s) /\ \A t \in ListNodes : k \in Slice(t) => s = t
    /\ \A p \in 1..Len(statements) \ Stmts :
          LET finished == {k \in 1..Len(ptr_lists) : ptr_lists[k] = p}
              pending  == {at \in (1..ip_ifs.count) \X (1..MaxList) :
                              /\ at[2] <= Len(ip_ifs.slots[at[1]])
                              /\ ip_ifs.slots[at[1]][at[2]] = p}
          IN  Cardinality(finished) + Cardinality(pending) = 1

\* What the pointers stand for
ExpTree == LET t[e \in MaybeExp] ==
                  IF e = NULL THEN NoExp
                  ELSE LET n == expressions[e]
                       IN CASE n.kind = "exp_binary" -> binary_exp(t[n.left], n.op, t[n.right])
                            [] n.kind = "UNUSED"     -> DBG_exp(t[n.expression])
                            [] OTHER                 -> n
           IN  t

\* A pair's tree is the pair.
StmtTree ==
    LET e == ExpTree
        t[s \in 1..Len(statements)] ==
           LET n == statements[s]
               trees == [k \in 1..Len(List(s)) |-> t[List(s)[k]]]
           IN CASE n.kind = "stmt_assign"     -> assign(e[n.left], e[n.right])
                [] n.kind = "stmt_local_decl" -> local_decl(expressions[n.name].name,
                                                            e[n.maybe_expression])
                [] n.kind = "stmt_nop"        -> n
                [] n.kind = "stmt_return"     -> return_stmt(e[n.maybe_expression])
                [] n.kind = "UNUSED"          -> DBG_stmt(t[n.statement])
                [] n.kind = "_stmt_raw_if"    -> if_pair(e[n.maybe_condition], t[n.statement])
                [] n.kind = "stmt_block"      -> block(trees)
                [] n.kind = "stmt_ifs"        -> ifs(trees)
    IN  t

Trees(list) == LET t == StmtTree IN [k \in 1..Len(list) |-> t[list[k]]]
OpenTrees(stack) == [i \in 1..stack.count |-> Trees(stack.slots[i])]

MadeExps  == LET t == ExpTree IN [e \in Exps |-> t[e]]
MadeStmts == LET t == StmtTree
                 made[i \in 0..Len(statements)] ==
                     IF i = 0 THEN <<>>
                     ELSE IF i \in Stmts THEN Append(made[i - 1], t[i]) ELSE made[i - 1]
             IN  made[Len(statements)]

T == INSTANCE TreeBuilder WITH
        exps        <- MadeExps,
        stmts       <- MadeStmts,
        open_blocks <- OpenTrees(ip_blocks),
        open_ifs    <- OpenTrees(ip_ifs),
        stopped     <- fault # NoFault

\* Whatever the order of calls, nodes, shared lists and reused slots amount to
\* trees that are never changed and lists that nest.
ImplementsTreeBuilder == T!Spec

=============================================================================
