------------------------------ MODULE MCIrEmit ------------------------------
(***************************************************************************)
(* IrEmit for TLC: trees of up to four statements at the top, whose second *)
(* and third may be any leaf or an ifs or block built from leaves, among   *)
(* them programs the emitter refuses.                                      *)
(***************************************************************************)
EXTENDS IrEmit, SourceSemantics

X == ident("x")
Y == ident("y")
Lit(n) == literal_exp(n)
Sum    == binary_exp(binary_exp(X, "add", Lit(2)), "add", Lit(3))
Same   == binary_exp(X, "equals", binary_exp(Lit(1), "add", Lit(2)))

SetX == assign(X, Lit(4))
CopyX == assign(Y, X)
Leaves == {SetX, CopyX, assign(X, Sum), nop_stmt, return_stmt(X), return_stmt(NoExp),
           local_decl("y", X), DBG_stmt(nop_stmt),
           assign(Y, binary_exp(Lit(5), "sub", Lit(6)))}

Arms == {SetX, CopyX, nop_stmt, return_stmt(X), local_decl("y", Lit(7)),
         block(<<SetX, block(<<nop_stmt>>)>>),
         block(<<local_decl("x", Lit(8)), CopyX>>),
         block(<<ifs(<<if_pair(X, SetX), else_pair(SetX)>>)>>)}

Ifs == {ifs(<<if_pair(c, a), else_pair(b)>>) : c \in {Lit(0), Same}, a, b \in Arms}
       \cup {ifs(<<if_pair(Same, a), if_pair(X, b), else_pair(SetX)>>) : a, b \in Arms}

\* Shapes the emitter does not support, though the tree builder makes them
Odd == {ifs(<<if_pair(X, SetX)>>),
        ifs(<<if_pair(X, SetX), else_pair(nop_stmt), if_pair(X, nop_stmt)>>),
        ifs(<<if_pair(DBG_exp(X), SetX), else_pair(nop_stmt)>>),
        ifs(<<if_pair(X, return_stmt(DBG_exp(X))), else_pair(nop_stmt)>>),
        assign(Lit(1), X), assign(ident("z"), X), assign(X, DBG_exp(X)),
        ifs(<<if_pair(X, SetX), if_pair(X, SetX), if_pair(X, SetX), else_pair(SetX)>>)}

Nested == {block(<<a, b>>) : a, b \in {SetX, CopyX, nop_stmt, local_decl("y", X)}}
          \cup {block(<<nop_stmt, ifs(<<if_pair(X, SetX), else_pair(nop_stmt)>>), CopyX>>)}

DeclX == local_decl("x", Lit(1))
DeclY == local_decl("y", Lit(9))

Seconds == Leaves \cup Ifs \cup Odd \cup Nested

Thirds == {SetX, CopyX, return_stmt(X), ifs(<<if_pair(X, SetX), else_pair(SetX)>>),
           ifs(<<if_pair(X, nop_stmt), else_pair(CopyX)>>),
           block(<<CopyX, nop_stmt>>)}

Trees == {block(<<DeclX, b, c, return_stmt(X)>>) : b \in Seconds, c \in Thirds}
         \cup {block(<<DeclX, DeclY, b, return_stmt(Y)>>) : b \in Seconds}
         \cup {block(<<a, b>>) : a \in {DeclX, local_decl("x", NoExp), nop_stmt},
                                b \in Seconds}

TreeStmts == AllStmts(Programs)
TreeExps  == AllExps(Programs, MaxExpDepth)

-----------------------------------------------------------------------------
\* In finished code the instructions stand in the order of the source: the
\* stack's reversed pushes and the direct calls cancel out.  The last ret is
\* the implied one where the tree's own return does not end the last block.
SourceOrder ==
    LET own   == SelectSeq(ir.ssas, LAMBDA s : s.op # "phi")
        found == [k \in 1..Len(own) |->
                     Instr(own[k].op, IF own[k].op = "i" THEN own[k].left ELSE 0)]
        want  == StmtOrder(root)
    IN  emitted /\ fault = NoFault => found \in {want, want \o <<Instr("ret", 0)>>}

\* A basic block as the tree shows it: the names written since it began, and
\* whether it is empty.  again remembers a name written twice in one block.
\* phis tells whether a join counts as writing what the ends of its arms wrote.
Fresh(again) == [written |-> {}, empty |-> TRUE, again |-> again]
Write(b, name) == [written |-> b.written \cup {name}, empty |-> FALSE,
                   again |-> b.again \/ name \in b.written]

RECURSIVE Scan(_, _, _)
Scan(phis, b, s) ==
    CASE s.kind = "stmt_assign" ->
            IF s.left.kind = "exp_ident" THEN Write(b, s.left.name) ELSE b
      [] s.kind = "stmt_local_decl" ->
            IF s.maybe_expression = NoExp THEN b ELSE Write(b, s.name)
      [] s.kind \in {"stmt_nop", "stmt_return"} -> [b EXCEPT !.empty = FALSE]
      [] s.kind = "stmt_block" ->
            FoldLeft(LAMBDA c, t : Scan(phis, c, t), IF b.empty THEN b ELSE Fresh(b.again),
                     s.statements)
      [] s.kind = "stmt_ifs" ->
            LET arms == {Scan(phis, Fresh(b.again), p.statement) : p \in Range(s.pairs)}
            IN  [written |-> IF phis THEN UNION {a.written : a \in arms} ELSE {},
                 empty   |-> FALSE,
                 again   |-> \E a \in arms : a.again]
      [] OTHER -> b

\* A variable can be set once in a basic block, whichever declaration it is of:
\* a tree that sets one twice is never lowered, and no other stops on a key.
ReassignmentsAreRefused ==
    /\ fault = "Attempt to add duplicate key" => Scan(TRUE, Fresh(FALSE), root).again
    /\ emitted /\ fault = NoFault => ~ Scan(FALSE, Fresh(FALSE), root).again

-----------------------------------------------------------------------------
(***************************************************************************)
(* Termination.  The work left is a number: that of a task is at least one *)
(* more than that of all it can push.                                      *)
(***************************************************************************)
RECURSIVE ExpWork(_)
ExpWork(e) == IF e.kind = "exp_binary" THEN 3 + ExpWork(e.left) + ExpWork(e.right) ELSE 1

RECURSIVE StmtWork(_)
StmtWork(s) ==
    CASE s.kind = "stmt_block" ->
            2 + FoldLeft(LAMBDA n, t : n + StmtWork(t), 0, s.statements)
      [] s.kind = "stmt_ifs" ->
            2 + FoldLeft(LAMBDA n, p : n + 2 + StmtWork(p.statement)
                                         + ExpWork(p.maybe_condition), 0, s.pairs)
      [] s.kind = "stmt_assign" -> 2 + ExpWork(s.right)
      [] s.kind \in {"stmt_local_decl", "stmt_return"} -> 2 + ExpWork(s.maybe_expression)
      [] OTHER -> 1

TaskWork(t) ==
    CASE Is(t, "emit_stmt", 0)       -> StmtWork(t.node)
      [] Is(t, "emit_exp", 0)        -> ExpWork(t.node)
      [] Is(t, "emit_exp_binary", 1) -> 2 + ExpWork(t.node.right)
      [] Is(t, "emit_stmt_ifs", STEP_AFTER_CONDITION) ->
            2 + StmtWork(t.node.pairs[t.arg1].statement)
      [] OTHER                       -> 1

Work == FoldLeft(LAMBDA n, t : n + TaskWork(t), IF emitted THEN 0 ELSE 1, tasks)

\* Every step of run_to_suspend leaves less work than it found, or ends the
\* process.  With no deadlock before Halted, the loop ends for every tree.
WorkDecreases == [][fault' = NoFault => Work' < Work]_vars

=============================================================================
