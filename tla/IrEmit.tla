------------------------------- MODULE IrEmit -------------------------------
(***************************************************************************)
(* ir_emit (ir-emit.cpp): lowers the tree root to blocks and instructions, *)
(* one task of its explicit stack at a time.  A handler is an operator     *)
(* from a machine m = [ir, locals, tasks, fault] to the machine it leaves; *)
(* an action pops one task and runs its handler, which may call other      *)
(* handlers directly and push tasks for what comes after.                  *)
(***************************************************************************)
EXTENDS IrOps, SymbolOps, Ast, SequencesExt

CONSTANTS Programs,      \* the trees to lower
          Stmts,         \* the statements in them
          Exps,          \* Exps[d], the expressions nested at most d deep
          MaxTasks,      \* 1024, the task stack
          MaxFuse,       \* 64, the buffer of STEP_MERGE
          MaxExpDepth    \* bound on the nesting of expressions in Programs

ASSUME EmitBounds ==
    /\ {MaxTasks, MaxFuse, MaxExpDepth} \subseteq Nat
    /\ MaxTasks > 0 /\ MaxBlocks > 0 /\ MaxScopes > 0
    /\ MaxPreds <= MaxFuse
    /\ Symbols = 1..MaxSymbols /\ MaxSymbols >= 2

AnyExp   == UNION {Exps[d] : d \in 0..MaxExpDepth}

\* A statement of statements S and expressions E.  ast::builder sees to it that a
\* list of pairs is not empty and an else follows a pair with a condition; that
\* an assignment has both its sides, its callers do.
WellFormed(s, S, E) ==
    /\ s.kind = "stmt_assign" => {s.left, s.right} \subseteq E
    /\ s.kind \in {"stmt_local_decl", "stmt_return"} => s.maybe_expression \in E \cup {NoExp}
    /\ s.kind = "stmt_block" => s.statements \in Seq(S)
    /\ s.kind = "stmt_ifs" =>
          /\ s.pairs \in Seq([maybe_condition : E \cup {NoExp}, statement : S])
          /\ s.pairs # <<>> /\ PushIfAccepts(s.pairs)

TreesOf(P, S, E) == P \subseteq S /\ \A s \in S : WellFormed(s, S, E)

ASSUME ProgramTrees ==
    /\ TreesOf(Programs, Stmts, AnyExp)
    /\ \A d \in 0..MaxExpDepth : \A e \in Exps[d] :
          /\ e # NoExp
          /\ e.kind = "exp_binary" => d > 0 /\ {e.left, e.right} \subseteq Exps[d - 1]
          /\ e.kind = "exp_literal" => e.val_u64 \in Nat

VARIABLES root,      \* the tree being lowered
          ir,        \* the builder b
          locals,    \* local_symbols
          tasks,     \* the task stack, its top last
          fault,     \* the assertion that ended the process, or NoFault
          emitted    \* run_to_suspend has returned

vars == <<root, ir, locals, tasks, fault, emitted>>

STEP_AFTER_CONDITION == 1
STEP_AFTER_STATEMENT == 2
STEP_MERGE           == 3

\* arg1 and arg2 are unions of pointers and an index, all of them numbers.
task(func, step, node, arg1, merge_block) ==
    [func |-> func, step |-> step, node |-> node, arg1 |-> arg1,
     merge_block |-> merge_block]

StatementTask(s)  == task("emit_stmt", 0, s, NULL, NULL)
ExpressionTask(e) == task("emit_exp", 0, e, NULL, NULL)

-----------------------------------------------------------------------------
(***************************************************************************)
(* Calls into the builder and the symbol table, and the task stack.        *)
(***************************************************************************)
Ir(m, B)    == Then(m, [m EXCEPT !.ir = B, !.fault = B.fault])
Local(m, L) == Then(m, [m EXCEPT !.locals = L, !.fault = L.fault])

current(m) == m.ir.blocks[m.ir.current_block]

\* push_task for each of ts, in order
push_tasks(m, ts) ==
    Checked(m, Len(m.tasks) + Len(ts) <= MaxTasks, "task stack full",
            [m EXCEPT !.tasks = @ \o ts])

push_task(m, t) == push_tasks(m, <<t>>)

\* What a statement asks of the value its expression leaves behind: a new
\* instruction since ssa_before, and one that has a value.
WithValue_AnyAge(m, ssa_before, next) ==          \* mutant: no newness check
    Checked(m, last_ssa(m.ir) # NULL, "arena not empty",
    Checked(m, ~ has_flag(m.ir.ssas[last_ssa(m.ir)], "no_value"),
            "!val->has_flag(no_value)", next))

WithValue(m, ssa_before, next) ==
    Checked(m, last_ssa(m.ir) # NULL, "arena not empty",
    Checked(m, last_ssa(m.ir) # ssa_before, "val != ssa_before",
    Checked(m, ~ has_flag(m.ir.ssas[last_ssa(m.ir)], "no_value"),
            "!val->has_flag(no_value)", next)))

-----------------------------------------------------------------------------
(***************************************************************************)
(* Expressions.                                                            *)
(***************************************************************************)

\* Where the search for a symbol from block b up its only predecessors ends
Lookup(B, sym, b) ==
    LET from[c \in BlockIds(B)] ==
            IF ~ try_get(B.blocks[c], sym) /\ Len(B.blocks[c].predecessors) = 1
            THEN from[B.blocks[c].predecessors[1]]
            ELSE c
    IN  B.blocks[from[b]]

\* start_phi, push_phi for each value, end_phi
PhiOf(B, values) ==
    LET pushed[k \in 0..Len(values)] ==
            IF k = 0 THEN start_phi(B) ELSE push_phi(pushed[k - 1], values[k])
    IN  end_phi(pushed[Len(values)])

\* A read is a phi of the one definition that reaches it.
ReadIdent(m, sym) ==
    LET found == Lookup(m.ir, sym, m.ir.current_block)
    IN  IF try_get(found, sym) THEN Ir(m, PhiOf(m.ir, <<found.final_values[sym]>>))
        ELSE Checked(m, found.predecessors # <<>>, "undeclared?",
             Checked(m, FALSE, "should have a phi", m))

emit_exp_ident(m, e, mode, ssa_write) ==
    LET sym == resolve(e.name)
    IN  Checked(m, sym # NOT_RESOLVED, "sym != NOT_RESOLVED",
        IF mode = "READ" THEN ReadIdent(m, sym)
        ELSE Checked(m, ssa_write # NULL, "ssa_write != NULL",
             Checked(m, ~ has_flag(m.ir.ssas[ssa_write], "no_value"),
                     "!ssa_write->has_flag(no_value)",
                     Ir(m, add_final_value(m.ir, sym, ssa_write)))))

emit_exp_literal(m, e, mode) ==
    Checked(m, mode = "READ", "mode == READ", Ir(m, literal(m.ir, e.val_u64)))

\* The operands one meets going down left from e, e first, up to the first
\* that is not binary
LeftSpine(e) ==
    LET at[d \in 0..MaxExpDepth] ==
            IF d = 0 THEN e
            ELSE LET above == at[d - 1]
                 IN  IF above.kind = "exp_binary" THEN above.left ELSE NoExp
        leaf == CHOOSE d \in 0..MaxExpDepth :
                    at[d] # NoExp /\ at[d].kind # "exp_binary"
    IN  [d \in 1..leaf + 1 |-> at[d - 1]]

\* Step 0 of a binary expression pushes its step 1 and emits its left operand
\* at once, so one call pushes a task for every binary on the left spine.
emit_exp(m, e, mode, ssa_write) ==
    LET spine  == LeftSpine(e)
        binary == [d \in 1..Len(spine) - 1 |->
                      task("emit_exp_binary", 1, spine[d], last_ssa(m.ir), NULL)]
        leaf   == spine[Len(spine)]
        m1     == IF binary = <<>> THEN m
                  ELSE Checked(m, mode = "READ", "mode == READ", push_tasks(m, binary))
        mode1  == IF binary = <<>> THEN mode ELSE "READ"
    IN  CASE leaf.kind = "exp_ident"   -> Then(m1, emit_exp_ident(m1, leaf, mode1, ssa_write))
          [] leaf.kind = "exp_literal" -> Then(m1, emit_exp_literal(m1, leaf, mode1))
          [] OTHER                     -> m1     \* only a warning

emit_exp_binary_1_Again(m, t) ==                  \* mutant: asks for step 1, not 2
    LET m1 == push_task(m, task("emit_exp_binary", 1, t.node, last_ssa(m.ir), NULL))
    IN  Then(m1, emit_exp(m1, t.node.right, "READ", NULL))

\* Steps 1 and 2: the left operand is out, then the right one.
emit_exp_binary_1(m, t) ==
    LET ssa_left == last_ssa(m.ir)
        m1 == push_task(m, task("emit_exp_binary", 2, t.node, ssa_left, NULL))
    IN  Checked(m, ssa_left # NULL, "arena not empty",
        Checked(m, t.arg1 # ssa_left, "ssa_before != ssa_left",
        Then(m1, emit_exp(m1, t.node.right, "READ", NULL))))

emit_exp_binary_2(m, t) ==
    LET ssa_right == last_ssa(m.ir)
    IN  Checked(m, t.arg1 # ssa_right, "ssa_before != ssa_right",
        CASE t.node.op = "add"    -> Ir(m, add(m.ir, t.arg1, ssa_right))
          [] t.node.op = "equals" -> Ir(m, sub(m.ir, t.arg1, ssa_right))
          [] OTHER                -> m)          \* only a warning

-----------------------------------------------------------------------------
(***************************************************************************)
(* Statements.                                                             *)
(***************************************************************************)

\* Step 0 of assign, local_decl and return: remember the last instruction,
\* come back at step 1 when the expression is out.
EvaluateThen(m, func, s, e) ==
    LET m1 == push_task(m, task(func, 1, s, last_ssa(m.ir), NULL))
    IN  Then(m1, emit_exp(m1, e, "READ", NULL))

emit_stmt_assign_0(m, s) == EvaluateThen(m, "emit_stmt_assign", s, s.right)

emit_stmt_assign_1_Before(m, t) ==                \* mutant: writes the older value
    WithValue(m, t.arg1, emit_exp(m, t.node.left, "WRITE", t.arg1))

emit_stmt_assign_1(m, t) ==
    WithValue(m, t.arg1, emit_exp(m, t.node.left, "WRITE", last_ssa(m.ir)))

emit_stmt_local_decl_0(m, s) ==
    LET m1 == Local(m, new_symbol(m.locals))
    IN  IF s.maybe_expression = NoExp THEN m1
        ELSE Then(m1, EvaluateThen(m1, "emit_stmt_local_decl", s, s.maybe_expression))

emit_stmt_local_decl_1(m, t) ==
    LET sym == resolve(t.node.name)
    IN  WithValue(m, t.arg1,
        Checked(m, sym # NOT_RESOLVED, "sym != NOT_RESOLVED",
                Ir(m, add_final_value(m.ir, sym, last_ssa(m.ir)))))

emit_stmt_return_0(m, s) ==
    IF s.maybe_expression = NoExp THEN Ir(m, ret(m.ir, NULL))
    ELSE EvaluateThen(m, "emit_stmt_return", s, s.maybe_expression)

emit_stmt_return_1_Ends(m, t) ==                  \* mutant: ends the block too
    WithValue(m, t.arg1, Ir(m, end_block(ret(m.ir, last_ssa(m.ir)))))

emit_stmt_return_1(m, t) ==
    WithValue(m, t.arg1, Ir(m, ret(m.ir, last_ssa(m.ir))))

\* Ends the current block with a jump and opens its target in the scope.
JumpInto(m, target, L) ==
    LET m1 == Ir(m, end_block(unconditional_branch(m.ir, target)))
        m2 == Local(m1, L)
    IN  Then(m2, Ir(m2, start_block(m2.ir, target, L.current_scope)))

\* The stack hands out last what was pushed first.
StatementTasks_AsWritten(statements) ==           \* mutant: pushed in source order
    [i \in 1..Len(statements) |-> StatementTask(statements[i])]

StatementTasks(statements) ==
    [i \in 1..Len(statements) |-> StatementTask(Reverse(statements)[i])]

\* A block nested in one that already has instructions gets a block and a
\* scope of its own; otherwise it shares both.
emit_stmt_block_0(m, s) ==
    LET allocated == Ir(m, alloc_block(m.ir))
        entered   == Then(allocated, JumpInto(allocated, last_block(allocated.ir),
                                              new_scope(m.locals)))
        nested    == push_task(entered, task("emit_stmt_block", 1, s, NULL, NULL))
        m1        == IF is_not_empty(m.ir) THEN nested ELSE m
    IN  IF s.statements = <<>> THEN Ir(m, nop(m.ir))
        ELSE push_tasks(m1, StatementTasks(s.statements))

emit_stmt_block_1_Stays(m) == m                   \* mutant: the scope stays open

emit_stmt_block_1(m) == Local(m, end_scope(m.locals))

PairTasks(s, i, merge) ==
    LET after == task("emit_stmt_ifs", STEP_AFTER_CONDITION, s, i, merge)
    IN  IF s.pairs[i].maybe_condition = NoExp THEN <<after>>
        ELSE <<after, ExpressionTask(s.pairs[i].maybe_condition)>>

\* The merge task first, then the pairs from last to first, each under its
\* condition: the stack hands them out in source order.
IfsTasks(s, dominator, merge) ==
    LET pushed[n \in 0..Len(s.pairs)] ==
            IF n = 0 THEN <<task("emit_stmt_ifs", STEP_MERGE, s, dominator, merge)>>
            ELSE pushed[n - 1] \o PairTasks(s, Len(s.pairs) - n + 1, merge)
    IN  pushed[Len(s.pairs)]

emit_stmt_ifs_0(m, s) ==
    LET m1 == Ir(m, alloc_block(m.ir))
    IN  Checked(m, m.ir.current_block # NULL, "current_block != NULL",
        Checked(m, s.pairs # <<>>, "s->count > 0",
        push_tasks(m1, IfsTasks(s, m.ir.current_block, last_block(m1.ir)))))

emit_stmt(m, s) ==
    CASE s.kind = "stmt_assign"     -> emit_stmt_assign_0(m, s)
      [] s.kind = "stmt_block"      -> emit_stmt_block_0(m, s)
      [] s.kind = "stmt_ifs"        -> emit_stmt_ifs_0(m, s)
      [] s.kind = "stmt_local_decl" -> emit_stmt_local_decl_0(m, s)
      [] s.kind = "stmt_nop"        -> Ir(m, nop(m.ir))
      [] s.kind = "stmt_return"     -> emit_stmt_return_0(m, s)
      [] OTHER                      -> m        \* only a warning

\* The else: the block opened for the last condition's false side becomes the
\* arm, in a new scope.
EnterElse(m, t) ==
    LET L  == new_scope(m.locals)
        m1 == Local(m, L)
        m2 == Then(m1, [m1 EXCEPT !.ir.blocks[m.ir.current_block].scope = L.current_scope])
        m3 == push_task(m2, task("emit_stmt_ifs", STEP_AFTER_STATEMENT, t.node, NULL,
                                 t.merge_block))
    IN  Checked(m, t.arg1 = Len(t.node.pairs), "t.arg1.index == s->count - 1",
        Checked(m, ~ is_not_empty(m.ir), "block_empty",
        Then(m3, emit_stmt(m3, t.node.pairs[t.arg1].statement))))

\* A condition: branch on the last instruction and open the true side.
EnterArm(m, t) ==
    LET condition == m.ir.ssas[last_ssa(m.ir)]
        B1 == branch(m.ir, "eq", NULL, NULL)
        L  == new_scope(m.locals)
        m1 == Local(Ir(m, end_block(B1)), L)
        m2 == Then(m1, Ir(m1, start_block(m1.ir, last_block(B1) - 1, L.current_scope)))
        m3 == push_task(m2, task("emit_stmt_ifs", STEP_AFTER_STATEMENT, t.node,
                                 last_block(B1), t.merge_block))
    IN  Checked(m, last_ssa(m.ir) # NULL, "arena not empty",
        Checked(m, ~ has_flag(condition, "no_value"), "!condition->has_flag(no_value)",
        Then(m3, emit_stmt(m3, t.node.pairs[t.arg1].statement))))

emit_stmt_ifs_after_condition(m, t) ==
    IF t.node.pairs[t.arg1].maybe_condition = NoExp THEN EnterElse(m, t)
    ELSE EnterArm(m, t)

\* The end of an arm: a jump to the join unless the arm has returned
LeaveArm_AlwaysJumps(m, t) ==                     \* mutant: even after a return
    Local(Ir(m, end_block(unconditional_branch(m.ir, t.merge_block))),
          end_scope(m.locals))

LeaveArm_JumpsBack(m, t) ==                       \* mutant: to the arm itself
    LET B1 == IF current(m).br = "UNUSED"
              THEN unconditional_branch(m.ir, m.ir.current_block) ELSE m.ir
    IN  Local(Ir(m, end_block(B1)), end_scope(m.locals))

LeaveArm(m, t) ==
    LET B1 == IF current(m).br = "UNUSED"
              THEN unconditional_branch(m.ir, t.merge_block) ELSE m.ir
    IN  Local(Ir(m, end_block(B1)), end_scope(m.locals))

emit_stmt_ifs_after_statement_Stops(m, t) ==      \* mutant: the false side never opens
    LeaveArm(m, t)

\* arg1 is when_false, NULL after an else
emit_stmt_ifs_after_statement(m, t) ==
    LET m1 == LeaveArm(m, t)
    IN  IF t.arg1 = NULL THEN m1
        ELSE Then(m1, Ir(m1, start_block(m1.ir, t.arg1, m1.locals.current_scope)))

-----------------------------------------------------------------------------
(***************************************************************************)
(* The join of an ifs: a phi for every visible symbol its arms set.        *)
(***************************************************************************)
FinalValues(B, blocks, sym) ==
    LET own[k \in 0..Len(blocks)] ==
            IF k = 0 THEN <<>>
            ELSE own[k - 1] \o (IF try_get(B.blocks[blocks[k]], sym)
                                THEN <<B.blocks[blocks[k]].final_values[sym]>> ELSE <<>>)
    IN  own[Len(blocks)]

Fuse(m, sym, values) ==
    LET B == PhiOf(m.ir, values)
    IN  Ir(m, Then(B, add_final_value(B, sym, last_ssa(B))))

\* The values that reach the join: only the predecessors' own final values
\* count, and the dominator's if some predecessor has none.
Reaching_ArmsOnly(B, own, predecessors, dominator, sym) == own      \* mutant

Reaching(B, own, predecessors, dominator, sym) ==
    IF Len(own) = Len(predecessors) THEN own
    ELSE Append(own, B.blocks[dominator].final_values[sym])

FuseSymbol(m, sym, dominator, merge_block) ==
    LET predecessors == m.ir.blocks[merge_block].predecessors
        own     == FinalValues(m.ir, predecessors, sym)
        to_fuse == Reaching(m.ir, own, predecessors, dominator, sym)
    IN  IF own = <<>> THEN m
        ELSE Checked(m, Len(own) = Len(predecessors) \/ try_get(m.ir.blocks[dominator], sym),
                     "dominator->final_values.try_get(sym, &to_fuse)",
             Checked(m, Len(to_fuse) <= MaxFuse, "fuse full", Fuse(m, sym, to_fuse)))

FuseAll(m, symbols, dominator, merge_block) ==
    LET fused[k \in 0..Len(symbols)] ==
            IF k = 0 THEN m
            ELSE LET n == fused[k - 1]
                 IN  Then(n, FuseSymbol(n, symbols[k], dominator, merge_block))
    IN  fused[Len(symbols)]

\* arg1 is dominator
emit_stmt_ifs_merge(m, t) ==
    LET no_else == Local(Ir(m, end_block(unconditional_branch(m.ir, t.merge_block))),
                         end_scope(m.locals))
        m1 == IF m.ir.current_block # NULL THEN no_else ELSE m
        m2 == Then(m1, Ir(m1, start_block(m1.ir, t.merge_block, m1.locals.current_scope)))
        scope == m2.locals.current_scope
    IN  Checked(m2, m2.ir.blocks[t.arg1].scope = scope,
                "dominator->scope == current_scope",
        Checked(m2, m2.ir.blocks[t.merge_block].scope = scope,
                "merge_block->scope == current_scope",
        FuseAll(m2, VisibleSymbols(m2.locals), t.arg1, t.merge_block)))

-----------------------------------------------------------------------------
(***************************************************************************)
(* run_to_suspend: one action per handler and step.                        *)
(***************************************************************************)
Machine == [ir |-> ir, locals |-> locals, tasks |-> tasks, fault |-> fault]
Top     == Last(tasks)
Popped  == [Machine EXCEPT !.tasks = Front(tasks)]

\* The process goes on as m, or ends: then nothing but the message changes.
Become(m) ==
    /\ IF m.fault = NoFault
       THEN ir' = m.ir /\ locals' = m.locals /\ tasks' = m.tasks
       ELSE UNCHANGED <<ir, locals, tasks>>
    /\ fault' = m.fault
    /\ UNCHANGED root

Popping(func, step) ==
    /\ fault = NoFault
    /\ tasks # <<>>
    /\ Top.func = func /\ Top.step = step
    /\ UNCHANGED emitted

EmitStmt   == Popping("emit_stmt", 0) /\ Become(emit_stmt(Popped, Top.node))
EmitExp    == Popping("emit_exp", 0) /\ Become(emit_exp(Popped, Top.node, "READ", NULL))
BinaryRight == Popping("emit_exp_binary", 1) /\ Become(emit_exp_binary_1(Popped, Top))
BinaryDone == Popping("emit_exp_binary", 2) /\ Become(emit_exp_binary_2(Popped, Top))
AssignDone == Popping("emit_stmt_assign", 1) /\ Become(emit_stmt_assign_1(Popped, Top))
DeclDone   == Popping("emit_stmt_local_decl", 1) /\ Become(emit_stmt_local_decl_1(Popped, Top))
ReturnDone == Popping("emit_stmt_return", 1) /\ Become(emit_stmt_return_1(Popped, Top))
BlockDone  == Popping("emit_stmt_block", 1) /\ Become(emit_stmt_block_1(Popped))
IfsAfterCondition ==
    Popping("emit_stmt_ifs", STEP_AFTER_CONDITION)
        /\ Become(emit_stmt_ifs_after_condition(Popped, Top))
IfsAfterStatement ==
    Popping("emit_stmt_ifs", STEP_AFTER_STATEMENT)
        /\ Become(emit_stmt_ifs_after_statement(Popped, Top))
IfsMerge ==
    Popping("emit_stmt_ifs", STEP_MERGE) /\ Become(emit_stmt_ifs_merge(Popped, Top))

\* The task stack is empty: the last block returns if it does not already.
EndEmit ==
    LET B == IF current(Machine).br = "UNUSED" THEN ret(ir, NULL) ELSE ir
    IN  /\ fault = NoFault /\ tasks = <<>> /\ ~ emitted
        /\ IF ir.current_block # NULL THEN Become(Ir(Machine, end_block(B)))
           ELSE Become(Machine)
        /\ emitted' = TRUE

EmitNext == \/ EmitStmt \/ EmitExp \/ BinaryRight \/ BinaryDone
            \/ AssignDone \/ DeclDone \/ ReturnDone \/ BlockDone
            \/ IfsAfterCondition \/ IfsAfterStatement \/ IfsMerge \/ EndEmit

Halted == fault # NoFault \/ emitted
Exited == Halted /\ UNCHANGED vars

Next == EmitNext \/ Exited

\* The caller has opened the entry block in the root scope.
Init ==
    /\ root \in Programs
    /\ locals = NewSymbolTable
    /\ ir = start_block(alloc_block(NewBuilder), 1, NewSymbolTable.current_scope)
    /\ tasks = <<StatementTask(root)>>
    /\ fault = NoFault
    /\ emitted = FALSE

Spec == Init /\ [][Next]_vars

-----------------------------------------------------------------------------
(***************************************************************************)
(* Properties.                                                             *)
(***************************************************************************)
Blocks == BlockIds(ir)
Ssas   == SsaIds(ir)

Is(t, func, step) == t.func = func /\ t.step = step
Merging(t)        == Is(t, "emit_stmt_ifs", STEP_MERGE)
ClosesArm(t)      == Is(t, "emit_stmt_ifs", STEP_AFTER_STATEMENT)
ClosesScope(t)    == ClosesArm(t) \/ Is(t, "emit_stmt_block", 1)

\* The pending tasks that satisfy P, by their place on the stack
Pending(P(_)) == {k \in 1..Len(tasks) : P(tasks[k])}

\* The assertions that stop a program which is not supported or too large
Refusals ==
    {"Arena reached max capacity", "Attempt to add duplicate key", "next < max",
     "task stack full", "is_not_empty", "current_block->br == block_br::UNUSED",
     "arena not empty", "val != ssa_before", "!val->has_flag(no_value)",
     "undeclared?", "should have a phi", "sym != NOT_RESOLVED", "mode == READ",
     "ssa_before != ssa_left", "ssa_before != ssa_right",
     "t.arg1.index == s->count - 1", "!condition->has_flag(no_value)",
     "dominator->final_values.try_get(sym, &to_fuse)",
     "dominator->scope == current_scope"}

\* The assertions that guard against the compiler's own mistakes
InternalAsserts ==
    {"block != NULL", "current_block == NULL", "current_block != NULL",
     "current_block->br != block_br::UNUSED", "phi_start == NULL", "phi_start != NULL",
     "size > 0", "current_scope->parent != NULL", "ssa_write != NULL",
     "!ssa_write->has_flag(no_value)", "s->count > 0", "block_empty",
     "merge_block->scope == current_scope", "fuse full",
     "block->block_true == NULL", "block->block_false == NULL"}

\* The machine's data have their types and its pointers stay in the arenas.
TypeOK ==
    /\ ir \in builder /\ PointersInBounds(ir)
    /\ locals \in symbol_table
    /\ locals.current_scope \in 1..Len(locals.scopes)
    /\ Len(tasks) <= MaxTasks
    /\ \A k \in 1..Len(tasks) :
          tasks[k].merge_block \in 0..Len(ir.blocks) /\ tasks[k].arg1 \in Nat
    /\ fault \in Refusals \cup InternalAsserts \cup {NoFault}
    /\ emitted \in BOOLEAN

\* The emitter never breaks what the builder promises: exact ranges, one open
\* block, phi lists that do not overlap; and it never uses end_block(next),
\* so its edges agree in both directions, each recorded once.
IrSound ==
    /\ BlocksOwnTheirRange(ir) /\ OneOpenBlock(ir) /\ PhisOwnTheirSlice(ir)
    /\ PredecessorsBranchHere(ir)
    /\ \A p \in Blocks : \A b \in Targets(ir.blocks[p]) :
          LET from(k) == ir.blocks[b].predecessors[k] = p
          IN  Cardinality({k \in 1..Len(ir.blocks[b].predecessors) : from(k)}) = 1

\* Every scope opened for an arm or a nested block has one pending task that
\* will close it: the stack never pops a scope too few or too many.
ScopesBalance ==
    Depth(locals) = 1 + Cardinality(Pending(ClosesScope))

\* A block that was allocated and not started waits in exactly one pending
\* task, which starts it, and no task waits for a started block: start_block,
\* which checks neither, never reopens a block nor forgets one.
EveryTargetPending ==
    \A b \in Blocks :
        LET Opens(t) == \/ Merging(t) /\ t.merge_block = b
                        \/ ClosesArm(t) /\ t.arg1 = b
        IN  Cardinality(Pending(Opens)) = IF Started(ir.blocks[b]) THEN 0 ELSE 1

\* Only between an else, which has closed its arm, and the merge is no block
\* open: every other handler uses current_block without a test.
OpenBlockBetweenTasks ==
    ir.current_block = NULL => emitted \/ (tasks # <<>> /\ Merging(Top))

\* A final value was computed in its own block and carries a value: the merge
\* and the walk up the predecessors take it as defined on that path.
FinalValuesAreLocal ==
    \A b \in Blocks, sym \in Symbols : try_get(ir.blocks[b], sym) =>
        LET v == ir.blocks[b].final_values[sym]
        IN  v \in Ssas /\ ir.ssas[v].block = b /\ ~ has_flag(ir.ssas[v], "no_value")

\* The operands of an instruction are older instructions of the same block
\* that have a value: the interpreter's default of -1 is never used.
OperandsAreLocal ==
    \A s \in Ssas :
        LET i == ir.ssas[s]
            operands == CASE i.op \in {"add", "sub"} -> {i.left, i.right}
                          [] i.op = "ret" -> {i.left} \ {NULL}
                          [] OTHER -> {}
        IN  \A o \in operands : /\ o \in 1..s - 1
                                /\ ir.ssas[o].block = i.block
                                /\ ~ has_flag(ir.ssas[o], "no_value")

\* The blocks control can reach from the entry without entering any of Avoid
ReachableAvoiding(Avoid) ==
    LET reach[n \in 0..Len(ir.blocks)] ==
            IF n = 0 THEN {1} \ Avoid
            ELSE LET nearer == reach[n - 1]
                 IN  nearer \cup ((UNION {Targets(ir.blocks[p]) : p \in nearer}) \ Avoid)
    IN  reach[Len(ir.blocks)]

\* In finished code, every path from the entry to a phi has executed one of
\* its arguments: the interpreter's assert(found_phi) cannot fail.
PhiAlwaysFindsOne ==
    emitted /\ fault = NoFault =>
        \A s \in Phis(ir) :
            LET args == {ir.phi_lists[k] : k \in PhiSlice(ir, s)}
            IN  \/ \E a \in args : ir.ssas[a].block = ir.ssas[s].block
                \/ ir.ssas[s].block \notin
                       ReachableAvoiding({ir.ssas[a].block : a \in args})

\* The assertions that guard against the compiler's own mistakes, and not
\* against a program it does not support, never fail.
InternalAssertsHold == fault \notin InternalAsserts

\* A block that has been left never changes, and a block that has been entered
\* gets no new predecessor: what a merge or a read saw of it stays true.
LeftBlocksFrozen ==
    [][\A b \in Blocks :
          /\ Ended(ir.blocks[b]) => ir'.blocks[b] = ir.blocks[b]
          /\ Started(ir.blocks[b]) =>
                ir'.blocks[b].predecessors = ir.blocks[b].predecessors]_vars

=============================================================================
