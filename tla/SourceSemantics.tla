-------------------------- MODULE SourceSemantics ---------------------------
(***************************************************************************)
(* What a tree means, read off its shape: the reference the compiler is    *)
(* compared with.  Values are unsigned integers of width 2^w = Modulus.  A *)
(* comparison holds when its operands are equal; as a value it is their    *)
(* difference, and any other condition holds when its value is 0, as the   *)
(* branch on eq and the lowering to sub have it.                           *)
(* For trees where a name has one declaration, and operators the emitter   *)
(* lowers.                                                                 *)
(***************************************************************************)
EXTENDS Ast, Integers, SequencesExt, Word

Nothing == -1         \* no value: a return without one, a name without one

RECURSIVE Value(_, _)
Value(e, env) ==
    CASE e.kind = "exp_literal" -> e.val_u64 % Modulus
      [] e.kind = "exp_ident"   -> env[e.name]
      [] e.op = "add"    -> (Value(e.left, env) + Value(e.right, env)) % Modulus
      [] e.op = "equals" -> (Value(e.left, env) - Value(e.right, env)) % Modulus

HoldsIn(c, env) ==
    IF c.kind = "exp_binary" /\ c.op = "equals" THEN Value(c.left, env) = Value(c.right, env)
    ELSE Value(c, env) = 0

\* The first pair whose condition holds, or the else; 0 if there is none
Taken(pairs, env) ==
    LET taken == {i \in 1..Len(pairs) : \/ pairs[i].maybe_condition = NoExp
                                        \/ HoldsIn(pairs[i].maybe_condition, env)}
    IN  IF taken = {} THEN 0 ELSE CHOOSE i \in taken : \A j \in taken : i <= j

\* A run is [env, returned, value]; after a return nothing more happens.
RECURSIVE Execute(_, _)
Execute(run, s) ==
    IF run.returned THEN run
    ELSE CASE s.kind = "stmt_assign" ->
                 [run EXCEPT !.env[s.left.name] = Value(s.right, run.env)]
           [] s.kind = "stmt_local_decl" ->
                 IF s.maybe_expression = NoExp THEN run
                 ELSE [run EXCEPT !.env[s.name] = Value(s.maybe_expression, run.env)]
           [] s.kind = "stmt_return" ->
                 [run EXCEPT !.returned = TRUE,
                             !.value = IF s.maybe_expression = NoExp THEN Nothing
                                       ELSE Value(s.maybe_expression, run.env)]
           [] s.kind = "stmt_block" -> FoldLeft(Execute, run, s.statements)
           [] s.kind = "stmt_ifs" ->
                 LET i == Taken(s.pairs, run.env)
                 IN  IF i = 0 THEN run ELSE Execute(run, s.pairs[i].statement)
           [] OTHER -> run

\* The value the program returns
Meaning(root) ==
    Execute([env |-> [name \in {"x", "y"} |-> Nothing], returned |-> FALSE,
         value |-> Nothing], root).value

-----------------------------------------------------------------------------
(***************************************************************************)
(* The order in which a tree's own instructions must come out: operands    *)
(* before their operator, conditions before their arms, statements as      *)
(* written.  Phis are left out: they stand for reads and joins.            *)
(***************************************************************************)
Instr(op_, val) == [op |-> op_, val |-> val]

RECURSIVE ExpOrder(_)
ExpOrder(e) ==
    CASE e.kind = "exp_literal" -> <<Instr("i", e.val_u64)>>
      [] e.kind = "exp_binary"  ->
            ExpOrder(e.left) \o ExpOrder(e.right) \o
            (CASE e.op = "add"    -> <<Instr("add", 0)>>
               [] e.op = "equals" -> <<Instr("sub", 0)>>
               [] OTHER           -> <<>>)
      [] OTHER -> <<>>

RECURSIVE StmtOrder(_)
StmtOrder(s) ==
    CASE s.kind = "stmt_assign"     -> ExpOrder(s.right)
      [] s.kind = "stmt_local_decl" -> ExpOrder(s.maybe_expression)
      [] s.kind = "stmt_return"     -> ExpOrder(s.maybe_expression) \o <<Instr("ret", 0)>>
      [] s.kind = "stmt_nop"        -> <<Instr("nop", 0)>>
      [] s.kind = "stmt_block"      ->
            FlattenSeq([i \in 1..Len(s.statements) |-> StmtOrder(s.statements[i])])
      [] s.kind = "stmt_ifs"        ->
            FlattenSeq([i \in 1..Len(s.pairs) |-> ExpOrder(s.pairs[i].maybe_condition)
                                                  \o StmtOrder(s.pairs[i].statement)])
      [] OTHER -> <<>>

-----------------------------------------------------------------------------
(***************************************************************************)
(* The nodes of a tree.                                                    *)
(***************************************************************************)
RECURSIVE ExpsIn(_)
ExpsIn(e) == {e} \cup IF e.kind = "exp_binary" THEN ExpsIn(e.left) \cup ExpsIn(e.right) ELSE {}

RECURSIVE ExpDepth(_)
ExpDepth(e) == IF e.kind # "exp_binary" THEN 0
               ELSE LET l == ExpDepth(e.left) r == ExpDepth(e.right)
                    IN  1 + IF l > r THEN l ELSE r

RECURSIVE StmtsIn(_)
StmtsIn(s) ==
    {s} \cup CASE s.kind = "stmt_block" -> UNION {StmtsIn(t) : t \in Range(s.statements)}
               [] s.kind = "stmt_ifs"   -> UNION {StmtsIn(p.statement) : p \in Range(s.pairs)}
               [] OTHER                 -> {}

\* The expressions of one statement
ExpsOf(s) ==
    UNION {ExpsIn(e) : e \in
        CASE s.kind = "stmt_assign" -> {s.left, s.right}
          [] s.kind \in {"stmt_local_decl", "stmt_return"} -> {s.maybe_expression}
          [] s.kind = "stmt_ifs" -> {p.maybe_condition : p \in Range(s.pairs)}
          [] OTHER -> {}} \ {NoExp}

AllStmts(programs) == UNION {StmtsIn(p) : p \in programs}
AllExps(programs, depth) ==
    LET exps == UNION {ExpsOf(s) : s \in AllStmts(programs)}
    IN  [d \in 0..depth |-> {e \in exps : ExpDepth(e) <= d}]

=============================================================================
