-------------------------------- MODULE Ast ---------------------------------
(***************************************************************************)
(* The trees ast::builder makes (ast.hpp, ast-builder.hpp), one operator   *)
(* per constructor.  A tree is a value here: nothing changes a node once   *)
(* it is built, except that a node of kind "UNUSED" was never told what    *)
(* it is (DBG_exp and DBG_stmt set no kind).                               *)
(***************************************************************************)
EXTENDS Naturals, Sequences

op == {"add", "sub", "mul", "div", "equals", "boolean_not"}

NoExp == [kind |-> "NULL"]      \* maybe_expression, maybe_condition == NULL

literal_exp(val)            == [kind |-> "exp_literal", val_u64 |-> val]
ident(name)                 == [kind |-> "exp_ident", name |-> name]
binary_exp(left, o, right)  == [kind |-> "exp_binary", left |-> left, op |-> o,
                                right |-> right]
DBG_exp(expression)         == [kind |-> "UNUSED", expression |-> expression]

assign(left, right)         == [kind |-> "stmt_assign", left |-> left, right |-> right]
local_decl(name, exp)       == [kind |-> "stmt_local_decl", name |-> name,
                                maybe_expression |-> exp]
nop_stmt                    == [kind |-> "stmt_nop"]
return_stmt(exp)            == [kind |-> "stmt_return", maybe_expression |-> exp]
DBG_stmt(statement)         == [kind |-> "UNUSED", statement |-> statement]

\* start_block, push_block_stmt for each statement, end_block
block(statements)           == [kind |-> "stmt_block", statements |-> statements]

\* start_ifs, push_if or push_else for each pair, end_ifs
if_pair(condition, statement) == [maybe_condition |-> condition,
                                  statement |-> statement]
else_pair(statement)        == if_pair(NoExp, statement)
ifs(pairs)                  == [kind |-> "stmt_ifs", pairs |-> pairs]

\* What push_if lets through: not an else first, not an else after an else
PushIfAccepts(pairs) ==
    \A i \in 1..Len(pairs) : pairs[i].maybe_condition = NoExp =>
        i > 1 /\ pairs[i - 1].maybe_condition # NoExp

=============================================================================
