----------------------------- MODULE TreeBuilder -----------------------------
(***************************************************************************)
(* What ast::builder promises: expressions and statements are trees, made  *)
(* of trees made before and never changed; the blocks and if-chains under  *)
(* construction nest, and each gets what is pushed while it is innermost.  *)
(* It stops when misused, or for lack of room at any time.                 *)
(***************************************************************************)
EXTENDS Ast, SequencesExt

CONSTANTS Names, Literals

VARIABLES exps, stmts,              \* the trees made, in order
          open_blocks, open_ifs,    \* the lists under construction, innermost last
          stopped

Init == /\ exps = <<>> /\ stmts = <<>>
        /\ open_blocks = <<>> /\ open_ifs = <<>>
        /\ stopped = FALSE

AnExp     == Range(exps)
MaybeExp  == AnExp \cup {NoExp}
AStmt     == Range(stmts)
NamesMade == {n \in Names : ident(n) \in AnExp}

Exp == /\ \/ \E v \in Literals : exps' = Append(exps, literal_exp(v))
          \/ \E n \in Names : exps' = Append(exps, ident(n))
          \/ \E l, r \in AnExp, o \in op : exps' = Append(exps, binary_exp(l, o, r))
          \/ \E e \in AnExp : exps' = Append(exps, DBG_exp(e))
       /\ UNCHANGED <<stmts, open_blocks, open_ifs, stopped>>

Stmt == /\ \/ \E l, r \in MaybeExp : stmts' = Append(stmts, assign(l, r))
           \/ \E n \in NamesMade, e \in MaybeExp : stmts' = Append(stmts, local_decl(n, e))
           \/ stmts' = Append(stmts, nop_stmt)
           \/ \E e \in MaybeExp : stmts' = Append(stmts, return_stmt(e))
           \/ \E s \in AStmt : stmts' = Append(stmts, DBG_stmt(s))
        /\ UNCHANGED <<exps, open_blocks, open_ifs, stopped>>

StartBlock == open_blocks' = Append(open_blocks, <<>>) /\ UNCHANGED <<exps, stmts, open_ifs, stopped>>

PushBlockStmt == /\ open_blocks # <<>>
                 /\ \E s \in AStmt : open_blocks' = Front(open_blocks) \o <<Append(Last(open_blocks), s)>>
                 /\ UNCHANGED <<exps, stmts, open_ifs, stopped>>

EndBlock == /\ open_blocks # <<>> /\ Last(open_blocks) # <<>>
            /\ stmts' = Append(stmts, block(Last(open_blocks)))
            /\ open_blocks' = Front(open_blocks)
            /\ UNCHANGED <<exps, open_ifs, stopped>>

StartIfs == open_ifs' = Append(open_ifs, <<>>) /\ UNCHANGED <<exps, stmts, open_blocks, stopped>>

PushIf == /\ open_ifs # <<>>
          /\ \E c \in MaybeExp, s \in AStmt :
                LET pairs == Append(Last(open_ifs), if_pair(c, s))
                IN  PushIfAccepts(pairs) /\ open_ifs' = Front(open_ifs) \o <<pairs>>
          /\ UNCHANGED <<exps, stmts, open_blocks, stopped>>

EndIfs == /\ open_ifs # <<>> /\ Last(open_ifs) # <<>>
          /\ stmts' = Append(stmts, ifs(Last(open_ifs)))
          /\ open_ifs' = Front(open_ifs)
          /\ UNCHANGED <<exps, open_blocks, stopped>>

Stop == stopped' = TRUE /\ UNCHANGED <<exps, stmts, open_blocks, open_ifs>>

Next == /\ ~ stopped
        /\ \/ Stop \/ StartBlock \/ StartIfs \/ EndBlock \/ EndIfs
           \/ PushBlockStmt \/ PushIf \/ Stmt \/ Exp

Spec == Init /\ [][Next]_<<exps, stmts, open_blocks, open_ifs, stopped>>

=============================================================================
