---------------------------- MODULE MCAstBuilder -----------------------------
(***************************************************************************)
(* AstBuilder for TLC: arenas small enough to run out, a bound on what a   *)
(* client has made and has under way, and a client that passes on the last *)
(* expression, and one of the last two statements, that it was given.      *)
(***************************************************************************)
EXTENDS AstBuilder

CONSTANT MaxWork

Started(stack) ==
    stack.count + Len(FlattenSeq(SubSeq(stack.slots, 1, stack.count)))

Bounded == Len(statements) + Len(expressions) + Len(ptr_lists)
              + Started(ip_blocks) + Started(ip_ifs) <= MaxWork

LastExp   == {NULL, Len(expressions)}
LastIdent == LastExp \cap MaybeIdent
LastStmts == {NULL} \cup {s \in Stmts : Cardinality({t \in Stmts : t > s}) < 2}

Leaves == \/ \E e \in LastExp : Assign(Len(expressions), e)
          \/ \E t, n \in LastIdent, e \in LastExp : LocalDecl(t, n, e)
          \/ \E e \in LastExp : ReturnStmt(e) \/ DBGExp(e)
          \/ \E l \in LastExp, o \in {"add", "UNUSED"} : BinaryExp(l, o, Len(expressions))
          \/ \E n \in Names : Ident(n)
          \/ \E v \in Literals : Literal(v)

Lists == \/ StartBlock \/ EndBlock \/ StartIfs \/ EndIfs \/ Nop \/ Exited
         \/ \E s \in LastStmts : PushBlockStmt(s) \/ DBGStmt(s)
         \/ \E s \in LastStmts, e \in LastExp : PushIf(e, s)

\* All expressions, and at most one statement with some, come first.
MCNext == \/ Started(ip_blocks) + Started(ip_ifs) + Len(statements) = 0 /\ Leaves
          \/ Lists

MCSpec == Init /\ [][MCNext]_vars

=============================================================================
