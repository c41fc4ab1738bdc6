---------------------------- MODULE MCFindings ------------------------------
(***************************************************************************)
(* Trees on which the program does not do what a comment or an assertion   *)
(* of it says.  Each set of trees is checked against one statement.        *)
(***************************************************************************)
EXTENDS CompilerAnswers

X == ident("x")
Lit(n) == literal_exp(n)
DeclX == local_decl("x", Lit(1))
SetX(n) == assign(X, Lit(n))
IfElse(a, b) == ifs(<<if_pair(Lit(0), a), else_pair(b)>>)
Main(s) == block(<<DeclX, s, return_stmt(X)>>)

NoElse     == {Main(ifs(<<if_pair(Lit(0), SetX(2))>>))}
LostUpdate == {Main(IfElse(block(<<SetX(2), block(<<nop_stmt>>)>>), SetX(3)))}
NotSet     == {Main(IfElse(nop_stmt, nop_stmt))}
ElseInside == {Main(ifs(<<if_pair(Lit(1), SetX(2)), else_pair(SetX(3)),
                          if_pair(Lit(0), SetX(4))>>))}
AfterBlock == {block(<<DeclX, block(<<nop_stmt>>), IfElse(SetX(2), SetX(3)),
                       return_stmt(X)>>)}

TreeStmts == AllStmts(Programs)
TreeExps  == AllExps(Programs, MaxExpDepth)

-----------------------------------------------------------------------------
\* ir-emit.cpp:323 closes an ifs that has "no else": such an ifs compiles.
IfWithoutElseCompiles == root \in NoElse => fault = NoFault

\* interp.cpp:85 takes the first argument that has a value because "phi is
\* ordered. the first one is the correct one": the value returned is the one
\* the source assigned last.
FirstPhiArgumentIsCorrect == Finished => ValueReturned = Meaning(root)

\* ir-emit.cpp:587: a block with several predecessors "should have a phi" for
\* a variable that is set and read.
JoinsHaveAPhi == fault # "should have a phi"

\* ir-emit.cpp:253 asserts that a pair without condition is the last, of trees
\* that push_if let through.
ElseIsLast ==
    (\A i \in 1..Len(root.statements) :
        root.statements[i].kind = "stmt_ifs" => PushIfAccepts(root.statements[i].pairs))
    => fault # "t.arg1.index == s->count - 1"

\* ir-emit.cpp:335 asserts that the block before an ifs and the one after it
\* are in the same scope.
DominatorInScope == fault # "dominator->scope == current_scope"

=============================================================================
