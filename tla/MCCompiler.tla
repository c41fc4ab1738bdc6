----------------------------- MODULE MCCompiler -----------------------------
(***************************************************************************)
(* Compiler for TLC, on the shape of the program in entry/test.cpp:60-109: *)
(* a declaration, statements and ifs, a return.  The arms of an ifs hold   *)
(* straight-line code or one ifs: what an arm sets before an inner block   *)
(* is lost at the join (run lost_update).                                  *)
(***************************************************************************)
EXTENDS CompilerAnswers

X == ident("x")
Y == ident("y")
Lit(n) == literal_exp(n)
XPlus(n) == binary_exp(X, "add", Lit(n))
XIs(n)   == binary_exp(X, "equals", Lit(n))

\* (3 + 2) == n, the shape of the conditions in the test
SumIs(n) == binary_exp(binary_exp(Lit(3), "add", Lit(2)), "equals", Lit(n))

DeclX  == local_decl("x", Lit(1))
Inner(a, b) == ifs(<<if_pair(XIs(1), a), else_pair(b)>>)

\* Arms that leave x set, and arms that do not
Setting == {assign(X, XPlus(3)), block(<<nop_stmt, assign(X, Lit(4))>>),
            block(<<assign(Y, XPlus(15)), assign(X, Y)>>),
            Inner(assign(X, Lit(5)), assign(X, XPlus(6)))}
Leaving == {nop_stmt, return_stmt(XPlus(9)), assign(Y, Lit(2)),
            block(<<nop_stmt, return_stmt(X)>>)}

Conditions == {SumIs(5), SumIs(6), XIs(1), Lit(0), X}

TwoArms(a, b) == {ifs(<<if_pair(c, a), else_pair(b)>>) : c \in Conditions}
ThreeArms(a, b, d) == {ifs(<<if_pair(SumIs(6), a), if_pair(c, b), else_pair(d)>>) :
                          c \in {SumIs(5), XIs(0)}}

\* Some arm sets x, so the join has a phi for it
Joining == UNION {TwoArms(a, b) : a \in Setting, b \in Setting \cup Leaving}
           \cup UNION {TwoArms(b, a) : a \in Setting, b \in Leaving}
           \cup UNION {ThreeArms(a, b, d) : a, d \in Setting \cup {nop_stmt},
                                            b \in Setting}

\* The test's shape: these compile and run to their return.
Supported == {block(<<DeclX, i, return_stmt(e)>>) : i \in Joining, e \in {X, XPlus(1)}}

\* Around that shape, where the emitter may refuse
Others == {block(<<DeclX, i, j, return_stmt(X)>>) :
              i \in {Inner(assign(X, Lit(4)), nop_stmt), Inner(nop_stmt, return_stmt(X)),
                     Inner(return_stmt(X), return_stmt(Lit(3))), assign(Y, XPlus(2))},
              j \in {Inner(assign(X, XPlus(1)), assign(X, Lit(0))), assign(Y, X),
                     Inner(nop_stmt, assign(X, Y)), block(<<assign(Y, X), return_stmt(Y)>>)}}
          \cup {block(<<DeclX, Inner(a, assign(Y, X)), return_stmt(Lit(2))>>) :
                   a \in {nop_stmt, assign(X, Lit(4))}}
          \cup {block(<<DeclX, return_stmt(X), assign(Y, X)>>), DeclX,
                block(<<DeclX, block(<<local_decl("y", XPlus(1)), return_stmt(Y)>>)>>)}

\* y declared first, which makes it the symbol that resolve takes for x, and
\* the other way round: joins make phis for the symbols in scope.
YFirst == {block(<<local_decl("y", Lit(2)), i, return_stmt(Y)>>) :
              i \in {assign(Y, Lit(3)), Inner(assign(Y, Lit(4)), assign(Y, Lit(5))), nop_stmt,
                     block(<<DeclX, Inner(assign(X, Lit(4)), assign(Y, X))>>)}}
          \cup {block(<<local_decl("y", Lit(2)), DeclX, i, return_stmt(e)>>) :
                   i \in {Inner(assign(X, Lit(4)), assign(Y, XPlus(2))),
                          ifs(<<if_pair(Lit(0), assign(Y, Lit(6))), else_pair(nop_stmt)>>)},
                   e \in {X, Y}}

Trees == Supported \cup Others \cup YFirst

TreeStmts == AllStmts(Programs)
TreeExps  == AllExps(Programs, MaxExpDepth)

-----------------------------------------------------------------------------
\* Trees of the shape of the repository's test are never refused: together
\* with AnswersAreRight, they return their meaning.
SupportedNeverAborts == root \in Supported => fault = NoFault

=============================================================================
