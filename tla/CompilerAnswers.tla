--------------------------- MODULE CompilerAnswers --------------------------
(***************************************************************************)
(* What the program answers for a tree, compared with what the tree means. *)
(***************************************************************************)
EXTENDS Compiler, SourceSemantics

ValueReturned == IF ctx.return_value = NULL THEN Nothing
                 ELSE ssa_values[ctx.return_value]

Outcome == CASE fault # NoFault -> [kind |-> "aborted"]
             [] Finished        -> [kind |-> "returned", value |-> ValueReturned]
             [] OTHER           -> [kind |-> "running"]

Answers == INSTANCE Evaluation WITH outcome <- Outcome

\* The whole program refines Evaluation: it stops on an assertion, or what it
\* returns is the meaning of the tree.
AnswersAreRight == Answers!Spec

=============================================================================
