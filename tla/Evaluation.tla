----------------------------- MODULE Evaluation -----------------------------
(***************************************************************************)
(* What the whole program promises of a tree: one answer, the tree's       *)
(* meaning, or none because it stopped on an assertion.                    *)
(***************************************************************************)
EXTENDS SourceSemantics

CONSTANT Programs

VARIABLES root, outcome

running     == [kind |-> "running"]
aborted     == [kind |-> "aborted"]
returned(v) == [kind |-> "returned", value |-> v]

Init == root \in Programs /\ outcome = running

Answer == outcome = running /\ outcome' = returned(Meaning(root)) /\ UNCHANGED root
Abort  == outcome = running /\ outcome' = aborted /\ UNCHANGED root

Spec == Init /\ [][Answer \/ Abort]_<<root, outcome>>

=============================================================================
