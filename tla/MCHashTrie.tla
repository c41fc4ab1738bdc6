----------------------------- MODULE MCHashTrie -----------------------------
(***************************************************************************)
(* HashTrie for TLC: hashes of three bytes of two values.  k1 and k2 part  *)
(* at the last byte, k3 at the second; k4's hash is k1's.                  *)
(***************************************************************************)
EXTENDS HashTrie

CONSTANTS k1, k2, k3, k4

Hash(a, b, c) == [d \in 0..2 |-> CASE d = 0 -> a [] d = 1 -> b [] d = 2 -> c]

AllHashes == [k \in {k1, k2, k3, k4} |->
                 CASE k \in {k1, k4} -> Hash(0, 0, 0)
                   [] k = k2         -> Hash(0, 0, 1)
                   [] k = k3         -> Hash(0, 1, 0)]

=============================================================================
