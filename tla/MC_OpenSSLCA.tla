---------------------------- MODULE MC_OpenSSLCA ----------------------------
(* Three calls on one CA directory, and one death of estd.                 *)
EXTENDS OpenSSLCA, TLC

\* Two CSRs whose signatures verify, and one whose does not.
MCCSRs == {[key |-> 1, pop |-> TRUE], [key |-> 2, pop |-> TRUE], [key |-> 1, pop |-> FALSE]}

\* For the liveness run, one of each kind.
LiveCSRs == {[key |-> 1, pop |-> TRUE], [key |-> 1, pop |-> FALSE]}

Symmetry == Permutations(Calls)
=============================================================================
