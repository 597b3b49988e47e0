----------------------------- MODULE MC_EJBCACA -----------------------------
(* Calls to one EJBCA.                                                     *)
EXTENDS EJBCACA

\* Two CSRs whose signatures verify, and one whose does not.
MCCSRs == {[key |-> 1, pop |-> TRUE], [key |-> 2, pop |-> TRUE], [key |-> 1, pop |-> FALSE]}
=============================================================================
