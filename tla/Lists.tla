-------------------------------- MODULE Lists --------------------------------
(***************************************************************************)
(* What estd and the packages it uses do to a list, whatever is in it.     *)
(***************************************************************************)
EXTENDS Integers, Sequences, SequencesExt

\* The entries of list that are not in dropped, in order.
Without(list, dropped) ==
    FlattenSeq([i \in DOMAIN list |-> IF list[i] \in dropped THEN <<>> ELSE <<list[i]>>])
=============================================================================
