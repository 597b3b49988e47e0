---------------------------- MODULE MC_FileStore ----------------------------
(* The store on its own, with clients that share serial numbers.           *)
EXTENDS FileStore, TLC

\* Clients, serials and contents are interchangeable.
Symmetry == Permutations(Clients) \cup Permutations(Serials) \cup Permutations(Data)
=============================================================================
