------------------------------ MODULE PowerLoss ------------------------------
(***************************************************************************)
(* The file store on a machine that loses power.  writeFileAtomic closes   *)
(* the temp file and renames it without fsync, so until the kernel has     *)
(* written the data back, the new name may be on disk without its data.    *)
(* (That a rename itself may be lost is left out: it only takes a file     *)
(* back to what was there before.)                                         *)
(***************************************************************************)
EXTENDS FileStore

VARIABLE unsynced   \* the final files whose data is in the page cache only

vars == <<storeVars, unsynced>>

InitPower == Init /\ unsynced = {}

\* A step of the store: what it renames into place has not been synced.
StoreStep ==
    /\ Next
    /\ unsynced' = unsynced \cup
            {<<tmp[w].kind, tmp[w].serial>> : w \in {v \in Clients : RenameTemp(v)}}

\* The kernel writes the data of a file back.
Writeback(n) ==
    /\ n \in unsynced
    /\ unsynced' = unsynced \ {n}
    /\ UNCHANGED storeVars

\* The machine stops: as a crash, and any data not written back may be lost.
LosePower ==
    \E lost \in SUBSET unsynced :
        /\ file' = [k \in Kinds |-> [s \in Serials |->
                        IF <<k, s>> \in lost THEN Torn ELSE file[k][s]]]
        /\ tmp' = [w \in Clients |-> None]
        /\ job' = [w \in Clients |-> None]
        /\ ret' = [w \in Clients |-> "idle"]
        /\ litter' = litter \cup
                {<<tmp[w].kind, tmp[w].serial>> : w \in {v \in Clients : tmp[v] # None}}
        /\ unsynced' = {}

NextPower == StoreStep \/ LosePower \/ \E n \in unsynced : Writeback(n)

SpecPower == InitPower /\ [][NextPower]_vars

\* file.go 20-22: a crash never leaves a partially written certificate or CSR
\* file in place, a crash of the machine included.
NoTornRecord ==
    \A k \in {"csr", "cert"}, s \in Serials : file[k][s] # Torn
=============================================================================
