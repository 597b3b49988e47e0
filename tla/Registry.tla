------------------------------- MODULE Registry -------------------------------
(***************************************************************************)
(* What estd promises to whoever reads its store: each serial number       *)
(* belongs to one enrolment request for good, a request owns at most one,  *)
(* a request is granted only when it owns one, and refused only when it    *)
(* owns none.  A request that fails may own one: its certificate exists    *)
(* although its client was told otherwise, or nothing at all.              *)
(***************************************************************************)
CONSTANTS Requests, Serials, None

VARIABLES owner,     \* owner[s]: the request certificate s was issued to, or None
          outcome    \* outcome[r]: what has become of the request

vars == <<owner, outcome>>

Init ==
    /\ owner = [s \in Serials |-> None]
    /\ outcome = [r \in Requests |-> "pending"]

Owns(r) == \E s \in Serials : owner[s] = r

Record(r, s) ==
    /\ outcome[r] = "pending"
    /\ owner[s] = None
    /\ ~ Owns(r)
    /\ owner' = [owner EXCEPT ![s] = r]
    /\ UNCHANGED outcome

Answer(r, o) ==
    /\ outcome[r] = "pending"
    /\ outcome' = [outcome EXCEPT ![r] = o]
    /\ UNCHANGED owner

Grant(r) == Owns(r) /\ Answer(r, "granted")

Refuse(r) == ~ Owns(r) /\ Answer(r, "refused")

\* An internal error, or the death of the process under several requests.
Fail(R) ==
    /\ \A r \in R : outcome[r] = "pending"
    /\ outcome' = [r \in Requests |-> IF r \in R THEN "failed" ELSE outcome[r]]
    /\ UNCHANGED owner

Next ==
    \/ \E R \in SUBSET Requests : Fail(R)
    \/ \E r \in Requests :
        Grant(r) \/ Refuse(r) \/ \E s \in Serials : Record(r, s)

Spec == Init /\ [][Next]_vars
=============================================================================
