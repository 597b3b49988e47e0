------------------------------ MODULE CABackend ------------------------------
(***************************************************************************)
(* The contract of the interface ca.CABackend, as its callers may rely on  *)
(* it: a call of IssueCertificate runs for a while and then returns the    *)
(* invalid-signature error, some other error, or a certificate.  Which     *)
(* implementation runs (local, openssl, ejbca) does not show.              *)
(*                                                                         *)
(* A certificate is abstracted to its serial number, the CSR it was signed *)
(* for (whose identity and public key it carries) and its CA flag.         *)
(***************************************************************************)

CONSTANTS Calls,     \* calls of IssueCertificate, one per request
          CSRs,      \* parsed CSRs; the field pop is CheckSignature's result
          Serials,   \* serial numbers
          None       \* no CSR, no certificate

VARIABLES call,      \* call[c]: progress and outcome of the call
          asked,     \* asked[c]: the CSR it was given
          cert       \* cert[c]: the certificate it returned, or None

caVars == <<call, asked, cert>>

Certificates == [serial : Serials, csr : CSRs, isCA : BOOLEAN]

TypeOK ==
    /\ call \in [Calls -> {"idle", "running", "ok", "invalid", "failed"}]
    /\ asked \in [Calls -> CSRs \cup {None}]
    /\ cert \in [Calls -> Certificates \cup {None}]

Init ==
    /\ call = [c \in Calls |-> "idle"]
    /\ asked = [c \in Calls |-> None]
    /\ cert = [c \in Calls |-> None]

IssueCertificate(c, q) ==
    /\ call[c] = "idle"
    /\ call' = [call EXCEPT ![c] = "running"]
    /\ asked' = [asked EXCEPT ![c] = q]
    /\ UNCHANGED cert

\* A seeded fault: a serial source that may repeat itself.
FreshAny(s) == TRUE

\* No certificate returned before carries serial s, by this process or one
\* before it.  For the local CA this is that random numbers do not repeat; for
\* openssl, across restarts, that no child of an earlier estd still runs on the
\* CA directory (openssl.go 36-39).
Fresh(s) == \A d \in Calls : cert[d] # None => cert[d].serial # s

\* csr.CheckSignature() succeeds.
Possession(c) == asked[c].pop

ReturnCertificate(c) ==
    /\ call[c] = "running"
    /\ Possession(c)
    /\ \E s \in Serials :
        /\ Fresh(s)
        /\ cert' = [cert EXCEPT ![c] = [serial |-> s, csr |-> asked[c], isCA |-> FALSE]]
    /\ call' = [call EXCEPT ![c] = "ok"]
    /\ UNCHANGED asked

\* ErrInvalidCSRSignature: the proof of possession fails.
ReturnInvalid(c) ==
    /\ call[c] = "running"
    /\ ~ asked[c].pop
    /\ call' = [call EXCEPT ![c] = "invalid"]
    /\ UNCHANGED <<asked, cert>>

\* Any other error, a cancelled context included.  Every implementation
\* checks the signature first, so this one is never returned instead of
\* ErrInvalidCSRSignature.
ReturnError(c) ==
    /\ call[c] = "running"
    /\ asked[c].pop
    /\ call' = [call EXCEPT ![c] = "failed"]
    /\ UNCHANGED <<asked, cert>>

Return(c) == ReturnCertificate(c) \/ ReturnInvalid(c) \/ ReturnError(c)

\* The process dies under its calls: none of them returns.
Abandon ==
    /\ call' = [c \in Calls |-> IF call[c] = "running" THEN "failed" ELSE call[c]]
    /\ UNCHANGED <<asked, cert>>

Next ==
    \/ Abandon
    \/ \E c \in Calls : Return(c) \/ \E q \in CSRs : IssueCertificate(c, q)

Spec == Init /\ [][Next]_caVars

\* A returned certificate belongs to the CSR of its own call, proves
\* possession of the key, is not a CA certificate, and shares its serial
\* number with no other returned certificate.
ReturnedSound ==
    \A c \in Calls : cert[c] # None =>
        /\ call[c] = "ok"
        /\ cert[c].csr = asked[c]
        /\ asked[c].pop
        /\ ~ cert[c].isCA
        /\ \A d \in Calls : cert[d] # None /\ cert[d].serial = cert[c].serial => d = c
=============================================================================
