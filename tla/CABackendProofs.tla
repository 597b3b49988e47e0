-------------------------- MODULE CABackendProofs --------------------------
(* What every caller of IssueCertificate may conclude from the contract.   *)
EXTENDS CABackend, TLAPS

\* The inductive invariant: a call that was made has its CSR.
AskedWhenCalled == \A c \in Calls : call[c] # "idle" => asked[c] \in CSRs

Inv == TypeOK /\ AskedWhenCalled /\ ReturnedSound

\* A call that begins has not returned anything.
LEMMA IssueKeeps ==
    ASSUME Inv, NEW c \in Calls, NEW q \in CSRs, IssueCertificate(c, q)
    PROVE  Inv'
<1>1. TypeOK'
  BY DEF Inv, TypeOK, IssueCertificate
<1>2. AskedWhenCalled'
  BY DEF Inv, TypeOK, AskedWhenCalled, IssueCertificate
<1>3. \A d \in Calls : cert[d] # None => d # c
  BY DEF Inv, ReturnedSound, IssueCertificate
<1>4. ReturnedSound'
  BY <1>3 DEF Inv, TypeOK, ReturnedSound, IssueCertificate
<1> QED
  BY <1>1, <1>2, <1>4 DEF Inv

\* The certificate that is returned is fresh, and for the CSR of the call.
LEMMA ReturnCertificateKeeps ==
    ASSUME None \notin Certificates, Inv, NEW c \in Calls, ReturnCertificate(c)
    PROVE  Inv'
<1> PICK s \in Serials :
        /\ Fresh(s)
        /\ cert' = [cert EXCEPT ![c] = [serial |-> s, csr |-> asked[c], isCA |-> FALSE]]
  BY DEF ReturnCertificate
<1> DEFINE x == [serial |-> s, csr |-> asked[c], isCA |-> FALSE]
<1>0. asked[c] \in CSRs
  BY DEF Inv, AskedWhenCalled, ReturnCertificate
<1>1. x \in Certificates /\ x # None
  <2>1. x \in Certificates
    BY <1>0 DEF Certificates
  <2> QED
    BY <2>1
<1>2. x.serial = s /\ x.csr = asked[c] /\ x.isCA = FALSE
  OBVIOUS
<1>3. cert' = [cert EXCEPT ![c] = x]
  OBVIOUS
<1> HIDE DEF x
<1>4. TypeOK'
  BY <1>1, <1>3 DEF Inv, TypeOK, ReturnCertificate
<1>5. AskedWhenCalled'
  BY DEF Inv, TypeOK, AskedWhenCalled, ReturnCertificate
<1>6. cert'[c] = x /\ \A d \in Calls : d # c => cert'[d] = cert[d]
  BY <1>3 DEF Inv, TypeOK
<1>7. \A d \in Calls : cert[d] # None => cert[d].serial # s
  BY DEF Fresh
<1>8. /\ asked' = asked
      /\ call'[c] = "ok"
      /\ \A d \in Calls : d # c => call'[d] = call[d]
      /\ asked[c].pop
  BY DEF Inv, TypeOK, ReturnCertificate, Possession
<1>9. ReturnedSound'
  BY <1>2, <1>6, <1>7, <1>8 DEF Inv, ReturnedSound
<1> QED
  BY <1>4, <1>5, <1>9 DEF Inv

\* An error, or the end of the process, returns no certificate.
LEMMA FailureKeeps ==
    ASSUME Inv, Abandon \/ \E c \in Calls : ReturnInvalid(c) \/ ReturnError(c)
    PROVE  Inv'
<1>1. CASE Abandon
  BY <1>1 DEF Inv, TypeOK, AskedWhenCalled, ReturnedSound, Abandon
<1>2. ASSUME NEW c \in Calls, ReturnInvalid(c) \/ ReturnError(c)
      PROVE  Inv'
  <2>1. cert[c] = None
    BY <1>2 DEF Inv, ReturnedSound, ReturnInvalid, ReturnError
  <2>2. TypeOK' /\ AskedWhenCalled'
    BY <1>2 DEF Inv, TypeOK, AskedWhenCalled, ReturnInvalid, ReturnError
  <2>3. /\ UNCHANGED <<asked, cert>>
        /\ \A d \in Calls : d # c => call'[d] = call[d]
    BY <1>2 DEF Inv, TypeOK, ReturnInvalid, ReturnError
  <2>4. ReturnedSound'
    BY <2>1, <2>3 DEF Inv, ReturnedSound
  <2> QED
    BY <2>2, <2>4 DEF Inv
<1> QED
  BY <1>1, <1>2

\* Whatever backend keeps the contract of ca.CABackend, the handlers get only
\* certificates that are for the CSR they asked with, whose key the requester
\* has proven to hold, that are no CA's, and whose serial numbers are their own.
THEOREM ContractIsSound ==
    ASSUME None \notin Certificates
    PROVE  Spec => []ReturnedSound
<1>1. Init => Inv
  BY DEF Init, Inv, TypeOK, AskedWhenCalled, ReturnedSound
<1>2. Inv /\ [Next]_caVars => Inv'
  <2> SUFFICES ASSUME Inv, [Next]_caVars PROVE Inv'
    OBVIOUS
  <2>1. CASE UNCHANGED caVars
    BY <2>1 DEF Inv, TypeOK, AskedWhenCalled, ReturnedSound, caVars
  <2>2. CASE Next
    BY <2>2, IssueKeeps, ReturnCertificateKeeps, FailureKeeps DEF Next, Return
  <2> QED
    BY <2>1, <2>2
<1>3. Inv => ReturnedSound
  BY DEF Inv
<1> QED
  BY <1>1, <1>2, <1>3, PTL DEF Spec
=============================================================================
