---------------------------- MODULE EJBCACAProofs ----------------------------
(* What the EJBCA backend keeps true for any number of calls, whatever the *)
(* network loses and however late EJBCA answers.                           *)
EXTENDS EJBCACA, TLAPS

\* The call has posted, so what EJBCA does may be for it.
HasPosted(c) == pc[c] \in {"wait", "ok", "failed"}

\* A call on its way has a CSR, and past the check one that verified.
AskedVerified ==
    \A c \in Calls :
        /\ pc[c] # "idle" => asked[c] \in CSRs
        /\ pc[c] \in {"credentials", "post", "wait", "ok", "failed"} => asked[c].pop

\* Credentials exist from MakeCredentials on, and no two calls share them.
CredentialsOwn ==
    /\ \A c \in Calls :
        /\ pc[c] \in {"idle", "check", "credentials", "invalid"} => user[c] = None
        /\ pc[c] \in {"post", "wait", "ok"} => user[c] # None
    /\ \A c, d \in Calls : user[c] # None /\ user[c] = user[d] => c = d

\* A request on its way carries the credentials and the CSR of its call.
PostedOwn ==
    \A p \in posted :
        HasPosted(p.call) /\ p.user = user[p.call] /\ p.csr = asked[p.call]

\* What EJBCA has enrolled, it has enrolled for the call whose credentials
\* these are.
EnrolledOwn ==
    \A u \in Users : enrolled[u] # None =>
        \E c \in Calls : HasPosted(c) /\ user[c] = u /\ enrolled[u].csr = asked[c]

\* EJBCA's serial numbers are its own.
EnrolledDistinct ==
    \A u, v \in Users :
        enrolled[u] # None /\ enrolled[v] # None /\ enrolled[u].serial = enrolled[v].serial
            => u = v

\* An answer on its way back is for the request it answers, however late.
AnswersOwn ==
    \A a \in answers : a.body # None =>
        HasPosted(a.call) /\ user[a.call] # None /\ enrolled[user[a.call]] = a.body

CertIsEnrolled ==
    \A c \in Calls : cert[c] # None =>
        pc[c] = "ok" /\ user[c] # None /\ enrolled[user[c]] = cert[c] /\ ~ cert[c].isCA

\* The inductive invariant.
EnrolInv ==
    /\ TypeOK
    /\ AskedVerified
    /\ CredentialsOwn
    /\ PostedOwn
    /\ EnrolledOwn
    /\ EnrolledDistinct
    /\ AnswersOwn
    /\ CertIsEnrolled

-----------------------------------------------------------------------------

\* A call is made, and its CSR is checked.
LEMMA BeginKeeps ==
    ASSUME EnrolInv, NEW c \in Calls, NEW q \in CSRs, Begin(c, q)
    PROVE  EnrolInv'
<1> USE DEF EnrolInv, Begin, Goto, HasPosted
<1>1. TypeOK'
  BY DEF TypeOK, Progress
<1>2. AskedVerified' /\ CredentialsOwn'
  BY DEF TypeOK, AskedVerified, CredentialsOwn
<1>3. \A d \in Calls : HasPosted(d) => d # c /\ HasPosted(d)' /\ asked'[d] = asked[d]
  BY DEF TypeOK
<1>4. PostedOwn' /\ AnswersOwn'
  BY <1>3 DEF TypeOK, Posts, Answers, PostedOwn, AnswersOwn
<1>5. EnrolledOwn' /\ EnrolledDistinct'
  BY <1>3 DEF EnrolledOwn, EnrolledDistinct
<1>6. CertIsEnrolled'
  BY DEF TypeOK, CertIsEnrolled
<1> QED
  BY <1>1, <1>2, <1>4, <1>5, <1>6

LEMMA CheckSignatureKeeps ==
    ASSUME EnrolInv, NEW c \in Calls, CheckSignature(c)
    PROVE  EnrolInv'
<1> USE DEF EnrolInv, CheckSignature, Goto, HasPosted
<1>1. TypeOK'
  BY DEF TypeOK, Progress, Outcomes
<1>2. AskedVerified' /\ CredentialsOwn'
  BY DEF TypeOK, AskedVerified, CredentialsOwn
<1>3. \A d \in Calls : HasPosted(d) => HasPosted(d)'
  BY DEF TypeOK
<1>4. PostedOwn' /\ AnswersOwn'
  BY <1>3 DEF TypeOK, Posts, Answers, PostedOwn, AnswersOwn
<1>5. EnrolledOwn' /\ EnrolledDistinct'
  BY <1>3 DEF EnrolledOwn, EnrolledDistinct
<1>6. CertIsEnrolled'
  BY DEF TypeOK, CertIsEnrolled
<1> QED
  BY <1>1, <1>2, <1>4, <1>5, <1>6

\* Credentials made up now are nobody's, so they have nothing to do with what
\* is enrolled or on its way.
LEMMA MakeCredentialsKeeps ==
    ASSUME EnrolInv, NEW c \in Calls, MakeCredentials(c)
    PROVE  EnrolInv'
<1> USE DEF EnrolInv, HasPosted
<1>1. user[c] = None /\ pc[c] = "credentials"
  BY DEF MakeCredentials, CredentialsOwn
<1>2. TypeOK'
  BY DEF TypeOK, MakeCredentials, Goto, Progress, Outcomes
<1>3. \A d \in Calls : d # c => user'[d] = user[d] /\ pc'[d] = pc[d]
  BY DEF TypeOK, MakeCredentials, Goto
<1>4. AskedVerified'
  BY <1>1, <1>3 DEF AskedVerified, MakeCredentials
<1>5. CredentialsOwn'
  <2>1. CASE user' = user /\ pc'[c] = "failed"
    BY <1>1, <1>3, <2>1 DEF CredentialsOwn
  <2>2. ASSUME NEW u \in Users, Unused(u), user'[c] = u, pc'[c] = "post"
        PROVE  CredentialsOwn'
    <3>1. u # None
      BY EJBCAAssumption
    <3> QED
      BY <1>1, <1>3, <2>2, <3>1 DEF CredentialsOwn, Unused
  <2> QED
    BY <2>1, <2>2 DEF MakeCredentials, Goto, TypeOK
<1>6. UNCHANGED <<asked, cert, posted, answers, enrolled>>
  BY DEF MakeCredentials
<1>7. \A d \in Calls : HasPosted(d) => d # c /\ HasPosted(d)' /\ user'[d] = user[d]
  BY <1>1, <1>3
<1>8. PostedOwn' /\ AnswersOwn'
  BY <1>6, <1>7 DEF TypeOK, Posts, Answers, PostedOwn, AnswersOwn
<1>9. EnrolledOwn' /\ EnrolledDistinct'
  BY <1>6, <1>7 DEF EnrolledOwn, EnrolledDistinct
<1>10. CertIsEnrolled'
  BY <1>1, <1>3, <1>6 DEF CertIsEnrolled
<1> QED
  BY <1>2, <1>4, <1>5, <1>8, <1>9, <1>10

\* The request that is posted is the call's own.
LEMMA PostKeeps ==
    ASSUME EnrolInv, NEW c \in Calls, Post(c)
    PROVE  EnrolInv'
<1> USE DEF EnrolInv, HasPosted
<1>1. pc[c] = "post" /\ user[c] # None /\ asked[c] \in CSRs
  BY DEF Post, CredentialsOwn, AskedVerified
<1>2. TypeOK'
  BY <1>1 DEF TypeOK, Post, Goto, Progress, Outcomes, Posts, UserSent
<1>3. /\ pc'[c] \in {"wait", "failed"}
      /\ \A d \in Calls : d # c => pc'[d] = pc[d]
      /\ UNCHANGED <<asked, cert, user, answers, enrolled>>
  BY DEF TypeOK, Post, Goto
<1>4. AskedVerified' /\ CredentialsOwn'
  BY <1>1, <1>3 DEF AskedVerified, CredentialsOwn
<1>5. \A d \in Calls : HasPosted(d) => HasPosted(d)'
  BY <1>3
<1>6. PostedOwn'
  BY <1>3, <1>5 DEF Post, Goto, TypeOK, Posts, PostedOwn, UserSent
<1>7. AnswersOwn'
  BY <1>3, <1>5 DEF TypeOK, Answers, AnswersOwn
<1>8. EnrolledOwn' /\ EnrolledDistinct'
  BY <1>3, <1>5 DEF EnrolledOwn, EnrolledDistinct
<1>9. CertIsEnrolled'
  BY <1>1, <1>3 DEF CertIsEnrolled
<1> QED
  BY <1>2, <1>4, <1>6, <1>7, <1>8, <1>9

\* The answer read is to the call's own request.
LEMMA ReceiveKeeps ==
    ASSUME EnrolInv, NEW c \in Calls, NEW a \in answers, Receive(c, a)
    PROVE  EnrolInv'
<1> USE DEF EnrolInv, HasPosted
<1>1. pc[c] = "wait" /\ a.call = c /\ a.body \in Certificates \cup {None}
  BY DEF Receive, OwnAnswer, TypeOK, Answers
<1>2. TypeOK'
  BY <1>1 DEF TypeOK, Receive, Goto, Outcomes
<1>3. /\ pc'[c] \in {"ok", "failed"}
      /\ \A d \in Calls : d # c => pc'[d] = pc[d] /\ cert'[d] = cert[d]
      /\ UNCHANGED <<asked, user, posted, enrolled>>
      /\ answers' \subseteq answers
  BY DEF TypeOK, Receive, Goto
<1>4. AskedVerified' /\ CredentialsOwn'
  BY <1>1, <1>3 DEF AskedVerified, CredentialsOwn
<1>5. \A d \in Calls : HasPosted(d) => HasPosted(d)'
  BY <1>3
<1>6. PostedOwn' /\ AnswersOwn'
  BY <1>3, <1>5 DEF TypeOK, Posts, Answers, PostedOwn, AnswersOwn
<1>7. EnrolledOwn' /\ EnrolledDistinct'
  BY <1>3, <1>5 DEF EnrolledOwn, EnrolledDistinct
<1>8. CertIsEnrolled'
  <2>1. cert[c] = None
    BY <1>1 DEF CertIsEnrolled
  <2>2. CASE pc'[c] = "ok" /\ cert'[c] = a.body /\ Accepted(a.body)
    BY <1>1, <1>3, <2>2 DEF CertIsEnrolled, AnswersOwn, Accepted
  <2>3. CASE cert' = cert
    BY <1>3, <2>1, <2>3 DEF CertIsEnrolled
  <2> QED
    BY <2>2, <2>3 DEF Receive, Goto, TypeOK
<1> QED
  BY <1>2, <1>4, <1>6, <1>7, <1>8

LEMMA GiveUpKeeps ==
    ASSUME EnrolInv, NEW c \in Calls, GiveUp(c)
    PROVE  EnrolInv'
<1> USE DEF EnrolInv, HasPosted
<1>1. TypeOK'
  BY DEF TypeOK, GiveUp, Goto, Outcomes
<1>2. /\ pc[c] = "wait"
      /\ pc'[c] = "failed"
      /\ \A d \in Calls : d # c => pc'[d] = pc[d]
      /\ UNCHANGED <<asked, cert, user, posted, answers, enrolled>>
  BY DEF TypeOK, GiveUp, Goto, Waiting
<1>3. AskedVerified' /\ CredentialsOwn' /\ CertIsEnrolled'
  BY <1>2 DEF AskedVerified, CredentialsOwn, CertIsEnrolled
<1>4. \A d \in Calls : HasPosted(d) => HasPosted(d)'
  BY <1>2
<1>5. PostedOwn' /\ AnswersOwn' /\ EnrolledOwn' /\ EnrolledDistinct'
  BY <1>2, <1>4 DEF TypeOK, Posts, Answers, PostedOwn, AnswersOwn, EnrolledOwn, EnrolledDistinct
<1> QED
  BY <1>1, <1>3, <1>5

\* EJBCA enrols the credentials of the call that posted them, for its CSR and
\* under a serial number of their own.
LEMMA EnrolKeeps ==
    ASSUME EnrolInv, NEW p \in posted, Enrol(p)
    PROVE  EnrolInv'
<1> USE DEF EnrolInv, HasPosted
<1> PICK s \in Serials, ca \in CAFlags :
        /\ FreshSerial(s)
        /\ enrolled' = [enrolled EXCEPT ![p.user] = [serial |-> s, csr |-> p.csr, isCA |-> ca]]
        /\ answers' = answers \cup {[call |-> p.call,
                                     body |-> [serial |-> s, csr |-> p.csr, isCA |-> ca]]}
  BY DEF Enrol
<1> DEFINE x == [serial |-> s, csr |-> p.csr, isCA |-> ca]
<1>1. /\ p.call \in Calls /\ p.user \in Users /\ p.csr \in CSRs
      /\ HasPosted(p.call) /\ p.user = user[p.call] /\ p.csr = asked[p.call]
      /\ p.user # None
  BY EJBCAAssumption DEF TypeOK, Posts, PostedOwn
<1>2. /\ x \in Certificates /\ x # None
      /\ x.serial = s /\ x.csr = p.csr
  <2>1. x \in Certificates
    BY <1>1, EJBCAAssumption DEF Certificates
  <2> QED
    BY <2>1, EJBCAAssumption
<1>3. /\ enrolled' = [enrolled EXCEPT ![p.user] = x]
      /\ answers' = answers \cup {[call |-> p.call, body |-> x]}
  OBVIOUS
<1> HIDE DEF x
<1>4. /\ enrolled[p.user] = None
      /\ posted' = posted \ {p}
      /\ UNCHANGED <<pc, asked, cert, user>>
  BY DEF Enrol
<1>5. /\ enrolled'[p.user] = x
      /\ \A u \in Users : u # p.user => enrolled'[u] = enrolled[u]
  BY <1>1, <1>3 DEF TypeOK
<1>6. TypeOK'
  BY <1>1, <1>2, <1>3, <1>4 DEF TypeOK, Answers
<1>7. AskedVerified' /\ CredentialsOwn' /\ PostedOwn'
  BY <1>4 DEF AskedVerified, CredentialsOwn, PostedOwn
<1>8. EnrolledOwn'
  BY <1>1, <1>2, <1>4, <1>5 DEF EnrolledOwn
<1>9. EnrolledDistinct'
  BY <1>2, <1>5 DEF EnrolledDistinct, FreshSerial
<1>10. AnswersOwn'
  <2>1. ASSUME NEW a \in answers, a.body # None
        PROVE  /\ HasPosted(a.call) /\ user[a.call] # None
               /\ enrolled'[user[a.call]] = a.body
    <3>1. /\ a.call \in Calls
          /\ HasPosted(a.call) /\ user[a.call] # None /\ enrolled[user[a.call]] = a.body
      BY <2>1 DEF TypeOK, Answers, AnswersOwn
    <3>2. user[a.call] \in Users /\ user[a.call] # p.user
      BY <1>4, <2>1, <3>1 DEF TypeOK
    <3> QED
      BY <1>5, <3>1, <3>2
  <2> QED
    BY <1>1, <1>3, <1>4, <1>5, <2>1 DEF AnswersOwn
<1>11. CertIsEnrolled'
  BY <1>4, <1>5 DEF TypeOK, CertIsEnrolled
<1> QED
  BY <1>6, <1>7, <1>8, <1>9, <1>10, <1>11

\* A refusal tells of no certificate, and what is lost is not read.
LEMMA RefuseOrLoseKeeps ==
    ASSUME EnrolInv, Lose \/ \E p \in posted : Refuse(p)
    PROVE  EnrolInv'
<1> USE DEF EnrolInv, HasPosted
<1>1. /\ UNCHANGED <<pc, asked, cert, user, enrolled>>
      /\ posted' \subseteq posted
      /\ \A a \in answers' : a \in answers \/ (a \in Answers /\ a.body = None)
  BY DEF Lose, Refuse, TypeOK, Posts, Answers
<1>2. TypeOK'
  BY <1>1 DEF TypeOK
<1>3. AskedVerified' /\ CredentialsOwn' /\ PostedOwn' /\ EnrolledOwn' /\ EnrolledDistinct'
      /\ AnswersOwn' /\ CertIsEnrolled'
  BY <1>1 DEF AskedVerified, CredentialsOwn, PostedOwn, EnrolledOwn, EnrolledDistinct,
     AnswersOwn, CertIsEnrolled
<1> QED
  BY <1>2, <1>3

\* The inductive invariant, through losses and late answers.
THEOREM EnrolInvariant == Spec => []EnrolInv
<1>1. Init => EnrolInv
  BY DEF Init, EnrolInv, TypeOK, AskedVerified, CredentialsOwn, PostedOwn, EnrolledOwn,
     EnrolledDistinct, AnswersOwn, CertIsEnrolled, HasPosted
<1>2. EnrolInv /\ [Next]_vars => EnrolInv'
  <2> SUFFICES ASSUME EnrolInv, [Next]_vars PROVE EnrolInv'
    OBVIOUS
  <2>1. CASE UNCHANGED vars
    BY <2>1 DEF vars, EnrolInv, TypeOK, AskedVerified, CredentialsOwn, PostedOwn, EnrolledOwn,
       EnrolledDistinct, AnswersOwn, CertIsEnrolled, HasPosted
  <2>2. CASE Remote
    BY <2>2, EnrolKeeps, RefuseOrLoseKeeps DEF Remote
  <2>3. ASSUME NEW c \in Calls, Call(c) \/ \E q \in CSRs : Begin(c, q)
        PROVE  EnrolInv'
    BY <2>3, BeginKeeps, CheckSignatureKeeps, MakeCredentialsKeeps, PostKeeps, ReceiveKeeps,
       GiveUpKeeps DEF Call
  <2> QED
    BY <2>1, <2>2, <2>3 DEF Next
<1> QED
  BY <1>1, <1>2, PTL DEF Spec

\* The state of the EJBCA backend is well formed.
THEOREM EJBCATypeCorrect == Spec => []TypeOK
<1>1. EnrolInv => TypeOK
  BY DEF EnrolInv
<1> QED
  BY EnrolInvariant, <1>1, PTL

\* Whatever IssueCertificate hands back, EJBCA has enrolled for the credentials
\* made up in this very call, so the CA knows it and can revoke it.
THEOREM CAKnowsReturned == Spec => []ReturnedIsEnrolled
<1>1. EnrolInv => ReturnedIsEnrolled
  BY DEF EnrolInv, CertIsEnrolled, ReturnedIsEnrolled
<1> QED
  BY EnrolInvariant, <1>1, PTL

\* A call that gave up leaves at most one certificate at EJBCA, for the CSR it
\* had checked (ejbca.go 192-197).
THEOREM OneEnrolmentPerCall == Spec => []EnrolledForOneCall
<1>1. EnrolInv => EnrolledForOneCall
  <2> SUFFICES ASSUME EnrolInv, NEW u \in Users, enrolled[u] # None
               PROVE  \E c \in Calls :
                        /\ user[c] = u
                        /\ enrolled[u].csr = asked[c]
                        /\ asked[c].pop
                        /\ \A d \in Calls : user[d] = u => d = c
    BY DEF EnrolledForOneCall
  <2>1. PICK c \in Calls : HasPosted(c) /\ user[c] = u /\ enrolled[u].csr = asked[c]
    BY DEF EnrolInv, EnrolledOwn
  <2>2. asked[c].pop
    BY <2>1 DEF EnrolInv, AskedVerified, HasPosted
  <2>3. u # None
    BY EJBCAAssumption
  <2>4. \A d \in Calls : user[d] = u => d = c
    BY <2>1, <2>3 DEF EnrolInv, CredentialsOwn
  <2> QED
    BY <2>1, <2>2, <2>4
<1> QED
  BY EnrolInvariant, <1>1, PTL

-----------------------------------------------------------------------------
(* The refinement of the contract of ca.CABackend.                         *)

CallMap == [c \in Calls |-> CallOf(c)]

\* A call that moves to l moves to the outcome l, or goes on running.
LEMMA MoveOfCall ==
    ASSUME TypeOK, NEW c \in Calls, NEW l \in Progress \cup Outcomes, Goto(c, l)
    PROVE  CallMap' = [CallMap EXCEPT ![c] = IF l \in Progress THEN "running" ELSE l]
BY DEF CallMap, CallOf, TypeOK, Goto, Progress, Outcomes

\* Between the check and the outcome nothing is seen.
LEMMA MoveUnseen ==
    ASSUME TypeOK, NEW c \in Calls, NEW l \in Progress, pc[c] \in Progress, Goto(c, l)
    PROVE  CallMap' = CallMap
BY DEF CallMap, CallOf, TypeOK, Goto

LEMMA BeginRefines ==
    ASSUME EnrolInv, NEW c \in Calls, NEW q \in CSRs, Begin(c, q)
    PROVE  Contract!IssueCertificate(c, q)
<1>1. CallMap' = [CallMap EXCEPT ![c] = "running"]
  BY MoveOfCall DEF Begin, EnrolInv, Progress
<1>2. CallMap[c] = "idle"
  BY DEF Begin, CallMap, CallOf, Progress
<1> QED
  BY <1>1, <1>2 DEF Begin, CallMap, Contract!IssueCertificate

LEMMA CheckRefines ==
    ASSUME EnrolInv, NEW c \in Calls, CheckSignature(c)
    PROVE  Contract!ReturnInvalid(c) \/ UNCHANGED <<CallMap, asked, cert>>
<1>1. CASE asked[c].pop
  BY <1>1, MoveUnseen DEF CheckSignature, EnrolInv, Progress
<1>2. CASE ~ asked[c].pop
  <2>1. CallMap' = [CallMap EXCEPT ![c] = "invalid"]
    BY <1>2, MoveOfCall DEF CheckSignature, EnrolInv, Outcomes, Progress
  <2>2. CallMap[c] = "running"
    BY DEF CheckSignature, CallMap, CallOf, Progress
  <2> QED
    BY <1>2, <2>1, <2>2 DEF CheckSignature, CallMap, Contract!ReturnInvalid
<1> QED
  BY <1>1, <1>2

\* Any error after the check of the signature is the contract's ReturnError.
LEMMA FailureRefines ==
    ASSUME EnrolInv, NEW c \in Calls, pc[c] \in Progress \ {"check"}, Goto(c, "failed"),
           UNCHANGED <<asked, cert>>
    PROVE  Contract!ReturnError(c)
<1>1. CallMap' = [CallMap EXCEPT ![c] = "failed"]
  BY MoveOfCall DEF EnrolInv, Outcomes, Progress
<1>2. CallMap[c] = "running" /\ asked[c].pop
  BY DEF CallMap, CallOf, Progress, EnrolInv, AskedVerified
<1> QED
  BY <1>1, <1>2 DEF CallMap, Contract!ReturnError

\* The certificate read is the contract's: EJBCA made it for this call, and
\* its serial number is no other returned certificate's.
LEMMA AcceptedRefines ==
    ASSUME EnrolInv, NEW c \in Calls, NEW a \in answers, Receive(c, a), Accepted(a.body)
    PROVE  Contract!ReturnCertificate(c)
<1> USE DEF EnrolInv
<1>1. /\ pc[c] = "wait" /\ a.call = c
      /\ Goto(c, "ok") /\ UNCHANGED asked
      /\ cert' = [cert EXCEPT ![c] = a.body]
  BY DEF Receive, OwnAnswer
<1>2. /\ a.body \in Certificates
      /\ a.body # None /\ ~ a.body.isCA
  BY DEF TypeOK, Answers, Accepted
<1>3. user[c] \in Users /\ enrolled[user[c]] = a.body
  BY <1>1, <1>2 DEF TypeOK, AnswersOwn
<1>4. asked[c].pop /\ a.body.csr = asked[c]
  <2>1. PICK d \in Calls : user[d] = user[c] /\ a.body.csr = asked[d]
    BY <1>2, <1>3 DEF EnrolledOwn
  <2>2. d = c
    BY <1>3, <2>1, EJBCAAssumption DEF CredentialsOwn
  <2> QED
    BY <1>1, <2>1, <2>2 DEF AskedVerified
<1>5. a.body.serial \in Serials
      /\ a.body = [serial |-> a.body.serial, csr |-> asked[c], isCA |-> FALSE]
  BY <1>2, <1>4 DEF Certificates
<1>6. Contract!Fresh(a.body.serial)
  <2> SUFFICES ASSUME NEW d \in Calls, cert[d] # None
               PROVE  cert[d].serial # a.body.serial
    BY DEF Contract!Fresh
  <2>1. d # c /\ user[d] \in Users /\ enrolled[user[d]] = cert[d] /\ user[d] # None
    BY <1>1 DEF CertIsEnrolled, TypeOK
  <2>2. user[d] # user[c]
    BY <2>1 DEF CredentialsOwn
  <2> QED
    BY <1>2, <1>3, <2>1, <2>2 DEF EnrolledDistinct
<1>7. CallMap' = [CallMap EXCEPT ![c] = "ok"] /\ CallMap[c] = "running"
  BY <1>1, MoveOfCall DEF Outcomes, Progress, CallMap, CallOf
<1> QED
  BY <1>1, <1>4, <1>5, <1>6, <1>7
     DEF CallMap, Contract!ReturnCertificate, Contract!Possession

\* Every step of a call is a return of the contract, or is not seen.
LEMMA CallRefines ==
    ASSUME EnrolInv, NEW c \in Calls, Call(c)
    PROVE  Contract!Return(c) \/ UNCHANGED <<CallMap, asked, cert>>
<1> USE DEF Contract!Return
<1>1. CASE CheckSignature(c)
  BY <1>1, CheckRefines
<1>2. CASE MakeCredentials(c) \/ Post(c)
  <2>1. pc[c] \in Progress \ {"check"} /\ UNCHANGED <<asked, cert>>
    BY <1>2 DEF MakeCredentials, Post, Progress
  <2>2. \E l \in {"post", "wait", "failed"} : Goto(c, l)
    BY <1>2 DEF MakeCredentials, Post
  <2> QED
    BY <2>1, <2>2, FailureRefines, MoveUnseen DEF EnrolInv, Progress
<1>3. CASE GiveUp(c)
  BY <1>3, FailureRefines DEF GiveUp, Waiting, Progress
<1>4. ASSUME NEW a \in answers, Receive(c, a)
      PROVE  Contract!Return(c)
  <2>1. CASE Accepted(a.body)
    BY <1>4, <2>1, AcceptedRefines
  <2>2. CASE ~ Accepted(a.body)
    BY <1>4, <2>2, FailureRefines DEF Receive, Progress
  <2> QED
    BY <2>1, <2>2
<1> QED
  BY <1>1, <1>2, <1>3, <1>4 DEF Call

\* What EJBCA and the network do is not seen either.
LEMMA StepRefines ==
    ASSUME EnrolInv, [Next]_vars
    PROVE  Contract!Next \/ UNCHANGED <<CallMap, asked, cert>>
<1>1. CASE Remote \/ UNCHANGED vars
  BY <1>1 DEF Remote, Lose, Enrol, Refuse, vars, CallMap, CallOf
<1>2. ASSUME NEW c \in Calls, Call(c) \/ \E q \in CSRs : Begin(c, q)
      PROVE  Contract!Next \/ UNCHANGED <<CallMap, asked, cert>>
  BY <1>2, CallRefines, BeginRefines DEF Contract!Next
<1> QED
  BY <1>1, <1>2 DEF Next

\* The EJBCA backend implements the contract of ca.CABackend, whatever the
\* network loses, however late EJBCA answers and whatever its profile says of
\* the CA flag.
THEOREM EJBCAKeepsContract == Spec => KeepsContract
<1>1. Init => Contract!Init
  BY DEF Init, Contract!Init, CallOf, Progress
<1>2. EnrolInv /\ [Next]_vars => [Contract!Next]_(Contract!caVars)
  BY StepRefines DEF CallMap, Contract!caVars
<1> QED
  BY <1>1, <1>2, EnrolInvariant, PTL DEF Spec, KeepsContract
=============================================================================
