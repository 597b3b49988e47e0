------------------------------- MODULE EJBCACA -------------------------------
(***************************************************************************)
(* internal/ca/ejbca: IssueCertificate is one POST to a remote EJBCA, with *)
(* credentials made up for this one enrolment.  The request and its answer *)
(* can be lost, EJBCA can take any time, and the HTTP client gives up      *)
(* after 30 seconds whatever EJBCA does afterwards.                        *)
(*                                                                         *)
(* EJBCA is modelled by what the client relies on: it enrols each end      *)
(* entity (username) once, under a serial number of its own, and answers   *)
(* with the certificate or an error; its profile decides the CA flag.      *)
(***************************************************************************)
CONSTANTS Calls,      \* calls of IssueCertificate
          CSRs,       \* parsed CSRs; the field pop is CheckSignature's result
          Serials,    \* serial numbers
          Users,      \* random usernames; each Next one has not been used
          CAFlags,    \* the CA flags the certificate profile may give
          None

VARIABLES pc,       \* pc[c]: progress, then outcome, of the call
          asked,    \* asked[c]: the CSR it was given
          cert,     \* cert[c]: the certificate it returned
          user,     \* user[c]: the username it made up
          posted,   \* requests on their way to EJBCA
          answers,  \* answers on their way back
          enrolled  \* EJBCA's database: the certificate of each end entity

vars == <<pc, asked, cert, user, posted, answers, enrolled>>

Certificates == [serial : Serials, csr : CSRs, isCA : BOOLEAN]
Posts == [call : Calls, user : Users, csr : CSRs]
Answers == [call : Calls, body : Certificates \cup {None}]

ASSUME EJBCAAssumption ==
    /\ None \notin CSRs \cup Users \cup Certificates
    /\ CAFlags \subseteq BOOLEAN

Outcomes == {"ok", "invalid", "failed"}
Progress == {"check", "credentials", "post", "wait"}

TypeOK ==
    /\ pc \in [Calls -> {"idle"} \cup Progress \cup Outcomes]
    /\ asked \in [Calls -> CSRs \cup {None}]
    /\ cert \in [Calls -> Certificates \cup {None}]
    /\ user \in [Calls -> Users \cup {None}]
    /\ posted \in SUBSET Posts
    /\ answers \in SUBSET Answers
    /\ enrolled \in [Users -> Certificates \cup {None}]

Init ==
    /\ pc = [c \in Calls |-> "idle"]
    /\ asked = [c \in Calls |-> None]
    /\ cert = [c \in Calls |-> None]
    /\ user = [c \in Calls |-> None]
    /\ posted = {}
    /\ answers = {}
    /\ enrolled = [u \in Users |-> None]

-----------------------------------------------------------------------------
(* The client, estd.                                                       *)

Goto(c, l) == pc' = [pc EXCEPT ![c] = l]

Begin(c, q) ==
    /\ pc[c] = "idle"
    /\ Goto(c, "check")
    /\ asked' = [asked EXCEPT ![c] = q]
    /\ UNCHANGED <<cert, user, posted, answers, enrolled>>

CheckSignature(c) ==
    /\ pc[c] = "check"
    /\ Goto(c, IF asked[c].pop THEN "credentials" ELSE "invalid")
    /\ UNCHANGED <<asked, cert, user, posted, answers, enrolled>>

\* A seeded fault: the username is derived from the request, not made up.
UnusedAny(u) == TRUE

\* Eight random bytes: nobody has made up u before.
Unused(u) == \A c \in Calls : user[c] # u

\* randomCredentials, which can fail with rand.Read.
MakeCredentials(c) ==
    /\ pc[c] = "credentials"
    /\ \/ /\ Goto(c, "post")
          /\ \E u \in Users : Unused(u) /\ user' = [user EXCEPT ![c] = u]
       \/ Goto(c, "failed") /\ UNCHANGED user
    /\ UNCHANGED <<asked, cert, posted, answers, enrolled>>

\* A seeded fault: the enrolment request leaves the username out.
UserSentNever(c) == None

\* The enrolment request carries the credentials made up for it.
UserSent(c) == user[c]

\* client.Do sends the request, or fails before it has.
Post(c) ==
    /\ pc[c] = "post"
    /\ \/ /\ Goto(c, "wait")
          /\ posted' = posted \cup {[call |-> c, user |-> UserSent(c), csr |-> asked[c]]}
       \/ Goto(c, "failed") /\ UNCHANGED posted
    /\ UNCHANGED <<asked, cert, user, answers, enrolled>>

\* A seeded fault: the check for CA:TRUE is missing.
AcceptedAny(x) == x # None

\* The answer is a certificate, and one with CA:TRUE is not handed back.
Accepted(x) == x # None /\ ~ x.isCA

\* A seeded fault: calls share a connection and take the next answer on it.
OwnAnswerAny(c, a) == TRUE

\* client.Do returns the answer to its own request.
OwnAnswer(c, a) == a.call = c

\* The answer is read: a certificate, or an error status or a body that does
\* not decode.
Receive(c, a) ==
    /\ pc[c] = "wait"
    /\ OwnAnswer(c, a)
    /\ answers' = answers \ {a}
    /\ \/ /\ Accepted(a.body)
          /\ cert' = [cert EXCEPT ![c] = a.body]
          /\ Goto(c, "ok")
       \/ /\ ~ Accepted(a.body)
          /\ Goto(c, "failed")
          /\ UNCHANGED cert
    /\ UNCHANGED <<asked, user, posted, enrolled>>

\* A seeded fault: an http.Client without Timeout.
WaitingNever(c) == FALSE

Waiting(c) == pc[c] = "wait"

\* The client's 30 seconds are over, the context is cancelled or the
\* connection breaks.  An answer that comes later finds nobody.
GiveUp(c) ==
    /\ Waiting(c)
    /\ Goto(c, "failed")
    /\ UNCHANGED <<asked, cert, user, posted, answers, enrolled>>

Call(c) ==
    \/ CheckSignature(c)
    \/ MakeCredentials(c)
    \/ Post(c)
    \/ GiveUp(c)
    \/ \E a \in answers : Receive(c, a)

-----------------------------------------------------------------------------
(* EJBCA and the network.                                                  *)

\* No end entity has a certificate with serial number s.
FreshSerial(s) == \A u \in Users : enrolled[u] # None => enrolled[u].serial # s

\* EJBCA enrols the end entity, once, and answers.
Enrol(p) ==
    /\ enrolled[p.user] = None
    /\ \E s \in Serials, ca \in CAFlags :
        LET x == [serial |-> s, csr |-> p.csr, isCA |-> ca]
        IN  /\ FreshSerial(s)
            /\ enrolled' = [enrolled EXCEPT ![p.user] = x]
            /\ answers' = answers \cup {[call |-> p.call, body |-> x]}
    /\ posted' = posted \ {p}
    /\ UNCHANGED <<pc, asked, cert, user>>

\* EJBCA refuses: the profile, the end entity, an error of its own.
Refuse(p) ==
    /\ answers' = answers \cup {[call |-> p.call, body |-> None]}
    /\ posted' = posted \ {p}
    /\ UNCHANGED <<pc, asked, cert, user, enrolled>>

\* A request or an answer is lost.
Lose ==
    /\ \/ \E p \in posted : posted' = posted \ {p} /\ UNCHANGED answers
       \/ \E a \in answers : answers' = answers \ {a} /\ UNCHANGED posted
    /\ UNCHANGED <<pc, asked, cert, user, enrolled>>

Remote == Lose \/ \E p \in posted : Enrol(p) \/ Refuse(p)

Next ==
    \/ Remote
    \/ \E c \in Calls : Call(c) \/ \E q \in CSRs : Begin(c, q)

Spec == Init /\ [][Next]_vars

\* The goroutine goes on, and its timer fires.  EJBCA owes nothing.
FairSpec == Spec /\ \A c \in Calls : WF_vars(Call(c))

-----------------------------------------------------------------------------

\* The certificate a call returns is the one EJBCA has enrolled for the
\* credentials of this very call, so the CA knows it and can revoke it.
ReturnedIsEnrolled ==
    \A c \in Calls : cert[c] # None =>
        user[c] # None /\ enrolled[user[c]] = cert[c]

\* ejbca.go 192-197: a failed call may have left a certificate at EJBCA that
\* estd knows nothing of, but never more than one.  Every certificate EJBCA
\* has enrolled goes back to exactly one call, is for the CSR of that call,
\* and that CSR's signature was verified before it was sent.
EnrolledForOneCall ==
    \A u \in Users : enrolled[u] # None =>
        \E c \in Calls :
            /\ user[c] = u
            /\ enrolled[u].csr = asked[c]
            /\ asked[c].pop
            /\ \A d \in Calls : user[d] = u => d = c

CallOf(c) == IF pc[c] \in Progress THEN "running" ELSE pc[c]

Contract == INSTANCE CABackend WITH call <- [c \in Calls |-> CallOf(c)]

\* The backend keeps the contract of ca.CABackend through lost requests, lost
\* and late answers, and a profile that gives CA:TRUE.
KeepsContract == Contract!Init /\ [][Contract!Next]_(Contract!caVars)

\* ejbca.go 104: a call ends although EJBCA never answers.
CallsEnd == \A c \in Calls : (pc[c] = "check") ~> (pc[c] \in Outcomes)
=============================================================================
