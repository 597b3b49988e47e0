------------------------------ MODULE Enrollment ------------------------------
(***************************************************************************)
(* The estd process: the handlers of internal/estapi, one goroutine per    *)
(* request, over a CA backend (CABackend) and the file store (FileStore),  *)
(* and the start, shutdown and death of the process (cmd/estd).            *)
(*                                                                         *)
(* A request is one HTTP request on a connection of its own.  What its     *)
(* client sends is its input, chosen when the connection is accepted:      *)
(*   endpoint   the route;                                                 *)
(*   peer       the identity in the client certificate, None without one;  *)
(*   trusted    whether that certificate chains to one of client_ca_files; *)
(*   csr        the CSR the body decodes to, None when it does not decode  *)
(*              (over 64 KiB, not base64, not PKCS#10).                    *)
(* A client that gives up and retries is another request with the same     *)
(* input.                                                                  *)
(***************************************************************************)
EXTENDS Naturals

CONSTANTS Requests,            \* HTTP requests
          Identities,          \* CommonName and SANs of a certificate or CSR
          IdentitiesMatch(_, _),  \* identitiesMatch, see Identity
          CSRs,                \* [id : Identities, pop : BOOLEAN]
          Serials,             \* serial numbers
          Inputs,              \* what clients send
          CSRAttrsConfigured,  \* csrattrs.Encode returned something at startup
          MaxRestarts,         \* bound: how often the operator restarts estd
          None,
          Torn

VARIABLES proc,      \* the process: "up", "draining", "exited" or "killed"
          restarts,  \* how often it was restarted
          pc,        \* pc[r]: how far the handler of r is
          input,     \* input[r]: what the client of r sent
          conn,      \* conn[r]: the client is still connected
          status,    \* status[r]: the status code written, 0 before
          call, asked, cert,            \* the CA backend
          file, tmp, litter, job, ret   \* the store

Certificates == [serial : Serials, csr : CSRs, isCA : BOOLEAN]

\* store.Metadata.  The remote address and the time tell requests apart.
Metadata == [requester : {id.cn : id \in Identities}, request : Requests]

\* What the store is given to write.
Data == CSRs \cup Certificates \cup Metadata

CA == INSTANCE CABackend WITH Calls <- Requests
Store == INSTANCE FileStore WITH Clients <- Requests

caVars == <<call, asked, cert>>
storeVars == <<file, tmp, litter, job, ret>>
handlerVars == <<pc, input, conn, status>>
procVars == <<proc, restarts>>
vars == <<procVars, handlerVars, caVars, storeVars>>

EnrollEndpoints == {"simpleenroll", "simplereenroll"}
Endpoints == EnrollEndpoints \cup {"cacerts", "csrattrs", "other"}

Request == [endpoint : Endpoints,
            peer : Identities \cup {None},
            trusted : BOOLEAN,
            csr : CSRs \cup {None}]

ASSUME InputsAssumption == Inputs \subseteq Request

\* The sentinels are no values the program handles.
ASSUME EnrollmentAssumption ==
    /\ MaxRestarts \in Nat
    /\ None \notin Requests \cup Identities
    /\ None \notin Data \cup Store!Job \cup Store!TempFile
    /\ Torn \notin Data
    /\ None # Torn

Refusals == {400, 401, 403, 404, 405}
Codes == {200, 204, 500} \cup Refusals

\* The handler of r is running.
Running == {"serve", "body", "issue", "putcsr", "putcert"}
Active(r) == pc[r] \in Running

TypeOK ==
    /\ proc \in {"up", "draining", "exited", "killed"}
    /\ restarts \in 0..MaxRestarts
    /\ pc \in [Requests -> {"idle", "done", "closed", "dead"} \cup Running]
    /\ input \in [Requests -> Inputs \cup {None}]
    /\ conn \in [Requests -> BOOLEAN]
    /\ status \in [Requests -> {0} \cup Codes]
    /\ CA!TypeOK
    /\ Store!TypeOK

Init ==
    /\ proc = "up"
    /\ restarts = 0
    /\ pc = [r \in Requests |-> "idle"]
    /\ input = [r \in Requests |-> None]
    /\ conn = [r \in Requests |-> FALSE]
    /\ status = [r \in Requests |-> 0]
    /\ CA!Init
    /\ Store!Init

-----------------------------------------------------------------------------
(* Requests.                                                               *)

\* The handshake and the request line.  With VerifyClientCertIfGiven a client
\* certificate that does not verify ends the connection, and none is fine.
\* Once Shutdown has closed the listener nobody is accepted.
Accept(r, in) ==
    /\ proc = "up"
    /\ pc[r] = "idle"
    /\ input' = [input EXCEPT ![r] = in]
    /\ IF in.peer # None /\ ~ in.trusted
       THEN pc' = [pc EXCEPT ![r] = "closed"] /\ UNCHANGED conn
       ELSE pc' = [pc EXCEPT ![r] = "serve"] /\ conn' = [conn EXCEPT ![r] = TRUE]
    /\ UNCHANGED <<procVars, status, caVars, storeVars>>

\* http.Error, or WriteHeader and the body, after which the connection no
\* longer matters.  That the client may be gone does not show here: write
\* errors are ignored.
Reply(r, code) ==
    /\ pc' = [pc EXCEPT ![r] = "done"]
    /\ status' = [status EXCEPT ![r] = code]
    /\ conn' = [conn EXCEPT ![r] = FALSE]
    /\ UNCHANGED <<procVars, input>>

Goto(r, l) ==
    /\ pc' = [pc EXCEPT ![r] = l]
    /\ UNCHANGED <<procVars, input, conn, status>>

\* The routes that need neither a body nor the store, and what ServeMux has no
\* route for: an unknown path, or a known one with another method.
ServeStatic(r) ==
    /\ pc[r] = "serve"
    /\ \/ input[r].endpoint = "cacerts" /\ \E code \in {200, 500} : Reply(r, code)
       \/ input[r].endpoint = "csrattrs" /\ Reply(r, IF CSRAttrsConfigured THEN 200 ELSE 204)
       \/ input[r].endpoint = "other" /\ \E code \in {404, 405} : Reply(r, code)
    /\ UNCHANGED <<caVars, storeVars>>

\* A seeded fault: the client certificate is asked for and not required.
PeerCertificateOptional(r) == TRUE

\* peerCertificate: the handshake has verified whatever certificate there is.
PeerCertificate(r) == input[r].peer # None

\* An enrolment without a client certificate is refused before its body is
\* read; with one the handler goes on to read the body.
Authenticate(r) ==
    /\ pc[r] = "serve"
    /\ input[r].endpoint \in EnrollEndpoints
    /\ IF PeerCertificate(r) THEN Goto(r, "body") ELSE Reply(r, 401)
    /\ UNCHANGED <<caVars, storeVars>>

\* A seeded fault: simplereenroll skips the comparison.
IdentityUnchecked(in) == TRUE

\* handleSimpleReenroll compares identities, handleSimpleEnroll does not.
IdentityAccepted(in) ==
    in.endpoint = "simplereenroll" => IdentitiesMatch(in.peer, in.csr.id)

\* decodeCSRBody has read the whole body, which depends on the client.
DecodeBody(r) ==
    /\ pc[r] = "body"
    /\ conn[r]
    /\ IF input[r].csr = None
       THEN Reply(r, 400) /\ UNCHANGED caVars
       ELSE IF IdentityAccepted(input[r])
            THEN Goto(r, "issue") /\ CA!IssueCertificate(r, input[r].csr)
            ELSE Reply(r, 403) /\ UNCHANGED caVars
    /\ UNCHANGED storeVars

\* The read of the body fails: the client has gone.
BodyReadFails(r) ==
    /\ pc[r] = "body"
    /\ ~ conn[r]
    /\ Reply(r, 400)
    /\ UNCHANGED <<caVars, storeVars>>

\* The client closes the connection or loses it, before its answer is
\* written.  The request's context is cancelled; of the code below only the
\* CA backend looks at it.
Disconnect(r) ==
    /\ Active(r)
    /\ conn[r]
    /\ conn' = [conn EXCEPT ![r] = FALSE]
    /\ UNCHANGED <<procVars, pc, input, status, caVars, storeVars>>

-----------------------------------------------------------------------------
(* issueAndRespond.                                                        *)

\* A seeded fault: the requester is the connection, not the client.
MetaOfConnection(r) == [requester |-> r, request |-> r]

\* The metadata: the CommonName of the client certificate, and the request.
MetaOf(r) == [requester |-> input[r].peer.cn, request |-> r]

\* A seeded fault: every error is put down to the client.
ErrorCodeBlunt(r) == 400

\* Only ErrInvalidCSRSignature is the client's fault.
ErrorCode(r) == IF call[r] = "invalid" THEN 400 ELSE 500

\* Any error of the CA: the handler answers and the store is not called.
IssueFailed(r) ==
    /\ pc[r] = "issue"
    /\ call[r] \in {"invalid", "failed"}
    /\ Reply(r, ErrorCode(r))
    /\ UNCHANGED <<caVars, storeVars>>

\* The CA has returned a certificate: the CSR goes to the store.
Issued(r) ==
    /\ pc[r] = "issue"
    /\ call[r] = "ok"
    /\ Goto(r, "putcsr")
    /\ Store!PutCSR(r, cert[r].serial, asked[r], MetaOf(r))
    /\ UNCHANGED caVars

\* A seeded fault: the error of PutCSR is ignored.
CSRPutReturned(r) == ret[r] \in {"ok", "err"}

\* PutCSR has returned nil.
CSRPutSucceeded(r) == ret[r] = "ok"

\* The certificate follows.
CSRStored(r) ==
    /\ pc[r] = "putcsr"
    /\ CSRPutSucceeded(r)
    /\ Goto(r, "putcert")
    /\ Store!PutCertificate(r, cert[r].serial, cert[r], MetaOf(r))
    /\ UNCHANGED caVars

\* PutCSR or PutCertificate has returned an error.  The certificate was
\* issued and stays issued; what is stored stays stored.
StoreFailed(r) ==
    /\ pc[r] \in {"putcsr", "putcert"}
    /\ ret[r] = "err"
    /\ Reply(r, ErrorCode(r))
    /\ UNCHANGED <<caVars, storeVars>>

\* A seeded fault: the answer does not wait for PutCertificate.
RecordedAlready(r) == pc[r] = "putcert"

\* PutCertificate has returned nil.
Recorded(r) == pc[r] = "putcert" /\ ret[r] = "ok"

\* The PKCS#7 encoding of the certificate succeeds or fails.
Respond(r) ==
    /\ Recorded(r)
    /\ \E code \in {200, 500} : Reply(r, code)
    /\ UNCHANGED <<caVars, storeVars>>

\* A step inside a call to the store, or to the CA.
StoreStep(r) == Store!Step(r) /\ UNCHANGED <<procVars, handlerVars, caVars>>
CAStep(r) == CA!Return(r) /\ UNCHANGED <<procVars, handlerVars, storeVars>>

-----------------------------------------------------------------------------
(* The process.                                                            *)

Die ==
    /\ proc' = "killed"
    /\ pc' = [r \in Requests |-> IF Active(r) THEN "dead" ELSE pc[r]]
    /\ conn' = [r \in Requests |-> FALSE]
    /\ CA!Abandon
    /\ Store!Crash
    /\ UNCHANGED <<restarts, input, status>>

\* The process is killed, or serving ends with an error and run returns it.
Crash == proc \in {"up", "draining"} /\ Die

Sigterm ==
    /\ proc = "up"
    /\ proc' = "draining"
    /\ UNCHANGED <<restarts, handlerVars, caVars, storeVars>>

\* A seeded fault: Shutdown does not wait for handlers.
QuietNow == TRUE

Quiet == \A r \in Requests : ~ Active(r)

\* Shutdown returns nil once no handler is running.
Drained ==
    /\ proc = "draining"
    /\ Quiet
    /\ proc' = "exited"
    /\ UNCHANGED <<restarts, handlerVars, caVars, storeVars>>

\* A seeded fault: Shutdown gets a context without a timeout.
NeverPasses == FALSE

\* The 10 seconds of shutdownCtx are over.
DeadlinePassed == ~ Quiet

\* Shutdown returns the context's error, run returns it and main exits
\* under the handlers that are still running.
ShutdownTimeout == proc = "draining" /\ DeadlinePassed /\ Die

\* The operator starts estd again on the same store and CA.
Restart ==
    /\ proc \in {"exited", "killed"}
    /\ restarts < MaxRestarts
    /\ proc' = "up"
    /\ restarts' = restarts + 1
    /\ UNCHANGED <<handlerVars, caVars, storeVars>>

-----------------------------------------------------------------------------

Handler(r) ==
    \/ ServeStatic(r)
    \/ Authenticate(r)
    \/ BodyReadFails(r)
    \/ IssueFailed(r)
    \/ Issued(r)
    \/ CSRStored(r)
    \/ StoreFailed(r)
    \/ Respond(r)
    \/ StoreStep(r)
    \/ CAStep(r)

Client(r) ==
    \/ \E in \in Inputs : Accept(r, in)
    \/ DecodeBody(r)
    \/ Disconnect(r)

Process == Crash \/ Sigterm \/ Drained \/ ShutdownTimeout \/ Restart

Next == Process \/ \E r \in Requests : Client(r) \/ Handler(r)

Spec == Init /\ [][Next]_vars

\* A running goroutine, a file operation and a CA call end by themselves, and
\* the timer of Shutdown fires.  Nothing makes a client send its body.
FairSpec ==
    /\ Spec
    /\ \A r \in Requests : WF_vars(Handler(r))
    /\ WF_vars(Drained)
    /\ WF_vars(ShutdownTimeout)

-----------------------------------------------------------------------------
(* Safety.                                                                 *)

\* The handler of r has answered an enrolment with code.
Answered(r, code) == status[r] = code /\ input[r].endpoint \in EnrollEndpoints

\* issueAndRespond answers 200 only after both Puts have returned nil: from
\* then on the CSR, the certificate and the metadata of this very request
\* are in the store under the certificate's serial number, whatever other
\* requests, crashes and restarts follow.
GrantedIsRecorded ==
    \A r \in Requests : Answered(r, 200) =>
        /\ cert[r] # None
        /\ file["csr"][cert[r].serial] = input[r].csr
        /\ file["cert"][cert[r].serial] = cert[r]
        /\ file["meta"][cert[r].serial] = MetaOf(r)

\* The three files under a serial number are of one request, and were written
\* in the order CSR, certificate, metadata: a failure or a crash between two
\* of them leaves a prefix, never a certificate without its CSR, metadata
\* without its certificate, or files of two requests.
RecordsAgree ==
    \A s \in Serials :
        /\ file["cert"][s] # None =>
             file["csr"][s] = file["cert"][s].csr /\ file["cert"][s].serial = s
        /\ file["meta"][s] # None =>
             \E r \in Requests :
                 file["cert"][s] = cert[r] /\ file["meta"][s] = MetaOf(r)

\* What a certificate in the store goes back to: a request with a client
\* certificate the TLS layer has verified, a CSR whose signature verifies
\* and, for a re-enrolment, an identity the handler has compared.
StoredWasAuthorised ==
    \A s \in Serials : file["cert"][s] # None =>
        \E r \in Requests :
            /\ file["cert"][s] = cert[r]
            /\ input[r].peer # None /\ input[r].trusted
            /\ input[r].csr.pop
            /\ input[r].endpoint = "simplereenroll" =>
                   IdentitiesMatch(input[r].peer, cert[r].csr.id)

\* What every certificate the CA has returned goes back to, also one that the
\* store never got or that the process died on: an enrolment over a verified
\* client certificate, for the CSR that this very client has sent, with proof
\* of possession and, for a re-enrolment, the identity of the certificate
\* (handlers.go 45-81, tls.go).
IssuedWasAuthorised ==
    \A r \in Requests : cert[r] # None =>
        /\ input[r].endpoint \in EnrollEndpoints
        /\ input[r].peer # None /\ input[r].trusted
        /\ cert[r].csr = input[r].csr /\ input[r].csr.pop
        /\ input[r].endpoint = "simplereenroll" =>
               IdentitiesMatch(input[r].peer, cert[r].csr.id)

\* A request answered 400, 401, 403, 404 or 405 has left nothing behind: no
\* certificate, and no metadata that names it.
RefusedLeavesNothing ==
    \A r \in Requests : status[r] \in Refusals =>
        /\ cert[r] = None
        /\ \A s \in Serials : file["meta"][s] = None \/ file["meta"][s].request # r

\* After an orderly exit no request is cut off: one that was accepted by this
\* process has its answer, and one whose certificate was issued but is not
\* recorded has been told 500.  Only a crash or the shutdown timeout leaves
\* an issued certificate nobody has heard of.
ExitIsOrderly ==
    proc = "exited" => \A r \in Requests :
        /\ ~ Active(r)
        /\ cert[r] # None /\ pc[r] # "dead" /\ file["meta"][cert[r].serial] = None
               => status[r] = 500

\* A stored file is never replaced: a serial number is never used twice, by
\* two requests at a time or before and after a restart.
RecordsImmutable ==
    [][\A k \in {"csr", "cert", "meta"}, s \in Serials :
        file[k][s] # None => file'[k][s] = file[k][s]]_vars

-----------------------------------------------------------------------------
(* What estd promises, and the state it promises it in.                    *)

OwnerOf(s) == IF file["meta"][s] = None THEN None ELSE file["meta"][s].request

Outcome(r) ==
    IF pc[r] = "dead" THEN "failed"
    ELSE IF pc[r] = "closed" THEN "refused"
    ELSE IF pc[r] # "done" \/ input[r].endpoint \notin EnrollEndpoints THEN "pending"
    ELSE IF status[r] = 200 THEN "granted"
    ELSE IF status[r] \in Refusals THEN "refused"
    ELSE "failed"

R == INSTANCE Registry
        WITH owner <- [s \in Serials |-> OwnerOf(s)],
             outcome <- [r \in Requests |-> Outcome(r)]

\* The store and the answers behave like the registry: each serial number is
\* given to one request for good, granted requests own one, refused requests
\* own none, and no answer changes.
RefinesRegistry == R!Spec

-----------------------------------------------------------------------------
(* Liveness.                                                               *)

\* Once its CSR has been read a request is answered, unless the process dies
\* under it: no failure of the CA or of the store leaves it waiting.
EnrollmentEnds ==
    \A r \in Requests : (pc[r] = "issue") ~> (pc[r] \in {"done", "dead"})

\* main.go 120: SIGTERM stops the process, also when a client keeps a handler
\* waiting for a body that never comes.
ShutdownEnds == (proc = "draining") ~> (proc \in {"exited", "killed"})
=============================================================================
