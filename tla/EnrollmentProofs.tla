-------------------------- MODULE EnrollmentProofs --------------------------
(* What the handlers, the CA backend and the store keep true together, for *)
(* any number of requests and whatever the operator and the clients do.    *)
EXTENDS Enrollment, TLAPS

(* The proofs of the two components are used as they are: a step of a      *)
(* handler is a step of the one, of the other, or of neither.              *)
CAP == INSTANCE CABackendProofs WITH Calls <- Requests
SP == INSTANCE FileStoreProofs WITH Clients <- Requests

-----------------------------------------------------------------------------
(* The inductive invariant: what holds of each request, ...                *)

Putting == {"putcsr", "putcert"}

HandlersTypeOK ==
    /\ proc \in {"up", "draining", "exited", "killed"}
    /\ restarts \in 0..MaxRestarts
    /\ pc \in [Requests -> {"idle", "done", "closed", "dead"} \cup Running]
    /\ input \in [Requests -> Inputs \cup {None}]
    /\ conn \in [Requests -> BOOLEAN]
    /\ status \in [Requests -> {0} \cup Codes]

\* What the TLS layer has let in, and what of it the handler has checked.
InputChecked(r) ==
    /\ pc[r] # "idle" => input[r] \in Inputs
    /\ pc[r] = "serve" /\ input[r].peer # None => input[r].trusted
    /\ pc[r] = "body" =>
         /\ input[r].endpoint \in EnrollEndpoints
         /\ input[r].peer # None
         /\ input[r].trusted

\* The CA is called for a request whose checks are behind it, with its CSR.
CalledForInput(r) ==
    call[r] # "idle" =>
        /\ pc[r] \in {"issue", "done", "dead"} \cup Putting
        /\ input[r].endpoint \in EnrollEndpoints
        /\ input[r].peer # None
        /\ input[r].trusted
        /\ IdentityAccepted(input[r])
        /\ asked[r] = input[r].csr

CallInTurn(r) ==
    /\ call[r] = "running" => pc[r] = "issue"
    /\ call[r] = "ok" => cert[r] # None
    /\ pc[r] = "issue" => call[r] # "idle"
    /\ pc[r] \in Putting => call[r] = "ok"

\* What the answer tells of the call and of the store.
AnswerFits(r) ==
    /\ status[r] # 0 <=> pc[r] = "done"
    /\ status[r] \in Refusals => call[r] \in {"idle", "invalid"}
    /\ pc[r] = "done" /\ call[r] = "ok" => status[r] \in {200, 500}
    /\ Answered(r, 200) => call[r] = "ok" /\ file["meta"][cert[r].serial] # None

\* The Put of kind k for the certificate of r.
JobOf(r, k) ==
    [kind |-> k, serial |-> cert[r].serial, data |-> IF k = "csr" THEN asked[r] ELSE cert[r],
     meta |-> MetaOf(r)]

\* The Puts follow one another, each with what belongs to the request.
PutsInTurn(r) ==
    /\ ret[r] = "busy" => pc[r] \in Putting
    /\ pc[r] = "putcsr" => job[r] = JobOf(r, "csr")
    /\ pc[r] = "putcert" =>
         /\ job[r] \in {JobOf(r, "cert"), JobOf(r, "meta")}
         /\ file["csr"][cert[r].serial] # None
         /\ ret[r] = "ok" => job[r].kind = "meta"
    /\ tmp[r] # None => tmp[r].data \in {Torn, Store!Payload(job[r])}

RequestInv(r) ==
    /\ InputChecked(r)
    /\ CalledForInput(r)
    /\ CallInTurn(r)
    /\ AnswerFits(r)
    /\ PutsInTurn(r)

(* ... and what holds of the files.                                        *)

\* The file of kind k that r stores.
ContentsFor(r, k) ==
    IF k = "csr" THEN asked[r] ELSE IF k = "cert" THEN cert[r] ELSE MetaOf(r)

\* A file is there for the one request whose certificate its name is of.
FilesOwned ==
    \A k \in Store!Kinds, s \in Serials : file[k][s] # None =>
        \E r \in Requests :
            /\ cert[r] # None
            /\ cert[r].serial = s
            /\ file[k][s] = ContentsFor(r, k)

CertificateAfterCSR ==
    \A s \in Serials : file["cert"][s] # None => file["csr"][s] # None

ExitedQuiet == proc = "exited" => Quiet

EnrollInv ==
    /\ HandlersTypeOK
    /\ CAP!Inv
    /\ SP!Inv
    /\ \A r \in Requests : RequestInv(r)
    /\ FilesOwned
    /\ CertificateAfterCSR
    /\ ExitedQuiet

-----------------------------------------------------------------------------
(* What a step of one request leaves alone.                                *)

\* The components' own assumption on the sentinels.
LEMMA StoreSentinels ==
    /\ None \notin Data \cup SP!Job \cup SP!TempFile
    /\ Torn \notin Data
    /\ None # Torn
BY EnrollmentAssumption
   DEF SP!Job, Store!Job, SP!TempFile, Store!TempFile, SP!Kinds, Store!Kinds

\* Nothing that a request has is changed.
Same(r) ==
    /\ pc'[r] = pc[r] /\ input'[r] = input[r] /\ status'[r] = status[r]
    /\ call'[r] = call[r] /\ asked'[r] = asked[r] /\ cert'[r] = cert[r]
    /\ tmp'[r] = tmp[r] /\ job'[r] = job[r] /\ ret'[r] = ret[r]

\* What a request has a certificate for is settled.
Settled(r) ==
    cert[r] # None => cert'[r] = cert[r] /\ asked'[r] = asked[r] /\ input'[r] = input[r]

\* A certificate has the serial number of a file name.
LEMMA SerialOfCert ==
    ASSUME EnrollInv, NEW r \in Requests, cert[r] # None
    PROVE  cert[r] \in Certificates /\ cert[r].serial \in Serials /\ call[r] = "ok"
BY DEF EnrollInv, CAP!Inv, CAP!TypeOK, CAP!ReturnedSound, CAP!Certificates, Certificates

\* The input of a request that is being served.
LEMMA InputOfRequest ==
    ASSUME EnrollInv, NEW r \in Requests, pc[r] # "idle"
    PROVE  /\ input[r] \in Request
           /\ input[r].peer # None => input[r].peer \in Identities /\ MetaOf(r) \in Metadata
BY InputsAssumption DEF EnrollInv, RequestInv, InputChecked, Request, MetaOf, Metadata

\* Files stay what they are for, as long as they stay.
LEMMA FilesKept ==
    ASSUME EnrollInv, \A r \in Requests : Settled(r), UNCHANGED file
    PROVE  FilesOwned' /\ CertificateAfterCSR'
<1>1. \A r \in Requests, k \in Store!Kinds :
         cert[r] # None => cert'[r] = cert[r] /\ ContentsFor(r, k)' = ContentsFor(r, k)
  BY DEF Settled, ContentsFor, MetaOf
<1>2. FilesOwned'
  <2> SUFFICES ASSUME NEW k \in Store!Kinds, NEW s \in Serials, file[k][s] # None
               PROVE  \E r \in Requests :
                        cert'[r] # None /\ cert'[r].serial = s /\ file[k][s] = ContentsFor(r, k)'
    BY DEF FilesOwned, Store!Kinds
  <2>1. PICK r \in Requests :
           cert[r] # None /\ cert[r].serial = s /\ file[k][s] = ContentsFor(r, k)
    BY DEF EnrollInv, FilesOwned
  <2> QED
    BY <1>1, <2>1
<1>3. CertificateAfterCSR'
  BY DEF EnrollInv, CertificateAfterCSR
<1> QED
  BY <1>2, <1>3

\* A request that nothing has been changed of, while files have come but not
\* gone.
LEMMA SameKept ==
    ASSUME EnrollInv, NEW r \in Requests, Same(r), SP!Keeps
    PROVE  RequestInv(r)'
<1> USE DEF Same
<1>0. RequestInv(r)
  BY DEF EnrollInv
<1>1. InputChecked(r)' /\ CalledForInput(r)' /\ CallInTurn(r)'
  BY <1>0 DEF RequestInv, InputChecked, CalledForInput, CallInTurn
<1>2. JobOf(r, "csr")' = JobOf(r, "csr") /\ JobOf(r, "cert")' = JobOf(r, "cert")
      /\ JobOf(r, "meta")' = JobOf(r, "meta")
      /\ Store!Payload(job[r])' = Store!Payload(job[r])
  BY DEF JobOf, MetaOf, Store!Payload
<1>3. call[r] = "ok" => \A k \in Store!Kinds :
         file[k][cert[r].serial] # None => file'[k][cert[r].serial] # None
  BY <1>0, SerialOfCert DEF RequestInv, CallInTurn, SP!Keeps, SP!Kinds, Store!Kinds
<1>4. AnswerFits(r)'
  BY <1>0, <1>3 DEF RequestInv, AnswerFits, Answered, Store!Kinds
<1>5. PutsInTurn(r)'
  BY <1>0, <1>2, <1>3 DEF RequestInv, PutsInTurn, CallInTurn, Store!Kinds, Putting
<1> QED
  BY <1>1, <1>4, <1>5 DEF RequestInv

\* What remains to be shown of a step that one request takes.
LEMMA StepOfOne ==
    ASSUME EnrollInv, NEW c \in Requests,
           \A r \in Requests \ {c} : Same(r),
           proc' = proc, restarts' = restarts, proc = "up" \/ Active(c),
           HandlersTypeOK', CAP!Inv', SP!Inv', SP!Keeps,
           RequestInv(c)', FilesOwned', CertificateAfterCSR'
    PROVE  EnrollInv'
<1>1. \A r \in Requests : RequestInv(r)'
  BY SameKept
<1>2. ExitedQuiet'
  BY DEF EnrollInv, ExitedQuiet, Quiet
<1> QED
  BY <1>1, <1>2 DEF EnrollInv

\* The CA and the store, when a step leaves them alone.
LEMMA CAKept ==
    ASSUME EnrollInv, UNCHANGED caVars
    PROVE  CAP!Inv'
BY DEF EnrollInv, caVars, CAP!Inv, CAP!TypeOK, CAP!AskedWhenCalled, CAP!ReturnedSound

LEMMA StoreKept ==
    ASSUME EnrollInv, UNCHANGED storeVars
    PROVE  SP!Inv' /\ SP!Keeps
<1>1. [SP!Next]_(SP!storeVars)
  BY DEF storeVars, SP!storeVars
<1> QED
  BY <1>1, StoreSentinels, SP!NextKeeps DEF EnrollInv

-----------------------------------------------------------------------------
(* The steps of the handlers that need neither component.                  *)

\* A step that changes nothing but what the handler of c knows of c.
LEMMA HandlerStepKeeps ==
    ASSUME EnrollInv, NEW c \in Requests,
           UNCHANGED <<procVars, caVars, storeVars>>,
           \A r \in Requests \ {c} :
               pc'[r] = pc[r] /\ input'[r] = input[r] /\ status'[r] = status[r],
           proc = "up" \/ Active(c), Settled(c),
           HandlersTypeOK', RequestInv(c)'
    PROVE  EnrollInv'
<1>1. CAP!Inv' /\ SP!Inv' /\ SP!Keeps
  BY CAKept, StoreKept
<1>2. \A r \in Requests \ {c} : Same(r)
  BY DEF Same, caVars, storeVars
<1>3. FilesOwned' /\ CertificateAfterCSR'
  BY <1>2, FilesKept DEF storeVars, Same, Settled
<1> QED
  BY <1>1, <1>2, <1>3, StepOfOne DEF procVars

LEMMA AcceptKeeps ==
    ASSUME EnrollInv, NEW c \in Requests, NEW in \in Inputs, Accept(c, in)
    PROVE  EnrollInv'
<1> USE DEF Accept
<1>0. RequestInv(c) /\ pc[c] = "idle" /\ HandlersTypeOK /\ SP!Inv
  BY DEF EnrollInv
<1>1. call[c] = "idle" /\ cert[c] = None /\ status[c] = 0 /\ ret[c] # "busy" /\ tmp[c] = None
  BY <1>0, SerialOfCert DEF RequestInv, CalledForInput, AnswerFits, PutsInTurn, Putting,
     SP!Inv, SP!TempOfJob
<1>2. HandlersTypeOK'
  BY <1>0 DEF HandlersTypeOK, Running, procVars
<1>3. \A r \in Requests \ {c} :
         pc'[r] = pc[r] /\ input'[r] = input[r] /\ status'[r] = status[r]
  BY <1>0 DEF HandlersTypeOK
<1>4. /\ input'[c] = in /\ UNCHANGED <<status, caVars, storeVars>>
      /\ \/ pc'[c] = "closed"
         \/ pc'[c] = "serve" /\ (in.peer # None => in.trusted)
  BY <1>0 DEF HandlersTypeOK
<1>5. RequestInv(c)'
  BY <1>1, <1>4 DEF RequestInv, InputChecked, CalledForInput, CallInTurn, AnswerFits, Answered,
     PutsInTurn, Putting, Codes, Refusals, caVars, storeVars
<1> QED
  BY <1>1, <1>2, <1>3, <1>5, HandlerStepKeeps DEF Settled

\* A client that goes away is not noticed by the handler.
LEMMA DisconnectKeeps ==
    ASSUME EnrollInv, NEW c \in Requests, Disconnect(c)
    PROVE  EnrollInv'
<1> USE DEF Disconnect
<1>1. HandlersTypeOK'
  BY DEF EnrollInv, HandlersTypeOK, procVars
<1>2. Same(c) /\ SP!Keeps
  BY StoreKept DEF Same, caVars, storeVars
<1>3. RequestInv(c)'
  BY <1>2, SameKept
<1> QED
  BY <1>1, <1>3, HandlerStepKeeps DEF Settled, caVars

\* The client certificate is there, and the TLS layer has verified it.
LEMMA AuthenticatedKeeps ==
    ASSUME EnrollInv, NEW c \in Requests, Authenticate(c), Goto(c, "body")
    PROVE  EnrollInv'
<1> USE DEF Authenticate, Goto
<1>0. RequestInv(c) /\ pc[c] = "serve" /\ HandlersTypeOK /\ SP!Inv
  BY DEF EnrollInv
<1>1. call[c] = "idle" /\ cert[c] = None /\ status[c] = 0 /\ ret[c] # "busy" /\ tmp[c] = None
  BY <1>0, SerialOfCert DEF RequestInv, CalledForInput, AnswerFits, PutsInTurn, Putting,
     SP!Inv, SP!TempOfJob
<1>2. PeerCertificate(c)
  <2>1. pc'[c] = "body"
    BY <1>0 DEF HandlersTypeOK
  <2>2. ~ Reply(c, 401)
    BY <1>0, <2>1 DEF Reply, HandlersTypeOK
  <2> QED
    BY <2>2
<1>3. HandlersTypeOK'
  BY <1>0 DEF HandlersTypeOK, Running, procVars
<1>4. \A r \in Requests \ {c} : pc'[r] = pc[r]
  BY <1>0 DEF HandlersTypeOK
<1>5. RequestInv(c)'
  <2>1. pc'[c] = "body"
    BY <1>0 DEF HandlersTypeOK
  <2> QED
    BY <1>0, <1>1, <1>2, <2>1 DEF PeerCertificate, RequestInv, InputChecked, CalledForInput,
       CallInTurn, AnswerFits, Answered, PutsInTurn, Putting, Codes, Refusals, caVars, storeVars
<1> QED
  BY <1>1, <1>3, <1>4, <1>5, HandlerStepKeeps DEF Settled, Active, Running

\* Any answer that fits what has become of the call and of the Puts.
LEMMA ReplyKeeps ==
    ASSUME EnrollInv, NEW c \in Requests, NEW code \in Codes, Reply(c, code),
           UNCHANGED <<caVars, storeVars>>, Active(c), call[c] # "running", ret[c] # "busy",
           code \in Refusals => call[c] \in {"idle", "invalid"},
           call[c] = "ok" => code \in {200, 500},
           code = 200 /\ input[c].endpoint \in EnrollEndpoints =>
               call[c] = "ok" /\ file["meta"][cert[c].serial] # None
    PROVE  EnrollInv'
<1> USE DEF Reply
<1>0. RequestInv(c) /\ HandlersTypeOK /\ SP!Inv
  BY DEF EnrollInv
<1>1. HandlersTypeOK'
  BY <1>0 DEF HandlersTypeOK, Running, procVars
<1>2. pc'[c] = "done" /\ status'[c] = code
      /\ \A r \in Requests \ {c} : pc'[r] = pc[r] /\ status'[r] = status[r]
  BY <1>0 DEF HandlersTypeOK
<1>3. tmp[c] = None /\ code # 0 /\ pc[c] # "idle"
  BY <1>0 DEF SP!Inv, SP!TempOfJob, Codes, Refusals, Active, Running
<1>4. RequestInv(c)'
  BY <1>0, <1>2, <1>3 DEF RequestInv, InputChecked, CalledForInput, CallInTurn, AnswerFits,
     Answered, PutsInTurn, Putting, caVars, storeVars
<1> QED
  BY <1>1, <1>2, <1>4, HandlerStepKeeps DEF Settled, caVars

\* Each handler step that answers does so as ReplyKeeps asks.
LEMMA ServeStaticKeeps ==
    ASSUME EnrollInv, NEW c \in Requests, ServeStatic(c)
    PROVE  EnrollInv'
<1>1. pc[c] = "serve" /\ Active(c) /\ RequestInv(c)
  BY DEF ServeStatic, Active, Running, EnrollInv
<1>2. call[c] = "idle" /\ ret[c] # "busy"
  BY <1>1 DEF RequestInv, CalledForInput, PutsInTurn, Putting
<1>3. input[c].endpoint \notin EnrollEndpoints
  BY DEF ServeStatic, EnrollEndpoints
<1>4. PICK code \in {200, 204, 404, 405, 500} : Reply(c, code)
  BY DEF ServeStatic
<1> QED
  BY <1>1, <1>2, <1>3, <1>4, ReplyKeeps DEF ServeStatic, Codes, Refusals

LEMMA RefusalKeeps ==
    ASSUME EnrollInv, NEW c \in Requests, NEW code \in Refusals, Reply(c, code),
           pc[c] \in {"serve", "body"}, UNCHANGED <<caVars, storeVars>>
    PROVE  EnrollInv'
<1>1. Active(c) /\ RequestInv(c) /\ code \in Codes /\ code # 200
  BY DEF Active, Running, EnrollInv, Codes, Refusals
<1>2. call[c] = "idle" /\ ret[c] # "busy"
  BY <1>1 DEF RequestInv, CalledForInput, PutsInTurn, Putting
<1> QED
  BY <1>1, <1>2, ReplyKeeps

LEMMA IssueFailedKeeps ==
    ASSUME EnrollInv, NEW c \in Requests, IssueFailed(c)
    PROVE  EnrollInv'
<1>1. pc[c] = "issue" /\ Active(c) /\ RequestInv(c) /\ call[c] \in {"invalid", "failed"}
  BY DEF IssueFailed, Active, Running, EnrollInv
<1>2. ret[c] # "busy"
  BY <1>1 DEF RequestInv, PutsInTurn, Putting
<1>3. ErrorCode(c) \in Codes /\ ErrorCode(c) # 200
      /\ (ErrorCode(c) \in Refusals => call[c] = "invalid")
  BY DEF ErrorCode, Codes, Refusals
<1> QED
  BY <1>1, <1>2, <1>3, ReplyKeeps DEF IssueFailed

LEMMA StoreFailedKeeps ==
    ASSUME EnrollInv, NEW c \in Requests, StoreFailed(c)
    PROVE  EnrollInv'
<1>1. pc[c] \in Putting /\ Active(c) /\ RequestInv(c) /\ ret[c] = "err"
  BY DEF StoreFailed, Putting, Active, Running, EnrollInv
<1>2. call[c] = "ok"
  BY <1>1 DEF RequestInv, CallInTurn
<1>3. ErrorCode(c) = 500 /\ 500 \in Codes /\ 500 \notin Refusals
  BY <1>2 DEF ErrorCode, Codes, Refusals
<1> QED
  BY <1>1, <1>2, <1>3, ReplyKeeps DEF StoreFailed

\* The certificate and its metadata are there when the answer is written.
LEMMA RespondKeeps ==
    ASSUME EnrollInv, NEW c \in Requests, Respond(c)
    PROVE  EnrollInv'
<1>1. pc[c] = "putcert" /\ ret[c] = "ok" /\ Active(c) /\ RequestInv(c) /\ SP!Inv
  BY DEF Respond, Recorded, Active, Running, EnrollInv
<1>2. call[c] = "ok"
  BY <1>1 DEF RequestInv, CallInTurn, Putting
<1>3. job[c].kind = "meta" /\ job[c].serial = cert[c].serial
  BY <1>1 DEF RequestInv, PutsInTurn, JobOf
<1>4. file["meta"][cert[c].serial] # None
  BY <1>1, <1>3 DEF SP!Inv, SP!OkIsDone
<1>5. {200, 500} \subseteq Codes /\ {200, 500} \cap Refusals = {}
  BY DEF Codes, Refusals
<1>6. PICK code \in {200, 500} : Reply(c, code)
  BY DEF Respond
<1> QED
  BY <1>1, <1>2, <1>4, <1>5, <1>6, ReplyKeeps DEF Respond

-----------------------------------------------------------------------------
(* The steps of the CA backend.                                            *)

\* A step of the backend as its own module has it.
LEMMA CAStepIsCAs ==
    ASSUME NEW c \in Requests
    PROVE  /\ CA!Return(c) => CAP!ReturnCertificate(c) \/ CAP!ReturnInvalid(c) \/ CAP!ReturnError(c)
           /\ \A q \in CSRs : CA!IssueCertificate(c, q) => CAP!IssueCertificate(c, q)
BY DEF CA!Return, CA!ReturnCertificate, CAP!ReturnCertificate, CA!Possession, CAP!Possession,
       CA!Fresh, CAP!Fresh, CA!ReturnInvalid, CAP!ReturnInvalid, CA!ReturnError,
       CAP!ReturnError, CA!IssueCertificate, CAP!IssueCertificate

LEMMA NoneIsNoCertificate == None \notin CAP!Certificates
BY EnrollmentAssumption DEF Data, Certificates, CAP!Certificates

\* The CA is called with the CSR of the request, whose identity has passed.
LEMMA DecodedKeeps ==
    ASSUME EnrollInv, NEW c \in Requests, DecodeBody(c), input[c].csr # None,
           IdentityAccepted(input[c])
    PROVE  EnrollInv'
<1>0. /\ pc[c] = "body" /\ Goto(c, "issue") /\ CA!IssueCertificate(c, input[c].csr)
      /\ UNCHANGED storeVars /\ RequestInv(c) /\ HandlersTypeOK /\ SP!Inv /\ CAP!Inv
  BY DEF DecodeBody, EnrollInv
<1>1. input[c].csr \in CSRs
  BY <1>0, InputOfRequest DEF Request
<1>2. /\ call[c] = "idle" /\ cert[c] = None /\ status[c] = 0 /\ ret[c] # "busy" /\ tmp[c] = None
  BY <1>0, SerialOfCert DEF RequestInv, CalledForInput, AnswerFits, PutsInTurn, Putting,
     SP!Inv, SP!TempOfJob
<1>3. CAP!Inv'
  BY <1>0, <1>1, CAStepIsCAs, CAP!IssueKeeps
<1>4. SP!Inv' /\ SP!Keeps
  BY <1>0, StoreKept
<1>5. HandlersTypeOK'
  BY <1>0 DEF HandlersTypeOK, Running, Goto, procVars
<1>6. /\ pc'[c] = "issue" /\ call'[c] = "running" /\ asked'[c] = input[c].csr
      /\ UNCHANGED <<input, status, cert>>
      /\ \A r \in Requests \ {c} :
           pc'[r] = pc[r] /\ call'[r] = call[r] /\ asked'[r] = asked[r]
  BY <1>0 DEF HandlersTypeOK, Goto, CA!IssueCertificate, CAP!Inv, CAP!TypeOK
<1>7. \A r \in Requests \ {c} : Same(r)
  BY <1>0, <1>6 DEF Same, storeVars
<1>8. RequestInv(c)'
  BY <1>0, <1>2, <1>6 DEF RequestInv, InputChecked, CalledForInput, CallInTurn, AnswerFits,
     Answered, PutsInTurn, Putting, Codes, Refusals, storeVars, DecodeBody
<1>9. FilesOwned' /\ CertificateAfterCSR'
  BY <1>0, <1>2, <1>6, FilesKept DEF Settled, storeVars
<1> QED
  BY <1>0, <1>3, <1>4, <1>5, <1>7, <1>8, <1>9, StepOfOne DEF Goto, procVars, Active, Running

\* The call returns to the handler that waits for it, with a certificate
\* exactly when it succeeds.
LEMMA CAStepKeeps ==
    ASSUME EnrollInv, NEW c \in Requests, CAStep(c)
    PROVE  EnrollInv'
<1>0. /\ CA!Return(c) /\ UNCHANGED <<procVars, handlerVars, storeVars>>
      /\ RequestInv(c) /\ HandlersTypeOK /\ SP!Inv /\ CAP!Inv
  BY DEF CAStep, EnrollInv
<1>1. CAP!Inv'
  BY <1>0, CAStepIsCAs, NoneIsNoCertificate, CAP!ReturnCertificateKeeps, CAP!FailureKeeps
<1>2. /\ call[c] = "running" /\ cert[c] = None /\ pc[c] = "issue"
      /\ call'[c] \in {"ok", "invalid", "failed"}
      /\ call'[c] = "ok" => cert'[c] # None
      /\ UNCHANGED asked
      /\ \A r \in Requests \ {c} : call'[r] = call[r] /\ cert'[r] = cert[r]
  <2>1. call[c] = "running" /\ UNCHANGED asked
    BY <1>0 DEF CA!Return, CA!ReturnCertificate, CA!ReturnInvalid, CA!ReturnError
  <2>2. cert[c] = None /\ pc[c] = "issue"
    BY <1>0, <2>1, SerialOfCert DEF RequestInv, CallInTurn
  <2>3. CASE CA!ReturnCertificate(c)
    <3>1. PICK s \in Serials :
             cert' = [cert EXCEPT ![c] = [serial |-> s, csr |-> asked[c], isCA |-> FALSE]]
      BY <2>3 DEF CA!ReturnCertificate
    <3>2. [serial |-> s, csr |-> asked[c], isCA |-> FALSE] \in CAP!Certificates
      BY <1>0, <2>1 DEF CAP!Certificates, CAP!Inv, CAP!AskedWhenCalled
    <3>3. cert'[c] # None /\ \A r \in Requests \ {c} : cert'[r] = cert[r]
      BY <1>0, <3>1, <3>2, NoneIsNoCertificate DEF CAP!Inv, CAP!TypeOK
    <3> QED
      BY <1>0, <2>1, <2>2, <2>3, <3>3 DEF CA!ReturnCertificate, CAP!Inv, CAP!TypeOK
  <2>4. CASE CA!ReturnInvalid(c) \/ CA!ReturnError(c)
    BY <1>0, <2>1, <2>2, <2>4 DEF CA!ReturnInvalid, CA!ReturnError, CAP!Inv, CAP!TypeOK
  <2> QED
    BY <1>0, <2>3, <2>4 DEF CA!Return
<1>3. SP!Inv' /\ SP!Keeps
  BY <1>0, StoreKept
<1>4. HandlersTypeOK'
  BY <1>0 DEF HandlersTypeOK, procVars, handlerVars
<1>5. \A r \in Requests \ {c} : Same(r)
  BY <1>0, <1>2 DEF Same, handlerVars, storeVars
<1>6. RequestInv(c)'
  <2>1. status[c] = 0 /\ ret[c] # "busy" /\ tmp[c] = None
    BY <1>0, <1>2 DEF RequestInv, AnswerFits, PutsInTurn, Putting, SP!Inv, SP!TempOfJob
  <2> QED
    BY <1>0, <1>2, <2>1 DEF RequestInv, InputChecked, CalledForInput, CallInTurn, AnswerFits,
       Answered, PutsInTurn, Putting, Codes, Refusals, handlerVars, storeVars
<1>7. FilesOwned' /\ CertificateAfterCSR'
  <2>1. \A r \in Requests : Settled(r)
    BY <1>0, <1>2 DEF Settled, handlerVars
  <2> QED
    BY <1>0, <2>1, FilesKept DEF storeVars
<1> QED
  BY <1>0, <1>1, <1>2, <1>3, <1>4, <1>5, <1>6, <1>7, StepOfOne
     DEF handlerVars, procVars, Active, Running

-----------------------------------------------------------------------------
(* The calls of the store.                                                 *)

\* What a request puts is what the store can be given.
LEMMA ContentsTyped ==
    ASSUME EnrollInv, NEW r \in Requests, call[r] = "ok"
    PROVE  /\ cert[r] # None /\ cert[r] \in Certificates /\ cert[r].serial \in Serials
           /\ asked[r] \in Data /\ cert[r] \in Data /\ MetaOf(r) \in Data
           /\ \A k \in Store!Kinds : /\ JobOf(r, k) \in SP!Job
                                     /\ ContentsFor(r, k) \in Data
                                     /\ Store!Payload(JobOf(r, k)) = ContentsFor(r, k)
<1>1. RequestInv(r) /\ cert[r] # None /\ pc[r] # "idle"
  BY DEF EnrollInv, RequestInv, CallInTurn, CalledForInput, Putting
<1>2. cert[r] \in Certificates /\ cert[r].serial \in Serials
  BY <1>1, SerialOfCert
<1>3. asked[r] \in CSRs
  BY DEF EnrollInv, CAP!Inv, CAP!AskedWhenCalled
<1>4. MetaOf(r) \in Metadata
  BY <1>1, InputOfRequest DEF RequestInv, CalledForInput
<1>5. asked[r] \in Data /\ cert[r] \in Data /\ MetaOf(r) \in Data
  BY <1>2, <1>3, <1>4 DEF Data
<1>6. \A k \in Store!Kinds : ContentsFor(r, k) \in Data
  BY <1>5 DEF ContentsFor
<1>7. \A k \in Store!Kinds : JobOf(r, k) \in SP!Job
  BY <1>2, <1>5 DEF JobOf, SP!Job, SP!Kinds, Store!Kinds
<1>8. \A k \in Store!Kinds : Store!Payload(JobOf(r, k)) = ContentsFor(r, k)
  BY DEF JobOf, Store!Payload, ContentsFor, Store!Kinds
<1> QED
  BY <1>1, <1>2, <1>5, <1>6, <1>7, <1>8

\* The certificate has been issued, and the Put of its CSR begins.
LEMMA IssuedKeeps ==
    ASSUME EnrollInv, NEW c \in Requests, Issued(c)
    PROVE  EnrollInv'
<1>0. /\ pc[c] = "issue" /\ call[c] = "ok" /\ Goto(c, "putcsr") /\ UNCHANGED caVars
      /\ SP!Start(c, "csr", cert[c].serial, asked[c], MetaOf(c))
      /\ RequestInv(c) /\ HandlersTypeOK /\ SP!Inv
  BY DEF Issued, Store!PutCSR, Store!Start, SP!Start, EnrollInv
<1>1. SP!Inv' /\ SP!Keeps
  BY <1>0, ContentsTyped, StoreSentinels, SP!StartKeeps
<1>2. CAP!Inv'
  BY <1>0, CAKept
<1>3. HandlersTypeOK'
  BY <1>0 DEF HandlersTypeOK, Running, Goto, procVars
<1>4. /\ pc'[c] = "putcsr" /\ ret'[c] = "busy" /\ job'[c] = JobOf(c, "csr")
      /\ UNCHANGED <<input, status, call, asked, cert, file, tmp>>
      /\ \A r \in Requests \ {c} : pc'[r] = pc[r] /\ job'[r] = job[r] /\ ret'[r] = ret[r]
  BY <1>0 DEF HandlersTypeOK, Goto, SP!Start, SP!Inv, SP!TypeOK, JobOf, caVars
<1>5. \A r \in Requests \ {c} : Same(r)
  BY <1>4 DEF Same
<1>6. JobOf(c, "csr")' = JobOf(c, "csr")
  BY <1>4 DEF JobOf, MetaOf
<1>7. tmp[c] = None /\ status[c] = 0
  BY <1>0 DEF SP!Start, SP!Inv, SP!TempOfJob, RequestInv, AnswerFits
<1>8. RequestInv(c)'
  BY <1>0, <1>4, <1>6, <1>7 DEF RequestInv, InputChecked, CalledForInput, CallInTurn,
     AnswerFits, Answered, PutsInTurn, Putting, Codes, Refusals
<1>9. FilesOwned' /\ CertificateAfterCSR'
  BY <1>4, FilesKept DEF Settled
<1> QED
  BY <1>0, <1>1, <1>2, <1>3, <1>5, <1>8, <1>9, StepOfOne DEF Goto, procVars, Active, Running

\* The CSR is there, and the Put of the certificate begins.
LEMMA CSRStoredKeeps ==
    ASSUME EnrollInv, NEW c \in Requests, CSRStored(c)
    PROVE  EnrollInv'
<1>0. /\ pc[c] = "putcsr" /\ ret[c] = "ok" /\ Goto(c, "putcert") /\ UNCHANGED caVars
      /\ SP!Start(c, "cert", cert[c].serial, cert[c], MetaOf(c))
      /\ RequestInv(c) /\ HandlersTypeOK /\ SP!Inv
  BY DEF CSRStored, CSRPutSucceeded, Store!PutCertificate, Store!Start, SP!Start, EnrollInv
<1>1. call[c] = "ok" /\ job[c] = JobOf(c, "csr")
  BY <1>0 DEF RequestInv, CallInTurn, PutsInTurn, Putting
<1>2. SP!Inv' /\ SP!Keeps
  BY <1>0, <1>1, ContentsTyped, StoreSentinels, SP!StartKeeps
<1>3. CAP!Inv'
  BY <1>0, CAKept
<1>4. HandlersTypeOK'
  BY <1>0 DEF HandlersTypeOK, Running, Goto, procVars
<1>5. /\ pc'[c] = "putcert" /\ ret'[c] = "busy" /\ job'[c] = JobOf(c, "cert")
      /\ UNCHANGED <<input, status, call, asked, cert, file, tmp>>
      /\ \A r \in Requests \ {c} : pc'[r] = pc[r] /\ job'[r] = job[r] /\ ret'[r] = ret[r]
  BY <1>0 DEF HandlersTypeOK, Goto, SP!Start, SP!Inv, SP!TypeOK, JobOf, caVars
<1>6. \A r \in Requests \ {c} : Same(r)
  BY <1>5 DEF Same
<1>7. JobOf(c, "cert")' = JobOf(c, "cert")
  BY <1>5 DEF JobOf, MetaOf
<1>8. tmp[c] = None /\ status[c] = 0
  BY <1>0 DEF SP!Start, SP!Inv, SP!TempOfJob, RequestInv, AnswerFits
<1>9. file["csr"][cert[c].serial] # None
  BY <1>0, <1>1 DEF SP!Inv, SP!OkIsDone, JobOf
<1>10. RequestInv(c)'
  BY <1>0, <1>1, <1>5, <1>7, <1>8, <1>9 DEF RequestInv, InputChecked, CalledForInput,
     CallInTurn, AnswerFits, Answered, PutsInTurn, Putting, Codes, Refusals
<1>11. FilesOwned' /\ CertificateAfterCSR'
  BY <1>5, FilesKept DEF Settled
<1> QED
  BY <1>0, <1>2, <1>3, <1>4, <1>6, <1>10, <1>11, StepOfOne DEF Goto, procVars, Active, Running

\* A step of the store as its own module has it.
LEMMA StoreStepIsStores ==
    ASSUME NEW c \in Requests, Store!Step(c)
    PROVE  SP!Step(c)
BY DEF Store!Step, SP!Step, Store!CreateTemp, SP!CreateTemp, Store!WriteTemp, SP!WriteTemp,
       Store!Payload, SP!Payload, Store!RenameTemp, SP!RenameTemp, Store!ReadyToRename,
       SP!ReadyToRename, Store!NextFile, SP!NextFile, Store!FailPut, SP!FailPut,
       Store!TempsAfterError, SP!TempsAfterError, Store!FilesAfterError, SP!FilesAfterError,
       Store!AfterError, SP!AfterError

\* Only a call that runs makes a step, and it is at the Put its handler waits
\* for.
LEMMA StepOfPut ==
    ASSUME EnrollInv, NEW c \in Requests, Store!Step(c)
    PROVE  /\ ret[c] = "busy" /\ pc[c] \in Putting /\ call[c] = "ok"
           /\ \E k \in Store!Kinds : job[c] = JobOf(c, k) /\ (k = "csr" <=> pc[c] = "putcsr")
<1>1. ret[c] = "busy" /\ RequestInv(c)
  BY DEF Store!Step, Store!CreateTemp, Store!WriteTemp, Store!RenameTemp, Store!FailPut,
     EnrollInv
<1>2. pc[c] \in Putting /\ call[c] = "ok"
  BY <1>1 DEF RequestInv, PutsInTurn, CallInTurn
<1>3. \E k \in Store!Kinds : job[c] = JobOf(c, k) /\ (k = "csr" <=> pc[c] = "putcsr")
  BY <1>1, <1>2 DEF RequestInv, PutsInTurn, Putting, Store!Kinds
<1> QED
  BY <1>1, <1>2, <1>3

\* What a rename does: the file that is due is put in place, and the Put of a
\* certificate goes on to the metadata.
LEMMA RenameOfPut ==
    ASSUME EnrollInv, NEW c \in Requests, Store!RenameTemp(c),
           NEW k \in Store!Kinds, job[c] = JobOf(c, k)
    PROVE  /\ \A l \in Store!Kinds, t \in Serials :
                file'[l][t] = IF l = k /\ t = cert[c].serial THEN ContentsFor(c, k)
                                                             ELSE file[l][t]
           /\ tmp' = [tmp EXCEPT ![c] = None]
           /\ k = "cert" => job' = [job EXCEPT ![c] = JobOf(c, "meta")] /\ ret' = ret
           /\ k # "cert" => job' = job /\ ret' = [ret EXCEPT ![c] = "ok"]
<1>0. /\ ret[c] = "busy" /\ tmp[c] # None /\ tmp[c].data # Torn /\ RequestInv(c) /\ SP!Inv
      /\ file' = [file EXCEPT ![tmp[c].kind][tmp[c].serial] = tmp[c].data]
      /\ tmp' = [tmp EXCEPT ![c] = None]
  BY DEF Store!RenameTemp, Store!ReadyToRename, EnrollInv
<1>1. call[c] = "ok"
  BY StepOfPut DEF Store!Step
<1>2. cert[c].serial \in Serials /\ JobOf(c, k) \in SP!Job
      /\ Store!Payload(JobOf(c, k)) = ContentsFor(c, k)
  BY <1>1, ContentsTyped
<1>3. JobOf(c, k).kind = k /\ JobOf(c, k).serial = cert[c].serial
  BY DEF JobOf
<1>4. tmp[c].kind = k /\ tmp[c].serial = cert[c].serial /\ tmp[c].data = ContentsFor(c, k)
  BY <1>0, <1>2, <1>3 DEF SP!Inv, SP!TempOfJob, RequestInv, PutsInTurn
<1>5. \A l \in Store!Kinds, t \in Serials :
        file'[l][t] = IF l = k /\ t = cert[c].serial THEN ContentsFor(c, k) ELSE file[l][t]
  BY <1>0, <1>2, <1>4 DEF SP!Inv, SP!TypeOK, SP!Kinds, Store!Kinds
<1>6. k = "cert" => job' = [job EXCEPT ![c] = JobOf(c, "meta")] /\ ret' = ret
  <2> SUFFICES ASSUME k = "cert"
               PROVE  job' = [job EXCEPT ![c] = JobOf(c, "meta")] /\ ret' = ret
    OBVIOUS
  <2>1. [JobOf(c, "cert") EXCEPT !.kind = "meta"] = JobOf(c, "meta")
    BY DEF JobOf
  <2>2. Store!NextFile(job[c]) = JobOf(c, "meta")
    BY <1>3, <2>1 DEF Store!NextFile
  <2>3. JobOf(c, "meta") # None
    BY <1>1, ContentsTyped, StoreSentinels DEF Store!Kinds
  <2> QED
    BY <2>2, <2>3 DEF Store!RenameTemp
<1>7. k # "cert" => job' = job /\ ret' = [ret EXCEPT ![c] = "ok"]
  BY <1>3 DEF Store!RenameTemp, Store!NextFile
<1> QED
  BY <1>0, <1>5, <1>6, <1>7

\* A file is renamed into place only where no other request has one.
LEMMA RenameKeepsFiles ==
    ASSUME EnrollInv, NEW c \in Requests, Store!RenameTemp(c)
    PROVE  \A l \in Store!Kinds, t \in Serials : file[l][t] # None => file'[l][t] = file[l][t]
<1>1. PICK k \in Store!Kinds : job[c] = JobOf(c, k)
  BY StepOfPut DEF Store!Step
<1> SUFFICES ASSUME NEW t \in Serials, t = cert[c].serial, file[k][t] # None
             PROVE  file[k][t] = ContentsFor(c, k)
  BY <1>1, RenameOfPut
<1>2. PICK r \in Requests :
         cert[r] # None /\ cert[r].serial = t /\ file[k][t] = ContentsFor(r, k)
  BY DEF EnrollInv, FilesOwned
<1>3. cert[c] # None
  BY StepOfPut, ContentsTyped DEF Store!Step
<1>4. r = c
  BY <1>2, <1>3 DEF EnrollInv, CAP!Inv, CAP!ReturnedSound
<1> QED
  BY <1>2, <1>4

LEMMA StoreStepKeeps ==
    ASSUME EnrollInv, NEW c \in Requests, StoreStep(c)
    PROVE  EnrollInv'
<1>0. /\ Store!Step(c) /\ UNCHANGED <<procVars, handlerVars, caVars>>
      /\ RequestInv(c) /\ HandlersTypeOK /\ SP!Inv
  BY DEF StoreStep, EnrollInv
<1>1. SP!Inv' /\ SP!Keeps
  <2>1. [SP!Next]_(SP!storeVars)
    BY <1>0, StoreStepIsStores DEF SP!Next
  <2> QED
    BY <1>0, <2>1, StoreSentinels, SP!NextKeeps
<1>2. CAP!Inv'
  BY <1>0, CAKept
<1>3. HandlersTypeOK'
  BY <1>0 DEF HandlersTypeOK, procVars, handlerVars
<1>4. ret[c] = "busy" /\ pc[c] \in Putting /\ call[c] = "ok"
  BY <1>0, StepOfPut
<1>5. PICK k \in Store!Kinds : job[c] = JobOf(c, k) /\ (k = "csr" <=> pc[c] = "putcsr")
  BY <1>0, StepOfPut
<1>6. cert[c] # None /\ cert[c].serial \in Serials /\ ContentsFor(c, k) \in Data
      /\ Store!Payload(JobOf(c, k)) = ContentsFor(c, k)
  BY <1>4, ContentsTyped
<1>7. \A l \in Store!Kinds : JobOf(c, l)' = JobOf(c, l) /\ ContentsFor(c, l)' = ContentsFor(c, l)
  BY <1>0 DEF JobOf, ContentsFor, MetaOf, handlerVars, caVars
<1>8. \A r \in Requests \ {c} : Same(r)
  <2>1. \A r \in Requests \ {c} : tmp'[r] = tmp[r] /\ job'[r] = job[r] /\ ret'[r] = ret[r]
    BY <1>0 DEF Store!Step, Store!CreateTemp, Store!WriteTemp, Store!RenameTemp, Store!FailPut,
       Store!TempsAfterError, SP!Inv, SP!TypeOK
  <2> QED
    BY <1>0, <2>1 DEF Same, handlerVars, caVars
<1>9. InputChecked(c)' /\ CalledForInput(c)' /\ CallInTurn(c)' /\ AnswerFits(c)'
  BY <1>0, <1>4 DEF RequestInv, InputChecked, CalledForInput, CallInTurn, AnswerFits, Answered,
     Putting, Codes, Refusals, handlerVars, caVars
<1>10. CASE Store!RenameTemp(c)
  <2>1. \A l \in Store!Kinds, t \in Serials :
          file'[l][t] = IF l = k /\ t = cert[c].serial THEN ContentsFor(c, k) ELSE file[l][t]
    BY <1>5, <1>10, RenameOfPut
  <2>2. /\ tmp'[c] = None
        /\ k = "cert" => job'[c] = JobOf(c, "meta") /\ ret'[c] = "busy"
        /\ k # "cert" => job'[c] = JobOf(c, k) /\ ret'[c] = "ok"
    BY <1>0, <1>4, <1>5, <1>10, RenameOfPut DEF SP!Inv, SP!TypeOK
  <2>3. /\ pc[c] = "putcert" => file["csr"][cert[c].serial] # None
        /\ pc[c] = "putcert" => file'["csr"][cert[c].serial] # None
    BY <1>0, <1>1, <1>6 DEF RequestInv, PutsInTurn, SP!Keeps, SP!Kinds
  <2>4. PutsInTurn(c)'
    <3>1. pc'[c] = pc[c] /\ cert'[c] = cert[c] /\ UNCHANGED <<pc, cert>>
      BY <1>0 DEF handlerVars, caVars
    <3>2. \A l \in Store!Kinds : JobOf(c, l).kind = l
      BY DEF JobOf
    <3> QED
      BY <1>4, <1>5, <1>7, <2>2, <2>3, <3>1, <3>2 DEF PutsInTurn, Putting, Store!Kinds
  <2>5. FilesOwned'
    <3> SUFFICES ASSUME NEW l \in Store!Kinds, NEW t \in Serials, file'[l][t] # None
                 PROVE  \E r \in Requests : cert'[r] # None /\ cert'[r].serial = t
                                            /\ file'[l][t] = ContentsFor(r, l)'
      BY DEF FilesOwned, Store!Kinds
    <3>1. cert' = cert /\ \A r \in Requests : ContentsFor(r, l)' = ContentsFor(r, l)
      BY <1>0 DEF ContentsFor, MetaOf, handlerVars, caVars
    <3>2. CASE l = k /\ t = cert[c].serial
      BY <1>6, <2>1, <3>1, <3>2
    <3>3. CASE ~ (l = k /\ t = cert[c].serial)
      BY <2>1, <3>1, <3>3 DEF EnrollInv, FilesOwned
    <3> QED
      BY <3>2, <3>3
  <2>6. CertificateAfterCSR'
    <3> SUFFICES ASSUME NEW t \in Serials, file'["cert"][t] # None
                 PROVE  file'["csr"][t] # None
      BY DEF CertificateAfterCSR
    <3>1. file["csr"][t] # None
      <4>1. CASE file["cert"][t] # None
        BY <4>1 DEF EnrollInv, CertificateAfterCSR
      <4>2. CASE file["cert"][t] = None
        BY <1>4, <1>5, <2>1, <2>3, <4>2 DEF Putting, Store!Kinds
      <4> QED
        BY <4>1, <4>2
    <3> QED
      BY <1>1, <3>1 DEF SP!Keeps, SP!Kinds
  <2> QED
    BY <1>0, <1>1, <1>2, <1>3, <1>4, <1>8, <1>9, <2>4, <2>5, <2>6, StepOfOne
       DEF RequestInv, procVars, handlerVars, Active, Running, Putting
<1>11. CASE ~ Store!RenameTemp(c)
  <2>1. /\ UNCHANGED <<file, job>>
        /\ \/ ret' = ret /\ tmp'[c].data \in {Torn, ContentsFor(c, k)}
           \/ ret'[c] = "err" /\ tmp'[c] = None
    <3>1. CASE Store!CreateTemp(c)
      BY <1>0, <3>1 DEF Store!CreateTemp, SP!Inv, SP!TypeOK
    <3>2. CASE Store!WriteTemp(c)
      BY <1>0, <1>5, <1>6, <3>2 DEF Store!WriteTemp, SP!Inv, SP!TypeOK, SP!TempFile
    <3>3. CASE Store!FailPut(c)
      BY <1>0, <3>3 DEF Store!FailPut, Store!TempsAfterError, Store!FilesAfterError,
         Store!AfterError, SP!Inv, SP!TypeOK
    <3> QED
      BY <1>0, <1>11, <3>1, <3>2, <3>3 DEF Store!Step
  <2>2. PutsInTurn(c)'
    <3>1. UNCHANGED <<pc, cert>> /\ Store!Payload(job[c])' = Store!Payload(job[c])
      BY <1>0, <2>1 DEF handlerVars, caVars, Store!Payload
    <3> QED
      BY <1>0, <1>4, <1>5, <1>6, <1>7, <2>1, <3>1
         DEF RequestInv, PutsInTurn, Putting, Store!Kinds
  <2>3. FilesOwned' /\ CertificateAfterCSR'
    BY <1>0, <2>1, FilesKept DEF Settled, handlerVars, caVars
  <2> QED
    BY <1>0, <1>1, <1>2, <1>3, <1>4, <1>8, <1>9, <2>2, <2>3, StepOfOne
       DEF RequestInv, procVars, handlerVars, Active, Running, Putting
<1> QED
  BY <1>10, <1>11

-----------------------------------------------------------------------------
(* The process.                                                            *)

\* However many handlers a death cuts off, what they have stored stays.
LEMMA DieKeeps ==
    ASSUME EnrollInv, Die
    PROVE  EnrollInv'
<1>0. /\ CAP!Abandon /\ SP!Crash /\ HandlersTypeOK /\ CAP!Inv /\ SP!Inv
      /\ proc' = "killed" /\ UNCHANGED <<restarts, input, status, asked, cert, file>>
  BY DEF Die, EnrollInv, CA!Abandon, CAP!Abandon, Store!Crash, SP!Crash
<1>1. CAP!Inv'
  BY <1>0, CAP!FailureKeeps
<1>2. SP!Inv' /\ SP!Keeps
  BY <1>0, StoreSentinels, SP!CrashKeeps
<1>3. HandlersTypeOK'
  BY <1>0 DEF Die, HandlersTypeOK
<1>4. ASSUME NEW r \in Requests
      PROVE  RequestInv(r)'
  <2>1. /\ pc'[r] = (IF Active(r) THEN "dead" ELSE pc[r])
        /\ call'[r] = (IF call[r] = "running" THEN "failed" ELSE call[r])
        /\ tmp'[r] = None /\ ret'[r] = "idle"
        /\ RequestInv(r)
    BY <1>0 DEF Die, HandlersTypeOK, CAP!Abandon, SP!Crash, EnrollInv
  <2>2. InputChecked(r)' /\ CalledForInput(r)'
    BY <1>0, <2>1 DEF RequestInv, InputChecked, CalledForInput, Active, Running
  <2>3. CallInTurn(r)'
    BY <1>0, <2>1 DEF RequestInv, CallInTurn, Active, Running, Putting
  <2>4. AnswerFits(r)'
    BY <1>0, <2>1 DEF RequestInv, AnswerFits, Answered, CallInTurn, Active, Running
  <2>5. PutsInTurn(r)'
    BY <1>0, <2>1 DEF PutsInTurn, Active, Running
  <2> QED
    BY <2>2, <2>3, <2>4, <2>5 DEF RequestInv
<1>5. FilesOwned' /\ CertificateAfterCSR'
  BY <1>0, FilesKept DEF Settled
<1>6. ExitedQuiet'
  BY <1>0 DEF ExitedQuiet
<1> QED
  BY <1>1, <1>2, <1>3, <1>4, <1>5, <1>6 DEF EnrollInv

\* The other steps of the process touch no request.
LEMMA ProcessKeeps ==
    ASSUME EnrollInv, Sigterm \/ Drained \/ Restart
    PROVE  EnrollInv'
<1>0. UNCHANGED <<handlerVars, caVars, storeVars>> /\ HandlersTypeOK
  BY DEF Sigterm, Drained, Restart, EnrollInv
<1>1. CAP!Inv' /\ SP!Inv' /\ SP!Keeps
  BY <1>0, CAKept, StoreKept
<1>2. HandlersTypeOK'
  <2>1. restarts' \in 0..MaxRestarts
    <3>1. restarts' = restarts \/ (restarts' = restarts + 1 /\ restarts < MaxRestarts)
      BY DEF Sigterm, Drained, Restart
    <3> QED
      BY <1>0, <3>1, EnrollmentAssumption DEF HandlersTypeOK
  <2>2. proc' \in {"up", "draining", "exited", "killed"}
    BY DEF Sigterm, Drained, Restart
  <2> QED
    BY <1>0, <2>1, <2>2 DEF HandlersTypeOK, handlerVars
<1>3. \A r \in Requests : RequestInv(r)'
  BY <1>0, <1>1, SameKept DEF Same, handlerVars, caVars, storeVars
<1>4. FilesOwned' /\ CertificateAfterCSR'
  BY <1>0, FilesKept DEF Settled, handlerVars, caVars, storeVars
<1>5. ExitedQuiet'
  <2>1. proc' = "exited" => Quiet
    BY DEF Sigterm, Drained, Restart
  <2> QED
    BY <1>0, <2>1 DEF ExitedQuiet, Quiet, Active, handlerVars
<1> QED
  BY <1>1, <1>2, <1>3, <1>4, <1>5 DEF EnrollInv

-----------------------------------------------------------------------------
(* All steps.                                                              *)

LEMMA HandlerKeeps ==
    ASSUME EnrollInv, NEW c \in Requests, Handler(c)
    PROVE  EnrollInv'
<1>1. CASE Authenticate(c)
  <2>1. CASE Goto(c, "body")
    BY <1>1, <2>1, AuthenticatedKeeps
  <2>2. CASE Reply(c, 401)
    BY <1>1, <2>2, RefusalKeeps DEF Authenticate, Refusals
  <2> QED
    BY <1>1, <2>1, <2>2 DEF Authenticate
<1>2. CASE BodyReadFails(c)
  BY <1>2, RefusalKeeps DEF BodyReadFails, Refusals
<1> QED
  BY <1>1, <1>2, ServeStaticKeeps, IssueFailedKeeps, IssuedKeeps, CSRStoredKeeps,
     StoreFailedKeeps, RespondKeeps, StoreStepKeeps, CAStepKeeps DEF Handler

LEMMA ClientKeeps ==
    ASSUME EnrollInv, NEW c \in Requests, Client(c)
    PROVE  EnrollInv'
<1>1. CASE DecodeBody(c)
  <2>1. CASE input[c].csr # None /\ IdentityAccepted(input[c])
    BY <1>1, <2>1, DecodedKeeps
  <2>2. CASE ~ (input[c].csr # None /\ IdentityAccepted(input[c]))
    <3>1. PICK code \in Refusals : Reply(c, code) /\ UNCHANGED caVars
      BY <1>1, <2>2 DEF DecodeBody, Refusals
    <3> QED
      BY <1>1, <3>1, RefusalKeeps DEF DecodeBody
  <2> QED
    BY <2>1, <2>2
<1> QED
  BY <1>1, AcceptKeeps, DisconnectKeeps DEF Client

LEMMA StutterKeeps ==
    ASSUME EnrollInv, UNCHANGED vars
    PROVE  EnrollInv'
<1>0. UNCHANGED <<procVars, handlerVars, caVars, storeVars>>
  BY DEF vars
<1>1. CAP!Inv' /\ SP!Inv' /\ SP!Keeps
  BY <1>0, CAKept, StoreKept
<1>2. HandlersTypeOK' /\ ExitedQuiet'
  BY <1>0 DEF EnrollInv, HandlersTypeOK, ExitedQuiet, Quiet, Active, procVars, handlerVars
<1>3. \A r \in Requests : RequestInv(r)'
  BY <1>0, <1>1, SameKept DEF Same, handlerVars, caVars, storeVars
<1>4. FilesOwned' /\ CertificateAfterCSR'
  BY <1>0, FilesKept DEF Settled, handlerVars, caVars, storeVars
<1> QED
  BY <1>1, <1>2, <1>3, <1>4 DEF EnrollInv

LEMMA NextKeepsEnrollInv ==
    ASSUME EnrollInv, [Next]_vars
    PROVE  EnrollInv'
<1>1. CASE Process
  BY <1>1, DieKeeps, ProcessKeeps DEF Process, Crash, ShutdownTimeout
<1> QED
  BY <1>1, HandlerKeeps, ClientKeeps, StutterKeeps DEF Next

LEMMA InitEnrollInv == Init => EnrollInv
<1> SUFFICES ASSUME Init PROVE EnrollInv
  OBVIOUS
<1>1. HandlersTypeOK
  BY EnrollmentAssumption DEF Init, HandlersTypeOK
<1>2. CAP!Inv
  BY DEF Init, CA!Init, CAP!Inv, CAP!TypeOK, CAP!AskedWhenCalled, CAP!ReturnedSound
<1>3. SP!Inv
  <2>1. SP!Init
    BY DEF Init, Store!Init, SP!Init, Store!Kinds, SP!Kinds
  <2> QED
    BY <2>1, StoreSentinels, SP!InitInv
<1>4. ASSUME NEW r \in Requests
      PROVE  RequestInv(r)
  <2>1. /\ pc[r] = "idle" /\ status[r] = 0 /\ call[r] = "idle"
        /\ tmp[r] = None /\ ret[r] = "idle"
    BY DEF Init, CA!Init, Store!Init
  <2> QED
    BY <2>1 DEF RequestInv, InputChecked, CalledForInput, CallInTurn, AnswerFits, Answered,
       PutsInTurn, Putting, Refusals
<1>5. FilesOwned /\ CertificateAfterCSR /\ ExitedQuiet
  BY DEF Init, Store!Init, FilesOwned, CertificateAfterCSR, ExitedQuiet, Store!Kinds
<1> QED
  BY <1>1, <1>2, <1>3, <1>4, <1>5 DEF EnrollInv

\* The inductive invariant of estd, over crashes, shutdowns and restarts.
THEOREM EnrollInvariant == Spec => []EnrollInv
BY InitEnrollInv, NextKeepsEnrollInv, PTL DEF Spec

-----------------------------------------------------------------------------
(* What it means for clients, auditors and operators.                      *)

\* The state of the process is well formed.
THEOREM EnrollmentTypeCorrect == Spec => []TypeOK
<1>1. EnrollInv => TypeOK
  BY DEF EnrollInv, HandlersTypeOK, TypeOK, CAP!Inv, CAP!TypeOK, CA!TypeOK, CAP!Certificates,
     CA!Certificates, SP!Inv, SP!TypeOK, Store!TypeOK, SP!Kinds, Store!Kinds, SP!Contents,
     Store!Contents, SP!Job, Store!Job, SP!TempFile, Store!TempFile
<1> QED
  BY EnrollInvariant, <1>1, PTL

\* Every certificate the CA has signed, recorded or not, goes back to an
\* enrolment over a verified client certificate, for the CSR that client has
\* sent, with proof of possession and, for a re-enrolment, its own identity.
THEOREM IssuedAreAuthorised == Spec => []IssuedWasAuthorised
<1>1. EnrollInv => IssuedWasAuthorised
  <2> SUFFICES ASSUME EnrollInv, NEW r \in Requests, cert[r] # None
               PROVE  /\ input[r].endpoint \in EnrollEndpoints
                      /\ input[r].peer # None /\ input[r].trusted
                      /\ cert[r].csr = input[r].csr /\ input[r].csr.pop
                      /\ input[r].endpoint = "simplereenroll" =>
                           IdentitiesMatch(input[r].peer, cert[r].csr.id)
    BY DEF IssuedWasAuthorised
  <2>1. call[r] = "ok" /\ cert[r].csr = asked[r] /\ asked[r].pop
    BY DEF EnrollInv, CAP!Inv, CAP!ReturnedSound
  <2>2. /\ input[r].endpoint \in EnrollEndpoints
        /\ input[r].peer # None /\ input[r].trusted
        /\ IdentityAccepted(input[r]) /\ asked[r] = input[r].csr
    BY <2>1 DEF EnrollInv, RequestInv, CalledForInput
  <2> QED
    BY <2>1, <2>2 DEF IdentityAccepted
<1> QED
  BY EnrollInvariant, <1>1, PTL

\* A file under the serial number of a request's certificate is that request's.
LEMMA OwnFile ==
    ASSUME EnrollInv, NEW r \in Requests, cert[r] # None,
           NEW k \in Store!Kinds, file[k][cert[r].serial] # None
    PROVE  file[k][cert[r].serial] = ContentsFor(r, k)
<1>1. cert[r].serial \in Serials
  BY SerialOfCert
<1>2. PICK d \in Requests : /\ cert[d] # None
                            /\ cert[d].serial = cert[r].serial
                            /\ file[k][cert[r].serial] = ContentsFor(d, k)
  BY <1>1 DEF EnrollInv, FilesOwned
<1>3. d = r
  BY <1>2 DEF EnrollInv, CAP!Inv, CAP!ReturnedSound
<1> QED
  BY <1>2, <1>3

\* The request a stored file is for.
LEMMA OwnerOfFile ==
    ASSUME EnrollInv, NEW k \in Store!Kinds, NEW s \in Serials, file[k][s] # None
    PROVE  \E r \in Requests : cert[r] # None /\ cert[r].serial = s
               /\ file[k][s] = ContentsFor(r, k)
BY DEF EnrollInv, FilesOwned

\* Metadata is never there without the certificate, nor the certificate
\* without the CSR.
LEMMA FilesInOrder ==
    ASSUME EnrollInv, NEW s \in Serials
    PROVE  /\ file["meta"][s] # None => file["cert"][s] # None
           /\ file["cert"][s] # None => file["csr"][s] # None
BY DEF EnrollInv, CertificateAfterCSR, SP!Inv, SP!StoredMetaHasCertificate

\* A client that has been told 200 can count on the record of its request,
\* whatever other requests, crashes and restarts follow.
THEOREM GrantedAreRecorded == Spec => []GrantedIsRecorded
<1>1. EnrollInv => GrantedIsRecorded
  <2> SUFFICES ASSUME EnrollInv, NEW r \in Requests, Answered(r, 200)
               PROVE  /\ cert[r] # None
                      /\ file["csr"][cert[r].serial] = input[r].csr
                      /\ file["cert"][cert[r].serial] = cert[r]
                      /\ file["meta"][cert[r].serial] = MetaOf(r)
    BY DEF GrantedIsRecorded
  <2>1. call[r] = "ok" /\ cert[r] # None /\ file["meta"][cert[r].serial] # None
        /\ asked[r] = input[r].csr
    BY DEF EnrollInv, RequestInv, AnswerFits, CallInTurn, CalledForInput
  <2>2. cert[r].serial \in Serials
    BY <2>1, SerialOfCert
  <2>3. \A k \in Store!Kinds : file[k][cert[r].serial] # None
    BY <2>1, <2>2, FilesInOrder DEF Store!Kinds
  <2> QED
    BY <2>1, <2>3, OwnFile DEF Store!Kinds, ContentsFor
<1> QED
  BY EnrollInvariant, <1>1, PTL

\* The files under one serial number are of one request, and come in the order
\* CSR, certificate, metadata.
THEOREM StoredRecordsAgree == Spec => []RecordsAgree
<1>1. EnrollInv => RecordsAgree
  <2> SUFFICES ASSUME EnrollInv, NEW s \in Serials, file["cert"][s] # None
               PROVE  /\ file["csr"][s] = file["cert"][s].csr /\ file["cert"][s].serial = s
                      /\ file["meta"][s] # None =>
                           \E r \in Requests :
                             file["cert"][s] = cert[r] /\ file["meta"][s] = MetaOf(r)
    BY FilesInOrder DEF RecordsAgree
  <2>1. PICK r \in Requests : cert[r] # None /\ cert[r].serial = s /\ file["cert"][s] = cert[r]
    BY OwnerOfFile DEF Store!Kinds, ContentsFor
  <2>2. file["csr"][s] = asked[r] /\ cert[r].csr = asked[r]
    BY <2>1, FilesInOrder, OwnFile DEF Store!Kinds, ContentsFor, EnrollInv, CAP!Inv,
       CAP!ReturnedSound
  <2>3. file["meta"][s] # None => file["meta"][s] = MetaOf(r)
    BY <2>1, OwnFile DEF Store!Kinds, ContentsFor
  <2> QED
    BY <2>1, <2>2, <2>3
<1> QED
  BY EnrollInvariant, <1>1, PTL

\* Every certificate in the store goes back to a request that was entitled to
\* it.
THEOREM StoredAreAuthorised == Spec => []StoredWasAuthorised
<1>1. EnrollInv => StoredWasAuthorised
  <2> SUFFICES ASSUME EnrollInv, NEW s \in Serials, file["cert"][s] # None
               PROVE  \E r \in Requests :
                        /\ file["cert"][s] = cert[r]
                        /\ input[r].peer # None /\ input[r].trusted
                        /\ input[r].csr.pop
                        /\ input[r].endpoint = "simplereenroll" =>
                             IdentitiesMatch(input[r].peer, cert[r].csr.id)
    BY DEF StoredWasAuthorised
  <2>1. PICK r \in Requests : cert[r] # None /\ cert[r].serial = s /\ file["cert"][s] = cert[r]
    BY OwnerOfFile DEF Store!Kinds, ContentsFor
  <2>2. call[r] = "ok" /\ cert[r].csr = asked[r] /\ asked[r].pop
    BY <2>1 DEF EnrollInv, CAP!Inv, CAP!ReturnedSound
  <2>3. /\ input[r].peer # None /\ input[r].trusted
        /\ IdentityAccepted(input[r])
        /\ asked[r] = input[r].csr
    BY <2>2 DEF EnrollInv, RequestInv, CalledForInput
  <2> QED
    BY <2>1, <2>2, <2>3 DEF IdentityAccepted
<1> QED
  BY EnrollInvariant, <1>1, PTL

\* A request that was refused has left neither a certificate nor metadata.
THEOREM RefusedLeaveNothing == Spec => []RefusedLeavesNothing
<1>1. EnrollInv => RefusedLeavesNothing
  <2> SUFFICES ASSUME EnrollInv, NEW r \in Requests, status[r] \in Refusals
               PROVE  /\ cert[r] = None
                      /\ \A s \in Serials :
                           file["meta"][s] = None \/ file["meta"][s].request # r
    BY DEF RefusedLeavesNothing
  <2>1. cert[r] = None
    BY SerialOfCert DEF EnrollInv, RequestInv, AnswerFits
  <2>2. ASSUME NEW s \in Serials, file["meta"][s] # None
        PROVE  file["meta"][s].request # r
    <3>1. PICK d \in Requests : cert[d] # None /\ file["meta"][s] = MetaOf(d)
      BY <2>2, OwnerOfFile DEF Store!Kinds, ContentsFor
    <3> QED
      BY <2>1, <3>1 DEF MetaOf
  <2> QED
    BY <2>1, <2>2
<1> QED
  BY EnrollInvariant, <1>1, PTL

\* After an orderly exit every request that was served has its answer, and who
\* has no record has been told so.
THEOREM OrderlyExit == Spec => []ExitIsOrderly
<1>1. EnrollInv => ExitIsOrderly
  <2> SUFFICES ASSUME EnrollInv, proc = "exited", NEW r \in Requests
               PROVE  /\ ~ Active(r)
                      /\ cert[r] # None /\ pc[r] # "dead" /\ file["meta"][cert[r].serial] = None
                            => status[r] = 500
    BY DEF ExitIsOrderly
  <2>1. ~ Active(r)
    BY DEF EnrollInv, ExitedQuiet, Quiet
  <2>2. ASSUME cert[r] # None, pc[r] # "dead", file["meta"][cert[r].serial] = None
        PROVE  status[r] = 500
    <3>1. RequestInv(r) /\ call[r] = "ok"
      BY <2>2, SerialOfCert DEF EnrollInv
    <3>2. pc[r] = "done" /\ input[r].endpoint \in EnrollEndpoints
      BY <2>1, <2>2, <3>1 DEF RequestInv, CalledForInput, Active, Running, Putting
    <3> QED
      BY <2>2, <3>1, <3>2 DEF RequestInv, AnswerFits, Answered
  <2> QED
    BY <2>1, <2>2
<1> QED
  BY EnrollInvariant, <1>1, PTL

\* Only a rename of the store changes a file.
LEMMA FilesChange ==
    ASSUME [Next]_vars
    PROVE  UNCHANGED file \/ \E c \in Requests : StoreStep(c) /\ Store!RenameTemp(c)
BY DEF Next, vars, storeVars, Process, Crash, Die, Store!Crash, Sigterm, Drained,
       ShutdownTimeout, Restart, Client, Accept, DecodeBody, Disconnect, Handler, ServeStatic,
       Authenticate, BodyReadFails, IssueFailed, Issued, Store!PutCSR, Store!Start, CSRStored,
       Store!PutCertificate, StoreFailed, Respond, StoreStep, Store!Step, Store!CreateTemp,
       Store!WriteTemp, Store!FailPut, Store!FilesAfterError, CAStep

\* A stored file is never replaced, neither by another request nor after a
\* restart.
THEOREM RecordsNeverChange == Spec => RecordsImmutable
<1>1. EnrollInv /\ [Next]_vars =>
        [\A k \in {"csr", "cert", "meta"}, s \in Serials :
            file[k][s] # None => file'[k][s] = file[k][s]]_vars
  BY FilesChange, RenameKeepsFiles DEF Store!Kinds
<1> QED
  BY <1>1, EnrollInvariant, PTL DEF Spec, RecordsImmutable

-----------------------------------------------------------------------------
(* estd implements the registry: what its store and its answers show is a  *)
(* behaviour of the abstract specification, for any number of requests.    *)

OwnerMap == [s \in Serials |-> OwnerOf(s)]
OutcomeMap == [r \in Requests |-> Outcome(r)]

-----------------------------------------------------------------------------
(* The map and the inductive invariant.                                    *)

\* A request owns a serial number when its metadata is stored under it.
LEMMA OwnerHasRecord ==
    ASSUME EnrollInv, NEW r \in Requests, NEW s \in Serials, OwnerOf(s) = r
    PROVE  /\ file["meta"][s] # None
           /\ cert[r] # None /\ cert[r].serial = s /\ file["meta"][s] = MetaOf(r)
<1>1. file["meta"][s] # None /\ file["meta"][s].request = r
  BY EnrollmentAssumption DEF OwnerOf
<1>2. PICK d \in Requests : /\ cert[d] # None /\ cert[d].serial = s
                            /\ file["meta"][s] = MetaOf(d)
  BY <1>1, OwnerOfFile DEF Store!Kinds, ContentsFor
<1>3. d = r
  BY <1>1, <1>2 DEF MetaOf
<1> QED
  BY <1>1, <1>2, <1>3

LEMMA RecordHasOwner ==
    ASSUME EnrollInv, NEW r \in Requests, cert[r] # None, file["meta"][cert[r].serial] # None
    PROVE  cert[r].serial \in Serials /\ OwnerOf(cert[r].serial) = r
<1>1. cert[r].serial \in Serials
  BY SerialOfCert
<1>2. file["meta"][cert[r].serial] = MetaOf(r)
  BY OwnFile DEF Store!Kinds, ContentsFor
<1> QED
  BY <1>1, <1>2 DEF OwnerOf, MetaOf

\* Nothing that shows has changed of the files.
LEMMA OwnersKept ==
    ASSUME \A s \in Serials : file'["meta"][s] = file["meta"][s]
    PROVE  OwnerMap' = OwnerMap
BY DEF OwnerMap, OwnerOf

\* What shows of a request while nobody has answered it.
LEMMA PendingOutcome ==
    ASSUME EnrollInv, NEW r \in Requests, pc[r] = "idle" \/ Active(r)
    PROVE  OutcomeMap[r] = "pending"
BY DEF OutcomeMap, Outcome, Active, Running

\* What a step shows that changes only what is known of one request.
LEMMA OutcomesOfOthers ==
    ASSUME NEW c \in Requests, NEW o,
           \A r \in Requests \ {c} :
               pc'[r] = pc[r] /\ input'[r] = input[r] /\ status'[r] = status[r],
           Outcome(c)' = o
    PROVE  OutcomeMap' = [OutcomeMap EXCEPT ![c] = o]
<1>1. \A r \in Requests \ {c} : Outcome(r)' = Outcome(r)
  BY DEF Outcome
<1> QED
  BY <1>1 DEF OutcomeMap

\* A step that leaves a pending request pending does not show.
LEMMA StillPending ==
    ASSUME EnrollInv, NEW c \in Requests, pc[c] = "idle" \/ Active(c), Active(c)',
           \A r \in Requests \ {c} :
               pc'[r] = pc[r] /\ input'[r] = input[r] /\ status'[r] = status[r]
    PROVE  OutcomeMap' = OutcomeMap
<1>1. Outcome(c)' = "pending" /\ Outcome(c) = "pending"
  BY DEF Outcome, Active, Running
<1> QED
  BY <1>1 DEF OutcomeMap, Outcome

-----------------------------------------------------------------------------
(* The steps.                                                              *)

\* An answer grants what is recorded, refuses what is not, or fails.
LEMMA ReplyRefines ==
    ASSUME EnrollInv, EnrollInv', NEW c \in Requests, NEW code \in Codes, Reply(c, code),
           Active(c), UNCHANGED <<caVars, storeVars>>
    PROVE  R!Next \/ UNCHANGED <<OwnerMap, OutcomeMap>>
<1>0. /\ pc'[c] = "done" /\ status'[c] = code /\ UNCHANGED <<input, call, cert, file>>
      /\ \A r \in Requests \ {c} : pc'[r] = pc[r] /\ status'[r] = status[r]
  BY DEF Reply, EnrollInv, HandlersTypeOK, caVars, storeVars
<1>1. OwnerMap' = OwnerMap
  BY <1>0, OwnersKept
<1>2. OutcomeMap[c] = "pending"
  BY PendingOutcome
<1>3. AnswerFits(c)'
  BY DEF EnrollInv, RequestInv
<1>4. CASE input[c].endpoint \notin EnrollEndpoints
  <2>1. Outcome(c)' = "pending" /\ Outcome(c) = "pending"
    BY <1>0, <1>4 DEF Outcome, Active, Running
  <2>2. OutcomeMap' = OutcomeMap
    BY <1>0, <2>1 DEF OutcomeMap, Outcome
  <2> QED
    BY <1>1, <2>2
<1>5. CASE input[c].endpoint \in EnrollEndpoints /\ code = 200
  <2>1. OutcomeMap' = [OutcomeMap EXCEPT ![c] = "granted"]
    <3>1. Outcome(c)' = "granted"
      BY <1>0, <1>5 DEF Outcome
    <3> QED
      BY <1>0, <3>1, OutcomesOfOthers
  <2>2. call[c] = "ok" /\ file["meta"][cert[c].serial] # None
    BY <1>0, <1>3, <1>5 DEF AnswerFits, Answered
  <2>3. cert[c] # None
    BY <2>2 DEF EnrollInv, RequestInv, CallInTurn
  <2>4. R!Owns(c)
    BY <2>2, <2>3, RecordHasOwner DEF R!Owns
  <2> QED
    BY <1>1, <1>2, <2>1, <2>4
       DEF OwnerMap, OutcomeMap, R!Next, R!Grant, R!Answer
<1>6. CASE input[c].endpoint \in EnrollEndpoints /\ code \in Refusals
  <2>1. OutcomeMap' = [OutcomeMap EXCEPT ![c] = "refused"]
    <3>1. Outcome(c)' = "refused"
      BY <1>0, <1>6 DEF Outcome, Refusals
    <3> QED
      BY <1>0, <3>1, OutcomesOfOthers
  <2>2. cert[c] = None
    BY <1>0, <1>3, <1>6, SerialOfCert DEF AnswerFits
  <2>3. ~ R!Owns(c)
    BY <2>2, OwnerHasRecord DEF R!Owns
  <2> QED
    BY <1>1, <1>2, <2>1, <2>3
       DEF OwnerMap, OutcomeMap, R!Next, R!Refuse, R!Answer
<1>7. CASE /\ input[c].endpoint \in EnrollEndpoints
           /\ code # 200 /\ code \notin Refusals
  <2>1. OutcomeMap' = [OutcomeMap EXCEPT ![c] = "failed"]
    <3>1. Outcome(c)' = "failed"
      BY <1>0, <1>7 DEF Outcome
    <3> QED
      BY <1>0, <3>1, OutcomesOfOthers
  <2>2. OutcomeMap' = [r \in Requests |-> IF r \in {c} THEN "failed" ELSE OutcomeMap[r]]
    BY <2>1 DEF OutcomeMap
  <2>3. R!Fail({c})
    BY <1>1, <1>2, <2>2 DEF OwnerMap, OutcomeMap, R!Fail
  <2> QED
    BY <2>3 DEF R!Next
<1> QED
  BY <1>4, <1>5, <1>6, <1>7

\* A connection that the TLS layer ends is a refusal.
LEMMA AcceptRefines ==
    ASSUME EnrollInv, NEW c \in Requests, NEW in \in Inputs, Accept(c, in)
    PROVE  R!Next \/ UNCHANGED <<OwnerMap, OutcomeMap>>
<1>0. /\ pc[c] = "idle" /\ pc'[c] \in {"closed", "serve"} /\ UNCHANGED <<status, file>>
      /\ \A r \in Requests \ {c} : pc'[r] = pc[r] /\ input'[r] = input[r]
  BY DEF Accept, EnrollInv, HandlersTypeOK, storeVars
<1>1. OwnerMap' = OwnerMap
  BY <1>0, OwnersKept
<1>2. CASE pc'[c] = "serve"
  <2>1. OutcomeMap' = OutcomeMap
    BY <1>0, <1>2, StillPending DEF Active, Running
  <2> QED
    BY <1>1, <2>1
<1>3. CASE pc'[c] = "closed"
  <2>1. OutcomeMap' = [OutcomeMap EXCEPT ![c] = "refused"]
    <3>1. Outcome(c)' = "refused"
      BY <1>3 DEF Outcome
    <3> QED
      BY <1>0, <3>1, OutcomesOfOthers
  <2>2. ~ R!Owns(c)
    <3>1. cert[c] = None
      BY <1>0, SerialOfCert DEF EnrollInv, RequestInv, CalledForInput, Putting
    <3> QED
      BY <3>1, OwnerHasRecord DEF R!Owns
  <2>3. OutcomeMap[c] = "pending"
    BY <1>0, PendingOutcome
  <2> QED
    BY <1>1, <2>1, <2>2, <2>3 DEF OwnerMap, OutcomeMap, R!Next, R!Refuse, R!Answer
<1> QED
  BY <1>0, <1>2, <1>3

\* The rename of the metadata is what records a request.
LEMMA StoreStepRefines ==
    ASSUME EnrollInv, NEW c \in Requests, StoreStep(c)
    PROVE  R!Next \/ UNCHANGED <<OwnerMap, OutcomeMap>>
<1>1. OutcomeMap' = OutcomeMap
  BY DEF StoreStep, handlerVars, OutcomeMap, Outcome
<1>2. Store!Step(c) /\ Active(c)
  BY StepOfPut DEF StoreStep, Active, Running, Putting
<1>3. PICK k \in Store!Kinds : job[c] = JobOf(c, k)
  BY <1>2, StepOfPut
<1>4. CASE UNCHANGED file
  BY <1>1, <1>4, OwnersKept
<1>5. CASE Store!RenameTemp(c) /\ k # "meta"
  BY <1>1, <1>3, <1>5, RenameOfPut, OwnersKept DEF Store!Kinds
<1>6. CASE Store!RenameTemp(c) /\ k = "meta"
  <2> DEFINE s == cert[c].serial
  <2>1. cert[c] # None /\ s \in Serials /\ MetaOf(c) # None
    BY <1>2, StepOfPut, ContentsTyped, StoreSentinels
  <2>2. \A t \in Serials : file'["meta"][t] = IF t = s THEN MetaOf(c) ELSE file["meta"][t]
    BY <1>3, <1>6, RenameOfPut DEF Store!Kinds, ContentsFor
  <2>3. CASE file["meta"][s] # None
    <3>1. file["meta"][s] = MetaOf(c)
      BY <2>1, <2>3, OwnFile DEF Store!Kinds, ContentsFor
    <3> QED
      BY <1>1, <2>2, <3>1, OwnersKept
  <2>4. CASE file["meta"][s] = None
    <3>1. OwnerMap' = [OwnerMap EXCEPT ![s] = c] /\ OwnerMap[s] = None
      BY <2>1, <2>2, <2>4 DEF OwnerMap, OwnerOf, MetaOf
    <3>2. ~ R!Owns(c)
      BY <2>4, OwnerHasRecord DEF R!Owns
    <3>3. OutcomeMap[c] = "pending"
      BY <1>2, PendingOutcome
    <3>4. R!Record(c, s)
      BY <1>1, <3>1, <3>2, <3>3 DEF OwnerMap, OutcomeMap, R!Record
    <3> QED
      BY <2>1, <3>4 DEF R!Next
  <2> QED
    BY <2>3, <2>4
<1> QED
  BY <1>2, <1>4, <1>5, <1>6 DEF Store!Step, Store!CreateTemp, Store!WriteTemp, Store!FailPut,
     Store!FilesAfterError

\* A death fails every request that is being served, and no other.
LEMMA DieRefines ==
    ASSUME EnrollInv, Die
    PROVE  R!Next
<1> DEFINE cut == {r \in Requests : Active(r)}
<1>1. OwnerMap' = OwnerMap
  BY OwnersKept DEF Die, Store!Crash
<1>2. \A r \in Requests : pc'[r] = IF Active(r) THEN "dead" ELSE pc[r]
  BY DEF Die
<1>3. OutcomeMap' = [r \in Requests |-> IF r \in cut THEN "failed" ELSE OutcomeMap[r]]
  <2>1. \A r \in Requests : Outcome(r)' = IF r \in cut THEN "failed" ELSE Outcome(r)
    BY <1>2 DEF Die, Outcome
  <2> QED
    BY <2>1 DEF OutcomeMap
<1>4. \A r \in cut : OutcomeMap[r] = "pending"
  BY PendingOutcome
<1>5. R!Fail(cut)
  BY <1>1, <1>3, <1>4 DEF OwnerMap, OutcomeMap, R!Fail
<1> QED
  BY <1>5 DEF R!Next

\* The steps that do not show: the handler goes on, or the client goes.
LEMMA UnseenRefines ==
    ASSUME EnrollInv, NEW c \in Requests, UNCHANGED file,
           \/ \E l \in {"body", "issue", "putcsr", "putcert"} : Goto(c, l) /\ Active(c)
           \/ Disconnect(c)
           \/ CAStep(c)
    PROVE  UNCHANGED <<OwnerMap, OutcomeMap>>
<1>1. OwnerMap' = OwnerMap
  BY OwnersKept
<1>2. CASE Disconnect(c) \/ CAStep(c)
  BY <1>1, <1>2 DEF Disconnect, CAStep, handlerVars, OutcomeMap, Outcome
<1>3. ASSUME NEW l \in {"body", "issue", "putcsr", "putcert"}, Goto(c, l), Active(c)
      PROVE  OutcomeMap' = OutcomeMap
  <2>1. /\ pc'[c] = l /\ UNCHANGED <<input, status>>
        /\ \A r \in Requests \ {c} : pc'[r] = pc[r]
    BY <1>3 DEF Goto, EnrollInv, HandlersTypeOK
  <2>2. Active(c)'
    BY <2>1 DEF Active, Running
  <2> QED
    BY <1>3, <2>1, <2>2, StillPending
<1> QED
  BY <1>1, <1>2, <1>3

LEMMA HandlerRefines ==
    ASSUME EnrollInv, EnrollInv', NEW c \in Requests, Handler(c) \/ DecodeBody(c)
    PROVE  R!Next \/ UNCHANGED <<OwnerMap, OutcomeMap>>
<1>1. CASE \E code \in Codes : Reply(c, code) /\ Active(c) /\ UNCHANGED <<caVars, storeVars>>
  BY <1>1, ReplyRefines
<1>2. CASE StoreStep(c)
  BY <1>2, StoreStepRefines
<1>3. CASE CAStep(c)
  BY <1>3, UnseenRefines DEF CAStep, storeVars
<1>4. CASE \/ ServeStatic(c) \/ BodyReadFails(c) \/ IssueFailed(c) \/ StoreFailed(c)
           \/ Respond(c)
  <2>1. UNCHANGED <<caVars, storeVars>> /\ Active(c)
    BY <1>4 DEF ServeStatic, BodyReadFails, IssueFailed, StoreFailed, Respond, Recorded, Active,
       Running
  <2>2. \E code \in Codes : Reply(c, code)
    BY <1>4 DEF ServeStatic, BodyReadFails, IssueFailed, StoreFailed, Respond, ErrorCode, Codes,
       Refusals
  <2> QED
    BY <1>1, <2>1, <2>2
<1>5. CASE Authenticate(c)
  <2>1. UNCHANGED <<caVars, storeVars>> /\ Active(c) /\ (Goto(c, "body") \/ Reply(c, 401))
    BY <1>5 DEF Authenticate, Active, Running
  <2> QED
    BY <1>1, <2>1, UnseenRefines DEF storeVars, Codes, Refusals
<1>6. CASE DecodeBody(c)
  <2>1. /\ UNCHANGED storeVars /\ Active(c)
        /\ \/ Goto(c, "issue")
           \/ UNCHANGED caVars /\ \E code \in {400, 403} : Reply(c, code)
    BY <1>6 DEF DecodeBody, Active, Running
  <2> QED
    BY <1>1, <2>1, UnseenRefines DEF storeVars, Codes, Refusals
<1>7. CASE Issued(c) \/ CSRStored(c)
  <2>1. UNCHANGED file /\ Active(c) /\ (Goto(c, "putcsr") \/ Goto(c, "putcert"))
    BY <1>7 DEF Issued, CSRStored, Store!PutCSR, Store!PutCertificate, Store!Start, Active,
       Running
  <2> QED
    BY <2>1, UnseenRefines
<1> QED
  BY <1>2, <1>3, <1>4, <1>5, <1>6, <1>7 DEF Handler

LEMMA StepRefines ==
    ASSUME EnrollInv, EnrollInv', [Next]_vars
    PROVE  R!Next \/ UNCHANGED <<OwnerMap, OutcomeMap>>
<1>1. CASE Crash \/ ShutdownTimeout
  BY <1>1, DieRefines DEF Crash, ShutdownTimeout
<1>2. CASE Sigterm \/ Drained \/ Restart \/ UNCHANGED vars
  <2>1. UNCHANGED <<handlerVars, file>>
    BY <1>2 DEF Sigterm, Drained, Restart, vars, storeVars
  <2> QED
    BY <2>1, OwnersKept DEF handlerVars, OutcomeMap, Outcome
<1>3. ASSUME NEW c \in Requests, Client(c) \/ Handler(c)
      PROVE  R!Next \/ UNCHANGED <<OwnerMap, OutcomeMap>>
  <2>1. CASE Disconnect(c)
    BY <2>1, UnseenRefines DEF Disconnect, storeVars
  <2> QED
    BY <1>3, <2>1, AcceptRefines, HandlerRefines DEF Client
<1> QED
  BY <1>1, <1>2, <1>3 DEF Next, Process

\* estd implements the registry: a serial number belongs to one request for
\* good, a granted request owns one and a refused one none, and no answer is
\* taken back, through every failure, death and restart.
THEOREM EstdIsARegistry == Spec => RefinesRegistry
<1>1. Init => R!Init
  <2> SUFFICES ASSUME Init PROVE R!Init
    OBVIOUS
  <2>1. \A s \in Serials : OwnerOf(s) = None
    BY DEF Init, Store!Init, OwnerOf, Store!Kinds
  <2>2. \A r \in Requests : Outcome(r) = "pending"
    BY DEF Init, Outcome
  <2> QED
    BY <2>1, <2>2 DEF R!Init
<1>2. EnrollInv /\ EnrollInv' /\ [Next]_vars => [R!Next]_(R!vars)
  BY StepRefines DEF OwnerMap, OutcomeMap, R!vars
<1> QED
  BY <1>1, <1>2, EnrollInvariant, PTL DEF Spec, RefinesRegistry, R!Spec
=============================================================================
