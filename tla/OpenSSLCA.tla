------------------------------ MODULE OpenSSLCA ------------------------------
(***************************************************************************)
(* internal/ca/openssl: IssueCertificate runs one `openssl ca` child at a  *)
(* time, on temp files, against the serial file and the index of the       *)
(* operator's CA directory.                                                *)
(*                                                                         *)
(* The child is modelled by what it does to those two files, step by step: *)
(* it loads both, refuses a serial number the index has, signs, writes the *)
(* -out file, and then replaces the serial file and the index, each by     *)
(* moving the old file away and the new one into its place.  It may die    *)
(* between any two steps: of an error of its own or of the SIGKILL that    *)
(* exec.CommandContext sends when the request's context is cancelled.      *)
(***************************************************************************)
EXTENDS Naturals

CONSTANTS Calls,       \* calls of IssueCertificate
          CSRs,        \* parsed CSRs; the field pop is CheckSignature's result
          CAFlags,     \* the CA flags the configured -extensions section may give
          Serials,     \* bound: the serial numbers openssl may use, from 1 on
          MaxDeaths,   \* bound: how often estd dies under its calls
          None

VARIABLES pc,      \* pc[c]: progress, then outcome, of the call
          asked,   \* asked[c]: the CSR it was given
          cert,    \* cert[c]: the certificate it returned
          temps,   \* temps[n]: the temp files with the name n that exist
          req,     \* req[n]: the CSR in the -in file of that name, None when empty
          out,     \* out[n]: the certificate in the -out file of that name
          mu,      \* the call that holds the mutex, or None
          child,   \* child[c]: the progress of the child of the call
          loaded,  \* loaded[c]: the serial number and index that child works on
          serial,  \* the serial file: the next serial number, None when missing
          index,   \* the index: the certificates issued, None when missing
          deaths   \* how often estd has died

callVars == <<pc, asked, cert, temps, req, mu>>
childVars == <<out, child, loaded, serial, index>>
vars == <<callVars, childVars, deaths>>

Certificates == [serial : Serials, csr : CSRs, isCA : BOOLEAN]

\* What a child has read: the serial number it is to use, and the index.
Loads == [serial : Nat, index : SUBSET Certificates]

ASSUME OpenSSLAssumption ==
    /\ CAFlags \subseteq BOOLEAN
    /\ Serials \subseteq Nat
    /\ MaxDeaths \in Nat
    /\ None \notin Calls \cup CSRs \cup Nat
    /\ None \notin Certificates \cup Loads

Outcomes == {"ok", "invalid", "failed"}
Progress == {"check", "csrfile", "csrwrite", "outfile", "lock", "start", "wait", "read"}
ChildSteps == {"load", "sign", "write", "moveserial", "newserial", "moveindex", "newindex"}

ChildRuns(c) == child[c] \in ChildSteps

TypeOK ==
    /\ pc \in [Calls -> {"idle"} \cup Progress \cup Outcomes]
    /\ asked \in [Calls -> CSRs \cup {None}]
    /\ cert \in [Calls -> Certificates \cup {None}]
    /\ temps \in [Calls -> SUBSET {"csr", "cert"}]
    /\ req \in [Calls -> CSRs \cup {None}]
    /\ out \in [Calls -> Certificates \cup {None}]
    /\ mu \in Calls \cup {None}
    /\ child \in [Calls -> {"none", "succeeded", "dead"} \cup ChildSteps]
    /\ loaded \in [Calls -> Loads \cup {None}]
    /\ serial \in Nat \cup {None}
    /\ index \in (SUBSET Certificates) \cup {None}
    /\ deaths \in 0..MaxDeaths

Init ==
    /\ pc = [c \in Calls |-> "idle"]
    /\ asked = [c \in Calls |-> None]
    /\ cert = [c \in Calls |-> None]
    /\ temps = [c \in Calls |-> {}]
    /\ req = [c \in Calls |-> None]
    /\ out = [c \in Calls |-> None]
    /\ mu = None
    /\ child = [c \in Calls |-> "none"]
    /\ loaded = [c \in Calls |-> None]
    /\ serial = 1
    /\ index = {}
    /\ deaths = 0

-----------------------------------------------------------------------------
(* IssueCertificate and runOpenSSLCA.                                      *)

Begin(c, q) ==
    /\ pc[c] = "idle"
    /\ pc' = [pc EXCEPT ![c] = "check"]
    /\ asked' = [asked EXCEPT ![c] = q]
    /\ UNCHANGED <<cert, temps, req, mu, childVars, deaths>>

\* A seeded fault: the temp files have fixed names.
TempNameFixed(c) == CHOOSE d \in Calls : TRUE

\* os.CreateTemp: a name that no other call, of this estd or an earlier one,
\* has got.
TempName(c) == c

Temps(c) == temps[TempName(c)]

\* A seeded fault: the os.Remove of the -out file is deferred after openssl
\* has run.
DeferredLate(c) ==
    CASE pc[c] \in {"check", "csrfile"} -> {}
      [] pc[c] = "read"                -> {"csr", "cert"}
      [] OTHER                         -> {"csr"}

\* The os.Remove calls that are deferred by now.
Deferred(c) ==
    CASE pc[c] \in {"check", "csrfile"}    -> {}
      [] pc[c] \in {"csrwrite", "outfile"} -> {"csr"}
      [] OTHER                            -> {"csr", "cert"}

Return(c, o) ==
    /\ pc' = [pc EXCEPT ![c] = o]
    /\ temps' = [temps EXCEPT ![TempName(c)] = @ \ Deferred(c)]
    /\ UNCHANGED <<asked, req>>

\* A seeded fault: the error of CheckSignature is returned as it is.
SignatureOutcomeRaw == "x509"

\* ErrInvalidCSRSignature, whatever CheckSignature says.
SignatureOutcome == "invalid"

\* csr.CheckSignature.
CheckSignature(c) ==
    /\ pc[c] = "check"
    /\ IF asked[c].pop
       THEN pc' = [pc EXCEPT ![c] = "csrfile"] /\ UNCHANGED <<asked, temps, req>>
       ELSE Return(c, SignatureOutcome)
    /\ UNCHANGED <<cert, mu, childVars, deaths>>

\* The empty temp file for the CSR.
CreateCSRFile(c) ==
    /\ pc[c] = "csrfile"
    /\ \/ /\ pc' = [pc EXCEPT ![c] = "csrwrite"]
          /\ temps' = [temps EXCEPT ![TempName(c)] = @ \cup {"csr"}]
          /\ req' = [req EXCEPT ![TempName(c)] = None]
          /\ UNCHANGED asked
       \/ Return(c, "failed")
    /\ UNCHANGED <<cert, mu, childVars, deaths>>

\* The CSR is written and the file closed, or one of the two fails.
WriteCSRFile(c) ==
    /\ pc[c] = "csrwrite"
    /\ \/ /\ pc' = [pc EXCEPT ![c] = "outfile"]
          /\ req' = [req EXCEPT ![TempName(c)] = asked[c]]
          /\ UNCHANGED <<asked, temps>>
       \/ Return(c, "failed")
    /\ UNCHANGED <<cert, mu, childVars, deaths>>

\* The empty temp file the child is to write the certificate to.
CreateOutFile(c) ==
    /\ pc[c] = "outfile"
    /\ \/ /\ pc' = [pc EXCEPT ![c] = "lock"]
          /\ temps' = [temps EXCEPT ![TempName(c)] = @ \cup {"cert"}]
          /\ out' = [out EXCEPT ![TempName(c)] = None]
          /\ UNCHANGED <<asked, req>>
       \/ Return(c, "failed") /\ UNCHANGED out
    /\ UNCHANGED <<cert, mu, child, loaded, serial, index, deaths>>

\* A seeded fault: there is no mutex.
MutexFreeAlways == TRUE

MutexFree == mu = None

Lock(c) ==
    /\ pc[c] = "lock"
    /\ MutexFree
    /\ mu' = c
    /\ pc' = [pc EXCEPT ![c] = "start"]
    /\ UNCHANGED <<asked, cert, temps, req, childVars, deaths>>

\* A seeded fault: Unlock is not deferred and an error returns before it.
MutexAfterFailureHeld == mu

MutexAfterFailure == None

\* The child starts, or does not: the binary is gone, or the context was
\* cancelled while the call waited for the mutex.
StartChild(c) ==
    /\ pc[c] = "start"
    /\ \/ /\ pc' = [pc EXCEPT ![c] = "wait"]
          /\ child' = [child EXCEPT ![c] = "load"]
          /\ UNCHANGED <<asked, temps, req, mu>>
       \/ /\ Return(c, "failed")
          /\ mu' = MutexAfterFailure
          /\ UNCHANGED child
    /\ UNCHANGED <<cert, out, loaded, serial, index, deaths>>

\* A seeded fault: the exit status of the child is ignored.
ChildSucceededOrDied(c) == child[c] \in {"succeeded", "dead"}

\* The child has exited with status 0.
ChildSucceeded(c) == child[c] = "succeeded"

\* The child has ended.  Its success may come after the cancellation of the
\* context, and then the call fails all the same.
WaitChild(c) ==
    /\ pc[c] = "wait"
    /\ \/ /\ ChildSucceeded(c)
          /\ mu' = None
          /\ pc' = [pc EXCEPT ![c] = "read"]
          /\ UNCHANGED <<asked, temps, req>>
       \/ /\ child[c] \in {"succeeded", "dead"}
          /\ Return(c, "failed")
          /\ mu' = MutexAfterFailure
    /\ UNCHANGED <<cert, childVars, deaths>>

\* A seeded fault: the defence in depth of lines 129-134 is missing.
AcceptedAny(x) == TRUE

\* A certificate with CA:TRUE is not handed back.
Accepted(x) == ~ x.isCA

\* The -out file is read and parsed, which may fail, and checked.
ReadCertificate(c) ==
    /\ pc[c] = "read"
    /\ \/ /\ "cert" \in Temps(c)
          /\ out[TempName(c)] # None
          /\ Accepted(out[TempName(c)])
          /\ cert' = [cert EXCEPT ![c] = out[TempName(c)]]
          /\ Return(c, "ok")
       \/ Return(c, "failed") /\ UNCHANGED cert
    /\ UNCHANGED <<mu, childVars, deaths>>

Call(c) ==
    \/ CheckSignature(c)
    \/ CreateCSRFile(c)
    \/ WriteCSRFile(c)
    \/ CreateOutFile(c)
    \/ Lock(c)
    \/ StartChild(c)
    \/ WaitChild(c)
    \/ ReadCertificate(c)

-----------------------------------------------------------------------------
(* The child.                                                              *)

ChildGoto(c, l) == child' = [child EXCEPT ![c] = l]

\* Both files are read; without one of them openssl gives up.
Load(c) ==
    /\ child[c] = "load"
    /\ serial # None
    /\ index # None
    /\ loaded' = [loaded EXCEPT ![c] = [serial |-> serial, index |-> index]]
    /\ ChildGoto(c, "sign")
    /\ UNCHANGED <<out, serial, index>>

\* openssl refuses a serial number that the index has.
Sign(c) ==
    /\ child[c] = "sign"
    /\ loaded[c].serial \in Serials
    /\ \A x \in loaded[c].index : x.serial # loaded[c].serial
    /\ ChildGoto(c, "write")
    /\ UNCHANGED <<out, loaded, serial, index>>

\* The certificate is for the CSR in the -in file.  The -extensions section
\* decides about CA:TRUE.
Write(c) ==
    /\ child[c] = "write"
    /\ "csr" \in Temps(c)
    /\ req[TempName(c)] # None
    /\ \E ca \in CAFlags :
        out' = [out EXCEPT ![TempName(c)] =
                    [serial |-> loaded[c].serial, csr |-> req[TempName(c)], isCA |-> ca]]
    /\ ChildGoto(c, "moveserial")
    /\ UNCHANGED <<loaded, serial, index>>

MoveSerialAway(c) ==
    /\ child[c] = "moveserial"
    /\ serial' = None
    /\ ChildGoto(c, "newserial")
    /\ UNCHANGED <<out, loaded, index>>

InstallSerial(c) ==
    /\ child[c] = "newserial"
    /\ serial' = loaded[c].serial + 1
    /\ ChildGoto(c, "moveindex")
    /\ UNCHANGED <<out, loaded, index>>

MoveIndexAway(c) ==
    /\ child[c] = "moveindex"
    /\ index' = None
    /\ ChildGoto(c, "newindex")
    /\ UNCHANGED <<out, loaded, serial>>

InstallIndex(c) ==
    /\ child[c] = "newindex"
    /\ index' = loaded[c].index \cup {out[TempName(c)]}
    /\ ChildGoto(c, "succeeded")
    /\ UNCHANGED <<out, loaded, serial>>

\* An error of its own, or SIGKILL: what it has done stays done.
ChildDies(c) ==
    /\ ChildRuns(c)
    /\ ChildGoto(c, "dead")
    /\ UNCHANGED <<out, loaded, serial, index>>

Child(c) ==
    /\ \/ Load(c) \/ Sign(c) \/ Write(c)
       \/ MoveSerialAway(c) \/ InstallSerial(c)
       \/ MoveIndexAway(c) \/ InstallIndex(c)
       \/ ChildDies(c)
    /\ UNCHANGED <<callVars, deaths>>

-----------------------------------------------------------------------------

\* estd dies and is started again.  Its children run on, and the mutex of the
\* new process knows nothing of them.
Die ==
    /\ deaths < MaxDeaths
    /\ deaths' = deaths + 1
    /\ pc' = [c \in Calls |-> IF pc[c] \in Progress THEN "failed" ELSE pc[c]]
    /\ mu' = None
    /\ UNCHANGED <<asked, cert, temps, req, childVars>>

Next ==
    \/ Die
    \/ \E c \in Calls : Call(c) \/ Child(c) \/ \E q \in CSRs : Begin(c, q)

Spec == Init /\ [][Next]_vars

\* A goroutine that can go on does, and so does a child.
FairSpec == Spec /\ \A c \in Calls : WF_vars(Call(c)) /\ WF_vars(Child(c))

-----------------------------------------------------------------------------
(* Properties.  Those marked (one process) hold until estd dies: openssl.go *)
(* 36-39 says that the mutex does not cover another process, and a child   *)
(* that has outlived its estd belongs to one.                              *)

\* (one process) openssl.go 36-37: no two calls return certificates with the
\* same serial number, although the serial file is read at one time, written
\* at another, and may be lost in between.
UniqueSerials ==
    deaths = 0 =>
        \A c, d \in Calls :
            cert[c] # None /\ cert[d] # None /\ cert[c].serial = cert[d].serial => c = d

\* (one process) Every certificate handed to a client is in the index, where
\* it can be revoked, unless a child was killed while it replaced the index.
ReturnedInIndex ==
    deaths = 0 =>
        \A c \in Calls : cert[c] # None /\ index # None => cert[c] \in index

\* openssl.go 81-84 and 129-134: what a call returns was signed for its own
\* CSR, although the CSR and the certificate pass through files in a directory
\* all calls share, with proof of possession, and is never a CA certificate,
\* whatever the operator's configuration and however the children of an
\* earlier process interfere.
ReturnedIsRequested ==
    \A c \in Calls : cert[c] # None =>
        /\ pc[c] = "ok"
        /\ cert[c].csr = asked[c]
        /\ asked[c].pop
        /\ ~ cert[c].isCA

\* openssl.go 90-110: from the start of openssl to its end, and to the end of
\* an orphan too, its CSR is in its -in file and its -out file is there,
\* whatever other calls remove; and no file outlives its call, whichever of
\* the steps fails, unless estd dies.
TempsFollowCalls ==
    /\ \A c \in Calls :
          pc[c] \in {"lock", "start", "wait", "read"} \/ ChildRuns(c) =>
              Temps(c) = {"csr", "cert"} /\ req[TempName(c)] = asked[c]
    /\ deaths = 0 =>
          \A n \in Calls : temps[n] # {} =>
              \E c \in Calls : TempName(c) = n /\ pc[c] \in Progress \ {"check", "csrfile"}

\* What the callers of the backend see of a call.
CallOf(c) == IF pc[c] \in Progress THEN "running" ELSE pc[c]

Contract == INSTANCE CABackend
                WITH call <- [c \in Calls |-> CallOf(c)]

\* (one process) The backend keeps the contract of ca.CABackend: each call
\* returns the invalid-signature error, another error, or a fresh certificate
\* for its CSR, and nothing else is ever seen of it.
KeepsContract ==
    /\ Contract!Init
    /\ [][deaths' = 0 => Contract!Next]_(Contract!caVars)

\* A call never waits for the mutex for ever: whichever way the call before
\* it ends, the mutex is released.
CallsEnd == \A c \in Calls : (pc[c] = "check") ~> (pc[c] \in Outcomes)
=============================================================================
