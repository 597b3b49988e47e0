--------------------------- MODULE OpenSSLCAProofs ---------------------------
(* What the openssl backend keeps true for any number of calls.            *)
EXTENDS OpenSSLCA, TLAPS

\* Each call has the temp files of its own name.
USE DEF TempName, Temps

-----------------------------------------------------------------------------
(* What holds of each call, however often estd dies: it hands out only     *)
(* what its own child has written for its own CSR.                         *)

\* The child has written the -out file.
HasWritten(c) ==
    child[c] \in {"moveserial", "newserial", "moveindex", "newindex", "succeeded"}

NoChildYet ==
    \A c \in Calls :
        pc[c] \in {"idle", "check", "csrfile", "csrwrite", "outfile", "lock", "start"} =>
            child[c] = "none"

ReadAfterSuccess ==
    \A c \in Calls : pc[c] \in {"read", "ok"} => child[c] = "succeeded"

AskedIsCSR == \A c \in Calls : pc[c] # "idle" => asked[c] \in CSRs

PossessionProved ==
    \A c \in Calls :
        pc[c] \in {"csrfile", "csrwrite", "outfile", "lock", "start", "wait", "read", "ok"} =>
            asked[c].pop

ChildHasCall == \A c \in Calls : child[c] # "none" => pc[c] # "idle"

LoadedForChild ==
    \A c \in Calls :
        /\ child[c] \in ChildSteps \ {"load"} => loaded[c] # None
        /\ child[c] \in ChildSteps \ {"load", "sign"} => loaded[c].serial \in Serials

OutForCall ==
    \A c \in Calls : HasWritten(c) => out[c] # None /\ out[c].csr = asked[c]

CertIsOut ==
    \A c \in Calls : cert[c] # None => pc[c] = "ok" /\ cert[c] = out[c] /\ ~ cert[c].isCA

\* The -in and the -out file are needed by the call, or by its child.
NeedsFiles(c) == pc[c] \in {"lock", "start", "wait", "read"} \/ ChildRuns(c)

TempsOfCall ==
    \A c \in Calls :
        /\ pc[c] \in {"idle", "check", "csrfile"} => temps[c] = {}
        /\ pc[c] \in {"csrwrite", "outfile"} => temps[c] = {"csr"}
        /\ NeedsFiles(c) => temps[c] = {"csr", "cert"}

RequestInFile ==
    \A c \in Calls : pc[c] = "outfile" \/ NeedsFiles(c) => req[c] = asked[c]

CallInv ==
    /\ TypeOK
    /\ TempsOfCall
    /\ RequestInFile
    /\ NoChildYet
    /\ ReadAfterSuccess
    /\ AskedIsCSR
    /\ PossessionProved
    /\ ChildHasCall
    /\ LoadedForChild
    /\ OutForCall
    /\ CertIsOut

-----------------------------------------------------------------------------
(* What the mutex adds while one process uses the CA directory: it holds   *)
(* until estd dies.                                                        *)

HasLoaded(c) == child[c] \in ChildSteps \ {"load"}
Succeeded(c) == child[c] = "succeeded"

Exclusive ==
    \A c \in Calls :
        /\ pc[c] \in {"start", "wait"} <=> mu = c
        /\ ChildRuns(c) => pc[c] = "wait"

OutHasLoadedSerial ==
    \A c \in Calls : HasLoaded(c) /\ HasWritten(c) => out[c].serial = loaded[c].serial

\* The new serial file is ahead of the certificate it was written for.
SerialAheadOfChild ==
    \A c \in Calls :
        child[c] \in {"moveindex", "newindex"} /\ serial # None => loaded[c].serial < serial

\* The serial file, and what a child has read from it, are ahead of every
\* certificate issued.
SerialAhead ==
    \A d \in Calls : Succeeded(d) =>
        /\ serial # None => out[d].serial < serial
        /\ \A c \in Calls : HasLoaded(c) => out[d].serial < loaded[c].serial

IssuedDistinct ==
    \A c, d \in Calls :
        Succeeded(c) /\ Succeeded(d) /\ out[c].serial = out[d].serial => c = d

\* The index, and the copy a child works on, have every certificate issued.
IssuedInIndex ==
    \A d \in Calls : Succeeded(d) =>
        /\ index # None => out[d] \in index
        /\ \A c \in Calls : HasLoaded(c) => out[d] \in loaded[c].index

DirectoryInv ==
    /\ Exclusive
    /\ OutHasLoadedSerial
    /\ SerialAheadOfChild
    /\ SerialAhead
    /\ IssuedDistinct
    /\ IssuedInIndex

OneProcessInv == deaths = 0 => DirectoryInv

-----------------------------------------------------------------------------

\* No call and no child has begun.
LEMMA InitCallInv == Init => CallInv
<1> SUFFICES ASSUME Init PROVE CallInv
  OBVIOUS
<1>1. TypeOK
  BY OpenSSLAssumption DEF Init, TypeOK
<1>2. NoChildYet /\ ReadAfterSuccess /\ AskedIsCSR /\ PossessionProved /\ ChildHasCall
      /\ LoadedForChild /\ OutForCall /\ CertIsOut /\ TempsOfCall /\ RequestInFile
  BY DEF Init, TempsOfCall, RequestInFile, NeedsFiles, ChildRuns, NoChildYet,
     ReadAfterSuccess, AskedIsCSR, PossessionProved,
     ChildHasCall, LoadedForChild, OutForCall, CertIsOut, HasWritten, ChildSteps
<1> QED
  BY <1>1, <1>2 DEF CallInv

\* The steps of a call, other than reading the certificate, leave what the
\* child has done alone and return nothing.
LEMMA CallStepsKeepCallInv ==
    ASSUME CallInv, NEW c \in Calls,
           \/ \E q \in CSRs : Begin(c, q)
           \/ CheckSignature(c) \/ CreateCSRFile(c) \/ WriteCSRFile(c) \/ CreateOutFile(c)
           \/ Lock(c) \/ StartChild(c) \/ WaitChild(c)
    PROVE  CallInv'
<1> USE DEF CallInv, Return, Deferred, MutexAfterFailure, MutexFree, ChildSucceeded,
            SignatureOutcome, Begin, CheckSignature, CreateCSRFile, WriteCSRFile,
            CreateOutFile, Lock, StartChild, WaitChild, childVars
<1>1. TypeOK'
  BY DEF TypeOK, ChildSteps, Progress, Outcomes
<1>2. NoChildYet'
  BY DEF TypeOK, NoChildYet, ChildHasCall
<1>3. ReadAfterSuccess'
  BY DEF TypeOK, ReadAfterSuccess
<1>4. AskedIsCSR'
  BY DEF TypeOK, AskedIsCSR
<1>5. PossessionProved'
  BY DEF TypeOK, PossessionProved
<1>6. ChildHasCall'
  BY DEF TypeOK, ChildHasCall
<1>7. LoadedForChild'
  BY DEF TypeOK, LoadedForChild, ChildSteps
<1>8. OutForCall'
  BY DEF TypeOK, OutForCall, HasWritten, ChildHasCall, NoChildYet
<1>9. CertIsOut'
  BY DEF TypeOK, CertIsOut
<1>10. TempsOfCall'
  BY DEF TypeOK, TempsOfCall, NeedsFiles, ChildRuns, ChildSteps, NoChildYet
<1>11. RequestInFile'
  BY DEF TypeOK, RequestInFile, NeedsFiles, ChildRuns, ChildSteps, NoChildYet
<1> QED
  BY <1>1, <1>2, <1>3, <1>4, <1>5, <1>6, <1>7, <1>8, <1>9, <1>10, <1>11

\* A call hands back what its child has written to the -out file, or nothing.
LEMMA ReadKeepsCallInv ==
    ASSUME CallInv, NEW c \in Calls, ReadCertificate(c)
    PROVE  CallInv'
<1> USE DEF CallInv, ReadCertificate, Return, Deferred, Accepted, childVars
<1>1. TypeOK'
  BY DEF TypeOK, Outcomes
<1>2. NoChildYet' /\ ReadAfterSuccess' /\ ChildHasCall'
  BY DEF TypeOK, NoChildYet, ReadAfterSuccess, ChildHasCall
<1>3. AskedIsCSR' /\ PossessionProved'
  BY DEF TypeOK, AskedIsCSR, PossessionProved
<1>4. LoadedForChild' /\ OutForCall'
  BY DEF LoadedForChild, OutForCall, HasWritten
<1>5. CertIsOut'
  BY DEF TypeOK, CertIsOut
<1>6. TempsOfCall' /\ RequestInFile'
  BY DEF TypeOK, TempsOfCall, RequestInFile, NeedsFiles, ChildRuns, ChildSteps,
         ReadAfterSuccess
<1> QED
  BY <1>1, <1>2, <1>3, <1>4, <1>5, <1>6

\* A child acts for the call that started it, with the CSR of that call.
LEMMA ChildKeepsCallInv ==
    ASSUME CallInv, NEW c \in Calls, Child(c)
    PROVE  CallInv'
<1> USE DEF CallInv, ChildGoto, callVars
<1>1. UNCHANGED <<pc, asked, cert, temps, req, mu, deaths>>
  BY DEF Child
<1>2. PICK l \in ChildSteps \cup {"succeeded", "dead"} :
        child' = [child EXCEPT ![c] = l] /\ ChildRuns(c)
  BY DEF Child, Load, Sign, Write, MoveSerialAway, InstallSerial, MoveIndexAway,
         InstallIndex, ChildDies, ChildRuns, ChildSteps
<1>3. child[c] # "none" /\ child[c] # "succeeded"
  BY <1>2 DEF ChildRuns, ChildSteps
<1>w. ASSUME Write(c)
      PROVE  /\ out' \in [Calls -> Certificates \cup {None}]
             /\ out'[c] \in Certificates /\ out'[c].csr = asked[c]
             /\ \A d \in Calls : d # c => out'[d] = out[d]
  <2>1. asked[c] \in CSRs /\ loaded[c].serial \in Serials
    BY <1>2, <1>3, <1>w DEF Write, ChildHasCall, AskedIsCSR, LoadedForChild, ChildSteps
  <2>0. req[c] = asked[c]
    BY <1>2 DEF RequestInFile, NeedsFiles
  <2>2. PICK ca \in CAFlags :
          out' = [out EXCEPT ![c] = [serial |-> loaded[c].serial, csr |-> asked[c], isCA |-> ca]]
    BY <1>w, <2>0 DEF Write
  <2> DEFINE x == [serial |-> loaded[c].serial, csr |-> asked[c], isCA |-> ca]
  <2>3. x \in Certificates /\ x.csr = asked[c]
    BY <2>1, OpenSSLAssumption DEF Certificates
  <2> QED
    BY <2>2, <2>3 DEF TypeOK
<1>4. TypeOK'
  <2>1. child' \in [Calls -> {"none", "succeeded", "dead"} \cup ChildSteps]
    BY <1>2 DEF TypeOK
  <2>2. loaded' \in [Calls -> Loads \cup {None}]
    BY DEF TypeOK, Child, Load, Sign, Write, MoveSerialAway, InstallSerial,
           MoveIndexAway, InstallIndex, ChildDies, Loads
  <2>3. out' \in [Calls -> Certificates \cup {None}]
    <3>1. CASE Write(c)
      BY <1>w, <3>1
    <3>2. CASE ~ Write(c)
      BY <3>2 DEF TypeOK, Child, Load, Sign, MoveSerialAway, InstallSerial,
             MoveIndexAway, InstallIndex, ChildDies
    <3> QED
      BY <3>1, <3>2
  <2>4. serial' \in Nat \cup {None} /\ index' \in (SUBSET Certificates) \cup {None}
    <3>1. CASE InstallSerial(c)
      <4>1. loaded[c].serial \in Nat
        BY <3>1, OpenSSLAssumption DEF InstallSerial, LoadedForChild, ChildSteps
      <4>2. serial' \in Nat /\ index' = index
        BY <3>1, <4>1 DEF InstallSerial
      <4> QED
        BY <4>2 DEF TypeOK
    <3>2. CASE InstallIndex(c)
      <4>1. loaded[c] \in Loads /\ out[c] \in Certificates
        BY <3>2 DEF InstallIndex, LoadedForChild, OutForCall, HasWritten, TypeOK, ChildSteps
      <4> QED
        BY <3>2, <4>1 DEF InstallIndex, TypeOK, Loads
    <3>3. CASE ~ InstallSerial(c) /\ ~ InstallIndex(c)
      BY <3>3 DEF TypeOK, Child, Load, Sign, Write, MoveSerialAway, MoveIndexAway, ChildDies
    <3> QED
      BY <3>1, <3>2, <3>3
  <2> QED
    BY <1>1, <2>1, <2>2, <2>3, <2>4 DEF TypeOK
<1>5. NoChildYet' /\ ReadAfterSuccess' /\ AskedIsCSR' /\ PossessionProved' /\ ChildHasCall'
  BY <1>1, <1>2, <1>3 DEF TypeOK, NoChildYet, ReadAfterSuccess, AskedIsCSR,
     PossessionProved, ChildHasCall
<1>6. LoadedForChild'
  <2>1. CASE Load(c)
    BY <2>1, OpenSSLAssumption DEF Load, LoadedForChild, TypeOK, ChildSteps, Loads
  <2>2. CASE ~ Load(c)
    BY <2>2 DEF TypeOK, LoadedForChild, Child, Sign, Write, MoveSerialAway, InstallSerial,
           MoveIndexAway, InstallIndex, ChildDies, ChildSteps
  <2> QED
    BY <2>1, <2>2
<1>7. OutForCall'
  <2>1. CASE Write(c)
    <3> SUFFICES ASSUME NEW d \in Calls, HasWritten(d)'
                 PROVE  out'[d] # None /\ out'[d].csr = asked'[d]
      BY DEF OutForCall
    <3>1. CASE d = c
      BY <1>1, <1>w, <2>1, <3>1, OpenSSLAssumption
    <3>2. CASE d # c
      BY <1>1, <1>2, <1>w, <2>1, <3>2 DEF TypeOK, OutForCall, HasWritten
    <3> QED
      BY <3>1, <3>2
  <2>2. CASE ~ Write(c)
    BY <1>1, <2>2 DEF TypeOK, OutForCall, HasWritten, Child, Load, Sign, MoveSerialAway,
       InstallSerial, MoveIndexAway, InstallIndex, ChildDies
  <2> QED
    BY <2>1, <2>2
<1>8. CertIsOut'
  <2>1. cert[c] = None
    BY <1>3 DEF CertIsOut, ReadAfterSuccess
  <2>2. \A d \in Calls : d # c => out'[d] = out[d]
    BY DEF TypeOK, Child, Load, Sign, Write, MoveSerialAway, InstallSerial,
           MoveIndexAway, InstallIndex, ChildDies
  <2> QED
    BY <1>1, <2>1, <2>2 DEF CertIsOut
<1>9. TempsOfCall' /\ RequestInFile'
  <2>1. \A d \in Calls : NeedsFiles(d)' => NeedsFiles(d)
    BY <1>1, <1>2 DEF TypeOK, NeedsFiles, ChildRuns, ChildSteps
  <2> QED
    BY <1>1, <2>1 DEF TempsOfCall, RequestInFile
<1> QED
  BY <1>4, <1>5, <1>6, <1>7, <1>8, <1>9

\* When estd dies its calls end; their children run on for nobody.
LEMMA DieKeepsCallInv ==
    ASSUME CallInv, Die
    PROVE  CallInv'
<1> USE DEF CallInv, Die, childVars
<1>1. TypeOK'
  BY OpenSSLAssumption DEF TypeOK, Outcomes
<1>2. NoChildYet' /\ ReadAfterSuccess' /\ AskedIsCSR' /\ PossessionProved' /\ ChildHasCall'
  BY DEF TypeOK, NoChildYet, ReadAfterSuccess, AskedIsCSR, PossessionProved,
     ChildHasCall, Progress
<1>3. LoadedForChild' /\ OutForCall'
  BY DEF LoadedForChild, OutForCall, HasWritten
<1>4. CertIsOut'
  BY DEF TypeOK, CertIsOut, Progress
<1>5. TempsOfCall' /\ RequestInFile'
  <2>1. \A d \in Calls : NeedsFiles(d)' => NeedsFiles(d)
    BY DEF TypeOK, NeedsFiles, ChildRuns, Progress
  <2>2. \A d \in Calls : pc'[d] = pc[d] \/ pc'[d] = "failed"
    BY DEF TypeOK
  <2> QED
    BY <2>1, <2>2 DEF TempsOfCall, RequestInFile
<1> QED
  BY <1>1, <1>2, <1>3, <1>4, <1>5

\* Every step keeps the invariant of the calls.
LEMMA NextKeepsCallInv == CallInv /\ [Next]_vars => CallInv'
<1> SUFFICES ASSUME CallInv, [Next]_vars PROVE CallInv'
  OBVIOUS
<1>1. CASE Die
  BY <1>1, DieKeepsCallInv
<1>2. ASSUME NEW c \in Calls, Call(c) \/ \E q \in CSRs : Begin(c, q)
      PROVE  CallInv'
  BY <1>2, CallStepsKeepCallInv, ReadKeepsCallInv DEF Call
<1>3. ASSUME NEW c \in Calls, Child(c)
      PROVE  CallInv'
  BY <1>3, ChildKeepsCallInv
<1>4. CASE UNCHANGED vars
  BY <1>4 DEF vars, callVars, childVars, CallInv, TypeOK, NoChildYet, ReadAfterSuccess,
     AskedIsCSR, PossessionProved, ChildHasCall, LoadedForChild, OutForCall, HasWritten,
     CertIsOut, TempsOfCall, RequestInFile, NeedsFiles, ChildRuns
<1> QED
  BY <1>1, <1>2, <1>3, <1>4 DEF Next

-----------------------------------------------------------------------------

\* The CA directory starts out with an empty index.
LEMMA InitDirectoryInv == Init => DirectoryInv
BY OpenSSLAssumption DEF Init, DirectoryInv, Exclusive, OutHasLoadedSerial, SerialAheadOfChild,
   SerialAhead, IssuedDistinct, IssuedInIndex, HasLoaded, HasWritten, Succeeded, ChildRuns,
   ChildSteps

\* A child that has just started has loaded and written nothing, and an -out
\* file that has just been made has no child.
LEMMA StartedChildIsHarmless ==
    ASSUME DirectoryInv, Exclusive', UNCHANGED <<loaded, serial, index>>,
           \A d \in Calls : child'[d] = child[d] \/ child'[d] = "load",
           \A d \in Calls : out'[d] = out[d] \/ child'[d] = "none"
    PROVE  DirectoryInv'
<1>1. OutHasLoadedSerial'
  BY DEF DirectoryInv, OutHasLoadedSerial, HasLoaded, HasWritten, ChildSteps
<1>2. SerialAheadOfChild'
  BY DEF DirectoryInv, SerialAheadOfChild
<1>3. SerialAhead'
  BY DEF DirectoryInv, SerialAhead, Succeeded, HasLoaded, ChildSteps
<1>4. IssuedDistinct'
  BY DEF DirectoryInv, IssuedDistinct, Succeeded
<1>5. IssuedInIndex'
  BY DEF DirectoryInv, IssuedInIndex, Succeeded, HasLoaded, ChildSteps
<1> QED
  BY <1>1, <1>2, <1>3, <1>4, <1>5 DEF DirectoryInv

\* A step of a call moves the mutex and may start a child; it changes neither
\* the directory nor what a running child has loaded.
LEMMA CallKeepsDirectoryInv ==
    ASSUME CallInv, DirectoryInv, NEW c \in Calls,
           Call(c) \/ \E q \in CSRs : Begin(c, q)
    PROVE  DirectoryInv'
<1> USE DEF Call, Begin, CheckSignature, CreateCSRFile, WriteCSRFile, CreateOutFile, Lock,
            StartChild, WaitChild, ReadCertificate, Return, Deferred, SignatureOutcome,
            MutexAfterFailure, MutexFree, ChildSucceeded, childVars
<1>0. \A d \in Calls : out'[d] = out[d] \/ child'[d] = "none"
  BY DEF CallInv, TypeOK, NoChildYet
<1>1. UNCHANGED <<loaded, serial, index>>
  OBVIOUS
<1>2. \A d \in Calls : child'[d] = child[d] \/ child'[d] = "load"
  BY DEF CallInv, TypeOK
<1>3. \A d \in Calls : ChildRuns(d)' => pc'[d] = "wait"
  BY DEF DirectoryInv, Exclusive, ChildRuns, ChildSteps, CallInv, TypeOK, ReadAfterSuccess
<1>4. \A d \in Calls : pc'[d] \in {"start", "wait"} <=> mu' = d
  BY OpenSSLAssumption DEF DirectoryInv, Exclusive, CallInv, TypeOK
<1>5. Exclusive'
  BY <1>3, <1>4 DEF Exclusive
<1> QED
  BY <1>0, <1>1, <1>2, <1>5, StartedChildIsHarmless

\* A child changes the directory alone: the mutex keeps every other child out,
\* so what it has loaded is still what is there.
LEMMA ChildKeepsDirectoryInv ==
    ASSUME CallInv, DirectoryInv, NEW c \in Calls, Child(c)
    PROVE  DirectoryInv'
<1> USE DEF ChildGoto, callVars
<1>1. UNCHANGED <<pc, mu>>
  BY DEF Child
<1>2. PICK l \in ChildSteps \cup {"succeeded", "dead"} :
        child' = [child EXCEPT ![c] = l] /\ ChildRuns(c)
  BY DEF Child, Load, Sign, Write, MoveSerialAway, InstallSerial, MoveIndexAway,
         InstallIndex, ChildDies, ChildRuns, ChildSteps
<1>3. \A d \in Calls : d # c =>
        /\ ~ ChildRuns(d) /\ ~ HasLoaded(d) /\ ~ HasLoaded(d)' /\ ~ ChildRuns(d)'
        /\ child'[d] = child[d]
  <2>1. \A d \in Calls : ChildRuns(d) => d = c
    BY <1>2 DEF DirectoryInv, Exclusive
  <2> QED
    BY <1>2, <2>1 DEF ChildRuns, HasLoaded, ChildSteps, CallInv, TypeOK
<1>4. \A d \in Calls : d # c => out'[d] = out[d] /\ loaded'[d] = loaded[d]
  BY DEF Child, Load, Sign, Write, MoveSerialAway, InstallSerial, MoveIndexAway,
         InstallIndex, ChildDies, CallInv, TypeOK
<1>5. ~ Succeeded(c) /\ child'[c] = l
  BY <1>2 DEF ChildRuns, ChildSteps, Succeeded, CallInv, TypeOK
<1>6. /\ \A d \in Calls : d # c => (Succeeded(d)' <=> Succeeded(d))
      /\ Succeeded(c)' => InstallIndex(c)
  <2>1. Succeeded(c)' => InstallIndex(c)
    BY DEF Succeeded, Child, Load, Sign, Write, MoveSerialAway, InstallSerial, MoveIndexAway,
           InstallIndex, ChildDies, CallInv, TypeOK
  <2> QED
    BY <1>3, <2>1 DEF Succeeded
<1>7. Exclusive'
  BY <1>1, <1>2, <1>3 DEF DirectoryInv, Exclusive
<1>8. OutHasLoadedSerial'
  <2> SUFFICES ASSUME HasLoaded(c)', HasWritten(c)'
               PROVE  out'[c].serial = loaded'[c].serial
    BY <1>3 DEF OutHasLoadedSerial
  <2>1. CASE Write(c)
    BY <2>1 DEF Write, CallInv, TypeOK
  <2>2. CASE ~ Write(c)
    BY <2>2 DEF Child, Load, Sign, MoveSerialAway, InstallSerial, MoveIndexAway, InstallIndex,
       ChildDies, CallInv, TypeOK, DirectoryInv, OutHasLoadedSerial, HasLoaded, HasWritten,
       ChildSteps
  <2> QED
    BY <2>1, <2>2
<1>9. SerialAheadOfChild'
  <2>1. CASE InstallSerial(c)
    <3>1. loaded[c].serial \in Nat
      BY <2>1, OpenSSLAssumption DEF InstallSerial, CallInv, LoadedForChild, ChildSteps
    <3> QED
      BY <1>3, <2>1, <3>1 DEF InstallSerial, SerialAheadOfChild, ChildRuns, ChildSteps
  <2>2. CASE ~ InstallSerial(c)
    <3> SUFFICES ASSUME child'[c] \in {"moveindex", "newindex"}, serial' # None
                 PROVE  loaded'[c].serial < serial'
      BY <1>3 DEF SerialAheadOfChild, ChildRuns, ChildSteps
    <3> QED
      BY <2>2 DEF Child, Load, Sign, Write, MoveSerialAway, MoveIndexAway, InstallIndex,
         ChildDies, CallInv, TypeOK, DirectoryInv, SerialAheadOfChild
  <2> QED
    BY <2>1, <2>2
<1>10. SerialAhead'
  <2> SUFFICES ASSUME NEW d \in Calls, Succeeded(d)'
               PROVE  /\ serial' # None => out'[d].serial < serial'
                      /\ HasLoaded(c)' => out'[d].serial < loaded'[c].serial
    BY <1>3 DEF SerialAhead
  <2>1. CASE d = c
    BY <1>6, <2>1 DEF InstallIndex, DirectoryInv, SerialAheadOfChild, OutHasLoadedSerial,
       HasLoaded, HasWritten, Succeeded, ChildSteps
  <2>2. CASE d # c
    <3>1. /\ out'[d] = out[d]
          /\ serial # None => out[d].serial < serial
          /\ HasLoaded(c) => out[d].serial < loaded[c].serial
          /\ out[d].serial \in Nat
      <4>1. Succeeded(d)
        BY <1>6, <2>2
      <4>2. out[d] \in Certificates
        BY <4>1 DEF Succeeded, CallInv, OutForCall, HasWritten, TypeOK
      <4> QED
        BY <1>4, <2>2, <4>1, <4>2, OpenSSLAssumption DEF DirectoryInv, SerialAhead, Certificates
    <3>2. CASE Load(c)
      <4>1. serial # None /\ serial' = serial /\ loaded'[c].serial = serial
        BY <3>2 DEF Load, CallInv, TypeOK
      <4> QED
        BY <3>1, <4>1
    <3>3. CASE InstallSerial(c)
      <4>1. HasLoaded(c) /\ loaded[c].serial \in Nat /\ loaded'[c] = loaded[c]
        BY <3>3, OpenSSLAssumption DEF InstallSerial, HasLoaded, CallInv, LoadedForChild, ChildSteps
      <4> QED
        BY <3>1, <3>3, <4>1 DEF InstallSerial
    <3>4. CASE ~ Load(c) /\ ~ InstallSerial(c)
      <4>1. loaded' = loaded /\ (serial' = serial \/ serial' = None)
        BY <3>4 DEF Child, Sign, Write, MoveSerialAway, MoveIndexAway, InstallIndex, ChildDies
      <4>2. HasLoaded(c)' => HasLoaded(c)
        BY <3>4 DEF Child, Sign, Write, MoveSerialAway, MoveIndexAway, InstallIndex, ChildDies,
                    HasLoaded, ChildSteps, CallInv, TypeOK
      <4> QED
        BY <3>1, <4>1, <4>2
    <3> QED
      BY <3>2, <3>3, <3>4
  <2> QED
    BY <2>1, <2>2
<1>11. IssuedDistinct'
  <2>1. ASSUME NEW d \in Calls, d # c, Succeeded(d)', Succeeded(c)'
        PROVE  out'[d].serial # out'[c].serial
    <3>1. Succeeded(d) /\ InstallIndex(c) /\ out'[d] = out[d] /\ out'[c] = out[c]
      BY <1>4, <1>6, <2>1 DEF InstallIndex
    <3>2. out[d].serial < loaded[c].serial /\ out[c].serial = loaded[c].serial
      BY <3>1 DEF InstallIndex, DirectoryInv, SerialAhead, OutHasLoadedSerial, HasLoaded,
         HasWritten, ChildSteps
    <3>3. loaded[c].serial \in Nat /\ out[d].serial \in Nat
      <4>1. out[d] \in Certificates
        BY <3>1 DEF Succeeded, CallInv, OutForCall, HasWritten, TypeOK
      <4> QED
        BY <3>1, <4>1, OpenSSLAssumption DEF InstallIndex, CallInv, LoadedForChild, ChildSteps,
           Certificates
    <3> QED
      BY <3>1, <3>2, <3>3
  <2>2. \A d, e \in Calls : d # c /\ e # c /\ Succeeded(d)' /\ Succeeded(e)'
            /\ out'[d].serial = out'[e].serial => d = e
    BY <1>4, <1>6 DEF DirectoryInv, IssuedDistinct
  <2> QED
    BY <2>1, <2>2 DEF IssuedDistinct
<1>12. IssuedInIndex'
  <2> SUFFICES ASSUME NEW d \in Calls, Succeeded(d)'
               PROVE  /\ index' # None => out'[d] \in index'
                      /\ HasLoaded(c)' => out'[d] \in loaded'[c].index
    BY <1>3 DEF IssuedInIndex
  <2>1. CASE d = c
    BY <1>6, <2>1 DEF InstallIndex, HasLoaded, Succeeded, ChildSteps
  <2>2. CASE d # c
    <3>1. /\ out'[d] = out[d]
          /\ index # None => out[d] \in index
          /\ HasLoaded(c) => out[d] \in loaded[c].index
      BY <1>4, <1>6, <2>2 DEF DirectoryInv, IssuedInIndex
    <3>2. CASE Load(c)
      BY <3>1, <3>2 DEF Load, CallInv, TypeOK
    <3>3. CASE InstallIndex(c)
      BY <3>1, <3>3 DEF InstallIndex, HasLoaded, ChildSteps, CallInv, TypeOK
    <3>4. CASE ~ Load(c) /\ ~ InstallIndex(c)
      <4>1. loaded' = loaded /\ (index' = index \/ index' = None)
        BY <3>4 DEF Child, Sign, Write, MoveSerialAway, InstallSerial, MoveIndexAway, ChildDies
      <4>2. HasLoaded(c)' => HasLoaded(c)
        BY <3>4 DEF Child, Sign, Write, MoveSerialAway, InstallSerial, MoveIndexAway, ChildDies,
                    HasLoaded, ChildSteps, CallInv, TypeOK
      <4> QED
        BY <3>1, <4>1, <4>2
    <3> QED
      BY <3>2, <3>3, <3>4
  <2> QED
    BY <2>1, <2>2
<1> QED
  BY <1>7, <1>8, <1>9, <1>10, <1>11, <1>12 DEF DirectoryInv

-----------------------------------------------------------------------------
(* The theorems.                                                           *)

\* The inductive invariant of the calls, for any number of deaths of estd.
THEOREM CallsInvariant == Spec => []CallInv
BY InitCallInv, NextKeepsCallInv, PTL DEF Spec

\* The state of the openssl backend is well formed.
THEOREM OpenSSLTypeCorrect == Spec => []TypeOK
<1>1. CallInv => TypeOK
  BY DEF CallInv
<1> QED
  BY CallsInvariant, <1>1, PTL

\* IssueCertificate never hands back a certificate for another CSR, one whose
\* requester has not proved possession of the key, or a CA certificate,
\* however often estd dies and its orphaned children interfere.
THEOREM ReturnsWhatWasRequested == Spec => []ReturnedIsRequested
<1>1. CallInv => ReturnedIsRequested
  BY DEF CallInv, TypeOK, CertIsOut, ReadAfterSuccess, OutForCall, HasWritten,
         PossessionProved, ReturnedIsRequested
<1> QED
  BY CallsInvariant, <1>1, PTL

\* A step before any death comes after a state before any death.
LEMMA OneProcessStep ==
    ASSUME TypeOK, [Next]_vars, deaths' = 0
    PROVE  ~ Die /\ deaths = 0
<1>1. deaths \in Nat
  BY OpenSSLAssumption DEF TypeOK
<1>2. CASE Die
  BY <1>1, <1>2 DEF Die
<1>3. CASE ~ Die
  BY <1>3 DEF Next, vars, Call, Child, Begin, CheckSignature, CreateCSRFile, WriteCSRFile,
     CreateOutFile, Lock, StartChild, WaitChild, ReadCertificate
<1> QED
  BY <1>2, <1>3

\* Every step of the one process keeps the invariant of the CA directory.
LEMMA NextKeepsDirectoryInv ==
    ASSUME CallInv, OneProcessInv, [Next]_vars
    PROVE  OneProcessInv'
<1> SUFFICES ASSUME deaths' = 0 PROVE DirectoryInv'
  BY DEF OneProcessInv
<1>0. ~ Die /\ deaths = 0
  BY OneProcessStep DEF CallInv
<1>1. DirectoryInv
  BY <1>0 DEF OneProcessInv
<1>2. ASSUME NEW c \in Calls, Call(c) \/ \E q \in CSRs : Begin(c, q)
      PROVE  DirectoryInv'
  BY <1>1, <1>2, CallKeepsDirectoryInv
<1>3. ASSUME NEW c \in Calls, Child(c)
      PROVE  DirectoryInv'
  BY <1>1, <1>3, ChildKeepsDirectoryInv
<1>4. CASE UNCHANGED vars
  BY <1>1, <1>4 DEF vars, callVars, childVars, DirectoryInv, Exclusive, OutHasLoadedSerial,
     SerialAheadOfChild, SerialAhead, IssuedDistinct, IssuedInIndex, HasLoaded, HasWritten,
     Succeeded, ChildRuns
<1> QED
  BY <1>0, <1>2, <1>3, <1>4 DEF Next

\* The inductive invariant of the CA directory while one process uses it.
THEOREM DirectoryInvariant == Spec => [](CallInv /\ OneProcessInv)
<1>1. Init => CallInv /\ OneProcessInv
  BY InitCallInv, InitDirectoryInv DEF OneProcessInv
<1>2. CallInv /\ OneProcessInv /\ [Next]_vars => (CallInv /\ OneProcessInv)'
  BY NextKeepsCallInv, NextKeepsDirectoryInv
<1> QED
  BY <1>1, <1>2, PTL DEF Spec

\* The mutex of openssl.go 36-40 makes the serial numbers of the returned
\* certificates distinct, whenever a child is killed on the way, and the
\* certificates stay in the index, as long as estd does not die.
THEOREM MutexProtectsDirectory == Spec => [](UniqueSerials /\ ReturnedInIndex)
<1>1. CallInv /\ OneProcessInv => UniqueSerials /\ ReturnedInIndex
  <2> SUFFICES ASSUME CallInv, DirectoryInv PROVE UniqueSerials /\ ReturnedInIndex
    BY DEF OneProcessInv, UniqueSerials, ReturnedInIndex
  <2>1. \A c \in Calls : cert[c] # None => Succeeded(c) /\ cert[c] = out[c]
    BY DEF CallInv, CertIsOut, ReadAfterSuccess, Succeeded
  <2> QED
    BY <2>1 DEF DirectoryInv, IssuedDistinct, IssuedInIndex, UniqueSerials, ReturnedInIndex
<1> QED
  BY <1>1, DirectoryInvariant, PTL

\* Whatever a call returns while the same estd runs is in the index, unless a
\* child was killed between its two renames, so the CA knows of it.
THEOREM ReturnedStaysInIndex == Spec => []ReturnedInIndex
BY MutexProtectsDirectory, PTL

-----------------------------------------------------------------------------
(* The temp files of a call.                                               *)

\* No temp file outlives its call.
NoneLeft == deaths = 0 => \A c \in Calls : pc[c] \in Outcomes => temps[c] = {}

\* Whichever step of a call fails, what has been deferred by then removes the
\* files that have been made by then; and the children never make any.
LEMMA NextKeepsNoneLeft ==
    ASSUME CallInv, NoneLeft, [Next]_vars
    PROVE  NoneLeft'
<1> SUFFICES ASSUME deaths' = 0, NEW d \in Calls, pc'[d] \in Outcomes
             PROVE  temps'[d] = {}
  BY DEF NoneLeft
<1> USE DEF CallInv
<1>0. ~ Die /\ deaths = 0
  BY OneProcessStep
<1>1. pc[d] \in Outcomes => temps[d] = {}
  BY <1>0 DEF NoneLeft
<1>2. ASSUME NEW c \in Calls, NEW q \in CSRs, Begin(c, q)
      PROVE  temps'[d] = {}
  BY <1>1, <1>2 DEF Begin, TypeOK, Outcomes
<1>3. ASSUME NEW c \in Calls, Call(c)
      PROVE  temps'[d] = {}
  <2>1. CASE d # c
    <3>1. pc'[d] = pc[d] /\ temps'[d] = temps[d]
      BY <1>3, <2>1 DEF Call, CheckSignature, CreateCSRFile, WriteCSRFile, CreateOutFile,
         Lock, StartChild, WaitChild, ReadCertificate, Return, TypeOK
    <3> QED
      BY <1>1, <3>1
  <2>2. CASE d = c
    <3>1. temps' = [temps EXCEPT ![c] = @ \ Deferred(c)] /\ pc[c] \in Progress
      BY <1>3, <2>2 DEF Call, CheckSignature, CreateCSRFile, WriteCSRFile, CreateOutFile, Lock,
         StartChild, WaitChild, ReadCertificate, Return, Outcomes, Progress, TypeOK
    <3>2. temps[c] \ Deferred(c) = {}
      BY <3>1 DEF Deferred, TempsOfCall, NeedsFiles, Progress
    <3> QED
      BY <2>2, <3>1, <3>2 DEF TypeOK
  <2> QED
    BY <2>1, <2>2
<1>4. CASE (\E c \in Calls : Child(c)) \/ UNCHANGED vars
  BY <1>1, <1>4 DEF Child, callVars, vars
<1> QED
  BY <1>0, <1>2, <1>3, <1>4 DEF Next

\* openssl.go 88-111: a running child, an orphan too, has its own CSR in its -in
\* file and a file to write to, whatever the other calls remove meanwhile; and
\* while estd lives, each temp file belongs to a call that is in progress,
\* however the calls end.
THEOREM TempsBelongToCalls == Spec => []TempsFollowCalls
<1>1. Init => NoneLeft
  BY DEF Init, NoneLeft, Outcomes
<1>2. CallInv /\ NoneLeft /\ [Next]_vars => NoneLeft'
  BY NextKeepsNoneLeft
<1>3. CallInv /\ NoneLeft => TempsFollowCalls
  <2> SUFFICES ASSUME CallInv, NoneLeft PROVE TempsFollowCalls
    OBVIOUS
  <2>1. \A c \in Calls : NeedsFiles(c) => temps[c] = {"csr", "cert"} /\ req[c] = asked[c]
    BY DEF CallInv, TempsOfCall, RequestInFile
  <2>2. ASSUME deaths = 0, NEW n \in Calls, temps[n] # {}
        PROVE  pc[n] \in Progress \ {"check", "csrfile"}
    BY <2>2 DEF CallInv, TypeOK, TempsOfCall, NoneLeft, Progress
  <2> QED
    BY <2>1, <2>2 DEF TempsFollowCalls, NeedsFiles
<1> QED
  BY <1>1, <1>2, <1>3, CallsInvariant, PTL DEF Spec

-----------------------------------------------------------------------------
(* The refinement of the contract of ca.CABackend.                         *)

CallMap == [c \in Calls |-> CallOf(c)]

\* A call that moves to l moves to the outcome l, or goes on running.
LEMMA MoveOfCall ==
    ASSUME TypeOK, NEW c \in Calls, NEW l \in Progress \cup Outcomes,
           pc' = [pc EXCEPT ![c] = l]
    PROVE  CallMap' = [CallMap EXCEPT ![c] = IF l \in Progress THEN "running" ELSE l]
BY DEF CallMap, CallOf, TypeOK, Progress, Outcomes

\* A call on its way that moves on is not seen to move.
LEMMA MoveUnseen ==
    ASSUME TypeOK, NEW c \in Calls, NEW l \in Progress, pc[c] \in Progress,
           pc' = [pc EXCEPT ![c] = l]
    PROVE  CallMap' = CallMap
BY DEF CallMap, CallOf, TypeOK

\* The call of IssueCertificate is the contract's.
LEMMA BeginRefines ==
    ASSUME CallInv, NEW c \in Calls, NEW q \in CSRs, Begin(c, q)
    PROVE  Contract!IssueCertificate(c, q)
<1>1. CallMap' = [CallMap EXCEPT ![c] = "running"]
  BY MoveOfCall DEF Begin, CallInv, Progress
<1>2. CallMap[c] = "idle"
  BY DEF Begin, CallMap, CallOf, Progress
<1> QED
  BY <1>1, <1>2 DEF Begin, CallMap, Contract!IssueCertificate

\* Any error after the check of the signature is the contract's ReturnError.
LEMMA FailureRefines ==
    ASSUME CallInv, NEW c \in Calls, pc[c] \in Progress \ {"check"}, Return(c, "failed"),
           UNCHANGED cert
    PROVE  Contract!ReturnError(c)
<1>1. CallMap' = [CallMap EXCEPT ![c] = "failed"]
  BY MoveOfCall DEF Return, CallInv, Outcomes, Progress
<1>2. CallMap[c] = "running" /\ asked[c].pop
  BY DEF CallMap, CallOf, Progress, CallInv, PossessionProved
<1> QED
  BY <1>1, <1>2 DEF Return, CallMap, Contract!ReturnError

\* A step of a call is a return of the contract, or is not seen.
LEMMA CallRefines ==
    ASSUME CallInv, NEW c \in Calls, Call(c), ~ ReadCertificate(c)
    PROVE  Contract!Return(c) \/ UNCHANGED <<CallMap, asked, cert>>
<1> USE DEF CallInv
<1>1. CASE CheckSignature(c)
  <2>1. CASE asked[c].pop
    BY <1>1, <2>1, MoveUnseen DEF CheckSignature, Progress
  <2>2. CASE ~ asked[c].pop
    <3>1. CallMap' = [CallMap EXCEPT ![c] = "invalid"]
      BY <1>1, <2>2, MoveOfCall DEF CheckSignature, SignatureOutcome, Return, Outcomes, Progress
    <3>2. CallMap[c] = "running"
      BY <1>1 DEF CheckSignature, CallMap, CallOf, Progress
    <3> QED
      BY <1>1, <2>2, <3>1, <3>2
         DEF CheckSignature, SignatureOutcome, Return, CallMap, Contract!Return,
             Contract!ReturnInvalid
  <2> QED
    BY <2>1, <2>2
<1>2. CASE \/ CreateCSRFile(c) \/ WriteCSRFile(c) \/ CreateOutFile(c)
           \/ Lock(c) \/ StartChild(c) \/ WaitChild(c)
  <2>1. UNCHANGED cert /\ pc[c] \in Progress \ {"check"}
    BY <1>2 DEF CreateCSRFile, WriteCSRFile, CreateOutFile, Lock, StartChild, WaitChild, Progress
  <2>2. CASE Return(c, "failed")
    BY <2>1, <2>2, FailureRefines DEF Contract!Return
  <2>3. CASE ~ Return(c, "failed")
    <3>1. PICK l \in Progress : pc' = [pc EXCEPT ![c] = l]
      BY <1>2, <2>3 DEF CreateCSRFile, WriteCSRFile, CreateOutFile, Lock, StartChild,
         WaitChild, Progress
    <3>2. UNCHANGED asked
      BY <1>2 DEF CreateCSRFile, WriteCSRFile, CreateOutFile, Lock, StartChild, WaitChild, Return
    <3> QED
      BY <2>1, <3>1, <3>2, MoveUnseen
  <2> QED
    BY <2>2, <2>3
<1> QED
  BY <1>1, <1>2 DEF Call

\* The certificate read back is the one the contract asks for: the CSR of the
\* call, no CA flag, and a serial number no returned certificate has.
LEMMA ReadRefines ==
    ASSUME CallInv, DirectoryInv, NEW c \in Calls, ReadCertificate(c)
    PROVE  Contract!Return(c)
<1> USE DEF CallInv
<1>1. pc[c] = "read"
  BY DEF ReadCertificate
<1>2. CASE Return(c, "failed") /\ UNCHANGED cert
  BY <1>1, <1>2, FailureRefines DEF Contract!Return, Progress
<1>3. CASE /\ out[c] # None
           /\ ~ out[c].isCA
           /\ cert' = [cert EXCEPT ![c] = out[c]]
           /\ Return(c, "ok")
  <2>1. Succeeded(c) /\ out[c] \in Certificates /\ out[c].csr = asked[c]
    BY <1>1, <1>3 DEF ReadAfterSuccess, Succeeded, OutForCall, HasWritten, TypeOK
  <2>2. out[c].serial \in Serials
        /\ out[c] = [serial |-> out[c].serial, csr |-> asked[c], isCA |-> FALSE]
    BY <1>3, <2>1 DEF Certificates
  <2>3. Contract!Fresh(out[c].serial)
    <3> SUFFICES ASSUME NEW d \in Calls, cert[d] # None
                 PROVE  cert[d].serial # out[c].serial
      BY DEF Contract!Fresh
    <3>1. d # c /\ Succeeded(d) /\ cert[d] = out[d]
      BY <1>1 DEF CertIsOut, ReadAfterSuccess, Succeeded
    <3> QED
      BY <2>1, <3>1 DEF DirectoryInv, IssuedDistinct
  <2>4. CallMap' = [CallMap EXCEPT ![c] = "ok"] /\ CallMap[c] = "running"
    BY <1>1, <1>3, MoveOfCall DEF Return, Outcomes, Progress, CallMap, CallOf
  <2>5. asked[c].pop /\ UNCHANGED asked
    BY <1>1, <1>3 DEF PossessionProved, Return
  <2>6. Contract!ReturnCertificate(c)
    BY <1>3, <2>2, <2>3, <2>4, <2>5
       DEF CallMap, Contract!ReturnCertificate, Contract!Possession
  <2> QED
    BY <2>6 DEF Contract!Return
<1> QED
  BY <1>2, <1>3 DEF ReadCertificate, Accepted

\* Every step of the one process is a step of the contract, or is not seen.
LEMMA StepRefines ==
    ASSUME CallInv, OneProcessInv, [Next]_vars, deaths' = 0
    PROVE  Contract!Next \/ UNCHANGED <<CallMap, asked, cert>>
<1>0. ~ Die /\ deaths = 0
  BY OneProcessStep DEF CallInv
<1>1. DirectoryInv
  BY <1>0 DEF OneProcessInv
<1>2. ASSUME NEW c \in Calls, NEW q \in CSRs, Begin(c, q)
      PROVE  Contract!Next
  BY <1>2, BeginRefines DEF Contract!Next
<1>3. ASSUME NEW c \in Calls, Call(c)
      PROVE  Contract!Next \/ UNCHANGED <<CallMap, asked, cert>>
  BY <1>1, <1>3, CallRefines, ReadRefines DEF Contract!Next
<1>4. ASSUME NEW c \in Calls, Child(c)
      PROVE  UNCHANGED <<CallMap, asked, cert>>
  BY <1>4 DEF Child, callVars, CallMap, CallOf
<1>5. CASE UNCHANGED vars
  BY <1>5 DEF vars, callVars, CallMap, CallOf
<1> QED
  BY <1>0, <1>2, <1>3, <1>4, <1>5 DEF Next

\* While one process uses the CA directory, the openssl backend implements the
\* contract of ca.CABackend, step by step.
THEOREM OpenSSLKeepsContract == Spec => KeepsContract
<1>1. Init => Contract!Init
  BY DEF Init, Contract!Init, CallOf, Progress
<1>2. CallInv /\ OneProcessInv /\ [Next]_vars => [deaths' = 0 => Contract!Next]_(Contract!caVars)
  BY StepRefines DEF CallMap, Contract!caVars
<1> QED
  BY <1>1, <1>2, DirectoryInvariant, PTL DEF Spec, KeepsContract
=============================================================================
