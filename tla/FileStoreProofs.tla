--------------------------- MODULE FileStoreProofs ---------------------------
(* What FileStore keeps true for any clients, serial numbers and contents. *)
EXTENDS FileStore, TLAPS

(* The inductive invariant.  A temp file belongs to the call that runs;    *)
(* a call reaches the metadata only over the certificate it has renamed    *)
(* into place; and a call that is over has put its last file there.        *)

TempOfJob ==
    \A w \in Clients : tmp[w] # None =>
        /\ ret[w] = "busy"
        /\ tmp[w].kind = job[w].kind
        /\ tmp[w].serial = job[w].serial

BusyHasJob == \A w \in Clients : ret[w] # "idle" => job[w] # None

MetaAfterCertificate ==
    \A w \in Clients : job[w] # None /\ job[w].kind = "meta" =>
        file["cert"][job[w].serial] # None

OkIsDone ==
    \A w \in Clients : ret[w] = "ok" =>
        file[job[w].kind][job[w].serial] # None

StoredMetaHasCertificate ==
    \A s \in Serials : file["meta"][s] # None => file["cert"][s] # None

Inv == /\ TypeOK
       /\ NoTornFile
       /\ TempOfJob
       /\ BusyHasJob
       /\ MetaAfterCertificate
       /\ OkIsDone
       /\ StoredMetaHasCertificate

Keeps == \A k \in Kinds, s \in Serials : file[k][s] # None => file'[k][s] # None

\* A Put of a certificate that goes on to the metadata keeps its fields.
LEMMA JobFields ==
    ASSUME NEW j \in Job
    PROVE  /\ j # None
           /\ [j EXCEPT !.kind = "meta"] \in Job
           /\ [j EXCEPT !.kind = "meta"].kind = "meta"
           /\ [j EXCEPT !.kind = "meta"].serial = j.serial
           /\ j.kind \in Kinds /\ j.serial \in Serials /\ j.data \in Data /\ j.meta \in Data
BY SentinelAssumption DEF Job, Kinds

\* The empty store satisfies the invariant.
LEMMA InitInv == Init => Inv
<1> SUFFICES ASSUME Init PROVE Inv
  OBVIOUS
<1>1. TypeOK
  BY DEF Init, TypeOK, Contents, Kinds
<1>2. NoTornFile
  BY SentinelAssumption DEF Init, NoTornFile
<1>3. TempOfJob /\ BusyHasJob /\ MetaAfterCertificate /\ OkIsDone
  BY DEF Init, TempOfJob, BusyHasJob, MetaAfterCertificate, OkIsDone
<1>4. StoredMetaHasCertificate
  BY DEF Init, StoredMetaHasCertificate, Kinds
<1> QED
  BY <1>1, <1>2, <1>3, <1>4 DEF Inv

\* A call that begins changes no file: PutCSR or PutCertificate has only
\* noted what it is to write.
LEMMA StartKeeps ==
    ASSUME Inv, NEW w \in Clients, NEW k \in {"csr", "cert"}, NEW s \in Serials,
           NEW d \in Data, NEW m \in Data, Start(w, k, s, d, m)
    PROVE  Inv' /\ Keeps
<1> DEFINE j == [kind |-> k, serial |-> s, data |-> d, meta |-> m]
<1>1. j \in Job /\ j # None /\ j.kind # "meta"
  BY SentinelAssumption DEF Job, Kinds
<1> USE DEF Inv, Start
<1>2. TypeOK'
  BY <1>1 DEF TypeOK
<1>3. NoTornFile' /\ StoredMetaHasCertificate' /\ Keeps
  BY DEF NoTornFile, StoredMetaHasCertificate, Keeps
<1>4. TempOfJob'
  BY DEF TempOfJob, TypeOK
<1>5. BusyHasJob' /\ MetaAfterCertificate'
  BY <1>1 DEF BusyHasJob, MetaAfterCertificate, TypeOK
<1>6. OkIsDone'
  BY DEF OkIsDone, TypeOK
<1> QED
  BY <1>2, <1>3, <1>4, <1>5, <1>6

\* A temp file appears under a name of its own; no final file changes.
LEMMA CreateTempKeeps ==
    ASSUME Inv, NEW w \in Clients, CreateTemp(w)
    PROVE  Inv' /\ Keeps
<1> USE DEF Inv, CreateTemp
<1>1. job[w] \in Job /\ job[w] # None
  BY SentinelAssumption DEF TypeOK, BusyHasJob
<1>2. tmp'[w] \in TempFile /\ tmp'[w].kind = job[w].kind /\ tmp'[w].serial = job[w].serial
  BY <1>1 DEF TypeOK, TempFile, Job
<1>3. TypeOK'
  BY <1>2 DEF TypeOK
<1>4. TempOfJob'
  BY <1>2 DEF TempOfJob, TypeOK
<1>5. NoTornFile' /\ BusyHasJob' /\ MetaAfterCertificate' /\ OkIsDone'
      /\ StoredMetaHasCertificate' /\ Keeps
  BY DEF NoTornFile, BusyHasJob, MetaAfterCertificate, OkIsDone,
         StoredMetaHasCertificate, Keeps
<1> QED
  BY <1>3, <1>4, <1>5

\* The temp file is filled; no final file changes.
LEMMA WriteTempKeeps ==
    ASSUME Inv, NEW w \in Clients, WriteTemp(w)
    PROVE  Inv' /\ Keeps
<1> USE DEF Inv, WriteTemp
<1>1. job[w] \in Job /\ tmp[w] \in TempFile
  BY SentinelAssumption DEF TypeOK, BusyHasJob
<1>2. Payload(job[w]) \in Data
  BY <1>1 DEF Payload, Job
<1>3. /\ tmp'[w] \in TempFile
      /\ tmp'[w].kind = tmp[w].kind
      /\ tmp'[w].serial = tmp[w].serial
  BY <1>1, <1>2 DEF TypeOK, TempFile
<1>4. TypeOK'
  BY <1>3 DEF TypeOK
<1>5. TempOfJob'
  BY <1>3 DEF TempOfJob, TypeOK
<1>6. NoTornFile' /\ BusyHasJob' /\ MetaAfterCertificate' /\ OkIsDone'
      /\ StoredMetaHasCertificate' /\ Keeps
  BY DEF NoTornFile, BusyHasJob, MetaAfterCertificate, OkIsDone,
         StoredMetaHasCertificate, Keeps
<1> QED
  BY <1>4, <1>5, <1>6

\* The rename puts a complete file in place; when it is the certificate, the
\* metadata may follow.
LEMMA RenameTempKeeps ==
    ASSUME Inv, NEW w \in Clients, RenameTemp(w)
    PROVE  Inv' /\ Keeps
<1> USE DEF Inv
<1> DEFINE k == job[w].kind
           s == job[w].serial
<1>1. /\ ret[w] = "busy" /\ tmp[w] # None /\ tmp[w].data # Torn
      /\ file' = [file EXCEPT ![tmp[w].kind][tmp[w].serial] = tmp[w].data]
      /\ tmp' = [tmp EXCEPT ![w] = None]
      /\ UNCHANGED litter
  BY DEF RenameTemp, ReadyToRename
<1>2. job[w] \in Job /\ job[w] # None /\ tmp[w] \in TempFile
  BY <1>1, SentinelAssumption DEF TypeOK, BusyHasJob
<1>3. k \in Kinds /\ s \in Serials
  BY <1>2 DEF Job
<1>4. /\ tmp[w].data \in Data /\ tmp[w].data # None
      /\ file' = [file EXCEPT ![k][s] = tmp[w].data]
  BY <1>1, <1>2, SentinelAssumption DEF TempOfJob, TempFile
<1>5. /\ file' \in [Kinds -> [Serials -> Contents]]
      /\ file'[k][s] = tmp[w].data
      /\ \A l \in Kinds, t \in Serials : l # k \/ t # s => file'[l][t] = file[l][t]
  BY <1>3, <1>4 DEF TypeOK, Contents
<1>6. Keeps /\ NoTornFile'
  BY <1>1, <1>4, <1>5 DEF Keeps, NoTornFile
<1>7. /\ k = "cert" => /\ job' = [job EXCEPT ![w] = [job[w] EXCEPT !.kind = "meta"]]
                       /\ ret' = ret
      /\ k # "cert" => job' = job /\ ret' = [ret EXCEPT ![w] = "ok"]
  <2>1. CASE k = "cert"
    <3>1. NextFile(job[w]) # None
      BY <1>2, <2>1, JobFields, SentinelAssumption DEF NextFile
    <3> QED
      BY <2>1, <3>1 DEF RenameTemp, NextFile
  <2>2. CASE k # "cert"
    BY <2>2 DEF RenameTemp, NextFile
  <2> QED
    BY <2>1, <2>2
<1>8. /\ job' \in [Clients -> Job \cup {None}]
      /\ ret' \in [Clients -> {"idle", "busy", "ok", "err"}]
      /\ \A v \in Clients : v # w => job'[v] = job[v] /\ ret'[v] = ret[v]
      /\ job'[w] \in Job /\ job'[w] # None /\ job'[w].serial = s
  <2>1. CASE k = "cert"
    BY <1>2, <1>7, <2>1, JobFields DEF TypeOK
  <2>2. CASE k # "cert"
    BY <1>2, <1>7, <2>2 DEF TypeOK
  <2> QED
    BY <2>1, <2>2
<1>9. TypeOK'
  BY <1>1, <1>5, <1>8 DEF TypeOK
<1>10. TempOfJob'
  BY <1>1, <1>8 DEF TempOfJob, TypeOK
<1>11. BusyHasJob'
  BY <1>8 DEF BusyHasJob
<1>12. MetaAfterCertificate'
  <2> SUFFICES ASSUME NEW v \in Clients, job'[v] # None, job'[v].kind = "meta"
               PROVE  file'["cert"][job'[v].serial] # None
    BY DEF MetaAfterCertificate
  <2>1. CASE v # w
    <3>1. file["cert"][job[v].serial] # None /\ job[v].serial \in Serials
      BY <1>8, <2>1 DEF MetaAfterCertificate, TypeOK, Job
    <3> QED
      BY <1>6, <1>8, <2>1, <3>1 DEF Keeps, Kinds
  <2>2. CASE v = w /\ k = "cert"
    BY <1>4, <1>5, <1>8, <2>2
  <2>3. CASE v = w /\ k # "cert"
    <3>1. file["cert"][s] # None
      BY <1>2, <1>7, <2>3 DEF MetaAfterCertificate
    <3> QED
      BY <1>3, <1>6, <1>8, <2>3, <3>1 DEF Keeps, Kinds
  <2> QED
    BY <2>1, <2>2, <2>3
<1>13. OkIsDone'
  <2> SUFFICES ASSUME NEW v \in Clients, ret'[v] = "ok"
               PROVE  file'[job'[v].kind][job'[v].serial] # None
    BY DEF OkIsDone
  <2>1. CASE v # w
    <3>1. job[v] \in Job /\ file[job[v].kind][job[v].serial] # None
      BY <1>8, <2>1, SentinelAssumption DEF OkIsDone, BusyHasJob, TypeOK
    <3> QED
      BY <1>6, <1>8, <2>1, <3>1 DEF Keeps, Job
  <2>2. CASE v = w
    <3>1. k # "cert"
      BY <1>1, <1>7, <2>2
    <3> QED
      BY <1>4, <1>5, <1>7, <2>2, <3>1
  <2> QED
    BY <2>1, <2>2
<1>14. StoredMetaHasCertificate'
  <2> SUFFICES ASSUME NEW t \in Serials, file'["meta"][t] # None
               PROVE  file'["cert"][t] # None
    BY DEF StoredMetaHasCertificate
  <2>1. file["cert"][t] # None
    <3>1. CASE k = "meta" /\ t = s
      BY <1>2, <3>1 DEF MetaAfterCertificate
    <3>2. CASE ~ (k = "meta" /\ t = s)
      BY <1>5, <3>2 DEF StoredMetaHasCertificate, Kinds
    <3> QED
      BY <3>1, <3>2
  <2> QED
    BY <1>6, <2>1 DEF Keeps, Kinds
<1> QED
  BY <1>6, <1>9, <1>10, <1>11, <1>12, <1>13, <1>14

\* An error removes the temp file and leaves every final file alone.
LEMMA FailPutKeeps ==
    ASSUME Inv, NEW w \in Clients, FailPut(w)
    PROVE  Inv' /\ Keeps
<1> USE DEF Inv, FailPut, TempsAfterError, FilesAfterError, AfterError
<1>1. TypeOK'
  BY DEF TypeOK
<1>2. TempOfJob' /\ BusyHasJob' /\ OkIsDone'
  BY DEF TempOfJob, BusyHasJob, OkIsDone, TypeOK
<1>3. NoTornFile' /\ MetaAfterCertificate' /\ StoredMetaHasCertificate' /\ Keeps
  BY DEF NoTornFile, MetaAfterCertificate, StoredMetaHasCertificate, Keeps
<1> QED
  BY <1>1, <1>2, <1>3

\* A crash forgets the calls and leaves every final file alone.
LEMMA CrashKeeps ==
    ASSUME Inv, Crash
    PROVE  Inv' /\ Keeps
<1> USE DEF Inv, Crash
<1>1. TypeOK'
  <2>1. \A w \in Clients : tmp[w] # None =>
            <<tmp[w].kind, tmp[w].serial>> \in Kinds \X Serials
    BY DEF TypeOK, TempFile
  <2> QED
    BY <2>1 DEF TypeOK
<1>2. TempOfJob' /\ BusyHasJob' /\ OkIsDone' /\ MetaAfterCertificate'
  BY DEF TempOfJob, BusyHasJob, OkIsDone, MetaAfterCertificate
<1>3. NoTornFile' /\ StoredMetaHasCertificate' /\ Keeps
  BY DEF NoTornFile, StoredMetaHasCertificate, Keeps
<1> QED
  BY <1>1, <1>2, <1>3

(* Every step keeps the invariant and takes no file away; a step of the    *)
(* enrolment handlers is a step of this module too.                        *)
LEMMA NextKeeps ==
    ASSUME Inv, [Next]_storeVars
    PROVE  Inv' /\ Keeps
<1>1. CASE Crash
  BY <1>1, CrashKeeps
<1>2. ASSUME NEW w \in Clients, Put(w)
      PROVE  Inv' /\ Keeps
  BY <1>2, StartKeeps DEF Put, PutCSR, PutCertificate
<1>3. ASSUME NEW w \in Clients, Step(w)
      PROVE  Inv' /\ Keeps
  BY <1>3, CreateTempKeeps, WriteTempKeeps, RenameTempKeeps, FailPutKeeps DEF Step
<1>4. CASE UNCHANGED storeVars
  BY <1>4 DEF storeVars, Inv, TypeOK, NoTornFile, TempOfJob, BusyHasJob,
     MetaAfterCertificate, OkIsDone, StoredMetaHasCertificate, Keeps
<1> QED
  BY <1>1, <1>2, <1>3, <1>4 DEF Next

\* The inductive invariant of writeFileAtomic and its callers.
THEOREM Invariance == Spec => []Inv
<1>1. Inv /\ [Next]_storeVars => Inv'
  BY NextKeeps
<1> QED
  BY InitInv, <1>1, PTL DEF Spec

(* The state of the store is well formed. *)
THEOREM StoreTypeCorrect == Spec => []TypeOK
<1>1. Inv => TypeOK
  BY DEF Inv
<1> QED
  BY Invariance, <1>1, PTL

(* No file with a final name is ever partially written, for any number of  *)
(* concurrent writers and crashes of the process between any two steps.    *)
THEOREM FilesAreWhole == Spec => []NoTornFile
<1>1. Inv => NoTornFile
  BY DEF Inv
<1> QED
  BY Invariance, <1>1, PTL

(* Metadata is never there without a certificate that can be read back. *)
THEOREM MetadataHasCertificate == Spec => []MetaHasCertificate
<1>1. Inv => MetaHasCertificate
  BY DEF Inv, NoTornFile, StoredMetaHasCertificate, MetaHasCertificate,
         GetCertificate, Kinds
<1> QED
  BY Invariance, <1>1, PTL

(* What PutCertificate has acknowledged stays readable. *)
THEOREM AcknowledgedIsReadable == Spec => []AckedReadable
<1>1. Inv => AckedReadable
  <2> SUFFICES ASSUME Inv, NEW w \in Clients, ret[w] = "ok", job[w].kind = "meta"
               PROVE  /\ GetCertificate(job[w].serial) # None
                      /\ file["meta"][job[w].serial] # None
    BY DEF AckedReadable
  <2>1. job[w] \in Job /\ job[w] # None
    BY DEF Inv, TypeOK, BusyHasJob
  <2>2. file["meta"][job[w].serial] # None /\ file["cert"][job[w].serial] # None
    BY <2>1 DEF Inv, OkIsDone, MetaAfterCertificate
  <2> QED
    BY <2>1, <2>2 DEF Inv, NoTornFile, GetCertificate, Job, Kinds
<1> QED
  BY Invariance, <1>1, PTL

(* No temp file outlives its call, whatever error ends it. *)
THEOREM TempsAreRemoved == Spec => []NoLeakedTemp
<1>1. Inv => NoLeakedTemp
  BY DEF Inv, TempOfJob, NoLeakedTemp
<1> QED
  BY Invariance, <1>1, PTL

(* No step takes a stored file away. *)
THEOREM StoredFilesStay == Spec => StoredStays
<1>1. Inv /\ [Next]_storeVars => [Keeps]_storeVars
  BY NextKeeps
<1> QED
  BY Invariance, <1>1, PTL DEF Spec, StoredStays, Keeps
=============================================================================
