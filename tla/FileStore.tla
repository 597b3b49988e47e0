------------------------------ MODULE FileStore ------------------------------
(***************************************************************************)
(* internal/store: the file-backed Store.  A client of this module is one  *)
(* goroutine that calls PutCSR or PutCertificate; each call is one or two  *)
(* runs of writeFileAtomic, whose system calls (create a temp file, write  *)
(* it, rename it over the final name) are separate actions, so that other  *)
(* clients and a crash of the process can come between any two of them.    *)
(*                                                                         *)
(* A file is identified by its directory and kind ("csr" is                *)
(* csrs/<serial>.der, "cert" certs/<serial>.der, "meta"                    *)
(* certs/<serial>.json) and the serial number that names it.  Its contents *)
(* are a member of Data when they are complete and Torn when only part of  *)
(* the bytes (possibly none) is there.                                     *)
(***************************************************************************)

CONSTANTS Clients,   \* goroutines that may call the store
          Serials,   \* serial numbers of certificates
          Data,      \* complete file contents: CSRs, certificates, metadata
          None,      \* no file, no call
          Torn       \* contents of a partially written file

VARIABLES file,    \* file[k][s]: contents of the final file of kind k for serial s
          tmp,     \* tmp[w]: the temp file client w is working on, or None
          litter,  \* names whose directory holds an orphaned temp file
          job,     \* job[w]: the last Put of client w and the file it is at
          ret      \* ret[w]: what that call has returned ("busy" while it runs)

storeVars == <<file, tmp, litter, job, ret>>

Kinds == {"csr", "cert", "meta"}
Contents == Data \cup {None, Torn}
Job == [kind : Kinds, serial : Serials, data : Data, meta : Data]
TempFile == [kind : Kinds, serial : Serials, data : Data \cup {Torn}]

ASSUME SentinelAssumption ==
    /\ None \notin Data \cup Job \cup TempFile
    /\ Torn \notin Data
    /\ None # Torn

TypeOK ==
    /\ file \in [Kinds -> [Serials -> Contents]]
    /\ tmp \in [Clients -> TempFile \cup {None}]
    /\ litter \in SUBSET (Kinds \X Serials)
    /\ job \in [Clients -> Job \cup {None}]
    /\ ret \in [Clients -> {"idle", "busy", "ok", "err"}]

Init ==
    /\ file = [k \in Kinds |-> [s \in Serials |-> None]]
    /\ tmp = [w \in Clients |-> None]
    /\ litter = {}
    /\ job = [w \in Clients |-> None]
    /\ ret = [w \in Clients |-> "idle"]

-----------------------------------------------------------------------------
(* The calls.  PutCSR is given the metadata too and does not write it.     *)

Start(w, k, s, d, m) ==
    /\ ret[w] # "busy"
    /\ job' = [job EXCEPT ![w] = [kind |-> k, serial |-> s, data |-> d, meta |-> m]]
    /\ ret' = [ret EXCEPT ![w] = "busy"]
    /\ UNCHANGED <<file, tmp, litter>>

PutCSR(w, s, d, m) == Start(w, "csr", s, d, m)

\* A seeded fault: PutCertificate begins with the metadata file.
PutCertificateMetaFirst(w, s, d, m) == Start(w, "meta", s, d, m)

PutCertificate(w, s, d, m) == Start(w, "cert", s, d, m)

\* What GetCertificate returns: the parsed certificate, or None for either of
\* its errors (no such file, contents that do not parse).
GetCertificate(s) ==
    IF file["cert"][s] = Torn THEN None ELSE file["cert"][s]

-----------------------------------------------------------------------------
(* writeFileAtomic.                                                        *)

Payload(j) == IF j.kind = "meta" THEN j.meta ELSE j.data

\* MkdirAll and CreateTemp: an empty file under a fresh name in the final
\* file's directory.
CreateTemp(w) ==
    /\ ret[w] = "busy"
    /\ tmp[w] = None
    /\ tmp' = [tmp EXCEPT ![w] = [kind |-> job[w].kind, serial |-> job[w].serial, data |-> Torn]]
    /\ UNCHANGED <<file, litter, job, ret>>

\* A seeded fault: rename as soon as the temp file exists, before it is written.
ReadyToRenameEarly(w) == tmp[w] # None

\* Write, Close and Chmod have succeeded: the temp file is complete.
ReadyToRename(w) == tmp[w] # None /\ tmp[w].data # Torn

WriteTemp(w) ==
    /\ ret[w] = "busy"
    /\ tmp[w] # None
    /\ tmp[w].data = Torn
    /\ tmp' = [tmp EXCEPT ![w].data = Payload(job[w])]
    /\ UNCHANGED <<file, litter, job, ret>>

\* A seeded fault: the metadata goes to a file nothing else knows.
NextFileMisnamed(j) ==
    IF j.kind = "cert" THEN [j EXCEPT !.kind = "json"] ELSE None

\* The file a Put goes on to when the rename of this one has succeeded:
\* PutCertificate writes the certificate and then its metadata.
NextFile(j) ==
    IF j.kind = "cert" THEN [j EXCEPT !.kind = "meta"] ELSE None

\* Rename.  The deferred Remove finds nothing.  The last file of the call
\* makes it return nil.
RenameTemp(w) ==
    /\ ret[w] = "busy"
    /\ ReadyToRename(w)
    /\ file' = [file EXCEPT ![tmp[w].kind][tmp[w].serial] = tmp[w].data]
    /\ tmp' = [tmp EXCEPT ![w] = None]
    /\ IF NextFile(job[w]) = None
       THEN ret' = [ret EXCEPT ![w] = "ok"] /\ UNCHANGED job
       ELSE job' = [job EXCEPT ![w] = NextFile(job[w])] /\ UNCHANGED ret
    /\ UNCHANGED litter

\* A seeded fault: an early return that skips the deferred Remove.
TempsAfterErrorKept(w) == tmp

\* The deferred os.Remove(tmpPath) of an unsuccessful call.
TempsAfterError(w) == [tmp EXCEPT ![w] = None]

\* A seeded fault: the cleanup removes path instead of tmpPath.
FilesAfterErrorRemoved(w) ==
    [file EXCEPT ![job[w].kind][job[w].serial] = None]

\* The final file is not touched by an unsuccessful call.
FilesAfterError(w) == file

\* A seeded fault: a failed write is tried again, for ever.
AfterErrorRetry(w) == "busy"

\* The error is returned.
AfterError(w) == "err"

\* MkdirAll, CreateTemp, Write, Close, Chmod, Rename or the marshalling of
\* the metadata fails: the temp file goes, the call returns the error, and
\* what the call renamed before stays.
FailPut(w) ==
    /\ ret[w] = "busy"
    /\ tmp' = TempsAfterError(w)
    /\ file' = FilesAfterError(w)
    /\ ret' = [ret EXCEPT ![w] = AfterError(w)]
    /\ UNCHANGED <<litter, job>>

Step(w) == CreateTemp(w) \/ WriteTemp(w) \/ RenameTemp(w) \/ FailPut(w)

\* The process dies: the calls are gone, deferred functions do not run, and
\* the temp files stay where they are.  NewFileStore does not look for them.
Crash ==
    /\ litter' = litter \cup {<<tmp[w].kind, tmp[w].serial>> : w \in {v \in Clients : tmp[v] # None}}
    /\ tmp' = [w \in Clients |-> None]
    /\ job' = [w \in Clients |-> None]
    /\ ret' = [w \in Clients |-> "idle"]
    /\ UNCHANGED file

-----------------------------------------------------------------------------
(* The store on its own: any client may put anything under any serial,     *)
(* two of them under the same one at the same time included.               *)

Put(w) ==
    \E s \in Serials, d, m \in Data :
        PutCSR(w, s, d, m) \/ PutCertificate(w, s, d, m)

Next == Crash \/ \E w \in Clients : Put(w) \/ Step(w)

Spec == Init /\ [][Next]_storeVars

-----------------------------------------------------------------------------
(* Properties.                                                             *)

\* file.go 20-22: a crash, an error or a concurrent writer never leaves a
\* partially written file under a final name.
NoTornFile == \A k \in Kinds, s \in Serials : file[k][s] # Torn

\* PutCertificate writes the certificate before its metadata, so metadata
\* never describes a certificate that cannot be read back, whatever fails or
\* crashes between the two renames.
MetaHasCertificate ==
    \A s \in Serials : file["meta"][s] # None => GetCertificate(s) # None

\* A PutCertificate that returned nil can be read back with GetCertificate,
\* and its metadata is there, whatever other clients have done since.
AckedReadable ==
    \A w \in Clients :
        ret[w] = "ok" /\ job[w].kind = "meta" =>
            /\ GetCertificate(job[w].serial) # None
            /\ file["meta"][job[w].serial] # None

\* file_test.go 128: no temp file is left once a call has returned, with or
\* without an error; only a crash orphans one.
NoLeakedTemp == \A w \in Clients : tmp[w] # None => ret[w] = "busy"

\* No step removes a stored file: neither an error nor a crash takes back
\* what an earlier Put has renamed into place.
StoredStays ==
    [][\A k \in Kinds, s \in Serials : file[k][s] # None => file'[k][s] # None]_storeVars
=============================================================================
