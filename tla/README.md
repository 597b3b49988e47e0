# A verification project for estd

estd is an EST server (RFC 7030): clients with an mTLS certificate send it
certificate signing requests, a CA backend signs them, a file store keeps what was
signed. This directory holds TLA+ modules translated from the Go source, TLC
configurations that check them on small instances, and TLAPS proofs of the theorems
that matter most for every instance.

## Inventory

| Part | Source | State it keeps | Operations | What makes it hard |
|---|---|---|---|---|
| EST handlers | `internal/estapi/handlers.go`, `server.go`, `encoding.go`, `tls.go` | none between requests; one goroutine per request | `cacerts`, `simpleenroll`, `simplereenroll`, `csrattrs`, `issueAndRespond` | requests run concurrently; the CA, `PutCSR`, `PutCertificate` and the encoding fail one after the other, and nothing is rolled back |
| Identity comparison | `internal/estapi/identity.go` | none | `identitiesMatch`, `sanSet` | sets of four kinds compared as one string, whose separator may occur in a name |
| File store | `internal/store` | files `csrs/S.der`, `certs/S.der`, `certs/S.json`; temp files | `PutCSR`, `PutCertificate`, `GetCertificate` | concurrent writers, errors and crashes between system calls, loss of power |
| CA contract, local CA | `internal/ca` | the CA key pair; random serial numbers | `IssueCertificate`, `CACertificates` | uniqueness of serial numbers without a shared state |
| openssl backend | `internal/ca/openssl` | the mutex; the operator's serial file and index; temp files | `IssueCertificate` | one child at a time, children killed with their request's context, orphans of a dead estd |
| EJBCA backend | `internal/ca/ejbca` | an HTTP client | `IssueCertificate`, `CACertificates` | requests and answers lost or late, the client's timeout |
| Start of estd | `cmd/estd/main.go` 41-96, `internal/config` | the configuration | `Load`, `Validate`, construction | files looked at twice and changed in between; three backends in one configuration |
| Run and shutdown | `cmd/estd/main.go` 98-126 | the listener, the handlers | serve, SIGTERM, `Shutdown` | the deadline ends handlers at any step |
| PKCS#7 | `internal/pkcs7` | none | `EncodeCertsOnly`, `DecodeCertsOnly` | nested lengths; an answer may be cut anywhere |
| CSR attributes | `internal/csrattrs`, `cmd/estd/csrattrs.go` | none | `Validate`, `Encode`, `csrAttrsOptions` | errors inside nested closures, absent and empty values, one form for all extensions of a template |
| Bodies of requests and answers | `internal/estapi/encoding.go` | none | `decodeCSRBody`, `writeBase64Response` | the limit of the body, padding, the last line |

The handlers call the CA backend and then the store, each request on its own. The only
state they share is behind those two: the files of the store, the mutex and CA
directory of the openssl backend, the database of EJBCA. Nothing locks the store:
it relies on serial numbers being unique and on the atomicity of rename.

What makes each part correct: the store keeps every file whole and never loses an
acknowledged one; the handlers answer 200 only for what is recorded, and record only
what was authorised; a backend returns certificates for the right CSR, with serial
numbers of their own, and no CA certificates; the start refuses what could not work;
the shutdown ends, and cuts nothing off unless its deadline passes; what the encoders
write is what the other side reads, or there is an error.

## Modules

| Module | Models | How it corresponds to the code |
|---|---|---|
| `FileStore` | the store | A client is a goroutine in a Put. `CreateTemp`, `WriteTemp`, `RenameTemp` are the system calls of `writeFileAtomic`; `FailPut` is any of them (or the JSON encoding) failing, with the deferred `Remove`. `Crash` is the death of the process, which leaves the temp files in `litter`. Contents are `Torn` or whole. |
| `PowerLoss` | the store on a machine that loses power | Adds the files whose data was not written back. |
| `CABackend` | the interface `ca.CABackend`, abstractly | A call runs and returns `ErrInvalidCSRSignature`, another error, or a certificate with a fresh serial number. The local CA is one step of this: its calls share nothing. |
| `OpenSSLCA` | the openssl backend | Every early return of `IssueCertificate` with the removals deferred by then, the temp files in a directory all calls share, the mutex, and the steps `openssl ca` takes on the serial file and the index; the latter is external and modelled by what the comments of the source rely on. |
| `EJBCACA` | the EJBCA backend | `IssueCertificate` over a network that loses requests and answers, to an external EJBCA that enrols an end entity once. |
| `Lists` | what the code does to lists | Dropping entries (`stripWhitespace`, PEM blocks, attributes of other types). |
| `Identity` | `identity.go` | A string is a number, in the order of the strings. The rendering is the sequence of its lines: the sorted, prefixed names, of which those with a line feed (`LineBreaks`) are several lines. |
| `Registry` | what estd promises to a reader of the store | Each serial number is one request's for good; granted requests own one, refused ones none. |
| `Enrollment` | the estd process | One request per connection. It composes `CABackend` (which stands for whichever backend runs), `FileStore` and the comparison of identities, calls their actions from the handlers' steps, and adds SIGTERM, the deadline, death and restart. |
| `Startup` | `run` up to `ListenAndServeTLS` | One action per step of `run` and of `Validate`; `ChangeFile` is somebody else. A file is identified with the field that names it. |
| `DER` | `cryptobyte` (external) | Elements of a tag, one octet of length and the content, as sequences of octets. |
| `PKCS7` | `internal/pkcs7` | Both functions field by field, a certificate being its DER. |
| `Encoding` | `encoding.go` | A body is a sequence of characters: base64 digits, padding, white space, others. |
| `CACerts` | `CACertificates` of the three backends, `handleCACerts` | From a PEM text through PKCS#7 and base64 to the body of the answer. |
| `CSRAttrs` | `internal/csrattrs`, `cmd/estd/csrattrs.go` | One operator per function, which returns what the function adds to the builder; an error leaves a mark that the outermost `Bytes` finds. |
| `LocalCA` | `local.go`, `serial.go`, `serialHex` | The certificate as a record of the template's fields, after `CreateCertificate` has marshalled them; serial numbers from octets to file names. |
| `Evaluation` | the parts without state, together | An action per function, on an input chosen at the start from sets that are constants, with their types as assumptions; also the readers of what is written (a client of `cacerts`, a TLS server, a directory listing). |
| `MC_Functions` | | The inputs of `Evaluation` for TLC, and the reader of `csrattrs`, which needs a recursive operator. |
| `FileStoreProofs`, `CABackendProofs`, `OpenSSLCAProofs`, `EJBCACAProofs`, `EnrollmentProofs`, `StartupProofs`, `EvaluationProofs` | | Theorems about the module each is named for; `EnrollmentProofs` also that `Enrollment` implements `Registry`. |
| `OperatorProofs` | | Theorems about the operators of `Encoding`, `DER` and `LocalCA`. |

Operators introduced by "A seeded fault" are not part of any specification: each is
the same definition with a plausible bug, and putting it in place of the definition
below it makes a property fail. `PROJECT.json` lists which (`mutants`), the source lines of
every definition (`map`), and the hazards the properties are aimed at.

Refinements: `Enrollment` implements `Registry` (`RefinesRegistry`, the owner of a serial
number being the request its metadata names); `OpenSSLCA` and `EJBCACA` implement
`CABackend` (`KeepsContract`). So the handlers are checked once, over the contract,
and each backend on its own against it.

## Runs

States are distinct states found by TLC.

| Run | Bounds | Shows |
|---|---|---|
| `FileStore` | 2 clients, 1 serial number, 2 contents; 106,532 states | No torn file, no metadata without its certificate, nothing acknowledged or stored is lost, no temp file outlives its call; two writers of the same name, errors and any number of crashes included. |
| `PowerLoss` (violation) | 1 client | A loss of power may leave a name without its data: finding 2. |
| `Functions` | below; 585,770 states | `identitiesMatch` lets the same names through, each as often, in any order and IP encoding, and nothing else where no name contains a line feed. A body is a CSR from its first to its last character or is refused. A client of `cacerts` gets the published chain, whole and in order, or no answer, and notices an answer that is cut. A client of `csrattrs` reads the configured options. A malformed identifier or value fails the encoding, and nothing valid does. A certificate of the local CA authenticates its client for a re-enrolment with the same CSR. File names of serial numbers sort as the numbers do. |
| `Identity_sets` (violation) | the same, that function only | It is not equality of sets: finding 1. |
| `CSRAttrs_validate` (violation) | the same | `Validate` passes what `Encode` cannot express: finding 4. |
| `LocalCA_subject` (violation) | the same | Parts of a subject are not copied: finding 5. |
| `Enrollment` | 2 requests of every kind, 2 serial numbers, 1 restart, fair; 174,127 states | Answers and records agree; what the CA has returned, stored or not, goes back to a request that was entitled to it; records are never replaced; an orderly exit cuts nothing off. Requests are answered, shutdown ends. |
| `OpenSSLCA` | 3 calls, 2 valid CSRs and 1 invalid one, 3 serial numbers, both CA flags, 1 death of estd, symmetric calls; 697,565 states | Until estd dies: serial numbers are unique, certificates are in the index, the contract is kept, no temp file outlives its call, with children killed anywhere. Also after that, with an orphaned child: a certificate is for the CSR of its own call and no CA certificate, and no call or child loses its files to another. |
| `OpenSSLCA_live` | 3 calls, 1 valid CSR and 1 invalid one, 1 death, no symmetry, fair; 170,091 states | No call waits for the mutex for ever. |
| `EJBCACA` | 2 calls, 3 usernames and serial numbers, 2 valid CSRs and 1 invalid one, both CA flags, fair; 25,665 states | Certificates handed out are EJBCA's; each of EJBCA's goes back to one call and its CSR; the contract is kept; a call ends although EJBCA does not answer. |
| `Startup` | complete configurations and those with one field missing, 2 changes; 389,409 states | A listening process is ready, and files of other backends are not touched. |
| `Startup_validity` (violation) | no changes | `cert_validity` is not used by two backends: finding 3. |

Why the bounds are enough. Interference in the store and in the CA directory is
between pairs of actors, and the third call of `OpenSSLCA` is the one that comes after two
that interfered. Two CSRs with valid signatures tell the files, the credentials and the answers of two calls apart; what a call waits for
does not depend on them, so `OpenSSLCA_live` has one. Calls of `EJBCACA` do not wait for each other, and meet in pairs, over a username, a serial number or an answer. In `Enrollment` two requests can share an identity, differ in everything
or be a request and its retry; a third adds no new pair. `MaxRestarts = 1` gives
requests before and after a death. `MaxChanges = 2` lets a file go and come back, or two files
change. Serial numbers are as many as the requests can use. The serial numbers of two requests can only coincide if a
backend returns one twice, which the contract excludes; that the store survives it
nevertheless is what `FileStore`, with one serial number for both clients, is about.

The inputs of `Functions`: lists of up to 2 DNS names and 2 addresses in both encodings, which
is what order and multiplicity need, and a DNS name with a line feed whose second line reads as an e-mail address; bodies of up to 6 characters over a limit of 5, in which the text of
CSRs with one octet, with two, and with three fits with and without white space, and
which are cut at the limit if the reader is wrong; PEM texts of up to 3 blocks (two
certificates, another element, one that does not decode), answered in lines of 8 characters, so
that the last one is full, shorter, and padded in every way; for `csrattrs` every single section with
malformed and absent parts, and every pair of sections absent or present, lists up to 2;
subjects of up to 2 attributes of 3 types; a CA that expires before and after the
certificate, skews of 0 (the default, 2) and 1; serial numbers of two octets (20 in the
code) from the values at the boundaries of a hexadecimal digit, an octet and its top bit.

`CHECK_DEADLOCK FALSE` is set where a run has a finite number of requests or calls, or evaluates one function, and
the system stops when they are used up. `FileStore` and `PowerLoss` check for deadlock.

### Fairness

- `Enrollment!FairSpec`: weak fairness for each handler's goroutine, for `Drained` and for the timer
  of `Shutdown`. File operations return, and calls of the CA do: that is `CallsEnd` of
  the two backends, from weaker assumptions. There is none for clients: the server
  has no read timeout (`main.go` 98-102), so a body may never come.
- `OpenSSLCA!FairSpec`: each call and each child goes on when it can. Weak fairness of `Lock` is enough for a
  finite number of calls; Go's mutex also hands over to a waiter that starves.
- `EJBCACA!FairSpec`: the goroutine and its timer only. EJBCA and the network owe nothing.

## Proofs

Proved by TLAPS for every value of the constants: every invariant and every action property
that a passing run checks but one (`OptionsAreRead`), and the three refinements. The assumptions are those the modules name. They say that the sentinels `None`
and `Torn` are not data (`SentinelAssumption`, `OpenSSLAssumption`, `EJBCAAssumption`, `StartupAssumption`,
`EnrollmentAssumption`, the hypothesis of `ContractIsSound`), and that constants which stand for sets of
numbers, flags, configurations or inputs are so. Of the inputs of `Evaluation` they give the types: octets, lists of any
length, any status; that a certificate is one DER element (`SourceAssumption`), as every X.509 certificate is; and that a chain is short enough for the one octet
a length has in `DER` (`MaxChain`). TLC evaluates the assumptions on every run of their module.

- **`FileStoreProofs`**: `StoreTypeCorrect`, `FilesAreWhole`, `MetadataHasCertificate`, `AcknowledgedIsReadable`,
  `TempsAreRemoved`, `StoredFilesStay`. None of the properties but `NoTornFile` is inductive:
  that the metadata has its certificate needs to know that a call that is at the
  metadata has renamed the certificate before (`MetaAfterCertificate`), which needs that a temp
  file is of the file its call is at (`TempOfJob`) and that no step takes a file
  away (`Keeps`, proved per action with the invariant and then the action property).
- **`CABackendProofs`**: `ContractIsSound`, what the handlers may conclude from the contract; the
  invariant adds that a call that was made has its CSR.
- **`OpenSSLCAProofs`**, in three layers. `CallInv` needs no mutex and holds however often estd dies: a call
  that has made its temp files has them, with its own CSR in them (`TempsOfCall`, `RequestInFile`), so its child writes a certificate for that CSR
  into a file of its own, and the call returns that one. It gives `OpenSSLTypeCorrect` and
  `ReturnsWhatWasRequested`. `DirectoryInv` is about one process, the assumption of
  `openssl.go` 36-40, so the inductive invariant has it until estd dies (`OneProcessInv`): at most one child runs and its call holds the mutex
  (`Exclusive`), so what it has loaded is still there when it writes, and the serial file, if it
  exists, is ahead of every certificate issued. It gives `MutexProtectsDirectory` (unique serial
  numbers), `ReturnedStaysInIndex`, and with the lemma of each step `OpenSSLKeepsContract`, the refinement.
  `TempsBelongToCalls` needs `CallInv` and that a call that has ended has left no file (`NoneLeft`): at each step that may fail, what
  has been created by then is what has been deferred by then.
- **`EJBCACAProofs`**. `EnrolInv` follows the credentials made up in a call: they belong to one call (`CredentialsOwn`),
  so does what is posted with them (`PostedOwn`), what EJBCA enrols for them (`EnrolledOwn`), and the
  answer on its way back (`AnswersOwn`), however late it comes. From it `CAKnowsReturned`, `OneEnrolmentPerCall`, and
  `EJBCAKeepsContract`: a serial number is fresh to the contract since EJBCA
  gives each enrolment its own (`EnrolledDistinct`) and an enrolment is one call's.
- **`StartupProofs`**. `StartInv` relates each step to the files it has seen: what has been looked at is of the
  chosen backend (`OnlyOwnFiles`), and what a step that is behind reads has been read (`StepsDone`). That
  files come and go does not disturb it. It gives `ListeningHasReadAll` and `CAKeyStaysOut`.
- **`EnrollmentProofs`**. The process composes the contract and the store, and so does the proof: `EnrollInv` has
  the invariants of `CABackendProofs` and `FileStoreProofs`, instantiated, as conjuncts, and the lemmas that their
  steps keep them are cited where a handler takes such a step. Its own conjuncts connect the two. `RequestInv` says for each place in a
  handler what has been checked, asked, issued and put (the call is for the CSR of the
  input, the identity was accepted, the answer fits). `FilesOwned` says that each file is of a request whose certificate has
  its serial number. `CertificateAfterCSR` orders the files, and `ExitedQuiet` is what `Drained` waits for. The theorems are
  `IssuedAreAuthorised`, `GrantedAreRecorded`, `StoredRecordsAgree`, `StoredAreAuthorised`, `RefusedLeaveNothing`, `OrderlyExit` and
  `RecordsNeverChange`, through deaths and restarts.
  `EstdIsARegistry` is the refinement: with `EnrollInv` the owner that the metadata names is the one
  request whose certificate has the serial number (`OwnerHasRecord`), so a rename of metadata is the abstract
  grant of a number that nobody owns; an answer is an abstract answer; every other step changes nothing that shows.
- **`OperatorProofs`**, about inputs of every size: `Base64RoundTrip` (decoding the text of any octets
  gives them back, with every padding), `ElementIsRead` (a DER element, whatever follows it), `BodyIsReadWhole` (a body over the
  limit is refused and never cut), `SANsAreKept` (a certificate of the local CA has the SAN set of its
  CSR, and its window of validity), `SerialNamesSortAsNumbers` (file names, for serial numbers of any
  length). The last rests on an induction over octets and digits: the library's theorems of induction
  take an operator, so `NaturalsFromZero` derives one over subsets of the natural numbers from the minimal elements of a
  well-founded relation (`WFMin`), and `RecursionDefines` that functions defined by recursion on numbers exist.
- **`EvaluationProofs`**, the invariants of `Functions` for inputs of every size. The inductive invariant (`EvaluationInv`) is only
  that the result is the value of the function on an input of its type; the work is in what the functions compute. It rests on
  what the loops of the code do, proved once each by the same induction: lists put one after the other (`FlattenJoins`, `RemainderIsFlatten`),
  entries dropped (`WithoutIs`, `WithoutConcat`), insertion into a sorted list (`InsertedIs`), octets of an integer (`IntegerContentIs`).
  - `MatchComparesIdentities`: sorting keeps the occurrences of each name (`SortingKeeps`), and two
    sorted lists with the same occurrences are equal (`OrderedAreEqual`, from the last entry to the first); the prefixes keep the four kinds apart. So identities with
    the same names have the same rendering, whatever the names contain (`SameItems`); and where every name is one line, the rendering is the sorted list itself (`OneLineItems`), from
    which the names follow. With line feeds they do not, which is finding 1.
  - `BodyIsOneCSR`: a text decodes to a CSR exactly when it is its base64, group by group in both directions (`GroupMatches`), with the spare bits of the
    last digit free; so no two CSRs share a body and none is cut.
  - `ClientsGetTheChain`: without their line ends the lines are the text (`AnswerIsText`), the text decodes
    to the octets, each reader of `DecodeCertsOnly` finds the field that `EncodeCertsOnly` wrote (`SignedDataIsRead`), and the loop over the certificates
    takes one at a time and ends (`ChainIsRead`).
  - `NoShorterChain`: a part of an answer without its line ends is a part of the text (`CutIsPrefix`); if it decodes, it ends between two groups, has no padding, and gives fewer octets than the whole with
    the same second octet (`CutText`), which is the length of the whole, so that the outermost reader refuses it (`CutIsRefused`).
  - `EncodeFailsOnMalformed`: the mark of an error is in what a function adds exactly when something in its arguments does not parse, from `addOID` up to `Encode` (the `MarkOf` lemmas).
  - `CertificateReenrolls`: `SANsAreKept`, and that the CommonName survives `pkix.Name` (`CommonNameIsKept`), which finding 5 shows the rest of a subject does not.
  - `FilesSortBySerial`: `SerialNamesSortAsNumbers`, and that the octets of the INTEGER are those that were drawn (`LeftAreReadings`), without leading zeros.

Every inductive invariant was checked by TLC, on the constants of the component's run, before it was proved.

Only model-checked:

- Liveness under fairness (`EnrollmentEnds`, `ShutdownEnds`, and `CallsEnd` of the two backends).
- `OptionsAreRead` of `Functions`: the reader of `csrattrs` goes down into elements of elements, a recursive operator, which the provers cannot use. What
  it is about, one element after the other, is proved for the certificates of `cacerts` only.
- The runs that expect a violation, which refute a sentence and prove nothing.

## Findings

1. "an exact CommonName match and an identical SAN set", "compared as a set", "anything else is rejected" (`identity.go` 28-32), and "duplicate-insensitive" (41-42). It is not quite so in either
   direction. `sanSet` ends each item with a line feed (58-62), and a DNS name or an e-mail address may contain one, since `crypto/x509` asks of them to be an IA5String
   only: a name of two lines, of which the second begins with a prefix, is rendered like two names. And duplicates are not removed: a name or an address repeated on one side makes a re-enrolment
   fail with 403. The run stops at the first of these. Where no name contains a line feed a match is an equal number of
   occurrences of each name (`MatchIsIdentity`, proved).
2. "a crash never leaves a partially-written cert or CSR file in place" (`file.go` 20-22) holds for a
   crash of the process and not of the machine: nothing is synced before the rename.
3. `cert_validity` is "given to every issued certificate" (repository `README.md` 65) by the
   local backend only, and required for all of them.
4. "Validate reports any configuration that Encode cannot express" (`csrattrs.go` 122): it looks
   at the combinations of fields only, and passes identifiers and hex values that do not parse. `Encode` reports
   those, which estd calls at its start, so they are never served.
5. "Subject and SAN fields are copied from the CSR" (`local.go` 105-106): the subject goes through `pkix.Name`, and
   attributes it has no field for (domainComponent, emailAddress) and all CommonNames but the last are
   not in the certificate. Re-enrolment is not affected: it compares the last CommonName (`EnrolledCanReenroll`).

Not a run of its own: `ErrCABackendUnavailable` (`ca.go` 30-33) is declared and never returned, so a
backend that is unreachable answers 500 like any other error.

## Not modelled

- Lengths of DER elements beyond one octet, the arcs of object identifiers, negative modulus sizes. The
  order of certificates in their SET OF, which DER would sort, and `EncodeCertsOnly` keeps.
- A PEM block that `pem.Decode` passes over: it does so without an error, so a chain
  downloaded with such a block is served without it, and what `Functions` calls published is what
  `pem.Decode` finds.
- IPv6 addresses, RDNs of several attributes, the seconds X.509 truncates times to, the formats of private keys.
- That 159 random bits do not repeat: an assumption of the contract (`Fresh`).
- HTTP keep-alive (a request is a connection).
- Loss of a rename with the power, and a directory that is not there any more.
- An orphaned `openssl ca` and a new one on one CA directory: with a death of estd
  in the model a returned certificate may miss in the index, and a serial number may be used twice. The source excludes it in its comment (`openssl.go` 36-39), so
  no property claims the contrary: `UniqueSerials`, `ReturnedInIndex` and `KeepsContract` are stated until estd dies. `CABackend!Fresh`, which `Enrollment` uses across restarts,
  rests on the same comment for the openssl backend.
- An `os.Remove` that fails: the code ignores its error, in `writeFileAtomic` and in the openssl backend, and the temp file stays. The
  removals always succeed in the model, so `NoLeakedTemp` and `TempsFollowCalls` say that they are called, on every path.
- Whether the CA key belongs to the CA certificate: `LoadCAKeyPair` does not compare them, and `ListeningIsReady` is about the two files being read and making sense.
- Logging, scripts, the container.

## Plan

Done: all components checked; the state machines, their refinements and all but one of the invariants of the functions proved.

What could be added, in this order:

1. `OptionsAreRead`, with a reader per level in place of the recursive one.
2. Lengths of DER elements of several octets, and with them chains of any length, in `DER`, `ElementIsRead` and `SignedDataIsRead`.
3. Keep-alive connections, in `Enrollment`.
