------------------------------ MODULE Evaluation ------------------------------
(***************************************************************************)
(* The parts of estd that keep no state: each behaviour is one evaluation  *)
(* of one of them, for an input chosen at the start, and the invariants    *)
(* compare what comes out with what a client or a reader of the files is   *)
(* promised.  Where the parts are used one after the other (a download, an *)
(* encoding, the lines of an answer) they are evaluated together.          *)
(***************************************************************************)
EXTENDS Identity, CACerts, CSRAttrs, LocalCA

CONSTANTS Functions,        \* the ones that are evaluated
          IdentityPairs,    \* the inputs of each
          Bodies,
          Sources,
          Configurations,
          Requests, LocalCAs, Now,
          Buffers

VARIABLES fn,     \* the function
          arg,    \* its arguments
          out,    \* its result, when done
          done

vars == <<fn, arg, out, done>>

-----------------------------------------------------------------------------
(* Inputs.                                                                 *)

Addresses == Nat \X {4, 16}

Identities ==
    [cn : Nat, dns : Seq(Nat), ip : Seq(Addresses), email : Seq(Nat), uri : Seq(Nat)]

ASSUME IdentityAssumption == IdentityPairs \subseteq Identities \X Identities

ASSUME BodyAssumption ==
    /\ Bodies \subseteq Seq(0..Foreign)
    /\ CSRs \subseteq Seq(Octet) \ {<<>>}

\* The octets EncodeCertsOnly puts around a chain, and the longest chain that
\* the one octet of a length leaves room for.
Overhead == 21
MaxChain == 255 - Overhead

Texts == {text \in Seq(Seq(Octet) \cup {Garbled}) :
             Len(FlattenSeq(DecodedBlocks(text))) <= MaxChain}

\* A certificate is one element.
ASSUME SourceAssumption ==
    /\ Sources \subseteq [backend : {"ejbca"}, status : Nat, text : Texts]
                         \cup [backend : {"local"}, text : Texts]
    /\ Garbled \notin Seq(Octet)
    /\ \A cert \in Certificates :
          /\ cert \in Seq(Octet) /\ Len(cert) >= 2
          /\ cert[1] = SEQUENCETag /\ cert[2] = Len(cert) - 2

OID == (0..127) \cup {Malformed}

KeyAlgorithm == [oid : OID, curve : OID \cup {None}, bits : Nat]

Extension == [oid : OID, critical : BOOLEAN, value : Seq(Octet) \cup {Malformed}]

ExtensionTemplate ==
    [oid : OID, critical : BOOLEAN, value : Seq(Octet) \cup {Malformed, None}]

RDN == [oid : OID, value : Seq(Octet) \cup {None}]

Template == [subject : Seq(RDN), keyType : KeyAlgorithm \cup {None},
             extensions : Seq(ExtensionTemplate)]

Configuration ==
    [challengePassword : BOOLEAN, keyAlgorithm : KeyAlgorithm \cup {None},
     requiredExtensions : Seq(Extension), extraOIDs : Seq(OID),
     template : Template \cup {None}]

ASSUME ConfigurationAssumption ==
    /\ Configurations \subseteq Configuration \cup {None}
    /\ Malformed \notin Seq(Octet) \cup (0..127)
    /\ None \notin Seq(Octet) \cup OID

\* DC stands for the types pkix.Name has no field for.
AttributeTypes == {"CN", "O", "DC"}

Request == [subject : Seq(AttributeTypes \X Nat), dns : Seq(Nat), ip : Seq(Addresses),
            email : Seq(Nat), uri : Seq(Nat), alg : STRING, key : STRING, pop : BOOLEAN]

CACertificate == [subjectKeyId : STRING, notBefore : Int, notAfter : Int]

ASSUME RequestAssumption ==
    /\ Requests \subseteq Request
    /\ LocalCAs \subseteq [cert : CACertificate, validity : Nat,
                           extKeyUsage : {{"clientAuth"}}, notBeforeSkew : Nat]
    /\ Now \in Nat

ASSUME BufferAssumption == Buffers \subseteq [1..SerialBytes -> Octet]

Inputs(f) ==
    CASE f = "identitiesMatch"  -> IdentityPairs
      [] f = "decodeCSRBody"    -> Bodies
      [] f = "handleCACerts"    -> Sources
      [] f = "csrattrs"         -> Configurations
      [] f = "IssueCertificate" -> Requests \X LocalCAs
      [] f = "serialHex"        -> Buffers \X Buffers

-----------------------------------------------------------------------------

Init ==
    /\ fn \in Functions
    /\ arg \in Inputs(fn)
    /\ out = None
    /\ done = FALSE

\* One evaluation of f, with the result r.
Evaluate(f, r(_)) ==
    /\ fn = f
    /\ ~ done
    /\ done' = TRUE
    /\ out' = r(arg)
    /\ UNCHANGED <<fn, arg>>

Compare == Evaluate("identitiesMatch", LAMBDA a : identitiesMatch(a[1], a[2]))

ReadBody == Evaluate("decodeCSRBody", LAMBDA a : decodeCSRBody(a))

ServeCACerts ==
    Evaluate("handleCACerts",
             LAMBDA a : handleCACerts(IF a.backend = "local" THEN LoadedCertificates(a.text)
                                      ELSE DownloadedCertificates(a.status, a.text)))

EncodeAttrs == Evaluate("csrattrs", LAMBDA a : Encode(csrAttrsOptions(a)))

Issue ==
    Evaluate("IssueCertificate", LAMBDA a : IssueCertificate(a[2], a[1], 1, Now))

NameSerials ==
    Evaluate("serialHex",
             LAMBDA a : << serialHex(SerialNumber(a[1])), serialHex(SerialNumber(a[2])) >>)

Next == Compare \/ ReadBody \/ ServeCACerts \/ EncodeAttrs \/ Issue \/ NameSerials

Spec == Init /\ [][Next]_vars

Evaluated(f) == fn = f /\ done

-----------------------------------------------------------------------------
(* Properties.                                                             *)

\* The octets a client finds in the body of an answer.
Received(body) == DecodeString(stripWhitespace(body))

\* How often x occurs in list.
Occurrences(list, x) == Cardinality({i \in DOMAIN list : list[i] = x})

SameOccurrences(a, b) ==
    \A x \in ToSet(a) \cup ToSet(b) : Occurrences(a, x) = Occurrences(b, x)

\* The addresses of a list of IPs, without the length of their encoding.
AddressList(ips) == [i \in DOMAIN ips |-> ips[i][1]]

\* Each of the four lists of names holds the same ones, each as often.
SameNames(a, b) ==
    /\ SameOccurrences(a.dns, b.dns)
    /\ SameOccurrences(AddressList(a.ip), AddressList(b.ip))
    /\ SameOccurrences(a.email, b.email)
    /\ SameOccurrences(a.uri, b.uri)

\* No name is one that sanSet renders as several lines.
OneLineNames(id) == (ToSet(id.dns) \cup ToSet(id.email)) \cap DOMAIN LineBreaks = {}

\* What the code of identity.go 33-63 compares.  A re-enrolment for the names
\* of the certificate, each as often, is never refused, whatever their order,
\* the encoding of their IP addresses and the line feeds in them; and where no
\* name contains a line feed, no other re-enrolment is let through.
MatchIsIdentity ==
    Evaluated("identitiesMatch") =>
        LET peer == arg[1]
            csr == arg[2]
            same == peer.cn = csr.cn /\ SameNames(peer, csr)
        IN  /\ same => out
            /\ out /\ OneLineNames(peer) /\ OneLineNames(csr) => same

\* Each of the four lists holds the same names, taken as a set.
SameSets(a, b) ==
    /\ ToSet(a.dns) = ToSet(b.dns)
    /\ ToSet(AddressList(a.ip)) = ToSet(AddressList(b.ip))
    /\ ToSet(a.email) = ToSet(b.email)
    /\ ToSet(a.uri) = ToSet(b.uri)

\* identity.go 28-32 and 41-42: a match is an exact CommonName and an identical
\* SAN set, without regard to order and duplicates; anything else is rejected.
MatchIsSetEquality ==
    Evaluated("identitiesMatch") =>
        (out <=> arg[1].cn = arg[2].cn /\ SameSets(arg[1], arg[2]))

\* text is base64 of csr: the bits of its last character that belong to no
\* octet may be set.
IsTextOf(text, csr) ==
    LET canonical == EncodeToString(csr)
        digits == (4 * Len(csr) + 2) \div 3
        spare == CASE Len(csr) % 3 = 0 -> 1
                   [] Len(csr) % 3 = 1 -> 16
                   [] Len(csr) % 3 = 2 -> 4
    IN  /\ Len(text) = Len(canonical)
        /\ \A i \in DOMAIN text : i # digits => text[i] = canonical[i]
        /\ text[digits] \in 0..63
        /\ text[digits] \div spare = canonical[digits] \div spare

\* encoding.go 18-20 and 31-36: a request has a CSR exactly when its body, of
\* no more than the limit with the white space, is base64 of it from the first
\* character to the last.  A body that is too long is never cut to a CSR.
CSRBodyIsWhole ==
    Evaluated("decodeCSRBody") =>
        LET meant == {csr \in CSRs : IsTextOf(stripWhitespace(arg), csr)}
        IN  IF Len(arg) <= MaxBody /\ meant # {}
            THEN out.ok /\ out.value \in meant
            ELSE ~ out.ok

\* The certificates a client of cacerts is to have.
Published ==
    LET blocks == DecodedBlocks(arg.text)
    IN  IF arg.backend = "ejbca" \/ blocks = <<>> THEN blocks ELSE << blocks[1] >>

\* ca.go 15-17, ejbca.go 129-132, handlers.go 15-34: through the download, the
\* SignedData and the lines of the answer, a client gets every certificate
\* that was published, in the order it was published in; or no answer, when
\* there is none or something else among them.
ServedChainIsPublished ==
    Evaluated("handleCACerts") =>
        IF /\ arg.backend = "ejbca" => arg.status \in 200..299
           /\ Published # <<>>
           /\ ToSet(Published) \subseteq Certificates
        THEN /\ out.status = 200
             /\ DecodeCertsOnly(Received(out.body).value) = Success(Published)
        ELSE out = InternalError

\* encoding.go 87-88: errors of the connection while an answer is written are
\* ignored.  An answer that is cut off anywhere does not decode to fewer
\* certificates than it was written with.
CutAnswerIsNoticed ==
    Evaluated("handleCACerts") =>
        \A n \in 0..Len(out.body) :
            LET der == Received(SubSeq(out.body, 1, n))
                certs == DecodeCertsOnly(der.value)
            IN  der.ok /\ certs.ok => certs.value = Published

HasMalformed(o) ==
    LET InKey(ka) == ka # None /\ Malformed \in {ka.oid, ka.curve}
        InList(list) == \E i \in DOMAIN list : Malformed \in {list[i].oid, list[i].value}
    IN  \/ InKey(o.keyAlgorithm)
        \/ InList(o.requiredExtensions)
        \/ Malformed \in ToSet(o.extraOIDs)
        \/ /\ o.template # None
           /\ \/ InKey(o.template.keyType)
              \/ InList(o.template.subject)
              \/ InList(o.template.extensions)

\* csrattrs.go 199-203: an identifier or a value that does not parse, however
\* deep in the nested closures, is an error of Encode as a whole, and nothing
\* else that Validate has let through is.
MalformedIsAnError ==
    Evaluated("csrattrs") =>
        LET o == csrAttrsOptions(arg)
        IN  out.ok <=> Validate(o) /\ ~ HasMalformed(o)

\* csrattrs.go 122: Validate reports any configuration that Encode cannot
\* express.
ValidateIsComplete ==
    Evaluated("csrattrs") => (Validate(csrAttrsOptions(arg)) => out.ok)

\* local.go 26-33 and 130-143, identity.go 28-32, tls.go: the certificate of an
\* enrolment authenticates its client for a re-enrolment with the same CSR,
\* to a clock that is behind by no more than the skew, for as long as it and
\* the certificate of the CA are valid.
EnrolledCanReenroll ==
    Evaluated("IssueCertificate") /\ out.ok =>
        LET csr == arg[1]
            l == arg[2]
            skew == IF l.notBeforeSkew = 0 THEN DefaultSkew ELSE l.notBeforeSkew
            last == Smaller(Now + l.validity, l.cert.notAfter)
        IN  /\ identitiesMatch(IdentityOf(out.value), IdentityOf(csr))
            /\ \A t \in (Now - skew)..last :
                  t >= l.cert.notBefore => VerifiedAsClient(l, out.value, t)

\* local.go 105-106: Subject and SAN fields are copied from the CSR.
SubjectIsCopied ==
    Evaluated("IssueCertificate") /\ out.ok =>
        SameOccurrences(out.value.subject, arg[1].subject)

\* file.go 19-20, serial.go 14-17: the files of two serial numbers have two
\* names, of one length, that sort as the numbers do; and a serial number is
\* a DER INTEGER of no more octets than it was drawn with.
SerialNamesSort ==
    Evaluated("serialHex") =>
        LET m == SerialNumber(arg[1])
            n == SerialNumber(arg[2])
        IN  /\ Len(out[1]) = Len(out[2])
            /\ SortsBefore(out[1], out[2]) <=> m < n
            /\ out[1] = out[2] <=> m = n
            /\ Len(IntegerContent(m)) <= SerialBytes
=============================================================================
