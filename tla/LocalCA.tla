------------------------------- MODULE LocalCA -------------------------------
(***************************************************************************)
(* internal/ca/local.go and serial.go: the certificate the local CA makes  *)
(* of a CSR, and the names its serial numbers give to files.               *)
(*                                                                         *)
(* Names, addresses and lists of them are those of Identity.  A subject is *)
(* a sequence of attributes <<type, value>>, with the empty value 0; a key *)
(* identifier is the key itself.  Times are numbers.                       *)
(***************************************************************************)
EXTENDS Integers, Sequences, SequencesExt, Lists, DER, Identity

CONSTANTS SerialBytes,    \* the octets of a serial number: 20 in the code
          DefaultSkew     \* the 5 minutes NotBeforeSkew defaults to

ASSUME LocalCAAssumption == SerialBytes \in Nat \ {0} /\ DefaultSkew \in Nat

-----------------------------------------------------------------------------
(* Subjects, as crypto/x509/pkix parses and marshals them.                 *)

Values(rdns, type) ==
    LET found == Without(rdns, {a \in ToSet(rdns) : a[1] # type})
    IN  [i \in DOMAIN found |-> found[i][2]]

\* pkix.Name: one CommonName, the last, and lists of other named attributes,
\* of which O stands for all.  An attribute of another type (DC, for one) is
\* kept in Names only.
ParseName(rdns) ==
    LET cns == Values(rdns, "CN")
    IN  [cn |-> IF cns = <<>> THEN 0 ELSE Last(cns), o |-> Values(rdns, "O")]

\* Name.ToRDNSequence, which marshals the named attributes and not Names.
ToRDNSequence(name) ==
    [i \in DOMAIN name.o |-> <<"O", name.o[i]>>]
    \o (IF name.cn = 0 THEN <<>> ELSE << <<"CN", name.cn>> >>)

\* The identity identitiesMatch sees in a CSR or a certificate.
IdentityOf(x) ==
    [cn |-> ParseName(x.subject).cn, dns |-> x.dns, ip |-> x.ip,
     email |-> x.email, uri |-> x.uri]

-----------------------------------------------------------------------------

\* The skew is a field of its own, which NewLocalCA leaves zero.
NewLocalCA(cert, validity, skew) ==
    [cert |-> cert, validity |-> validity, extKeyUsage |-> {"clientAuth"},
     notBeforeSkew |-> skew]

keyUsageFor(alg) ==
    IF alg = "RSA" THEN {"digitalSignature", "keyEncipherment"} ELSE {"digitalSignature"}

\* x509.CreateCertificate: an IPv4 address takes its 4-byte form.
MarshalledIPs(ips) == [i \in DOMAIN ips |-> <<ips[i][1], 4>>]

\* A seeded fault: a skew of zero has no default.
NotBeforeUnset(l, now) == now - l.notBeforeSkew

NotBefore(l, now) ==
    now - (IF l.notBeforeSkew = 0 THEN DefaultSkew ELSE l.notBeforeSkew)

\* The certificate for csr at the time now, or ErrInvalidCSRSignature.  The
\* other errors (no random numbers, a key or a name that does not marshal)
\* are ReturnError of CABackend.
IssueCertificate(l, csr, serial, now) ==
    IF ~ csr.pop
    THEN Failure
    ELSE Success(
          [serial |-> serial,
           subject |-> ToRDNSequence(ParseName(csr.subject)),
           dns |-> csr.dns,
           email |-> csr.email,
           ip |-> MarshalledIPs(csr.ip),
           uri |-> csr.uri,
           notBefore |-> NotBefore(l, now),
           notAfter |-> now + l.validity,
           keyUsage |-> keyUsageFor(csr.alg),
           extKeyUsage |-> l.extKeyUsage,
           isCA |-> FALSE,
           subjectKeyId |-> csr.key,
           authorityKeyId |-> l.cert.subjectKeyId])

\* What crypto/tls asks of a client certificate at the time t, under
\* VerifyClientCertIfGiven and with the CA certificate as the only root.
VerifiedAsClient(l, cert, t) ==
    /\ t \in cert.notBefore..cert.notAfter
    /\ t \in l.cert.notBefore..l.cert.notAfter
    /\ cert.authorityKeyId = l.cert.subjectKeyId
    /\ "clientAuth" \in cert.extKeyUsage

-----------------------------------------------------------------------------
(* Serial numbers.                                                         *)

ClearTopBit(octet) == octet % 128

\* RandomSerialSource.Next, given what rand.Read has put into buf: the number
\* whose big-endian octets these are.
SerialNumber(buf) ==
    LET octets == [buf EXCEPT ![1] = ClearTopBit(@)]
        value[i \in 0..SerialBytes] ==
            IF i = 0 THEN 0 ELSE 256 * value[i - 1] + octets[i]
    IN  value[SerialBytes]

\* quotient[i] is what is left of n without its i last digits.
HexDigits(n) ==
    LET quotient[i \in 0..(2 * SerialBytes)] ==
            IF i = 0 THEN n ELSE quotient[i - 1] \div 16
    IN  [i \in 1..(2 * SerialBytes) |-> quotient[2 * SerialBytes - i] % 16]

\* A seeded fault: no leading zeros.
serialHexUnpadded(n) ==
    LET digits == HexDigits(n)
        significant == {i \in DOMAIN digits : digits[i] # 0}
    IN  SubSeq(digits, IF significant = {} THEN Len(digits)
                       ELSE CHOOSE i \in significant : \A j \in significant : i <= j,
               Len(digits))

\* serialHex in internal/store/file.go: "%040x".
serialHex(n) == HexDigits(n)

\* The order of file names of a directory listing.
SortsBefore(a, b) ==
    \E k \in DOMAIN b :
        /\ \A j \in 1..(k - 1) : j \in DOMAIN a /\ a[j] = b[j]
        /\ k \notin DOMAIN a \/ a[k] < b[k]
=============================================================================
