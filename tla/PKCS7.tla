-------------------------------- MODULE PKCS7 --------------------------------
(***************************************************************************)
(* internal/pkcs7: certificates in a degenerate SignedData, the body of    *)
(* the answers of cacerts, simpleenroll and simplereenroll.                *)
(*                                                                         *)
(* A certificate is its DER (the field Raw); one that was never parsed is  *)
(* the empty sequence.                                                     *)
(***************************************************************************)
EXTENDS DER

CONSTANT Certificates    \* the elements x509.ParseCertificate accepts

oidData == <<1>>
oidSignedData == <<2>>

CertificatesField(certs) == Element(ContextTag(0), FlattenSeq(certs))

EncodeCertsOnly(certs) ==
    IF \E i \in DOMAIN certs : certs[i] = <<>>
    THEN Failure
    ELSE Success(
            Element(SEQUENCETag,                                    \* ContentInfo
                Element(OIDTag, oidSignedData)
                \o Element(ContextTag(0),
                       Element(SEQUENCETag,                         \* SignedData
                           Element(INTEGERTag, IntegerContent(1))
                           \o Element(SETTag, <<>>)                 \* digestAlgorithms
                           \o Element(SEQUENCETag, Element(OIDTag, oidData))
                           \o CertificatesField(certs)
                           \o Element(SETTag, <<>>)))))             \* signerInfos

\* One more certificate of the certificates field, while there are octets left.
ReadCertificate(read) ==
    LET element == Read(read.rest, SEQUENCETag)
    IN  IF ~ read.ok \/ read.rest = <<>> THEN read
        ELSE IF element.ok /\ element.whole \in Certificates
             THEN [ok |-> TRUE, rest |-> element.rest,
                   certs |-> Append(read.certs, element.whole)]
             ELSE [read EXCEPT !.ok = FALSE]

\* The certificates in the content of the certificates field, or an error.
ReadCertificates(s) ==
    LET after[n \in 0..Len(s)] ==
            IF n = 0 THEN [ok |-> TRUE, rest |-> s, certs |-> <<>>]
            ELSE ReadCertificate(after[n - 1])
    IN  IF after[Len(s)].ok THEN Success(after[Len(s)].certs) ELSE Failure

\* Every field in its place; what follows the certificates is not looked at.
DecodeCertsOnly(der) ==
    LET contentInfo == Read(der, SEQUENCETag)
        contentType == Read(contentInfo.content, OIDTag)
        explicitContent == Read(contentType.rest, ContextTag(0))
        signedData == Read(explicitContent.content, SEQUENCETag)
        version == Read(signedData.content, INTEGERTag)
        digestAlgorithms == Read(version.rest, SETTag)
        encapContentInfo == Read(digestAlgorithms.rest, SEQUENCETag)
        certificates == Read(encapContentInfo.rest, ContextTag(0))
    IN  IF /\ contentInfo.ok /\ contentInfo.rest = <<>>
           /\ contentType.ok /\ contentType.content = oidSignedData
           /\ explicitContent.ok
           /\ signedData.ok
           /\ version.ok /\ version.content # <<>>
           /\ digestAlgorithms.ok
           /\ encapContentInfo.ok
           /\ certificates.ok
        THEN ReadCertificates(certificates.content)
        ELSE Failure
=============================================================================
