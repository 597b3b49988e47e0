------------------------------- MODULE CACerts -------------------------------
(***************************************************************************)
(* GET /cacerts: the certificates of the CA backend, from where it has     *)
(* them to the body of the answer.                                         *)
(*                                                                         *)
(* A PEM text is the sequence of its blocks.  A block that pem.Decode      *)
(* cannot read (cut off, or not base64) is Garbled: the next one is taken. *)
(* The label of a block is not looked at.                                  *)
(***************************************************************************)
EXTENDS PKCS7, Encoding

CONSTANT Garbled

\* The blocks pem.Decode finds, one call after the other.
DecodedBlocks(text) == Without(text, {Garbled})

\* LoadCAKeyPair and LoadCACertificate: the first block of the file, and no
\* other, is the certificate the local and the openssl backend answer with.
LoadedCertificates(file) ==
    LET blocks == DecodedBlocks(file)
    IN  IF blocks # <<>> /\ blocks[1] \in Certificates
        THEN Success(<<blocks[1]>>)
        ELSE Failure

\* A seeded fault: a block that does not parse is passed over.
DownloadedCertificatesLoose(status, text) ==
    LET blocks == SelectSeq(DecodedBlocks(text), LAMBDA b : b \in Certificates)
    IN  IF status \in 200..299 /\ blocks # <<>> THEN Success(blocks) ELSE Failure

\* CACertificates of the EJBCA backend: all the blocks of the download.
DownloadedCertificates(status, text) ==
    LET blocks == DecodedBlocks(text)
    IN  IF /\ status \in 200..299
           /\ \A i \in DOMAIN blocks : blocks[i] \in Certificates
           /\ blocks # <<>>
        THEN Success(blocks)
        ELSE Failure

InternalError == [status |-> 500, body |-> <<>>]

\* A seeded fault: each certificate is encoded by itself, one after the other.
handleCACertsEach(certs) ==
    LET der(i) == EncodeCertsOnly(<<certs.value[i]>>).value
    IN  IF certs.ok
        THEN [status |-> 200,
              body |-> writeBase64Response(FlattenSeq([i \in DOMAIN certs.value |-> der(i)]))]
        ELSE InternalError

\* handleCACerts, given what CACertificates has returned.
handleCACerts(certs) ==
    LET der == EncodeCertsOnly(certs.value)
    IN  IF certs.ok /\ der.ok
        THEN [status |-> 200, body |-> writeBase64Response(der.value)]
        ELSE InternalError
=============================================================================
