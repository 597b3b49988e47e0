---------------------------- MODULE MC_Functions ----------------------------
(***************************************************************************)
(* Evaluation for small inputs, and what a client reads from the answer of *)
(* csrattrs.                                                               *)
(***************************************************************************)
EXTENDS Evaluation, TLC

CONSTANTS Names,      \* CommonNames, DNS names, e-mail addresses and URIs
          Hosts,      \* IP addresses
          MaxList     \* longest list of DNS names and of IP addresses

ListsOf(S, n) == UNION {[1..m -> S] : m \in 0..n}

-----------------------------------------------------------------------------
(* Inputs.                                                                 *)

\* The strings "a", "a\nemail:a" and "b": the second has a line feed, and its
\* second line is what an e-mail address "a" is rendered as.
MCLineBreaks == [s \in {2} |-> [first |-> 1, more |-> << <<2, 1>> >>]]

DNSLists == ListsOf(Names \ {2}, MaxList) \cup {<<2>>, <<1, 2>>, <<2, 1>>}

IdentitySpace == [cn : {1, 3},
                  dns : DNSLists,
                  ip : ListsOf(Hosts \X {4, 16}, MaxList),
                  email : ListsOf({1}, 1),
                  uri : ListsOf({1}, 1)]

\* The peer has the first CommonName, no URI, and its addresses in one form:
\* the roles of peer and CSR can be exchanged.
MCIdentityPairs ==
    {id \in IdentitySpace :
        id.cn = 1 /\ id.uri = <<>> /\ \A i \in DOMAIN id.ip : id.ip[i][2] = 4}
    \X IdentitySpace

\* MCBodies up to one character more than the limit, with the characters of the
\* texts of three short CSRs.
MCBodies == ListsOf({0, 1, Padding, Space, Foreign}, MaxBody + 1)

MCCSRs == {<<4>>, <<4, 16>>, <<0, 16, 64>>}

\* Two CA certificates: DER elements with one and with two octets.
MCCertificates == {<<48, 1, 200>>, <<48, 2, 7, 255>>}

NotACertificate == <<2, 1, 9>>

\* PEM texts of at most three blocks.
MCTexts == ListsOf(MCCertificates \cup {NotACertificate, Garbled}, 3)

\* An answer of EJBCA, or the file of the local or the openssl backend, which
\* estd does not start without.
MCSources ==
    [backend : {"ejbca"}, status : {200, 404}, text : MCTexts]
    \cup [backend : {"local"}, text : {t \in MCTexts : LoadedCertificates(t).ok}]

KeyAlgorithms == [oid : {11, Malformed}, curve : {None, 12, Malformed}, bits : {0, 2048}]

Extensions == [oid : {13, Malformed}, critical : BOOLEAN, value : {<<>>, <<7>>, Malformed}]

TemplateExtensions ==
    [oid : {13, Malformed}, critical : BOOLEAN, value : {None, <<>>, <<7>>, Malformed}]

Subjects == ListsOf([oid : {16, Malformed}, value : {None, <<>>, <<8>>}], 2)

\* Every subject; every key type; every list of extensions; each with the
\* other two absent and present.
Templates ==
    LET some == [subject |-> {<<>>, <<[oid |-> 16, value |-> <<>>]>>},
                 keyType |-> {None, [oid |-> 11, curve |-> 12, bits |-> 0]},
                 extensions |-> {<<>>, <<[oid |-> 13, critical |-> TRUE, value |-> None]>>}]
    IN  [subject : Subjects, keyType : some.keyType, extensions : some.extensions]
        \cup [subject : some.subject, keyType : {None} \cup KeyAlgorithms,
              extensions : some.extensions]
        \cup [subject : some.subject, keyType : some.keyType,
              extensions : ListsOf(TemplateExtensions, 2)]

\* Every classic section with the other two absent and present, and every
\* template.
MCConfigurations ==
    LET keys == {None, [oid |-> 11, curve |-> 12, bits |-> 0]}
        exts == {<<>>, <<[oid |-> 13, critical |-> FALSE, value |-> <<7>>]>>}
        oids == {<<>>, <<14>>}
        Section(ka, re, eo, t) ==
            [challengePassword : BOOLEAN, keyAlgorithm : ka, requiredExtensions : re,
             extraOIDs : eo, template : t]
    IN  {None}
        \cup Section({None} \cup KeyAlgorithms, exts, oids, {None})
        \cup Section(keys, ListsOf(Extensions, 2), oids, {None})
        \cup Section(keys, exts, ListsOf({14, 15, Malformed}, 2), {None})
        \cup Section({None}, exts, {<<>>}, Templates)

\* CSRs with up to two attributes in the subject.
MCRequests ==
    [subject : ListsOf({"CN", "O", "DC"} \X {1, 2}, 2), dns : ListsOf(Names, 1),
     ip : ListsOf(Hosts \X {4, 16}, MaxList), email : {<<>>}, uri : {<<1>>},
     alg : {"RSA"}, key : {"k1"}, pop : BOOLEAN]

\* A new certificate may outlive the one of the CA.
MCLocalCAs ==
    {NewLocalCA([subjectKeyId |-> "ca", notBefore |-> 0, notAfter |-> end], 3, skew) :
        end \in {12, 15}, skew \in {0, 1}}

MCNow == 10

MCBuffers == [1..SerialBytes -> {0, 1, 15, 16, 127, 128, 255}]

-----------------------------------------------------------------------------
(* What a client reads.                                                    *)

\* The elements that s consists of.
RECURSIVE Elements(_)
Elements(s) ==
    IF s = <<>> THEN <<>>
    ELSE LET e == Read(s, s[1])
         IN  << [tag |-> s[1], content |-> e.content] >> \o Elements(e.rest)

OfTag(elements, tag) == SelectSeq(elements, LAMBDA e : e.tag = tag)

\* The content of the first of some elements, or None.
ContentOrNone(elements) == IF elements = <<>> THEN None ELSE elements[1].content

\* f of the entries of a list.
MapList(f(_), list) == [i \in DOMAIN list |-> f(list[i])]

\* RFC 5280 Extension and RFC 9908 ExtensionTemplate.
ReadExtension(e) ==
    LET fields == Elements(e.content)
    IN  [oid |-> fields[1].content[1],
         critical |-> OfTag(fields, BOOLEANTag) # <<>>,
         value |-> ContentOrNone(OfTag(fields, OCTETSTRINGTag))]

ReadExtensions(content) == MapList(ReadExtension, Elements(Elements(content)[1].content))

\* An attribute: its type, and the content of its SET of values.
ReadAttribute(e) ==
    LET fields == Elements(e.content)
    IN  [type |-> fields[1].content[1], values |-> fields[2].content]

\* An RDN of a NameTemplate: a SET of one SEQUENCE.
ReadRDN(e) ==
    LET fields == Elements(Elements(e.content)[1].content)
    IN  [oid |-> fields[1].content[1], value |-> ContentOrNone(OfTag(fields, UTF8StringTag))]

ReadKeyAlgorithm(type, values) ==
    LET ints == OfTag(values, INTEGERTag)
        oids == OfTag(values, OIDTag)
    IN  [oid |-> type,
         curve |-> IF oids = <<>> THEN None ELSE oids[1].content[1],
         bits |-> IF ints = <<>> THEN 0
                  ELSE ints[1].content[1] * 256 + ints[1].content[2]]

\* RFC 9908, 3.4: the extensions of a template are in one attribute, which is
\* id-ExtensionReq when all of them have values and the template's otherwise.
ReadTemplateExtensions(content) ==
    IF content = <<>> THEN <<>>
    ELSE LET attributes == MapList(ReadAttribute, Elements(content))
             exts == ReadExtensions(attributes[1].values)
             complete == \A i \in DOMAIN exts : exts[i].value # None
         IN  IF /\ Len(attributes) = 1
                /\ attributes[1].type = IF complete THEN oidExtensionReq
                                        ELSE oidExtensionReqTemplate
             THEN exts
             ELSE None

ReadTemplate(values) ==
    LET fields == Elements(Elements(values)[1].content)
        subject == OfTag(fields, SEQUENCETag)
        keyType == OfTag(fields, ContextTag(0))
    IN  [subject |-> IF subject = <<>> THEN <<>>
                     ELSE MapList(ReadRDN, Elements(subject[1].content)),
         keyType |-> IF keyType = <<>> THEN None
                     ELSE LET oids == Elements(Elements(keyType[1].content)[1].content)
                          IN  ReadKeyAlgorithm(oids[1].content[1], Tail(oids)),
         extensions |-> ReadTemplateExtensions(OfTag(fields, ContextTag(1))[1].content)]

\* The options a client reads from CsrAttrs.
ReadOptions(der) ==
    LET items == Elements(Read(der, SEQUENCETag).content)
        bare == MapList(LAMBDA e : e.content[1], OfTag(items, OIDTag))
        attributes == MapList(ReadAttribute, OfTag(items, SEQUENCETag))
        OfType(type) == SelectSeq(attributes, LAMBDA a : a.type = type)
        exts == OfType(oidExtensionReq)
        template == OfType(oidCertificationRequestInfoTemplate)
        keys == SelectSeq(attributes, LAMBDA a :
                    a.type \notin {oidExtensionReq, oidCertificationRequestInfoTemplate})
    IN  [challengePassword |-> bare # <<>> /\ bare[1] = oidChallengePassword,
         keyAlgorithm |-> IF keys = <<>> THEN None
                          ELSE ReadKeyAlgorithm(keys[1].type, Elements(keys[1].values)),
         requiredExtensions |-> IF exts = <<>> THEN <<>> ELSE ReadExtensions(exts[1].values),
         extraOIDs |-> SelectSeq(bare, LAMBDA o : o # oidChallengePassword),
         template |-> IF template = <<>> THEN None ELSE ReadTemplate(template[1].values)]

\* csrattrs.go 36-60 and 86-120, cmd/estd/csrattrs.go: a client that reads the
\* answer by RFC 7030 and RFC 9908 finds the options the operator has written,
\* in order, a value dictated as empty apart from one left to the client;
\* and there is no answer only if nothing is configured.
OptionsAreRead ==
    Evaluated("csrattrs") /\ out.ok =>
        LET configured == IF arg = None THEN EmptyOptions ELSE arg
        IN  IF out.value = <<>> THEN configured = EmptyOptions
            ELSE ReadOptions(out.value) = configured
=============================================================================
