------------------------------- MODULE CSRAttrs -------------------------------
(***************************************************************************)
(* internal/csrattrs and cmd/estd/csrattrs.go: the answer of GET /csrattrs *)
(* from its section of the configuration.                                  *)
(*                                                                         *)
(* The encoder writes DER to a builder.  An object identifier is a number, *)
(* or Malformed when strconv.Atoi or the builder refuses it; a value_hex   *)
(* is the octets it stands for, or Malformed.  None is a nil pointer, an   *)
(* empty curve_oid, and a section that is left out.                        *)
(***************************************************************************)
EXTENDS DER

CONSTANTS None, Malformed

oidChallengePassword == 1
oidExtensionReq == 2
oidCertificationRequestInfoTemplate == 3
oidExtensionReqTemplate == 4

EmptyOptions == [challengePassword |-> FALSE, keyAlgorithm |-> None,
                 requiredExtensions |-> <<>>, extraOIDs |-> <<>>, template |-> None]

\* The section of the configuration has the fields of Options; a template
\* in it becomes a Template even when it is empty.
csrAttrsOptions(cfg) ==
    IF cfg = None
    THEN EmptyOptions
    ELSE [EmptyOptions EXCEPT !.challengePassword = cfg.challengePassword,
                              !.keyAlgorithm = cfg.keyAlgorithm,
                              !.requiredExtensions = cfg.requiredExtensions,
                              !.extraOIDs = cfg.extraOIDs,
                              !.template = cfg.template]

\* Whether Options.Validate returns nil.
Validate(o) ==
    /\ o.keyAlgorithm # None =>
           ~ (o.keyAlgorithm.curve # None /\ o.keyAlgorithm.bits # 0)
    /\ o.template # None =>
           (o.template.keyType # None =>
                /\ o.template.keyType.bits = 0
                /\ o.template.keyType.curve # None)

isEmpty(o) == o = EmptyOptions

-----------------------------------------------------------------------------
(* The builder.  SetError leaves a mark that Bytes finds, wherever in the  *)
(* nested elements it was left.                                            *)

ErrorMark == -1
SetError == <<ErrorMark>>

Bytes(b) == IF \E i \in DOMAIN b : b[i] = ErrorMark THEN Failure ELSE Success(b)

\* What add writes for each entry of list, one after the other.
AddEach(add(_), list) == FlattenSeq([i \in DOMAIN list |-> add(list[i])])

\* A seeded fault: an identifier that does not parse is left out.
addOIDQuiet(oid) == IF oid = Malformed THEN <<>> ELSE Element(OIDTag, <<oid>>)

addOID(oid) == IF oid = Malformed THEN SetError ELSE Element(OIDTag, <<oid>>)

\* The values are the content of the SET, which is empty for a nil addValue.
addAttribute(oid, values) ==
    Element(SEQUENCETag, addOID(oid) \o Element(SETTag, values))

addKeyAlgorithmAttribute(ka) ==
    addAttribute(ka.oid,
        IF ka.curve # None THEN addOID(ka.curve)
        ELSE IF ka.bits # 0 THEN Element(INTEGERTag, IntegerContent(ka.bits))
        ELSE <<>>)

\* BOOLEAN DEFAULT FALSE
addCritical(critical) == IF critical THEN Element(BOOLEANTag, <<255>>) ELSE <<>>

addExtensionTemplate(e) ==
    Element(SEQUENCETag,
        addOID(e.oid)
        \o addCritical(e.critical)
        \o CASE e.value = None      -> <<>>
             [] e.value = Malformed -> SetError
             [] OTHER               -> Element(OCTETSTRINGTag, e.value))

\* pkix.Extension has the same shape, with every value there.
marshalExtensions(exts) == Element(SEQUENCETag, AddEach(addExtensionTemplate, exts))

addExtensionReqAttribute(exts) ==
    IF \E i \in DOMAIN exts : Malformed \in {exts[i].oid, exts[i].value}
    THEN SetError
    ELSE addAttribute(oidExtensionReq, marshalExtensions(exts))

addExtensionReqTemplateAttribute(exts) ==
    addAttribute(oidExtensionReqTemplate,
        Element(SEQUENCETag, AddEach(addExtensionTemplate, exts)))

\* A seeded fault: a value that is dictated as empty is left to the client.
addRDNValueNonEmpty(value) ==
    IF value \in {None, <<>>} THEN <<>> ELSE Element(UTF8StringTag, value)

addRDNValue(value) == IF value = None THEN <<>> ELSE Element(UTF8StringTag, value)

addSubjectTemplate(rdns) ==
    LET addRDN(rdn) ==
            Element(SETTag, Element(SEQUENCETag, addOID(rdn.oid) \o addRDNValue(rdn.value)))
    IN  Element(SEQUENCETag, AddEach(addRDN, rdns))

addSubjectPKInfoTemplate(ka) ==
    Element(ContextTag(0),
        Element(SEQUENCETag,
            addOID(ka.oid) \o (IF ka.curve # None THEN addOID(ka.curve) ELSE <<>>)))

\* At most one attribute: id-ExtensionReq if every value is there.
addTemplateAttributes(exts) ==
    Element(ContextTag(1),
        IF exts = <<>> THEN <<>>
        ELSE IF \A i \in DOMAIN exts : exts[i].value # None
             THEN addExtensionReqAttribute(exts)
             ELSE addExtensionReqTemplateAttribute(exts))

addTemplate(t) ==
    Element(SEQUENCETag,
        Element(INTEGERTag, IntegerContent(0))
        \o (IF t.subject = <<>> THEN <<>> ELSE addSubjectTemplate(t.subject))
        \o (IF t.keyType = None THEN <<>> ELSE addSubjectPKInfoTemplate(t.keyType))
        \o addTemplateAttributes(t.extensions))

\* The CsrAttrs of the options: an error, nothing, or its DER.
Encode(o) ==
    IF ~ Validate(o) THEN Failure
    ELSE IF isEmpty(o) THEN Success(<<>>)
    ELSE Bytes(Element(SEQUENCETag,
             (IF o.challengePassword THEN addOID(oidChallengePassword) ELSE <<>>)
             \o (IF o.keyAlgorithm = None THEN <<>> ELSE addKeyAlgorithmAttribute(o.keyAlgorithm))
             \o (IF o.requiredExtensions = <<>> THEN <<>>
                 ELSE addExtensionReqAttribute(o.requiredExtensions))
             \o AddEach(addOID, o.extraOIDs)
             \o (IF o.template = None THEN <<>>
                 ELSE addAttribute(oidCertificationRequestInfoTemplate, addTemplate(o.template)))))
=============================================================================
