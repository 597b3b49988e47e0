------------------------------- MODULE Encoding -------------------------------
(***************************************************************************)
(* internal/estapi/encoding.go: the base64 bodies of requests and answers. *)
(*                                                                         *)
(* A character of a body is a number: 0..63 for the alphabet of base64, 64 *)
(* for "=", then white space, and anything else.                           *)
(***************************************************************************)
EXTENDS Integers, Sequences, SequencesExt, Lists, DER

CONSTANTS MaxBody,       \* maxCSRBodyBytes
          LineLength,    \* mimeLineLength
          CSRs           \* the DER x509.ParseCertificateRequest accepts

ASSUME EncodingAssumption == MaxBody \in Nat /\ LineLength \in Nat \ {0}

Padding == 64
Space == 65
CR == 66
LF == 67
Foreign == 68    \* any other character

Whitespace == {Space, CR, LF}

\* Octet j of der, or zero after its end.
OctetAt(der, j) == IF j <= Len(der) THEN der[j] ELSE 0

\* The 24 bits of a group of three octets, and of four characters.
BitsOfOctets(a, b, c) == a * 65536 + b * 256 + c
BitsOfDigits(a, b, c, d) == a * 262144 + b * 4096 + c * 64 + d

\* The digit and the octet with place k of a group of 24 bits.
DigitOf(bits, k) == (bits \div <<262144, 4096, 64, 1>>[k + 1]) % 64
OctetOf(bits, k) == (bits \div <<65536, 256, 1>>[k + 1]) % 256

\* base64.StdEncoding.EncodeToString: four characters for three octets, the
\* last ones padded.
EncodeToString(der) ==
    LET group(g) == BitsOfOctets(OctetAt(der, 3*g + 1), OctetAt(der, 3*g + 2),
                                 OctetAt(der, 3*g + 3))
        character(g, k) == IF 3*g + k > Len(der) THEN Padding ELSE DigitOf(group(g), k)
    IN  [i \in 1..(4 * ((Len(der) + 2) \div 3)) |->
            character((i - 1) \div 4, (i - 1) % 4)]

\* The padding at the end of a text.
PaddingOf(text) ==
    IF Len(text) >= 4 /\ text[Len(text)] = Padding
    THEN IF text[Len(text) - 1] = Padding THEN 2 ELSE 1
    ELSE 0

\* base64.StdEncoding.DecodeString.  Bits of the last character that belong
\* to no octet are ignored.
DecodeString(text) ==
    LET digit(i) == IF text[i] = Padding THEN 0 ELSE text[i]
        group(g) == BitsOfDigits(digit(4*g + 1), digit(4*g + 2), digit(4*g + 3),
                                 digit(4*g + 4))
    IN  IF /\ Len(text) % 4 = 0
           /\ \A i \in 1..(Len(text) - PaddingOf(text)) : text[i] \in 0..63
        THEN Success([j \in 1..(3 * (Len(text) \div 4) - PaddingOf(text)) |->
                         OctetOf(group((j - 1) \div 3), (j - 1) % 3)])
        ELSE Failure

stripWhitespace(s) == Without(s, Whitespace)

\* A seeded fault: the limit of the reader is the limit of the body, so that
\* a longer body is cut and not refused.
ReadLimitShort == MaxBody

\* One octet more than a body may have, to see that there are more.
ReadLimit == MaxBody + 1

\* The CSR in a request body, or an error.
decodeCSRBody(body) ==
    LET read == SubSeq(body, 1, Smaller(Len(body), ReadLimit))
        der == DecodeString(stripWhitespace(read))
    IN  IF Len(read) <= MaxBody /\ der.ok /\ der.value \in CSRs
        THEN Success(der.value)
        ELSE Failure

\* The body of an answer: the text in lines, each ended by CR LF.
writeBase64Response(der) ==
    LET encoded == EncodeToString(der)
        line(i) == SubSeq(encoded, i, Smaller(i + LineLength - 1, Len(encoded)))
                   \o <<CR, LF>>
        lines == (Len(encoded) + LineLength - 1) \div LineLength
    IN  FlattenSeq([n \in 1..lines |-> line((n - 1) * LineLength + 1)])
=============================================================================
