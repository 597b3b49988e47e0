--------------------------------- MODULE DER ---------------------------------
(***************************************************************************)
(* The part of golang.org/x/crypto/cryptobyte that internal/pkcs7 and      *)
(* internal/csrattrs build and read their structures with.                 *)
(*                                                                         *)
(* A DER string is a sequence of octets: a tag, a length and the content.  *)
(* A length is one octet here, so elements are shorter than 256 octets; an *)
(* object identifier is a number below 128 in place of its arcs.           *)
(***************************************************************************)
EXTENDS Integers, Sequences, SequencesExt

Octet == 0..255

BOOLEANTag == 1
INTEGERTag == 2
OCTETSTRINGTag == 4
OIDTag == 6
UTF8StringTag == 12
SEQUENCETag == 48
SETTag == 49

\* casn1.Tag(n).ContextSpecific().Constructed()
ContextTag(n) == 160 + n

\* The result of a Go function with an error.
Success(v) == [ok |-> TRUE, value |-> v]
Failure == [ok |-> FALSE, value |-> <<>>]

\* Builder.AddASN1: a complete element.
Element(tag, content) == <<tag, Len(content)>> \o content

\* The content of an INTEGER: as few octets as keep the sign.
IntegerContent(n) ==
    LET left[i \in 0..n] == IF i = 0 THEN n ELSE left[i - 1] \div 256
        last == CHOOSE k \in 0..n : left[k] < 128 /\ \A j \in 0..(k - 1) : left[j] >= 128
    IN  [i \in 1..(last + 1) |-> left[last + 1 - i] % 256]

Smaller(m, n) == IF m < n THEN m ELSE n

\* String.ReadASN1 and ReadASN1Element: the element s starts with, its
\* content, and what follows it.
Read(s, tag) ==
    IF Len(s) >= 2 /\ s[1] = tag /\ Len(s) >= 2 + s[2]
    THEN [ok |-> TRUE,
          whole |-> SubSeq(s, 1, 2 + s[2]),
          content |-> SubSeq(s, 3, 2 + s[2]),
          rest |-> SubSeq(s, 3 + s[2], Len(s))]
    ELSE [ok |-> FALSE, whole |-> <<>>, content |-> <<>>, rest |-> <<>>]
=============================================================================
