---------------------------- MODULE OperatorProofs ----------------------------
(***************************************************************************)
(* The parts of estd that keep no state, for inputs of every size: what    *)
(* base64 and DER make of octets, the limit of a request body, the         *)
(* certificate of the local CA, and the names serial numbers give to files.*)
(***************************************************************************)
EXTENDS Encoding, LocalCA, SequenceTheorems, WellFoundedInduction, TLAPS

-----------------------------------------------------------------------------
(* base64.                                                                 *)

\* What a group of 24 bits is cut into by either side.
Sextet == 0..63
Bits24 == {bits \in Nat : bits \div 262144 \in Sextet}

LEMMA SmallOctet == \A x \in Octet : x \in Nat /\ x % 256 = x
BY SMT DEF Octet

LEMMA SmallSextet == \A x \in Sextet : x \in Nat /\ x % 64 = x
BY SMT DEF Sextet

LEMMA LastOctet ==
    ASSUME NEW y \in Nat, NEW w \in Nat, NEW x \in Octet, y = 256 * w + x
    PROVE  y % 256 = x /\ y \div 256 = w
BY SMT DEF Octet

LEMMA LastSextet ==
    ASSUME NEW x \in Nat
    PROVE  (x \div 64) \in Nat /\ x % 64 \in Sextet /\ x = 64 * (x \div 64) + (x % 64)
BY SMT DEF Sextet

LEMMA Shifts ==
    /\ \A x \in Nat : x \div 4096 = (x \div 64) \div 64
    /\ \A x \in Nat : x \div 262144 = (x \div 4096) \div 64
    /\ \A x \in Nat : x \div 65536 = (x \div 256) \div 256
    /\ \A x \in Nat : x \div 1 = x
<1>1. \A x \in Nat : x \div 4096 = (x \div 64) \div 64
  BY SMT
<1>2. \A x \in Nat : x \div 262144 = (x \div 4096) \div 64
  BY SMT
<1>3. \A x \in Nat : x \div 65536 = (x \div 256) \div 256
  BY SMT
<1>4. \A x \in Nat : x \div 1 = x
  BY SMT
<1> QED
  BY <1>1, <1>2, <1>3, <1>4, SMT

\* Four digits make up the 24 bits they were taken from ...
LEMMA SixBits ==
    ASSUME NEW bits \in Nat, bits \div 262144 \in Sextet
    PROVE  ((bits \div 262144) % 64) * 262144 + ((bits \div 4096) % 64) * 4096
                + ((bits \div 64) % 64) * 64 + (bits % 64) = bits
<1>1. PICK u \in Nat : u = bits \div 64
  BY SMT
<1>2. PICK v \in Nat : v = u \div 64
  BY SMT
<1>3. PICK w \in Nat : w = v \div 64
  BY SMT
<1>4. bits \div 4096 = v /\ bits \div 262144 = w
  BY <1>1, <1>2, <1>3, Shifts, SMT
<1>5. bits = 64 * u + (bits % 64)
  BY <1>1, LastSextet, SMT
<1>6. u = 64 * v + (u % 64)
  BY <1>2, LastSextet, SMT
<1>7. v = 64 * w + (v % 64)
  BY <1>3, LastSextet, SMT
<1>8. w % 64 = w
  BY <1>4, SmallSextet, SMT
<1>9. bits % 64 \in Nat /\ u % 64 \in Nat /\ v % 64 \in Nat
  BY SMT
<1>10. \A x, y, z \in Nat : bits = 64 * u + x /\ u = 64 * v + y /\ v = 64 * w + z
          => w * 262144 + z * 4096 + y * 64 + x = bits
  BY SMT
<1> QED
  BY <1>1, <1>4, <1>5, <1>6, <1>7, <1>8, <1>9, <1>10, SMT

\* The bits EncodeToString takes for the group g of three octets.
Group(der, g) ==
    BitsOfOctets(OctetAt(der, 3*g + 1), OctetAt(der, 3*g + 2), OctetAt(der, 3*g + 3))

\* ... and so do three octets.
LEMMA EightBits ==
    ASSUME NEW a \in Octet, NEW b \in Octet, NEW c \in Octet
    PROVE  LET bits == a * 65536 + b * 256 + c
           IN  /\ bits \in Nat
               /\ bits \div 262144 \in Sextet
               /\ (bits \div 65536) % 256 = a
               /\ (bits \div 256) % 256 = b
               /\ bits % 256 = c
               /\ c = 0 => bits % 64 = 0
               /\ b = 0 /\ c = 0 => (bits \div 64) % 64 = 0
<1>1. PICK w \in Nat : w = 256 * a + b
  BY SMT DEF Octet
<1>2. PICK bits \in Nat : bits = 256 * w + c
  BY SMT DEF Octet
<1>3. bits = a * 65536 + b * 256 + c
  BY <1>1, <1>2, SMT DEF Octet
<1>4. bits \div 256 = w /\ bits % 256 = c
  BY <1>1, <1>2, LastOctet, SMT
<1>5. w \div 256 = a /\ w % 256 = b
  BY <1>1, SmallOctet, LastOctet, SMT
<1>6. bits \div 65536 = a
  BY <1>4, <1>5, Shifts, SMT
<1>7. a % 256 = a
  BY SmallOctet, SMT
<1>8. bits \div 262144 \in Sextet
  BY <1>3, SMT DEF Octet, Sextet
<1>9. c = 0 => bits % 64 = 0
  BY <1>1, <1>2, SMT DEF Octet
<1>10. b = 0 /\ c = 0 => (bits \div 64) % 64 = 0
  BY <1>1, <1>2, SMT DEF Octet
<1> QED
  BY <1>3, <1>4, <1>5, <1>6, <1>7, <1>8, <1>9, <1>10, SMT

\* Where character 4g + k + 1 and octet 3g + k + 1 stand.
LEMMA Positions ==
    ASSUME NEW g \in Nat
    PROVE  /\ \A k \in 0..3 : /\ ((4*g + k + 1) - 1) \div 4 = g
                             /\ ((4*g + k + 1) - 1) % 4 = k
           /\ \A k \in 0..2 : /\ ((3*g + k + 1) - 1) \div 3 = g
                             /\ ((3*g + k + 1) - 1) % 3 = k
<1>1. \A k \in 0..3 : ((4*g + k + 1) - 1) \div 4 = g /\ ((4*g + k + 1) - 1) % 4 = k
  BY SMT
<1>2. \A k \in 0..2 : ((3*g + k + 1) - 1) \div 3 = g /\ ((3*g + k + 1) - 1) % 3 = k
  BY SMT
<1> QED
  BY <1>1, <1>2, SMT

\* The last group lacks p octets.
LEMMA Groups ==
    ASSUME NEW n \in Nat
    PROVE  \E groups \in Nat, p \in 0..2 : groups = (n + 2) \div 3 /\ n + p = 3 * groups
<1>1. PICK groups \in Nat : groups = (n + 2) \div 3
  BY SMT
<1>2. 3 * groups <= n + 2 /\ n + 2 < 3 * groups + 3
  BY <1>1, SMT
<1>3. 3 * groups - n \in 0..2 /\ n + (3 * groups - n) = 3 * groups
  BY <1>2, SMT
<1> QED
  BY <1>1, <1>3, SMT

LEMMA GroupIsNat ==
    ASSUME NEW der \in Seq(Octet)
    PROVE  /\ \A j \in Nat \ {0} : OctetAt(der, j) \in Octet
           /\ \A g \in Nat : Group(der, g) \in Nat
<1>1. 0 \in Octet
  BY SMT DEF Octet
<1>2. \A j \in Nat \ {0} : OctetAt(der, j) \in Octet
  BY <1>1, SMT DEF OctetAt
<1>3. ASSUME NEW g \in Nat
      PROVE  Group(der, g) \in Nat
  <2>1. 3*g + 1 \in Nat \ {0} /\ 3*g + 2 \in Nat \ {0} /\ 3*g + 3 \in Nat \ {0}
    BY SMT
  <2>2. OctetAt(der, 3*g + 1) \in Octet /\ OctetAt(der, 3*g + 2) \in Octet
        /\ OctetAt(der, 3*g + 3) \in Octet
    BY <1>2, <2>1, SMT
  <2> QED
    BY <2>2, EightBits DEF Group, BitsOfOctets
<1> QED
  BY <1>2, <1>3, SMT

LEMMA EncodedCharacters ==
    ASSUME NEW der \in Seq(Octet), NEW n \in Nat, n = Len(der),
           NEW groups \in Nat, groups = (n + 2) \div 3
    PROVE  LET text == EncodeToString(der)
           IN  /\ Len(text) = 4 * groups
               /\ \A g \in Nat : \A k \in 0..3 :
                      g < groups =>
                        text[4*g + k + 1] = IF 3*g + k > n THEN Padding
                                            ELSE DigitOf(Group(der, g), k)
<1> DEFINE text == EncodeToString(der)
           At(i) == LET g == (i - 1) \div 4
                        k == (i - 1) % 4
                    IN  IF 3*g + k > n THEN Padding ELSE DigitOf(Group(der, g), k)
<1>1. text = [i \in 1..(4 * groups) |-> At(i)]
  BY Zenon DEF EncodeToString, Group
<1> HIDE DEF text
<1>2. Len(text) = 4 * groups
  <2> HIDE DEF At
  <2>1. 4 * groups \in Nat
    BY SMT
  <2> QED
    BY <1>1, <2>1, SMT
<1>3. ASSUME NEW g \in Nat, NEW k \in 0..3, g < groups
      PROVE  text[4*g + k + 1] = IF 3*g + k > n THEN Padding
                                 ELSE DigitOf(Group(der, g), k)
  <2>1. 4*g + k + 1 \in 1..(4 * groups)
    BY <1>3, SMT
  <2>2. text[4*g + k + 1] = At(4*g + k + 1)
    <3> HIDE DEF At
    <3> QED
      BY <1>1, <2>1
  <2>3. ((4*g + k + 1) - 1) \div 4 = g /\ ((4*g + k + 1) - 1) % 4 = k
    BY Positions
  <2> QED
    BY <2>2, <2>3, Zenon
<1> QED
  BY <1>2, <1>3, Zenon DEF text

LEMMA FirstDigits ==
    ASSUME NEW bits \in Nat
    PROVE  /\ DigitOf(bits, 0) = (bits \div 262144) % 64
           /\ DigitOf(bits, 1) = (bits \div 4096) % 64
           /\ DigitOf(bits, 2) = (bits \div 64) % 64
BY SMT DEF DigitOf

LEMMA LastDigit ==
    ASSUME NEW bits \in Nat
    PROVE  DigitOf(bits, 3) = bits % 64
<1>1. bits \div 1 = bits
  BY Shifts, SMT
<1> QED
  BY <1>1, SMT DEF DigitOf

LEMMA DigitsAreSextets ==
    ASSUME NEW bits \in Nat
    PROVE  \A k \in 0..3 : DigitOf(bits, k) \in Sextet
<1>1. /\ bits \div 262144 \in Nat /\ bits \div 4096 \in Nat /\ bits \div 64 \in Nat
  BY SMT
<1>2. DigitOf(bits, 0) \in Sextet /\ DigitOf(bits, 1) \in Sextet /\ DigitOf(bits, 2) \in Sextet
  BY <1>1, FirstDigits, LastSextet
<1>3. DigitOf(bits, 3) \in Sextet
  BY LastDigit, LastSextet
<1>4. \A k \in 0..3 : k = 0 \/ k = 1 \/ k = 2 \/ k = 3
  BY SMT
<1> QED
  BY <1>2, <1>3, <1>4, Zenon

LEMMA DigitsMakeBits ==
    ASSUME NEW bits \in Bits24
    PROVE  BitsOfDigits(DigitOf(bits, 0), DigitOf(bits, 1), DigitOf(bits, 2),
                        DigitOf(bits, 3)) = bits
<1>1. ((bits \div 262144) % 64) * 262144 + ((bits \div 4096) % 64) * 4096
          + ((bits \div 64) % 64) * 64 + (bits % 64) = bits
  BY SixBits, SMT DEF Bits24
<1>2. PICK w \in Nat : w = DigitOf(bits, 0) /\ w = (bits \div 262144) % 64
  BY FirstDigits, SMT DEF Bits24, Sextet
<1>3. PICK x \in Nat : x = DigitOf(bits, 1) /\ x = (bits \div 4096) % 64
  BY FirstDigits, SMT DEF Bits24, Sextet
<1>4. PICK y \in Nat : y = DigitOf(bits, 2) /\ y = (bits \div 64) % 64
  BY FirstDigits, SMT DEF Bits24, Sextet
<1>5. PICK z \in Nat : z = DigitOf(bits, 3) /\ z = bits % 64
  BY LastDigit, SMT DEF Bits24, Sextet
<1>6. w * 262144 + x * 4096 + y * 64 + z = bits
  BY <1>1, <1>2, <1>3, <1>4, <1>5, SMT DEF Bits24
<1>7. BitsOfDigits(w, x, y, z) = bits
  BY <1>6, SMT DEF BitsOfDigits, Bits24
<1>8. DigitOf(bits, 0) = w /\ DigitOf(bits, 1) = x /\ DigitOf(bits, 2) = y
      /\ DigitOf(bits, 3) = z
  BY <1>2, <1>3, <1>4, <1>5, SMT
<1> QED
  BY <1>7, <1>8, Zenon

LEMMA OctetsAre ==
    ASSUME NEW a \in Octet, NEW b \in Octet, NEW c \in Octet
    PROVE  LET bits == BitsOfOctets(a, b, c)
           IN  /\ bits \in Nat
               /\ OctetOf(bits, 0) = a /\ OctetOf(bits, 1) = b /\ OctetOf(bits, 2) = c
               /\ c = 0 => DigitOf(bits, 3) = 0
               /\ b = 0 /\ c = 0 => DigitOf(bits, 2) = 0
               /\ BitsOfDigits(DigitOf(bits, 0), DigitOf(bits, 1), DigitOf(bits, 2),
                               DigitOf(bits, 3)) = bits
<1> DEFINE bits == BitsOfOctets(a, b, c)
<1>1. /\ bits \in Nat
      /\ bits \div 262144 \in Sextet
      /\ (bits \div 65536) % 256 = a
      /\ (bits \div 256) % 256 = b
      /\ bits % 256 = c
      /\ c = 0 => bits % 64 = 0
      /\ b = 0 /\ c = 0 => (bits \div 64) % 64 = 0
  BY EightBits DEF BitsOfOctets
<1> HIDE DEF bits
<1>2. bits \div 1 = bits
  BY <1>1, Shifts, SMT
<1>3. /\ OctetOf(bits, 0) = (bits \div 65536) % 256
      /\ OctetOf(bits, 1) = (bits \div 256) % 256
      /\ OctetOf(bits, 2) = bits % 256
  BY <1>1, <1>2, SMT DEF OctetOf
<1>4. /\ DigitOf(bits, 0) = (bits \div 262144) % 64
      /\ DigitOf(bits, 1) = (bits \div 4096) % 64
      /\ DigitOf(bits, 2) = (bits \div 64) % 64
      /\ DigitOf(bits, 3) = bits % 64
  <2>1. bits \in Nat
    BY <1>1
  <2> QED
    <3>1. DigitOf(bits, 3) = bits % 64
      BY <2>1, LastDigit, SMT
    <3>2. DigitOf(bits, 2) = (bits \div 64) % 64
      BY <2>1, FirstDigits, SMT
    <3>3. DigitOf(bits, 1) = (bits \div 4096) % 64
      BY <2>1, FirstDigits, SMT
    <3>4. DigitOf(bits, 0) = (bits \div 262144) % 64
      BY <2>1, FirstDigits, SMT
    <3> QED
      BY <3>1, <3>2, <3>3, <3>4
<1>5. BitsOfDigits(DigitOf(bits, 0), DigitOf(bits, 1), DigitOf(bits, 2),
                   DigitOf(bits, 3)) = bits
  <2>1. bits \in Bits24
    BY <1>1, SMT DEF Bits24
  <2> QED
    BY <2>1, DigitsMakeBits, Zenon
<1> QED
  BY <1>1, <1>3, <1>4, <1>5 DEF bits

\* The octets and the digits of a group of der.
LEMMA GroupOf ==
    ASSUME NEW der \in Seq(Octet), NEW g \in Nat
    PROVE  LET bits == Group(der, g)
           IN  /\ \A k \in 0..2 : OctetOf(bits, k) = OctetAt(der, 3*g + k + 1)
               /\ 3*g + 3 > Len(der) => DigitOf(bits, 3) = 0
               /\ 3*g + 2 > Len(der) => DigitOf(bits, 2) = 0
               /\ BitsOfDigits(DigitOf(bits, 0), DigitOf(bits, 1), DigitOf(bits, 2),
                               DigitOf(bits, 3)) = bits
<1> DEFINE a == OctetAt(der, 3*g + 1)
           b == OctetAt(der, 3*g + 2)
           c == OctetAt(der, 3*g + 3)
           bits == BitsOfOctets(a, b, c)
<1>1. a \in Octet /\ b \in Octet /\ c \in Octet
  <2>1. 3*g + 1 \in Nat \ {0} /\ 3*g + 2 \in Nat \ {0} /\ 3*g + 3 \in Nat \ {0}
    BY SMT
  <2> QED
    BY <2>1, GroupIsNat, SMT
<1>2. /\ 3*g + 3 > Len(der) => c = 0
      /\ 3*g + 2 > Len(der) => b = 0 /\ c = 0
  BY SMT DEF OctetAt
<1>3. /\ OctetOf(bits, 0) = a /\ OctetOf(bits, 1) = b /\ OctetOf(bits, 2) = c
      /\ c = 0 => DigitOf(bits, 3) = 0
      /\ b = 0 /\ c = 0 => DigitOf(bits, 2) = 0
      /\ BitsOfDigits(DigitOf(bits, 0), DigitOf(bits, 1), DigitOf(bits, 2),
                      DigitOf(bits, 3)) = bits
  <2> HIDE DEF a, b, c
  <2> QED
    BY <1>1, OctetsAre
<1>4. ASSUME NEW k \in 0..2
      PROVE  OctetOf(bits, k) = OctetAt(der, 3*g + k + 1)
  <2> HIDE DEF bits
  <2>1. CASE k = 0
    <3>1. 3*g + k + 1 = 3*g + 1
      BY <2>1, SMT
    <3> QED
      BY <1>3, <2>1, <3>1, Zenon
  <2>2. CASE k = 1
    <3>1. 3*g + k + 1 = 3*g + 2
      BY <2>2, SMT
    <3> QED
      BY <1>3, <2>2, <3>1, Zenon
  <2>3. CASE k = 2
    <3>1. 3*g + k + 1 = 3*g + 3
      BY <2>3, SMT
    <3> QED
      BY <1>3, <2>3, <3>1, Zenon
  <2> QED
    BY <2>1, <2>2, <2>3, SMT
<1> HIDE DEF a, b, c
<1> QED
  BY <1>2, <1>3, <1>4, Zenon DEF Group, a, b, c

LEMMA Places ==
    ASSUME NEW i \in Nat \ {0}
    PROVE  /\ \E g \in Nat, k \in 0..3 : i = 4*g + k + 1
           /\ \E g \in Nat, k \in 0..2 : i = 3*g + k + 1
<1>1. /\ (i - 1) \div 4 \in Nat /\ (i - 1) % 4 \in 0..3
      /\ i = 4 * ((i - 1) \div 4) + ((i - 1) % 4) + 1
  BY SMT
<1>2. /\ (i - 1) \div 3 \in Nat /\ (i - 1) % 3 \in 0..2
      /\ i = 3 * ((i - 1) \div 3) + ((i - 1) % 3) + 1
  BY SMT
<1> QED
  BY <1>1, <1>2

\* The characters of the text of der, with the padding at its end.
IsText(text, der, groups) ==
    /\ Len(text) = 4 * groups
    /\ \A g \in Nat : \A k \in 0..3 :
          g < groups => text[4*g + k + 1] = IF 3*g + k > Len(der) THEN Padding
                                           ELSE DigitOf(Group(der, g), k)

LEMMA DigitsAreNotPadding ==
    ASSUME NEW der \in Seq(Octet), NEW g \in Nat, NEW k \in 0..3
    PROVE  DigitOf(Group(der, g), k) \in Sextet /\ DigitOf(Group(der, g), k) # Padding
<1>1. Group(der, g) \in Nat
  BY GroupIsNat, Zenon
<1>2. DigitOf(Group(der, g), k) \in Sextet
  BY <1>1, DigitsAreSextets, Zenon
<1>3. \A x \in Sextet : x # Padding
  BY SMT DEF Sextet, Padding
<1> QED
  BY <1>2, <1>3, Zenon

\* As many characters are padding as octets lack.
LEMMA PaddingIs ==
    ASSUME NEW der \in Seq(Octet), NEW groups \in Nat, NEW p \in 0..2,
           Len(der) + p = 3 * groups, NEW text, IsText(text, der, groups)
    PROVE  PaddingOf(text) = p
<1>1. Len(text) = 4 * groups
  BY DEF IsText
<1>2. CASE groups = 0
  <2>1. p = 0 /\ ~ (Len(text) >= 4)
    BY <1>1, <1>2, SMT
  <2> QED
    BY <2>1 DEF PaddingOf
<1>3. CASE groups # 0
  <2>1. PICK g \in Nat : g = groups - 1
    BY <1>3, SMT
  <2>2. /\ text[4*g + 3 + 1] = IF 3*g + 3 > Len(der) THEN Padding
                               ELSE DigitOf(Group(der, g), 3)
        /\ text[4*g + 2 + 1] = IF 3*g + 2 > Len(der) THEN Padding
                               ELSE DigitOf(Group(der, g), 2)
    <3>1. g < groups /\ 3 \in 0..3 /\ 2 \in 0..3
      BY <2>1, SMT
    <3> QED
      BY <3>1, Zenon DEF IsText
  <2>3. /\ DigitOf(Group(der, g), 3) # Padding
        /\ DigitOf(Group(der, g), 2) # Padding
    BY DigitsAreNotPadding
  <2>4. 4*g + 3 + 1 = Len(text) /\ 4*g + 2 + 1 = Len(text) - 1 /\ Len(text) >= 4
    BY <1>1, <2>1, SMT
  <2>5. (3*g + 3 > Len(der) <=> p # 0) /\ (3*g + 2 > Len(der) <=> p = 2)
    BY <2>1, SMT
  <2>6. /\ text[Len(text)] = Padding <=> p # 0
        /\ text[Len(text) - 1] = Padding <=> p = 2
    BY <2>2, <2>3, <2>4, <2>5, Zenon
  <2>7. p = 0 \/ p = 1 \/ p = 2
    BY SMT
  <2> QED
    BY <2>4, <2>6, <2>7 DEF PaddingOf
<1> QED
  BY <1>2, <1>3

LEMMA DigitsOfText ==
    ASSUME NEW der \in Seq(Octet), NEW groups \in Nat, NEW p \in 0..2,
           Len(der) + p = 3 * groups, NEW text, IsText(text, der, groups)
    PROVE  \A i \in 1..(Len(text) - p) : text[i] \in Sextet
<1>1. ASSUME NEW i \in 1..(Len(text) - p)
      PROVE  text[i] \in Sextet
  <2>1. i \in Nat \ {0} /\ i + p <= 4 * groups
    BY <1>1, SMT DEF IsText
  <2>2. PICK g \in Nat, k \in 0..3 : i = 4*g + k + 1
    BY <2>1, Places
  <2>3. g < groups /\ ~ (3*g + k > Len(der))
    BY <2>1, <2>2, SMT
  <2>4. text[i] = DigitOf(Group(der, g), k)
    BY <2>2, <2>3, Zenon DEF IsText
  <2> QED
    BY <2>4, DigitsAreNotPadding
<1> QED
  BY <1>1

\* What DecodeString makes of the digits of a group.
LEMMA GroupOfText ==
    ASSUME NEW der \in Seq(Octet), NEW groups \in Nat, NEW text,
           IsText(text, der, groups), NEW g \in Nat, g < groups, 3*g + 1 <= Len(der)
    PROVE  LET digit(i) == IF text[i] = Padding THEN 0 ELSE text[i]
           IN  BitsOfDigits(digit(4*g + 1), digit(4*g + 2), digit(4*g + 3), digit(4*g + 4))
                   = Group(der, g)
<1> DEFINE digit(i) == IF text[i] = Padding THEN 0 ELSE text[i]
           d(k) == DigitOf(Group(der, g), k)
<1>1. /\ 3*g + 3 > Len(der) => d(3) = 0
      /\ 3*g + 2 > Len(der) => d(2) = 0
      /\ BitsOfDigits(d(0), d(1), d(2), d(3)) = Group(der, g)
  BY GroupOf
<1>2. ASSUME NEW k \in 0..3, 3*g + k > Len(der) => d(k) = 0
      PROVE  digit(4*g + k + 1) = d(k)
  <2>1. text[4*g + k + 1] = IF 3*g + k > Len(der) THEN Padding ELSE d(k)
    BY Zenon DEF IsText
  <2>2. d(k) # Padding
    BY DigitsAreNotPadding
  <2> QED
    BY <1>2, <2>1, <2>2, Zenon
<1>3. ~ (3*g + 0 > Len(der)) /\ ~ (3*g + 1 > Len(der))
  BY SMT
<1> HIDE DEF d
<1>4. 0 \in 0..3 /\ 1 \in 0..3 /\ 2 \in 0..3 /\ 3 \in 0..3
  BY SMT
<1>5. /\ digit(4*g + 0 + 1) = d(0) /\ digit(4*g + 1 + 1) = d(1)
      /\ digit(4*g + 2 + 1) = d(2) /\ digit(4*g + 3 + 1) = d(3)
  BY <1>1, <1>2, <1>3, <1>4, Zenon
<1>6. /\ 4*g + 0 + 1 = 4*g + 1 /\ 4*g + 1 + 1 = 4*g + 2
      /\ 4*g + 2 + 1 = 4*g + 3 /\ 4*g + 3 + 1 = 4*g + 4
  BY SMT
<1> HIDE DEF digit
<1>7. BitsOfDigits(digit(4*g + 1), digit(4*g + 2), digit(4*g + 3), digit(4*g + 4))
          = Group(der, g)
  BY <1>1, <1>5, <1>6, Zenon
<1> QED
  BY <1>7, Zenon DEF digit

\* encoding.go 31-36 and 49-62: whatever DER is answered with or asked with,
\* the client and estd find it again in its base64 text.
THEOREM Base64RoundTrip ==
    ASSUME NEW der \in Seq(0..255)
    PROVE  DecodeString(EncodeToString(der)) = Success(der)
<1> DEFINE n == Len(der)
           text == EncodeToString(der)
           digit(i) == IF text[i] = Padding THEN 0 ELSE text[i]
           bits(g) == BitsOfDigits(digit(4*g + 1), digit(4*g + 2), digit(4*g + 3),
                                   digit(4*g + 4))
           octet(j) == OctetOf(bits((j - 1) \div 3), (j - 1) % 3)
<1>1. der \in Seq(Octet) /\ n \in Nat
  BY DEF Octet
<1>2. PICK groups \in Nat, p \in 0..2 : groups = (n + 2) \div 3 /\ n + p = 3 * groups
  BY <1>1, Groups
<1>3. IsText(text, der, groups)
  BY <1>1, <1>2, EncodedCharacters DEF IsText
<1>4. PaddingOf(text) = p
  BY <1>1, <1>2, <1>3, PaddingIs
<1>5. \A i \in 1..(Len(text) - PaddingOf(text)) : text[i] \in 0..63
  BY <1>1, <1>2, <1>3, <1>4, DigitsOfText DEF Sextet
<1>6. /\ Len(text) = 4 * groups /\ Len(text) % 4 = 0
      /\ 3 * (Len(text) \div 4) - PaddingOf(text) = n
  <2>1. Len(text) = 4 * groups
    BY <1>3 DEF IsText
  <2>2. (4 * groups) % 4 = 0 /\ (4 * groups) \div 4 = groups
    BY SMT
  <2>3. 3 * groups - p = n
    BY <1>1, <1>2, SMT
  <2> QED
    BY <1>4, <2>1, <2>2, <2>3, Zenon
<1>7. ASSUME NEW j \in 1..n
      PROVE  octet(j) = der[j]
  <2>1. j \in Nat \ {0} /\ j <= n
    BY <1>1, SMT
  <2>2. PICK g \in Nat, k \in 0..2 : j = 3*g + k + 1
    BY <2>1, Places
  <2>3. (j - 1) \div 3 = g /\ (j - 1) % 3 = k
    BY <2>2, Positions
  <2>4. g < groups /\ 3*g + 1 <= n
    BY <1>1, <1>2, <2>1, <2>2, SMT
  <2>5. bits(g) = Group(der, g)
    <3> HIDE DEF text
    <3> QED
      BY <1>1, <1>3, <2>4, GroupOfText
  <2>6. OctetOf(Group(der, g), k) = OctetAt(der, j)
    BY <1>1, <2>2, GroupOf, Zenon
  <2>7. OctetAt(der, j) = der[j]
    BY <2>1, Zenon DEF OctetAt
  <2> HIDE DEF bits
  <2> QED
    BY <2>3, <2>5, <2>6, <2>7, Zenon
<1>8. [j \in 1..n |-> octet(j)] = der
  <2> HIDE DEF octet
  <2>1. DOMAIN der = 1..n
    BY <1>1
  <2>2. der = [j \in 1..n |-> der[j]]
    BY <2>1, <1>1
  <2>3. [j \in 1..n |-> octet(j)] = [j \in 1..n |-> der[j]]
    BY <1>7
  <2> QED
    BY <2>2, <2>3, Zenon
<1> HIDE DEF text, n
<1>9. DecodeString(text) = Success([j \in 1..n |-> octet(j)])
  BY <1>5, <1>6, Zenon DEF DecodeString
<1> QED
  BY <1>8, <1>9, Zenon DEF text

-----------------------------------------------------------------------------
(* Elements of DER, and the body of a request.                             *)

\* csrattrs.go and pkcs7.go build with cryptobyte and read with it: reading
\* the element a string starts with gives what was built, and the rest of the
\* string untouched, whatever follows.
THEOREM ElementIsRead ==
    ASSUME NEW tag \in Octet, NEW content \in Seq(Octet), NEW rest \in Seq(Octet)
    PROVE  Read(Element(tag, content) \o rest, tag)
               = [ok |-> TRUE, whole |-> Element(tag, content),
                  content |-> content, rest |-> rest]
<1> DEFINE n == Len(content)
           e == Element(tag, content)
           s == e \o rest
<1>1. tag \in Nat /\ n \in Nat /\ content \in Seq(Nat) /\ rest \in Seq(Nat)
  <2>1. \A x \in Octet : x \in Nat
    BY DEF Octet
  <2> QED
    BY <2>1
<1> HIDE DEF n
<1>2. <<tag, n>> \in Seq(Nat) /\ Len(<<tag, n>>) = 2
  BY <1>1
<1>3. e = <<tag, n>> \o content
  BY DEF Element, n
<1> HIDE DEF e
<1>4. e \in Seq(Nat) /\ Len(e) = n + 2 /\ e[1] = tag /\ e[2] = n
  BY <1>1, <1>2, <1>3 DEF n
<1>5. \A i \in 1..n : e[i + 2] = content[i]
  BY <1>1, <1>2, <1>3 DEF n
<1>6. s \in Seq(Nat) /\ Len(s) = n + 2 + Len(rest)
  BY <1>1, <1>4
<1>7. \A i \in 1..(n + 2) : s[i] = e[i]
  BY <1>1, <1>4
<1>8. \A i \in 1..Len(rest) : s[(n + 2) + i] = rest[i]
  BY <1>1, <1>4
<1> HIDE DEF s
<1>9. SubSeq(s, 1, 2 + n) = e
  BY <1>1, <1>4, <1>6, <1>7
<1>10. SubSeq(s, 3, 2 + n) = content
  <2>1. \A i \in 1..n : s[i + 2] = content[i]
    BY <1>1, <1>5, <1>7
  <2> QED
    BY <1>1, <1>6, <2>1 DEF n
<1>11. SubSeq(s, 3 + n, Len(s)) = rest
  <2> DEFINE t == SubSeq(s, 3 + n, Len(s))
  <2>1. Len(rest) \in Nat /\ 3 + n \in Int /\ Len(s) \in Int
    BY <1>1, <1>6
  <2>2. ASSUME NEW i \in 1..Len(rest)
        PROVE  s[(3 + n) + i - 1] = rest[i]
    <3>1. (3 + n) + i - 1 = (n + 2) + i
      BY <1>1
    <3> QED
      BY <1>8, <3>1
  <2>3. \A i \in (3 + n)..Len(s) : s[i] \in Nat
    BY <1>1, <1>6
  <2>4. Len(s) - (3 + n) + 1 = Len(rest)
    BY <1>1, <1>6, <2>1
  <2>5. 3 + n <= Len(s) \/ Len(rest) = 0
    BY <1>1, <1>6, <2>1
  <2>6. /\ t \in Seq(Nat) /\ \A i \in 1..Len(rest) : t[i] = s[(3 + n) + i - 1]
        /\ Len(t) = IF 3 + n <= Len(s) THEN Len(s) - (3 + n) + 1 ELSE 0
    BY <2>1, <2>3, <2>4, SubSeqProperties
  <2>7. Len(t) = Len(rest)
    BY <1>1, <1>6, <2>1, <2>4, <2>5, <2>6
  <2> HIDE DEF t
  <2>8. t = rest
    BY <1>1, <2>2, <2>6, <2>7, SeqEqual
  <2> QED
    BY <2>8 DEF t
<1>12. s[1] = tag /\ s[2] = n
  BY <1>1, <1>4, <1>7
<1>13. Len(s) >= 2 /\ Len(s) >= 2 + n
  BY <1>1, <1>6
<1>14. Read(s, tag) = [ok |-> TRUE, whole |-> e, content |-> content, rest |-> rest]
  BY <1>9, <1>10, <1>11, <1>12, <1>13 DEF Read
<1> QED
  BY <1>14 DEF s, e

\* The parts of what was read.
ReadParts ==
    [ok : BOOLEAN, whole : Seq(Octet), content : Seq(Octet), rest : Seq(Octet)]

LEMMA PartsOfRead ==
    ASSUME NEW s \in Seq(Octet), NEW tag
    PROVE  Read(s, tag) \in ReadParts
<1>1. <<>> \in Seq(Octet)
  OBVIOUS
<1>2. CASE Len(s) >= 2 /\ s[1] = tag /\ Len(s) >= 2 + s[2]
  <2>1. Len(s) \in Nat /\ \A i \in 1..Len(s) : s[i] \in Octet
    OBVIOUS
  <2>2. PICK n \in Nat : n = s[2]
    <3>1. 2 \in 1..Len(s)
      BY <1>2, <2>1
    <3>2. s[2] \in Octet
      BY <2>1, <3>1
    <3>3. s[2] \in Nat
      BY <3>2, SmallOctet
    <3> QED
      BY <3>3
  <2>3. Len(s) >= 2 + n
    BY <1>2, <2>2
  <2>4. \A i \in 1..(2 + n) : s[i] \in Octet
    BY <2>1, <2>3
  <2>5. \A i \in 3..(2 + n) : s[i] \in Octet
    BY <2>1, <2>3
  <2>6. \A i \in (3 + n)..Len(s) : s[i] \in Octet
    BY <2>1
  <2>7. PICK whole \in Seq(Octet) : whole = SubSeq(s, 1, 2 + n)
    <3>1. SubSeq(s, 1, 2 + n) \in Seq(Octet)
      BY <2>4, SubSeqProperties
    <3> QED
      BY <3>1
  <2>8. PICK content \in Seq(Octet) : content = SubSeq(s, 3, 2 + n)
    <3>1. SubSeq(s, 3, 2 + n) \in Seq(Octet)
      BY <2>5, SubSeqProperties
    <3> QED
      BY <3>1
  <2>9. PICK rest \in Seq(Octet) : rest = SubSeq(s, 3 + n, Len(s))
    <3>1. SubSeq(s, 3 + n, Len(s)) \in Seq(Octet)
      BY <2>1, <2>6, SubSeqProperties
    <3> QED
      BY <3>1
  <2>10. Read(s, tag) = [ok |-> TRUE, whole |-> whole, content |-> content, rest |-> rest]
    BY <1>2, <2>2, <2>7, <2>8, <2>9, Zenon DEF Read
  <2>11. [ok |-> TRUE, whole |-> whole, content |-> content, rest |-> rest] \in ReadParts
    BY DEF ReadParts
  <2> QED
    BY <2>10, <2>11, Zenon
<1>3. CASE ~ (Len(s) >= 2 /\ s[1] = tag /\ Len(s) >= 2 + s[2])
  <2>1. Read(s, tag) = [ok |-> FALSE, whole |-> <<>>, content |-> <<>>, rest |-> <<>>]
    BY <1>3, Zenon DEF Read
  <2>2. [ok |-> FALSE, whole |-> <<>>, content |-> <<>>, rest |-> <<>>] \in ReadParts
    BY <1>1 DEF ReadParts
  <2> QED
    BY <2>1, <2>2, Zenon
<1> QED
  BY <1>2, <1>3, Zenon

\* An element that lacks octets at its end is not read.
LEMMA ReadIsWhole ==
    ASSUME NEW s, NEW tag
    PROVE  Read(s, tag).ok => Len(s) >= 2 /\ Len(s) >= 2 + s[2]
BY DEF Read

\* encoding.go 18-20 and 31-36: a body of more than maxCSRBodyBytes is refused
\* and never cut to a CSR; a body within the limit is decoded to its last
\* character.
THEOREM BodyIsReadWhole ==
    ASSUME NEW body \in Seq(0..Foreign)
    PROVE  LET der == DecodeString(stripWhitespace(body))
           IN  decodeCSRBody(body) = IF Len(body) <= MaxBody /\ der.ok /\ der.value \in CSRs
                                     THEN Success(der.value)
                                     ELSE Failure
<1>1. MaxBody \in Nat
  BY EncodingAssumption
<1>2. CASE Len(body) <= MaxBody
  <2>1. SubSeq(body, 1, Smaller(Len(body), ReadLimit)) = body
    BY <1>1, <1>2 DEF Smaller, ReadLimit
  <2> QED
    BY <1>2, <2>1 DEF decodeCSRBody
<1>3. CASE Len(body) > MaxBody
  <2>1. Smaller(Len(body), ReadLimit) = MaxBody + 1
    BY <1>1, <1>3 DEF Smaller, ReadLimit
  <2>2. Len(SubSeq(body, 1, MaxBody + 1)) = MaxBody + 1
    BY <1>1, <1>3
  <2> QED
    BY <1>1, <1>3, <2>1, <2>2 DEF decodeCSRBody
<1> QED
  BY <1>1, <1>2, <1>3

-----------------------------------------------------------------------------
(* The certificate of the local CA.                                        *)

\* local.go 130-143, identity.go 41-60: whatever addresses a CSR has, in
\* whatever encoding, the certificate renders to the same SAN set; and while
\* the certificate of the CA is valid, the new one authenticates its client
\* from the skew before it was issued to the end of its validity.
THEOREM SANsAreKept ==
    ASSUME NEW ca, NEW validity \in Nat, NEW skew \in Nat, NEW csr, NEW serial,
           NEW now \in Nat, csr.pop
    PROVE  LET l == NewLocalCA(ca, validity, skew)
               cert == IssueCertificate(l, csr, serial, now).value
               first == now - (IF skew = 0 THEN DefaultSkew ELSE skew)
           IN  /\ sanSet(IdentityOf(cert)) = sanSet(IdentityOf(csr))
               /\ \A t \in ca.notBefore..ca.notAfter :
                     VerifiedAsClient(l, cert, t) <=> t \in first..(now + validity)
<1> DEFINE l == NewLocalCA(ca, validity, skew)
           cert == IssueCertificate(l, csr, serial, now).value
           first == now - (IF skew = 0 THEN DefaultSkew ELSE skew)
<1>1. /\ cert.dns = csr.dns /\ cert.email = csr.email /\ cert.uri = csr.uri
      /\ cert.ip = MarshalledIPs(csr.ip)
  BY DEF IssueCertificate, Success
<1>2. /\ cert.notBefore = first /\ cert.notAfter = now + validity
      /\ cert.extKeyUsage = {"clientAuth"} /\ cert.authorityKeyId = ca.subjectKeyId
      /\ l.cert = ca
  BY DEF IssueCertificate, Success, NewLocalCA, NotBefore
<1>3. [i \in DOMAIN cert.ip |-> IPString(cert.ip[i])]
          = [i \in DOMAIN csr.ip |-> IPString(csr.ip[i])]
  BY <1>1 DEF MarshalledIPs, IPString
<1> HIDE DEF cert, l, first
<1>4. Items(IdentityOf(cert)) = Items(IdentityOf(csr))
  BY <1>1, <1>3 DEF Items, IdentityOf
<1>5. sanSet(IdentityOf(cert)) = sanSet(IdentityOf(csr))
  BY <1>4 DEF sanSet
<1>6. \A t \in ca.notBefore..ca.notAfter :
          VerifiedAsClient(l, cert, t) <=> t \in first..(now + validity)
  BY <1>2 DEF VerifiedAsClient
<1> QED
  BY <1>5, <1>6 DEF l, cert, first

-----------------------------------------------------------------------------
(* Induction over the natural numbers, and functions defined by it.        *)

LEMMA NaturalsFromZero ==
    ASSUME NEW T \in SUBSET Nat, 0 \in T, \A n \in T : n + 1 \in T
    PROVE  T = Nat
<1> DEFINE R == OpToRel(<, Nat)
<1>1. IsWellFoundedOn(R, Nat)
  BY NatLessThanWellFounded
<1>2. \A y, x \in Nat : y < x => <<y, x>> \in R
  BY DEF OpToRel
<1> SUFFICES ASSUME Nat \ T # {}
             PROVE  FALSE
  OBVIOUS
<1> HIDE DEF R
<1>3. PICK x \in Nat \ T : \A y \in Nat \ T : <<y, x>> \notin R
  BY <1>1, WFMin
<1>4. x \in Nat /\ x # 0 /\ x - 1 \in Nat /\ x - 1 \notin T
  BY <1>3
<1>5. <<x - 1, x>> \in R /\ x - 1 \in Nat \ T
  BY <1>2, <1>4
<1> QED
  BY <1>3, <1>5

\* The same for the positions 0..n.
LEMMA UpToLast ==
    ASSUME NEW n \in Nat, NEW T \in SUBSET (0..n), 0 \in T,
           \A j \in T : j < n => j + 1 \in T
    PROVE  T = 0..n
<1> DEFINE U == {j \in Nat : j <= n => j \in T}
<1>1. 0 \in U
  OBVIOUS
<1>2. \A j \in U : j + 1 \in U
  OBVIOUS
<1> HIDE DEF U
<1>3. U = Nat
  <2>1. U \in SUBSET Nat
    BY DEF U
  <2> QED
    BY <1>1, <1>2, <2>1, NaturalsFromZero
<1>4. ASSUME NEW j \in 0..n
      PROVE  j \in T
  <2>1. j \in U /\ j <= n
    BY <1>3
  <2> QED
    BY <2>1 DEF U
<1> QED
  BY <1>4

\* What a value may be computed from: a position and the value before it.
Steps(S) == [Nat \X S -> S]

\* A recursive definition over the positions 0..n has a solution.
Solvable(S, base, step, n) ==
    \E g \in [0..n -> S] : g[0] = base /\ \A i \in 1..n : g[i] = step[<<i, g[i - 1]>>]

LEMMA RecursionDefines ==
    ASSUME NEW S, NEW base \in S, NEW step \in Steps(S), NEW n \in Nat
    PROVE  Solvable(S, base, step, n)
<1> DEFINE Fits(g, m) == g[0] = base /\ \A i \in 1..m : g[i] = step[<<i, g[i - 1]>>]
           T == {m \in Nat : \E g \in [0..m -> S] : Fits(g, m)}
<1>1. 0 \in T
  <2>1. [i \in 0..0 |-> base] \in [0..0 -> S] /\ Fits([i \in 0..0 |-> base], 0)
    OBVIOUS
  <2> QED
    BY <2>1
<1>2. ASSUME NEW m \in T
      PROVE  m + 1 \in T
  <2>1. PICK g \in [0..m -> S] : Fits(g, m)
    OBVIOUS
  <2> DEFINE next == step[<<m + 1, g[m]>>]
             h == [i \in 0..(m + 1) |-> IF i = m + 1 THEN next ELSE g[i]]
  <2>2. next \in S
    <3>1. <<m + 1, g[m]>> \in Nat \X S
      OBVIOUS
    <3> QED
      BY <3>1 DEF Steps
  <2> HIDE DEF next
  <2>3. h \in [0..(m + 1) -> S]
    BY <2>2
  <2>4. h[m + 1] = next /\ \A i \in 0..m : h[i] = g[i]
    OBVIOUS
  <2> HIDE DEF h
  <2>5. ASSUME NEW i \in 1..(m + 1)
        PROVE  h[i] = step[<<i, h[i - 1]>>]
    <3>1. CASE i = m + 1
      <4>1. h[i - 1] = g[m] /\ h[i] = next
        BY <2>4, <3>1
      <4> QED
        BY <3>1, <4>1 DEF next
    <3>2. CASE i \in 1..m
      <4>1. i \in 0..m /\ i - 1 \in 0..m
        BY <3>2
      <4>2. h[i] = g[i] /\ h[i - 1] = g[i - 1]
        BY <2>4, <4>1
      <4> QED
        BY <2>1, <3>2, <4>2
    <3> QED
      BY <3>1, <3>2
  <2>6. Fits(h, m + 1)
    <3>1. h[0] = base
      BY <2>1, <2>4
    <3> QED
      BY <2>5, <3>1
  <2> HIDE DEF Fits
  <2> QED
    BY <2>3, <2>6
<1>3. T = Nat
  <2> HIDE DEF T
  <2>1. T \in SUBSET Nat
    BY DEF T
  <2> QED
    BY <1>1, <1>2, <2>1, NaturalsFromZero
<1> QED
  BY <1>3 DEF Solvable

\* A function whose values are computed one from another.
LEMMA ValuesStay ==
    ASSUME NEW S, NEW V, NEW last \in Nat, NEW q \in [0..last -> V], q[0] \in S,
           \A i \in 1..last : q[i - 1] \in S => q[i] \in S
    PROVE  \A i \in 0..last : q[i] \in S
<1> DEFINE T == {i \in Nat : i <= last => q[i] \in S}
<1>1. 0 \in T
  OBVIOUS
<1>2. ASSUME NEW i \in T
      PROVE  i + 1 \in T
  <2> SUFFICES ASSUME i + 1 <= last
               PROVE  q[i + 1] \in S
    OBVIOUS
  <2>1. i + 1 \in 1..last /\ (i + 1) - 1 = i
    OBVIOUS
  <2> QED
    BY <2>1
<1> HIDE DEF T
<1>3. T = Nat
  <2>1. T \in SUBSET Nat
    BY DEF T
  <2> QED
    BY <1>1, <1>2, <2>1, NaturalsFromZero
<1> QED
  BY <1>3 DEF T

-----------------------------------------------------------------------------
(* Serial numbers and the names of their files.                            *)

Octets(n) == [1..n -> 0..255]

\* What formatting leaves of n after each of its digits, and what reading has
\* made of the first octets.
Quotients(n, last) ==
    CHOOSE q : q = [i \in 0..last |-> IF i = 0 THEN n ELSE q[i - 1] \div 16]

Readings(octets, last) ==
    CHOOSE v : v = [i \in 0..last |-> IF i = 0 THEN 0 ELSE 256 * v[i - 1] + octets[i]]

IsQuotients(q, n, last) ==
    /\ q \in [0..last -> Nat]
    /\ q[0] = n
    /\ \A i \in 1..last : q[i] = q[i - 1] \div 16

IsReading(v, octets, last) ==
    /\ v \in [0..last -> Nat]
    /\ v[0] = 0
    /\ \A i \in 1..last : v[i] = 256 * v[i - 1] + octets[i]

\* name is all the digits of a number with these quotients.
Spells(name, q, last) ==
    /\ name \in [1..last -> 0..15]
    /\ \A i \in 1..last : name[i] = q[last - i] % 16
    /\ q[last] = 0

LEMMA HexDigitsAre ==
    ASSUME NEW n
    PROVE  HexDigits(n) = [i \in 1..(2 * SerialBytes) |->
                              Quotients(n, 2 * SerialBytes)[2 * SerialBytes - i] % 16]
BY DEF HexDigits, Quotients

LEMMA SerialNumberIs ==
    ASSUME NEW buf
    PROVE  SerialNumber(buf)
               = Readings([buf EXCEPT ![1] = ClearTopBit(@)], SerialBytes)[SerialBytes]
BY DEF SerialNumber, Readings

LEMMA QuotientsAre ==
    ASSUME NEW n \in Nat, NEW last \in Nat
    PROVE  IsQuotients(Quotients(n, last), n, last)
<1> DEFINE step == [p \in Nat \X Nat |-> p[2] \div 16]
<1>1. \A i, v \in Nat : step[<<i, v>>] = v \div 16
  OBVIOUS
<1>2. step \in Steps(Nat)
  BY DEF Steps
<1> HIDE DEF step
<1>3. PICK g \in [0..last -> Nat] :
          g[0] = n /\ \A i \in 1..last : g[i] = step[<<i, g[i - 1]>>]
  <2>1. Solvable(Nat, n, step, last)
    BY <1>2, RecursionDefines
  <2> QED
    BY <2>1 DEF Solvable
<1>4. ASSUME NEW i \in 1..last
      PROVE  g[i] = g[i - 1] \div 16
  <2>1. g[i - 1] \in Nat
    OBVIOUS
  <2>2. step[<<i, g[i - 1]>>] = g[i - 1] \div 16
    BY <1>1, <2>1
  <2> QED
    BY <1>3, <2>2
<1>5. g = [i \in 0..last |-> IF i = 0 THEN n ELSE g[i - 1] \div 16]
  BY <1>3, <1>4
<1> DEFINE q == Quotients(n, last)
<1>6. q = [i \in 0..last |-> IF i = 0 THEN n ELSE q[i - 1] \div 16]
  BY <1>5 DEF Quotients
<1> HIDE DEF q
<1>7. \A i \in 0..last : q[i] = IF i = 0 THEN n ELSE q[i - 1] \div 16
  BY <1>6
<1>8. \A i \in 0..last : q[i] \in Nat
  <2>1. \A i \in 1..last : q[i - 1] \in Nat => q[i] \in Nat
    BY <1>7
  <2>2. q[0] \in Nat
    BY <1>7
  <2>3. q \in [0..last -> {q[i] : i \in 0..last}]
    BY <1>6
  <2> QED
    BY <2>1, <2>2, <2>3, ValuesStay
<1> QED
  BY <1>6, <1>7, <1>8 DEF q, IsQuotients

LEMMA ReadingsAre ==
    ASSUME NEW last \in Nat, NEW o \in Octets(last)
    PROVE  IsReading(Readings(o, last), o, last)
<1> DEFINE octet(i) == IF i \in 1..last THEN o[i] ELSE 0
           step == [p \in Nat \X Nat |-> 256 * p[2] + octet(p[1])]
<1>0. \A i \in 1..last : o[i] \in Nat
  <2>1. \A i \in 1..last : o[i] \in 0..255
    BY DEF Octets
  <2>2. \A x \in 0..255 : x \in Nat
    OBVIOUS
  <2> QED
    BY <2>1, <2>2, Zenon
<1>1. \A i \in Nat : octet(i) \in Nat
  BY <1>0
<1> HIDE DEF octet
<1>2. \A i, v \in Nat : step[<<i, v>>] = 256 * v + octet(i)
  BY <1>1
<1>3. step \in Steps(Nat)
  <2>1. ASSUME NEW p \in Nat \X Nat
        PROVE  256 * p[2] + octet(p[1]) \in Nat
    <3>1. p[1] \in Nat /\ p[2] \in Nat
      OBVIOUS
    <3>2. octet(p[1]) \in Nat
      BY <1>1, <3>1
    <3> QED
      BY <3>1, <3>2
  <2> QED
    BY <2>1 DEF Steps
<1> HIDE DEF step
<1>4. PICK g \in [0..last -> Nat] :
          g[0] = 0 /\ \A i \in 1..last : g[i] = step[<<i, g[i - 1]>>]
  <2>1. 0 \in Nat
    OBVIOUS
  <2>2. Solvable(Nat, 0, step, last)
    BY <1>3, <2>1, RecursionDefines
  <2> QED
    BY <2>2 DEF Solvable
<1>5. ASSUME NEW i \in 1..last
      PROVE  g[i] = 256 * g[i - 1] + o[i]
  <2>1. i \in Nat /\ g[i - 1] \in Nat
    OBVIOUS
  <2>2. step[<<i, g[i - 1]>>] = 256 * g[i - 1] + octet(i)
    BY <1>2, <2>1
  <2> QED
    BY <1>4, <2>2 DEF octet
<1>6. g = [i \in 0..last |-> IF i = 0 THEN 0 ELSE 256 * g[i - 1] + o[i]]
  BY <1>4, <1>5
<1> DEFINE v == Readings(o, last)
<1>7. v = [i \in 0..last |-> IF i = 0 THEN 0 ELSE 256 * v[i - 1] + o[i]]
  BY <1>6 DEF Readings
<1> HIDE DEF v
<1>8. \A i \in 0..last : v[i] = IF i = 0 THEN 0 ELSE 256 * v[i - 1] + o[i]
  BY <1>7
<1>9. \A i \in 0..last : v[i] \in Nat
  <2>1. ASSUME NEW i \in 1..last, v[i - 1] \in Nat
        PROVE  v[i] \in Nat
    <3>1. v[i] = 256 * v[i - 1] + o[i]
      BY <1>8
    <3> QED
      BY <1>0, <2>1, <3>1
  <2>2. v[0] \in Nat
    BY <1>8
  <2>3. v \in [0..last -> {v[i] : i \in 0..last}]
    BY <1>7
  <2> QED
    BY <2>1, <2>2, <2>3, ValuesStay
<1> QED
  BY <1>7, <1>8, <1>9 DEF v, IsReading

\* Two digits for each octet: what is left of a serial number after 2j digits
\* is what its first octets were read as.
LEMMA QuotientsAreReadings ==
    ASSUME NEW last \in Nat, NEW o \in Octets(last)
    PROVE  \A j \in 0..last : Quotients(Readings(o, last)[last], 2 * last)[2 * j]
                                  = Readings(o, last)[last - j]
<1> DEFINE v == Readings(o, last)
           q == Quotients(v[last], 2 * last)
           T == {j \in Nat : j <= last => q[2 * j] = v[last - j]}
<1>1. v \in [0..last -> Nat] /\ \A i \in 1..last : v[i] = 256 * v[i - 1] + o[i]
  BY ReadingsAre DEF IsReading
<1>2. v[last] \in Nat /\ 2 * last \in Nat
  BY <1>1
<1>3. q[0] = v[last] /\ \A i \in 1..(2 * last) : q[i] = q[i - 1] \div 16
  BY <1>2, QuotientsAre DEF IsQuotients
<1> HIDE DEF v, q
<1>4. 0 \in T
  BY <1>3
<1>5. ASSUME NEW j \in T
      PROVE  j + 1 \in T
  <2> SUFFICES ASSUME j + 1 <= last
               PROVE  q[2 * (j + 1)] = v[last - (j + 1)]
    OBVIOUS
  <2>1. PICK i \in 1..last : i = last - j
    OBVIOUS
  <2>2. PICK w \in Nat : w = v[i - 1]
    BY <1>1
  <2>3. q[2 * j] = 256 * w + o[i] /\ o[i] \in 0..255
    BY <1>1, <2>1, <2>2 DEF Octets
  <2>4. q[(2 * j) + 1] = q[2 * j] \div 16 /\ q[(2 * j) + 2] = q[(2 * j) + 1] \div 16
    BY <1>3
  <2>5. \A y \in 0..255 : ((256 * w + y) \div 16) \div 16 = w
    OBVIOUS
  <2>6. q[(2 * j) + 2] = w
    BY <2>3, <2>4, <2>5
  <2> QED
    BY <2>1, <2>2, <2>6
<1> HIDE DEF T
<1>6. T = Nat
  <2>1. T \in SUBSET Nat
    BY DEF T
  <2> QED
    BY <1>4, <1>5, <2>1, NaturalsFromZero
<1>7. ASSUME NEW j \in 0..last
      PROVE  q[2 * j] = v[last - j]
  <2>1. j \in T /\ j <= last
    BY <1>6
  <2> QED
    BY <2>1 DEF T
<1> QED
  BY <1>7 DEF v, q

LEMMA TopBit ==
    /\ \A x \in 0..255 : x % 128 \in 0..127 /\ x % 128 \in 0..255
    /\ \A x \in 0..127 : (x \div 16) % 16 \in 0..7
OBVIOUS

LEMMA Nibble == \A x \in Nat : x % 16 \in 0..15
OBVIOUS

LEMMA DigitFirst ==
    ASSUME NEW x \in Nat, NEW y \in Nat
    PROVE  /\ x = y <=> x \div 16 = y \div 16 /\ x % 16 = y % 16
           /\ x < y <=> \/ x \div 16 < y \div 16
                        \/ x \div 16 = y \div 16 /\ x % 16 < y % 16
<1>1. PICK u \in Nat, c \in 0..15 : u = x \div 16 /\ c = x % 16 /\ x = 16 * u + c
  OBVIOUS
<1>2. PICK v \in Nat, d \in 0..15 : v = y \div 16 /\ d = y % 16 /\ y = 16 * v + d
  OBVIOUS
<1>3. x = y <=> u = v /\ c = d
  BY <1>1, <1>2
<1>4. x < y <=> u < v \/ (u = v /\ c < d)
  BY <1>1, <1>2
<1> QED
  BY <1>1, <1>2, <1>3, <1>4

\* Two numbers compare as their digits do, from the first on.
LEMMA DigitsCompare ==
    ASSUME NEW n \in Nat, NEW m, NEW k, NEW p, NEW q, NEW a, NEW b,
           IsQuotients(p, m, n), IsQuotients(q, k, n), Spells(a, p, n), Spells(b, q, n)
    PROVE  /\ m = k <=> a = b
           /\ m < k <=> SortsBefore(a, b)
<1> DEFINE Same(j) == \A l \in 1..j : a[l] = b[l]
           First(j) == \E l \in 1..j : a[l] < b[l] /\ Same(l - 1)
           Compared(j) == /\ p[n - j] = q[n - j] <=> Same(j)
                          /\ p[n - j] < q[n - j] <=> First(j)
           T == {j \in 0..n : Compared(j)}
<1>1. Compared(0)
  BY DEF Spells
<1>2. ASSUME NEW j \in 0..n, j < n, Compared(j)
      PROVE  Compared(j + 1)
  <2> DEFINE x == p[n - (j + 1)]
             y == q[n - (j + 1)]
  <2>1. /\ n - j \in 1..n /\ j + 1 \in 1..n /\ (n - j) - 1 = n - (j + 1)
        /\ n - (j + 1) \in 0..n
    BY <1>2
  <2>2. x \in Nat /\ y \in Nat
    BY <2>1 DEF IsQuotients
  <2>3. p[n - j] = x \div 16 /\ q[n - j] = y \div 16
    BY <2>1 DEF IsQuotients
  <2>4. a[j + 1] = x % 16 /\ b[j + 1] = y % 16
    BY <2>1 DEF Spells
  <2>5. /\ x = y <=> x \div 16 = y \div 16 /\ x % 16 = y % 16
        /\ x < y <=> \/ x \div 16 < y \div 16
                     \/ x \div 16 = y \div 16 /\ x % 16 < y % 16
    <3> HIDE DEF x, y
    <3> QED
      BY <2>2, DigitFirst
  <2>6. Same(j + 1) <=> Same(j) /\ a[j + 1] = b[j + 1]
    <3>1. \A l \in 1..(j + 1) : l \in 1..j \/ l = j + 1
      OBVIOUS
    <3>2. j + 1 \in 1..(j + 1) /\ \A l \in 1..j : l \in 1..(j + 1)
      OBVIOUS
    <3> QED
      BY <3>1, <3>2, Zenon
  <2>7. First(j + 1) <=> First(j) \/ (Same(j) /\ a[j + 1] < b[j + 1])
    <3> HIDE DEF Same
    <3>1. \A l \in 1..(j + 1) : l \in 1..j \/ l = j + 1
      OBVIOUS
    <3>2. j + 1 \in 1..(j + 1) /\ (j + 1) - 1 = j /\ \A l \in 1..j : l \in 1..(j + 1)
      OBVIOUS
    <3> QED
      BY <3>1, <3>2, Zenon
  <2> HIDE DEF Same, First, x, y
  <2>8. /\ x \div 16 = y \div 16 <=> Same(j)
        /\ x \div 16 < y \div 16 <=> First(j)
    BY <1>2, <2>3
  <2>9. x = y <=> Same(j + 1)
    BY <2>4, <2>5, <2>6, <2>8
  <2>10. x < y <=> First(j + 1)
    BY <2>4, <2>5, <2>7, <2>8
  <2> QED
    BY <2>9, <2>10 DEF x, y
<1> HIDE DEF Compared
<1>3. T = 0..n
  <2>1. T \in SUBSET (0..n) /\ 0 \in T /\ \A j \in T : j < n => j + 1 \in T
    BY <1>1, <1>2
  <2> HIDE DEF T
  <2> QED
    BY <2>1, UpToLast
<1>4. /\ m = k <=> Same(n)
      /\ m < k <=> First(n)
  <2>1. n \in T /\ n - n = 0
    <3> HIDE DEF T
    <3> QED
      BY <1>3
  <2> HIDE DEF Same, First
  <2> QED
    BY <2>1 DEF Compared, IsQuotients
<1>5. Same(n) <=> a = b
  BY DEF Spells
<1>6. First(n) <=> SortsBefore(a, b)
  <2>1. DOMAIN a = 1..n /\ DOMAIN b = 1..n
    BY DEF Spells
  <2>2. \A l \in 1..n : \A j \in 1..(l - 1) : j \in 1..n
    OBVIOUS
  <2> QED
    BY <2>1, <2>2, Zenon DEF SortsBefore
<1> QED
  BY <1>4, <1>5, <1>6

\* What the octets drawn for a serial number make of it, digit by digit.
LEMMA DigitsOfSerial ==
    ASSUME NEW last \in Nat, last = SerialBytes, NEW digits \in Nat, digits = 2 * last,
           NEW buf \in Octets(last)
    PROVE  LET m == SerialNumber(buf)
               q == Quotients(m, digits)
           IN  m \in Nat /\ IsQuotients(q, m, digits) /\ Spells(serialHex(m), q, digits)
               /\ serialHex(m)[1] \in 0..7
<1> DEFINE o == [buf EXCEPT ![1] = ClearTopBit(@)]
           r == Readings(o, last)
           m == r[last]
           q == Quotients(m, digits)
           name == serialHex(m)
<1>1. last - 1 \in 0..last /\ 1 \in 1..last /\ digits - 1 \in 0..digits /\ 1 \in 1..digits
  BY LocalCAAssumption
<1>2. o \in Octets(last) /\ o[1] \in 0..127
  <2>1. buf[1] \in 0..255
    BY <1>1 DEF Octets
  <2>2. ClearTopBit(buf[1]) \in 0..127 /\ ClearTopBit(buf[1]) \in 0..255
    BY <2>1, TopBit DEF ClearTopBit
  <2> QED
    BY <1>1, <2>2 DEF Octets
<1>3. m = SerialNumber(buf)
  BY SerialNumberIs
<1> HIDE DEF o
<1>4. IsReading(r, o, last)
  BY <1>2, ReadingsAre
<1>5. m \in Nat
  BY <1>4 DEF IsReading
<1>6. \A j \in 0..last : q[2 * j] = r[last - j]
  BY <1>2, QuotientsAreReadings
<1> HIDE DEF r, m
<1>7. IsQuotients(q, m, digits)
  BY <1>5, QuotientsAre
<1>8. name = [i \in 1..digits |-> q[digits - i] % 16]
  BY HexDigitsAre DEF serialHex
<1> HIDE DEF q, name
<1>9. q[digits] = 0
  <2>1. last \in 0..last /\ last - last = 0
    OBVIOUS
  <2> QED
    BY <1>4, <1>6, <2>1 DEF IsReading
<1>10. \A i \in 1..digits : name[i] = q[digits - i] % 16 /\ name[i] \in 0..15
  <2> SUFFICES ASSUME NEW i \in 1..digits
               PROVE  name[i] = q[digits - i] % 16 /\ name[i] \in 0..15
    OBVIOUS
  <2>1. q[digits - i] \in Nat
    BY <1>7 DEF IsQuotients
  <2>2. name[i] = q[digits - i] % 16
    BY <1>8
  <2> QED
    BY <2>1, <2>2, Nibble
<1>11. name[1] \in 0..7
  <2>1. last - (last - 1) = 1 /\ 2 * (last - 1) = (digits - 1) - 1 /\ digits - 1 \in 1..digits
    BY <1>1
  <2>2. r[1] = o[1]
    <3>1. r[1] = 256 * r[1 - 1] + o[1] /\ 1 - 1 = 0 /\ r[0] = 0
      BY <1>1, <1>4 DEF IsReading
    <3> QED
      BY <1>2, <3>1
  <2>3. q[(digits - 1) - 1] = o[1]
    BY <1>1, <1>6, <2>1, <2>2
  <2>4. q[digits - 1] = o[1] \div 16
    BY <1>7, <2>1, <2>3 DEF IsQuotients
  <2>5. name[1] = (o[1] \div 16) % 16
    BY <1>1, <1>10, <2>4
  <2> QED
    BY <1>2, <2>5, TopBit
<1>12. Spells(name, q, digits)
  <2>1. name \in [1..digits -> 0..15]
    BY <1>8, <1>10
  <2> QED
    BY <1>9, <1>10, <2>1 DEF Spells
<1> QED
  BY <1>3, <1>5, <1>7, <1>11, <1>12 DEF q, name

\* serial.go 13-17 and store/file.go 19-20: whatever octets are drawn, the
\* names of the files of two serial numbers differ when the numbers do and
\* sort as they do, and the first digit keeps the DER INTEGER non-negative.
THEOREM SerialNamesSortAsNumbers ==
    ASSUME NEW a \in [1..SerialBytes -> 0..255], NEW b \in [1..SerialBytes -> 0..255]
    PROVE  LET m == SerialNumber(a)
               n == SerialNumber(b)
           IN  /\ m \in Nat
               /\ serialHex(m) \in [1..(2 * SerialBytes) -> 0..15] /\ serialHex(m)[1] \in 0..7
               /\ m = n <=> serialHex(m) = serialHex(n)
               /\ m < n <=> SortsBefore(serialHex(m), serialHex(n))
<1>1. PICK last \in Nat : last = SerialBytes
  BY LocalCAAssumption
<1>2. PICK digits \in Nat : digits = 2 * last
  OBVIOUS
<1> DEFINE m == SerialNumber(a)
           n == SerialNumber(b)
<1>3. a \in Octets(last) /\ b \in Octets(last)
  BY <1>1 DEF Octets
<1>4. /\ m \in Nat /\ IsQuotients(Quotients(m, digits), m, digits)
      /\ Spells(serialHex(m), Quotients(m, digits), digits) /\ serialHex(m)[1] \in 0..7
  BY <1>1, <1>2, <1>3, DigitsOfSerial
<1>5. /\ IsQuotients(Quotients(n, digits), n, digits)
      /\ Spells(serialHex(n), Quotients(n, digits), digits)
  BY <1>1, <1>2, <1>3, DigitsOfSerial
<1> HIDE DEF m, n
<1>6. /\ m = n <=> serialHex(m) = serialHex(n)
      /\ m < n <=> SortsBefore(serialHex(m), serialHex(n))
  BY <1>4, <1>5, DigitsCompare
<1>7. serialHex(m) \in [1..digits -> 0..15]
  BY <1>4 DEF Spells
<1> QED
  BY <1>1, <1>2, <1>4, <1>6, <1>7 DEF m, n
=============================================================================
