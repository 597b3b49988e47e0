------------------------------- MODULE Identity -------------------------------
(***************************************************************************)
(* internal/estapi/identity.go: the comparison of the identity a CSR asks  *)
(* for with the identity of the authenticated client certificate.          *)
(*                                                                         *)
(* An identity has a CommonName and the four lists of subject alternative  *)
(* names crypto/x509 parses.  The strings are numbers here, so that they   *)
(* have the order sort.Strings needs.  An IP address is the pair of an     *)
(* address and the length of its encoding: net.IP.String() prints a 4-byte *)
(* address and its 16-byte IPv4-mapped form alike.                         *)
(*                                                                         *)
(* A DNS name or an e-mail address is any IA5String and may contain a line *)
(* feed, the separator of the rendered set; a URI, which url.Parse has     *)
(* accepted, and a printed address cannot.                                 *)
(***************************************************************************)
EXTENDS Naturals, Sequences, SequencesExt

CONSTANT LineBreaks  \* the strings with a line feed, each with what its lines are:
                     \* the first, and the others as pairs of the rank of the
                     \* prefix they begin with, 0 for none, and the rest

ASSUME LineBreakAssumption ==
    /\ DOMAIN LineBreaks \subseteq Nat
    /\ \A s \in DOMAIN LineBreaks :
          LineBreaks[s] \in [first : Nat, more : Seq((0..4) \X Nat) \ {<<>>}]

\* The prefix sanSet gives each of the four lists, as its rank in the order
\* of the prefixed strings: "dns:", "email:", "ip:", "uri:".
Prefix == [dns |-> 1, email |-> 2, ip |-> 3, uri |-> 4]

\* net.IP.String(): the form of the address is lost.
IPString(ip) == ip[1]

\* The order of the prefixed strings.
Before(x, y) == x[1] < y[1] \/ (x[1] = y[1] /\ x[2] < y[2])

\* The prefixed strings in the order sanSet collects them.
Items(id) ==
    LET Tag(k, list) == [i \in DOMAIN list |-> <<Prefix[k], list[i]>>]
    IN  Tag("dns", id.dns)
        \o Tag("ip", [i \in DOMAIN id.ip |-> IPString(id.ip[i])])
        \o Tag("email", id.email)
        \o Tag("uri", id.uri)

\* sort.Strings: each item goes before the first one that is above it.
Sorted(list) ==
    LET Insert(s, x) ==
            LET k == Cardinality({i \in DOMAIN s : ~ Before(x, s[i])})
            IN  SubSeq(s, 1, k) \o <<x>> \o SubSeq(s, k + 1, Len(s))
        sorted[n \in 0..Len(list)] ==
            IF n = 0 THEN <<>> ELSE Insert(sorted[n - 1], list[n])
    IN  sorted[Len(list)]

\* The lines of one item.
LinesOf(x) ==
    IF x[1] \in {Prefix["dns"], Prefix["email"]} /\ x[2] \in DOMAIN LineBreaks
    THEN << <<x[1], LineBreaks[x[2]].first>> >> \o LineBreaks[x[2]].more
    ELSE <<x>>

\* The items joined, each closed by a line feed: the lines of the rendering.
Rendered(items) == FlattenSeq([i \in DOMAIN items |-> LinesOf(items[i])])

\* A seeded fault: the items are joined in the order they were collected.
sanSetUnsorted(id) == Rendered(Items(id))

sanSet(id) == Rendered(Sorted(Items(id)))

identitiesMatch(peer, csr) ==
    /\ peer.cn = csr.cn
    /\ sanSet(peer) = sanSet(csr)
=============================================================================
