---------------------------- MODULE MC_Enrollment ----------------------------
(* Two requests and two serial numbers, with every kind of input.          *)
EXTENDS Enrollment, Identity

\* Two identities that differ in their SANs only, and the second with its names
\* in the opposite order.
Alice == [cn |-> 1, dns |-> <<1>>, ip |-> <<>>, email |-> <<>>, uri |-> <<>>]
Bob == [cn |-> 1, dns |-> <<1, 2>>, ip |-> <<>>, email |-> <<>>, uri |-> <<>>]
BobReordered == [Bob EXCEPT !.dns = <<2, 1>>]

\* None of their names contains a line feed.
MCLineBreaks == <<>>

MCIdentities == {Alice, Bob, BobReordered}
MCCSRs == {[id |-> Alice, pop |-> TRUE], [id |-> BobReordered, pop |-> TRUE],
           [id |-> Alice, pop |-> FALSE]}

Send(e, p, t, q) == [endpoint |-> e, peer |-> p, trusted |-> t, csr |-> q]
Enroll(p, q) == Send("simpleenroll", p, TRUE, q)
Reenroll(p, q) == Send("simplereenroll", p, TRUE, q)

CSR(id) == [id |-> id, pop |-> TRUE]

\* Enrolments: one that goes through.
GoodInputs == {Enroll(Alice, CSR(Alice)), Reenroll(Bob, CSR(BobReordered))}

\* Enrolments that are refused, each for a reason of its own.
BadInputs == {Reenroll(Bob, CSR(Alice)),
              Enroll(Bob, None),
              Enroll(Alice, [id |-> Alice, pop |-> FALSE]),
              Enroll(None, CSR(Alice)),
              Send("simpleenroll", Alice, FALSE, CSR(Alice))}

OtherInputs == {Send(e, None, FALSE, None) : e \in {"cacerts", "csrattrs", "other"}}

AllInputs == GoodInputs \cup BadInputs \cup OtherInputs
=============================================================================
