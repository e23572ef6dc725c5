-------------------------- MODULE MCStampPurchase --------------------------
(***************************************************************************)
(* Small instances of StampPurchase.                                       *)
(***************************************************************************)
EXTENDS StampPurchase

CONSTANTS u1, u2, d1, d2

OwnerEach == [d \in Devices |-> IF d = d1 THEN u1 ELSE u2]
OwnerSame == [d \in Devices |-> u1]

Stamps(n1, n2) == [u \in Users |-> IF u = u1 THEN n1 ELSE n2]
Stamps32 == Stamps(3, 2)
Stamps20 == Stamps(2, 0)
Stamps40 == Stamps(4, 0)

PostTo(u, c, g)   == [kind |-> "post", cost |-> c, gift |-> g, to |-> u, complete |-> TRUE]
InvestIn(u, c, g) == [kind |-> "invest", cost |-> c, gift |-> g, to |-> u, complete |-> TRUE]
EntryBy(u, c, ok) == [kind |-> "entry", cost |-> c, gift |-> 0, to |-> u, complete |-> ok]
JoinBy(u, c)      == [kind |-> "join", cost |-> c, gift |-> 0, to |-> u, complete |-> TRUE]

TwoAccountOffers == {PostTo(u2, 2, 1), InvestIn(u2, 1, 1)}
AnswerOffers     == {JoinBy(u1, 2), InvestIn(u2, 1, 1), EntryBy(u1, 0, FALSE)}
FeeOffers        == {InvestIn(u2, 2, 1), JoinBy(u2, 1)}
=============================================================================
