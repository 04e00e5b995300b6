---------------------------- MODULE MCDelivery ----------------------------
(* Instances of Delivery for TLC.                                          *)
EXTENDS Delivery

CONSTANTS a, b, m1, m2

\* a writes, b reads.
OneWriter == [m \in Msgs |-> a]
\* a and b write to each other.
TwoWriters == [m \in Msgs |-> IF m = m1 THEN a ELSE b]

\* Sent once; the first sent again after a failure.
Once == [m \in Msgs |-> 1]
FirstTwice == [m \in Msgs |-> IF m = m1 THEN 2 ELSE 1]

\* The requests whose node may die: the first of m1, or none.
FirstRequest == {<<m1, 1>>}
NoRequest == {}
=============================================================================
