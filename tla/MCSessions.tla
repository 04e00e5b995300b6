---------------------------- MODULE MCSessions ----------------------------
(* Instances of Sessions for TLC.                                          *)
EXTENDS Sessions

CONSTANTS n1, n2, s1, r1, r2, w1

\* A socket and a request on the first node, a request on the second.
HomeOf == [p \in Clients |-> IF p = r2 THEN n2 ELSE n1]

\* Everybody carries the same session.
OneToken == [p \in Clients |-> s1]
=============================================================================
