------------------------------ MODULE MCHub ------------------------------
(* Instances of Hub for TLC.                                               *)
EXTENDS Hub

CONSTANTS a, c1, c2, s1, s2, x

\* Two sockets of one user, each with a session of its own: what one of them
\* reads, SetChannels and Unsubscribe have to change for both.
TwoTabsOwner   == [c \in Sockets |-> a]
TwoTabsSession == [c \in Sockets |-> IF c = c1 THEN s1 ELSE s2]
=============================================================================
