------------------------------- MODULE MCBus -------------------------------
(* Instances of Bus for TLC.                                               *)
EXTENDS Bus

CONSTANTS c1, c2, x, y, session

\* The second socket shares a channel with the first and has one of its own.
Shared == [c \in Sockets |-> IF c = c1 THEN {x} ELSE {x, y}]
=============================================================================
