----------------------------- MODULE MCPresence -----------------------------
(* Instances of Presence for TLC.                                          *)
EXTENDS Presence

CONSTANTS a, b, c, s1, s2, s3

\* A tab on each of two nodes: the user moves from one to the other, or is on
\* both.
OneEach == [s \in Sockets |-> IF s = s1 THEN a ELSE b]

\* A tab on each of three, for the user to go on from a node that dies to one that
\* knows it and to one that does not.
Everywhere == [s \in Sockets |-> CASE s = s1 -> a [] s = s2 -> b [] s = s3 -> c]

\* The events alone tell this tab (a bound).
EventsOnly == lookup.at = "none"

\* Nothing is said of what the tab shows once a window has opened, so from then on
\* it hears nothing more (a bound).
Deafened == windows # {} => UNCHANGED <<shown, lookup>> /\ events \subseteq events'
=============================================================================
