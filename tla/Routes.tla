------------------------------- MODULE Routes -------------------------------
(***************************************************************************)
(* What a hub promises to the rest of the server: one fact, which socket   *)
(* is served which topic, and that a frame for a topic reaches exactly     *)
(* the sockets served it, or costs them their place.  Hub keeps this fact  *)
(* in three maps and implements it (Hub, ServesRoutes).                    *)
(***************************************************************************)
EXTENDS Naturals

CONSTANTS
    Users,
    Topics,
    Sockets,
    Sessions,
    Owner,        \* the user of each socket
    SessionOf,    \* the session of each socket
    OwnTopic,     \* the topic every socket of a user is served
    Room          \* how many frames may wait for a socket

VARIABLES
    present,   \* the sockets that are served
    past,      \* those that were
    serves,    \* the pairs <<socket, topic>>
    waiting,   \* how many frames wait for each socket
    closed     \* nobody enters any more

vars == <<present, past, serves, waiting, closed>>

Init ==
    /\ present = {} /\ past = {} /\ serves = {}
    /\ waiting = [c \in Sockets |-> 0]
    /\ closed = FALSE

Of(u) == {c \in present : Owner[c] = u}
Readers(t) == {c \in present : <<c, t>> \in serves}

\* A socket enters once, with the topics it is to be served.
Enter(c, T) ==
    /\ c \notin present \cup past /\ ~closed
    /\ present' = present \cup {c}
    /\ serves' = serves \cup ({c} \X (T \cup {OwnTopic[Owner[c]]}))
    /\ UNCHANGED <<past, waiting, closed>>

\* What one user is served changes for all sockets of the user alike, and what is
\* for the user is never taken away.
Gain(u, t) ==
    /\ serves' = serves \cup (Of(u) \X {t})
    /\ UNCHANGED <<present, past, waiting, closed>>
Lose(u, t) ==
    /\ t # OwnTopic[u]
    /\ serves' = serves \ (Of(u) \X {t})
    /\ UNCHANGED <<present, past, waiting, closed>>
Assign(u, T) ==
    /\ serves' = {p \in serves : p[1] \notin Of(u)} \cup (Of(u) \X (T \cup {OwnTopic[u]}))
    /\ UNCHANGED <<present, past, waiting, closed>>

\* Whoever leaves is served nothing and does not come back.
Part(S) ==
    /\ present' = present \ S
    /\ past' = past \cup S
    /\ serves' = {p \in serves : p[1] \notin S}
Depart(S) ==
    /\ Part(S)
    /\ waiting' = [c \in Sockets |-> IF c \in S THEN 0 ELSE waiting[c]]
EndSession(s) == Depart({c \in present : SessionOf[c] = s}) /\ UNCHANGED closed
Leave(c) == c \in present /\ Depart({c}) /\ UNCHANGED closed
Close == Depart(present) /\ closed' = TRUE

\* A frame waits for each of those it is for, and whoever has no room leaves.
Late(S) == {c \in S : waiting[c] = Room}
Tell(S) ==
    /\ Part(Late(S))
    /\ waiting' = [c \in Sockets |-> IF c \in Late(S) THEN 0
                                     ELSE IF c \in S THEN waiting[c] + 1 ELSE waiting[c]]
    /\ UNCHANGED closed
Greet(c) == c \in present /\ Tell({c})
Frame(t) == Tell(Readers(t))
FrameToAll == Tell(present)
Take(c) ==
    /\ c \in present /\ waiting[c] > 0
    /\ waiting' = [waiting EXCEPT ![c] = @ - 1]
    /\ UNCHANGED <<present, past, serves, closed>>

Next ==
    \/ \E c \in Sockets : \/ \E T \in SUBSET Topics : Enter(c, T)
                          \/ Leave(c) \/ Greet(c) \/ Take(c)
    \/ \E u \in Users : \/ \E t \in Topics : Gain(u, t) \/ Lose(u, t)
                        \/ \E T \in SUBSET Topics : Assign(u, T)
    \/ \E t \in Topics : Frame(t)
    \/ \E s \in Sessions : EndSession(s)
    \/ FrameToAll
    \/ Close

Spec == Init /\ [][Next]_vars
=============================================================================
