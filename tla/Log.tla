--------------------------------- MODULE Log ---------------------------------
(***************************************************************************)
(* What a channel promises to the people in it: one log, in which a        *)
(* message gets a place of its own, once and for good; tabs that come to   *)
(* show more of the log and never less; "delivered" on a message that is   *)
(* in the log and on its author's screen, for good as well; and read       *)
(* positions that move forward.  Places are handed out before they are     *)
(* filled, and some never are.  Delivery has requests that overlap, repeat *)
(* and die, and implements it (Delivery, KeepsLog).                        *)
(***************************************************************************)
EXTENDS Naturals

CONSTANTS
    Clients,
    Msgs,
    Author       \* the tab each message is written in

VARIABLES
    last,        \* the last place handed out
    log,         \* the pairs <<message, place>>
    shows,       \* the places each tab shows
    delivered,   \* the messages whose author has been told so
    read         \* the read position of each tab's person

vars == <<last, log, shows, delivered, read>>

\* The channel begins with a message in its first place.
First == 1
Filled == {First} \cup {e[2] : e \in log}

Init ==
    /\ last = First
    /\ log = {}
    /\ shows = [c \in Clients |-> {First}]
    /\ delivered = {}
    /\ read = [c \in Clients |-> 0]

HandOut ==
    /\ last' = last + 1
    /\ UNCHANGED <<log, shows, delivered, read>>

Store(m, n) ==
    /\ \A e \in log : e[1] # m
    /\ n \in 1..last \ Filled
    /\ log' = log \cup {<<m, n>>}
    /\ UNCHANGED <<last, shows, delivered, read>>

\* One frame, or what a catch-up has found.
Show(c, S) ==
    /\ S \subseteq Filled
    /\ shows' = [shows EXCEPT ![c] = @ \cup S]
    /\ UNCHANGED <<last, log, delivered, read>>

Deliver(m, n) ==
    /\ <<m, n>> \in log
    /\ m \notin delivered
    /\ delivered' = delivered \cup {m}
    /\ shows' = [shows EXCEPT ![Author[m]] = @ \cup {n}]
    /\ UNCHANGED <<last, log, read>>

Read(c, n) ==
    /\ read[c] < n
    /\ read' = [read EXCEPT ![c] = n]
    /\ UNCHANGED <<last, log, shows, delivered>>

Next ==
    \/ HandOut
    \/ \E m \in Msgs, n \in 1..last : Store(m, n) \/ Deliver(m, n)
    \/ \E c \in Clients : \/ \E S \in SUBSET Filled : Show(c, S)
                          \/ \E n \in 1..last : Read(c, n)

Spec == Init /\ [][Next]_vars
=============================================================================
