--------------------------- MODULE PresenceProofs ---------------------------
(***************************************************************************)
(* Proofs about the module Presence, for any nodes and sockets and any     *)
(* number of faults: what Redis records of a user's sockets is complete,   *)
(* and somebody can always remove what a dead node left, outside the       *)
(* windows the module names and but for the sockets it names as adrift.    *)
(***************************************************************************)
EXTENDS Presence, TLAPS

USE DEF past, Record, Erase

Recorded(s) == s \in sockets /\ s \in index[Home[s]]
NoneSweptAlive == "sweptAlive" \notin windows

\* Only a node that has started is registered or has sockets, and only one that
\* serves has any.
StartedOnly ==
    /\ \A n \in registry : process[n] # "new"
    /\ \A s \in Sockets : handler[s] # "none" => Home[s] \notin first

\* What a round has in hand: a node registers its own sockets again, and removes
\* those of the node it names as the one it sweeps.
RoundsHold ==
    \A n \in Nodes : /\ index[n] \subseteq Of(n)
                     /\ round[n] = "register" => todo[n] \subseteq Of(n)
                     /\ round[n] = "remove" => todo[n] \subseteq Of(swept[n])
                     /\ swept[n] # None <=> round[n] \in {"list", "remove"}

\* Nobody sweeps a node that could still open a socket, and what has been listed
\* is complete from then on.
SweptAreDead ==
    NoneSweptAlive =>
        \A n \in Nodes : swept[n] # None =>
            /\ process[swept[n]] = "dead" /\ swept[n] \notin registry
            /\ round[n] = "remove" =>
                   \A s \in sockets \ adrift : Home[s] = swept[n] => s \in todo[n]

\* A registered node has recorded each of its open sockets or is about to.
OpenAtRegistered ==
    \A s \in Sockets \ adrift : handler[s] = "open" /\ Up(Home[s]) /\ Home[s] \in registry =>
        Recorded(s) \/ (round[Home[s]] = "register" /\ s \in todo[Home[s]])

Safe ==
    /\ StartedOnly /\ RoundsHold /\ SweptAreDead
    /\ CanBeSwept /\ OpenAtRegistered /\ HasASweeper

IInv == TypeOK /\ Safe
-----------------------------------------------------------------------------
(* Next, by who takes the step.                                            *)

SocketStep(s) == Enter(s) \/ Refuse(s) \/ Open(s) \/ Close(s)
FaultStep(n) == Start(n) \/ Die(n) \/ PulseRunsOut(n)
RedisStep == RoundKeyRunsOut \/ RestartRedis
Fails == (\E s \in Sockets : OpenFails(s) \/ CloseFails(s)) \/ (\E n \in Nodes : RoundFails(n)) \/ Lose
TabStep == Note \/ (\E n \in Nodes : Ask(n)) \/ ReadVersion \/ Answer

-----------------------------------------------------------------------------
(* Types.                                                                  *)

LEMMA AnnounceTypes ==
  ASSUME TypeOK, NEW n \in Nodes, NEW online \in BOOLEAN, version' \in Nat, Announce(n, online)
  PROVE  events' \in SUBSET [by : Nodes, state : State]
  BY DEF TypeOK, Announce, State

LEMMA ThroughTypes ==
  ASSUME NEW n, NEW S
  PROVE  Through(n, S) \subseteq Windows /\ ThroughConnect(n, S) \subseteq Windows
  BY DEF Through, ThroughConnect, Windows

LEMMA ConnectTypes ==
  ASSUME TypeOK, NEW n \in Nodes, NEW s \in Sockets, ConnectTx(n, s)
  PROVE  /\ sockets' \in SUBSET Sockets /\ index' \in [Nodes -> SUBSET Sockets]
         /\ version' \in Nat /\ events' \in SUBSET [by : Nodes, state : State]
<1>1. sockets' \in SUBSET Sockets /\ index' \in [Nodes -> SUBSET Sockets] /\ version' \in Nat
  BY DEF TypeOK, ConnectTx
<1>2. events' = events \/ Announce(n, TRUE)
  BY DEF ConnectTx
<1> QED
  BY <1>1, <1>2, AnnounceTypes DEF TypeOK

LEMMA RemoveTypes ==
  ASSUME TypeOK, NEW n \in Nodes, NEW s \in Sockets, RemoveTx(n, s)
  PROVE  /\ sockets' \in SUBSET Sockets /\ index' \in [Nodes -> SUBSET Sockets]
         /\ version' \in Nat /\ events' \in SUBSET [by : Nodes, state : State]
<1>1. sockets' \in SUBSET Sockets /\ index' \in [Nodes -> SUBSET Sockets] /\ version' \in Nat
  BY HomeAssumption DEF TypeOK, RemoveTx
<1>2. events' = events \/ Announce(n, FALSE)
  BY DEF RemoveTx
<1> QED
  BY <1>1, <1>2, AnnounceTypes DEF TypeOK

LEMMA SocketTypes ==
  ASSUME TypeOK, NEW s \in Sockets, SocketStep(s)
  PROVE  TypeOK'
<1>1. CASE Enter(s)
  BY <1>1 DEF Enter, TypeOK, redis, rounds, tab, Up, At, Go, Handle
<1>2. CASE Refuse(s)
  BY <1>2 DEF Refuse, TypeOK, redis, rounds, tab, Up, At, Go, Handle
<1>3. CASE Open(s)
  BY <1>3, ConnectTypes, ThroughTypes, HomeAssumption DEF Open, TypeOK, redis, rounds, tab, Up, At, Go, Handle
<1>4. CASE Close(s)
  BY <1>4, RemoveTypes, ThroughTypes, HomeAssumption DEF Close, TypeOK, redis, rounds, tab, Up, At, Go, Handle
<1> QED
  BY <1>1, <1>2, <1>3, <1>4 DEF SocketStep

LEMMA RoundTypes ==
  ASSUME TypeOK, RoundsHold, NEW n \in Nodes, RoundStep(n)
  PROVE  TypeOK'
<1>1. CASE Beat(n)
  <2>1. epoch' \in Nat /\ epochs' \in [Nodes -> Nat] /\ registry' \in SUBSET Nodes
        /\ pulse' \in SUBSET Nodes /\ first' \in SUBSET Nodes
    BY <1>1 DEF Beat, TypeOK
  <2>2. todo' \in [Nodes -> SUBSET Sockets]
        /\ round' \in [Nodes -> {"idle", "register", "listen", "sweep", "claim", "list", "remove"}]
    BY <1>1 DEF Beat, TypeOK, Go, Of
  <2> QED
    BY <1>1, <2>1, <2>2 DEF Beat, TypeOK, tab
<1>2. CASE \E s \in Sockets : Reregister(n, s)
  BY <1>2, ConnectTypes, ThroughTypes DEF Reregister, TypeOK, redis, rounds, tab, Up, At, Go, Handle
<1>3. CASE Registered(n)
  BY <1>3 DEF Registered, TypeOK, redis, rounds, tab, Up, At, Go, Handle
<1>4. CASE Listen(n)
  BY <1>4 DEF Listen, TypeOK, redis, rounds, tab, Up, At, Go, Handle
<1>5. CASE TakeRound(n)
  BY <1>5 DEF TakeRound, TypeOK, redis, rounds, tab, Up, At, Go, Handle
<1>6. CASE Claim(n)
  <2>1. dead' \in [Nodes -> SUBSET Nodes] /\ registry' \in SUBSET Nodes
    BY <1>6 DEF Claim, TypeOK
  <2>2. windows' \in SUBSET Windows
    BY <1>6 DEF Claim, TypeOK, Windows
  <2>3. \/ UNCHANGED <<swept, round>>
        \/ \E m \in Nodes : swept' = [swept EXCEPT ![n] = m] /\ round' = [round EXCEPT ![n] = "list"]
    BY <1>6 DEF Claim, TypeOK, Go
  <2>4. /\ swept' \in [Nodes -> Nodes \cup {None}]
        /\ round' \in [Nodes -> {"idle", "register", "listen", "sweep", "claim", "list", "remove"}]
    BY <2>3 DEF TypeOK
  <2> QED
    BY <1>6, <2>1, <2>2, <2>4 DEF Claim, TypeOK, tab
<1>7. CASE RoundEnds(n)
  BY <1>7 DEF RoundEnds, TypeOK, redis, rounds, tab, Up, At, Go, Handle
<1>8. CASE ListSockets(n)
  BY <1>8 DEF ListSockets, TypeOK, redis, rounds, tab, Up, At, Go, Handle, RoundsHold
<1>9. CASE \E s \in Sockets : SweepSocket(n, s)
  BY <1>9, RemoveTypes, ThroughTypes DEF Astray, SweepSocket, TypeOK, redis, rounds, tab, Up, At, Go, Handle
<1>10. CASE Forget(n)
  <2>1. index[swept[n]] \subseteq Sockets
    BY <1>10 DEF Forget, At, RoundsHold, TypeOK
  <2> QED
    BY <1>10, <2>1 DEF Forget, Astray, TypeOK, tab, Go
<1> QED
  BY <1>1, <1>2, <1>3, <1>4, <1>5, <1>6, <1>7, <1>8, <1>9, <1>10 DEF RoundStep

LEMMA FaultTypes ==
  ASSUME TypeOK, NEW n \in Nodes, FaultStep(n)
  PROVE  TypeOK'
<1>1. CASE Start(n)
  BY <1>1 DEF Start, TypeOK, redis, rounds, tab, Up, At, Go, Handle
<1>2. CASE Die(n)
  BY <1>2, BoundsAssumption DEF Die, TypeOK, redis, rounds, tab, Up, At, Go, Handle, Fault, Windows
<1>3. CASE PulseRunsOut(n)
  BY <1>3, BoundsAssumption DEF PulseRunsOut, TypeOK, redis, rounds, tab, Up, At, Go, Handle, Fault
<1> QED
  BY <1>1, <1>2, <1>3 DEF FaultStep

LEMMA RedisTypes ==
  ASSUME TypeOK, RedisStep
  PROVE  TypeOK'
<1>1. CASE RoundKeyRunsOut
  BY <1>1 DEF RoundKeyRunsOut, TypeOK, redis, rounds, tab, Up, At, Go, Handle
<1>2. CASE RestartRedis
  <2>1. faults' \in 0 .. MaxFaults /\ clock' \in Nat /\ index' \in [Nodes -> SUBSET Sockets]
    BY <1>2, BoundsAssumption DEF RestartRedis, Fault, TypeOK
  <2> QED
    BY <1>2, <2>1 DEF RestartRedis, TypeOK, rounds, tab, Windows
<1> QED
  BY <1>1, <1>2 DEF RedisStep

LEMMA TabTypes ==
  ASSUME TypeOK, TabStep
  PROVE  TypeOK'
<1>1. CASE Note
  BY <1>1 DEF Note, TypeOK, redis, rounds, tab, Up, At, Go, Handle, State
<1>2. CASE \E n \in Nodes : Ask(n)
  BY <1>2, ThroughTypes DEF Ask, TypeOK, redis, rounds, tab, Up, At, Go, Handle, State, OnlineIn
<1>3. CASE ReadVersion
  BY <1>3 DEF ReadVersion, TypeOK, redis, rounds, tab, Up, At, Go, Handle, State, Windows
<1>4. CASE Answer
  BY <1>4 DEF Answer, TypeOK, redis, rounds, tab, Up, At, Go, Handle, State, NoState, Windows
<1> QED
  BY <1>1, <1>2, <1>3, <1>4 DEF TabStep

LEMMA ErrorTypes ==
  ASSUME TypeOK, NEW S \in SUBSET Sockets, Error(S)
  PROVE  /\ faults' \in 0 .. MaxFaults /\ errors' \in 0 .. MaxErrors
         /\ windows' \in SUBSET Windows /\ adrift' \in SUBSET Sockets
  BY BoundsAssumption DEF Error, TypeOK, Windows

LEMMA AbandonedTypes ==
  ASSUME NEW m
  PROVE  Abandoned(m) \in SUBSET Sockets /\ Abandoned(m) \subseteq Of(m)
  BY DEF Abandoned, Of

\* A transaction that fails, applied or not.
LEMMA WriteTypes ==
  ASSUME TypeOK, NEW n \in Nodes, NEW s \in Sockets,
         Record(n, s) \/ Erase(s) \/ UNCHANGED <<sockets, index, version>>
  PROVE  sockets' \in SUBSET Sockets /\ index' \in [Nodes -> SUBSET Sockets] /\ version' \in Nat
  BY HomeAssumption DEF TypeOK

LEMMA RoundFailsTypes ==
  ASSUME TypeOK, RoundsHold, NEW n \in Nodes, RoundFails(n)
  PROVE  TypeOK'
<1>1. CASE BeatFails(n)
  <2>1. PICK S \in SUBSET Sockets : Error(S)
    BY <1>1 DEF BeatFails, Of
  <2>2. epoch' \in Nat /\ registry' \in SUBSET Nodes /\ pulse' \in SUBSET Nodes /\ first' \in SUBSET Nodes
    BY <1>1 DEF BeatFails, TypeOK
  <2> QED
    BY <1>1, <2>1, <2>2, ErrorTypes DEF BeatFails, TypeOK, tab
<1>2. CASE \E s \in Sockets : ReregisterFails(n, s)
  <2>1. PICK s \in Sockets : ReregisterFails(n, s)
    BY <1>2
  <2>2. /\ Record(n, s) \/ UNCHANGED <<sockets, index, version>>
        /\ \E S \in SUBSET Sockets : Error(S)
    BY <2>1 DEF ReregisterFails, Applied, Dropped
  <2>3. todo' \in [Nodes -> SUBSET Sockets]
    BY <2>1 DEF ReregisterFails, TypeOK
  <2> QED
    BY <2>1, <2>2, <2>3, WriteTypes, ErrorTypes DEF ReregisterFails, TypeOK, tab
<1>3. CASE GivesUp(n)
  BY <1>3, ErrorTypes DEF GivesUp, TypeOK, Go, tab
<1>4. CASE ClaimFails(n)
  <2>1. PICK S \in SUBSET Sockets : Error(S)
    BY <1>4, AbandonedTypes DEF ClaimFails
  <2>2. dead' \in [Nodes -> SUBSET Nodes] /\ registry' \in SUBSET Nodes
    BY <1>4 DEF ClaimFails, TypeOK
  <2> QED
    BY <1>4, <2>1, <2>2, ErrorTypes DEF ClaimFails, TypeOK, tab
<1>5. CASE ListFails(n)
  BY <1>5, ErrorTypes, AbandonedTypes DEF ListFails, TypeOK, Go, tab, redis
<1>6. CASE \E s \in Sockets : SweepFails(n, s)
  <2>1. PICK s \in Sockets : SweepFails(n, s)
    BY <1>6
  <2>2. /\ Erase(s) \/ UNCHANGED <<sockets, index, version>>
        /\ \E S \in SUBSET Sockets : Error(S)
    BY <2>1 DEF SweepFails, Applied, Dropped, Astray
  <2>3. todo' \in [Nodes -> SUBSET Sockets]
    BY <2>1 DEF SweepFails, TypeOK
  <2> QED
    BY <2>1, <2>2, <2>3, WriteTypes, ErrorTypes DEF SweepFails, TypeOK, tab
<1>7. CASE ForgetFails(n)
  BY <1>7, ErrorTypes DEF ForgetFails, TypeOK, Go, tab, redis
<1> QED
  BY <1>1, <1>2, <1>3, <1>4, <1>5, <1>6, <1>7 DEF RoundFails

LEMMA FailsTypes ==
  ASSUME TypeOK, RoundsHold, Fails
  PROVE  TypeOK'
<1>1. ASSUME NEW s \in Sockets, OpenFails(s) \/ CloseFails(s) PROVE TypeOK'
  <2>1. /\ Record(Home[s], s) \/ Erase(s) \/ UNCHANGED <<sockets, index, version>>
        /\ \E S \in SUBSET Sockets : Error(S)
    BY <1>1 DEF OpenFails, CloseFails, Applied, Dropped
  <2>2. handler' \in [Sockets -> {"none", "opening", "open", "gone"}] /\ Home[s] \in Nodes
    BY <1>1, HomeAssumption DEF OpenFails, CloseFails, Handle, TypeOK
  <2>3. /\ sockets' \in SUBSET Sockets /\ index' \in [Nodes -> SUBSET Sockets] /\ version' \in Nat
        /\ faults' \in 0 .. MaxFaults /\ errors' \in 0 .. MaxErrors
        /\ windows' \in SUBSET Windows /\ adrift' \in SUBSET Sockets
    BY <2>1, <2>2, WriteTypes, ErrorTypes
  <2> QED
    BY <1>1, <2>2, <2>3 DEF OpenFails, CloseFails, TypeOK, rounds, tab
<1>2. ASSUME NEW n \in Nodes, RoundFails(n) PROVE TypeOK'
  BY <1>2, RoundFailsTypes
<1>3. CASE Lose
  <2>1. events' \in SUBSET [by : Nodes, state : State]
    BY <1>3 DEF Lose, TypeOK
  <2> QED
    BY <1>3, <2>1, ErrorTypes DEF Lose, TypeOK, redis, rounds
<1> QED
  BY <1>1, <1>2, <1>3 DEF Fails

-----------------------------------------------------------------------------
(* Safety.                                                                 *)

\* Most steps only look, or move what none of this depends on.
LEMMA QuietSafe ==
  ASSUME Safe, windows \subseteq windows', adrift \subseteq adrift',
         UNCHANGED <<sockets, index, registry, process, first, round, swept, todo, handler>>
  PROVE  Safe'
  BY DEF Safe, StartedOnly, RoundsHold, SweptAreDead, NoneSweptAlive, CanBeSwept,
      OpenAtRegistered, HasASweeper, Recorded, Up, Of

LEMMA SocketSafe ==
  ASSUME TypeOK, Safe, NEW s \in Sockets, SocketStep(s)
  PROVE  Safe'
<1>1. CASE Enter(s)
  BY <1>1, HomeAssumption, NamesAssumption
  DEF Enter, TypeOK, redis, rounds, Up, Of, At, Go, Handle, Serves,
      Safe, StartedOnly, RoundsHold, SweptAreDead, NoneSweptAlive, CanBeSwept,
      OpenAtRegistered, HasASweeper, Recorded
<1>2. CASE Refuse(s)
  BY <1>2, HomeAssumption, NamesAssumption
  DEF Refuse, TypeOK, redis, rounds, Up, Of, At, Go, Handle,
      Safe, StartedOnly, RoundsHold, SweptAreDead, NoneSweptAlive, CanBeSwept,
      OpenAtRegistered, HasASweeper, Recorded
<1>3. CASE Open(s)
  <2>1. /\ Up(Home[s]) /\ Home[s] \in Nodes /\ windows \subseteq windows'
        /\ sockets' = sockets \cup {s} /\ index' = [index EXCEPT ![Home[s]] = @ \cup {s}]
        /\ handler[s] = "opening" /\ handler' = [handler EXCEPT ![s] = "open"]
        /\ UNCHANGED <<registry, process, rounds, adrift>>
    BY <1>3, HomeAssumption DEF Open, ConnectTx, Handle
  <2>2. \A q \in Sockets : /\ q \in sockets' <=> q \in sockets \/ q = s
                           /\ q \in index'[Home[q]] <=> q \in index[Home[q]] \/ q = s
    BY <2>1, HomeAssumption DEF TypeOK
  <2>3. StartedOnly' /\ RoundsHold' /\ SweptAreDead'
    BY <2>1, <2>2
    DEF TypeOK, Safe, StartedOnly, RoundsHold, SweptAreDead, NoneSweptAlive, rounds, Up, Of
  <2>4. CanBeSwept' /\ OpenAtRegistered'
    BY <2>1, <2>2
    DEF TypeOK, Safe, CanBeSwept, OpenAtRegistered, NoneSweptAlive, Recorded, rounds, Up
  <2>5. HasASweeper'
    BY <2>1, <2>2 DEF TypeOK, Safe, HasASweeper, rounds, Up
  <2> QED
    BY <2>3, <2>4, <2>5 DEF Safe
<1>4. CASE Close(s)
  <2>1. /\ Home[s] \in Nodes /\ windows \subseteq windows'
        /\ sockets' = sockets \ {s} /\ index' = [index EXCEPT ![Home[s]] = @ \ {s}]
        /\ handler[s] = "open" /\ handler' = [handler EXCEPT ![s] = "gone"]
        /\ UNCHANGED <<registry, process, rounds, adrift>>
    BY <1>4, HomeAssumption DEF Close, RemoveTx, Handle
  <2>2. \A q \in Sockets : /\ q \in sockets' <=> q \in sockets /\ q # s
                           /\ q \in index'[Home[q]] <=> q \in index[Home[q]] /\ q # s
    BY <2>1, HomeAssumption DEF TypeOK
  <2>3. StartedOnly' /\ RoundsHold' /\ SweptAreDead'
    BY <2>1, <2>2
    DEF TypeOK, Safe, StartedOnly, RoundsHold, SweptAreDead, NoneSweptAlive, rounds, Of
  <2>4. CanBeSwept' /\ OpenAtRegistered'
    BY <2>1, <2>2
    DEF TypeOK, Safe, CanBeSwept, OpenAtRegistered, NoneSweptAlive, Recorded, rounds, Up
  <2>5. HasASweeper'
    BY <2>1, <2>2 DEF TypeOK, Safe, HasASweeper, rounds, Up
  <2> QED
    BY <2>3, <2>4, <2>5 DEF Safe
<1> QED
  BY <1>1, <1>2, <1>3, <1>4 DEF SocketStep

LEMMA RoundSafe ==
  ASSUME TypeOK, Safe, NEW n \in Nodes, RoundStep(n)
  PROVE  Safe'
<1>1. CASE Beat(n)
  BY <1>1, HomeAssumption, NamesAssumption
  DEF Beat, TypeOK, redis, rounds, Up, Of, At, Go, Handle, InHub,
      Safe, StartedOnly, RoundsHold, SweptAreDead, NoneSweptAlive, CanBeSwept,
      OpenAtRegistered, HasASweeper, Recorded
<1>2. CASE \E s \in Sockets : Reregister(n, s)
  BY <1>2, HomeAssumption, NamesAssumption
  DEF Reregister, TypeOK, redis, rounds, Up, Of, At, Go, Handle, ConnectTx, Through,
      Safe, StartedOnly, RoundsHold, SweptAreDead, NoneSweptAlive, CanBeSwept,
      OpenAtRegistered, HasASweeper, Recorded
<1>3. CASE Registered(n)
  BY <1>3, HomeAssumption, NamesAssumption
  DEF Registered, TypeOK, redis, rounds, Up, Of, At, Go, Handle,
      Safe, StartedOnly, RoundsHold, SweptAreDead, NoneSweptAlive, CanBeSwept,
      OpenAtRegistered, HasASweeper, Recorded
<1>4. CASE Listen(n)
  BY <1>4, HomeAssumption, NamesAssumption
  DEF Listen, TypeOK, redis, rounds, Up, Of, At, Go, Handle,
      Safe, StartedOnly, RoundsHold, SweptAreDead, NoneSweptAlive, CanBeSwept,
      OpenAtRegistered, HasASweeper, Recorded
<1>5. CASE TakeRound(n)
  BY <1>5, HomeAssumption, NamesAssumption
  DEF TakeRound, TypeOK, redis, rounds, Up, Of, At, Go, Handle,
      Safe, StartedOnly, RoundsHold, SweptAreDead, NoneSweptAlive, CanBeSwept,
      OpenAtRegistered, HasASweeper, Recorded
<1>6. CASE Claim(n)
  BY <1>6, HomeAssumption, NamesAssumption
  DEF Claim, TypeOK, redis, rounds, Up, Of, At, Go, Handle,
      Safe, StartedOnly, RoundsHold, SweptAreDead, NoneSweptAlive, CanBeSwept,
      OpenAtRegistered, HasASweeper, Recorded
<1>7. CASE RoundEnds(n)
  BY <1>7, HomeAssumption, NamesAssumption
  DEF RoundEnds, TypeOK, redis, rounds, Up, Of, At, Go, Handle,
      Safe, StartedOnly, RoundsHold, SweptAreDead, NoneSweptAlive, CanBeSwept,
      OpenAtRegistered, HasASweeper, Recorded
<1>8. CASE ListSockets(n)
  BY <1>8, HomeAssumption, NamesAssumption
  DEF ListSockets, TypeOK, redis, rounds, Up, Of, At, Go, Handle,
      Safe, StartedOnly, RoundsHold, SweptAreDead, NoneSweptAlive, CanBeSwept,
      OpenAtRegistered, HasASweeper, Recorded
<1>9. CASE \E s \in Sockets : SweepSocket(n, s)
  <2>1. PICK s \in Sockets : SweepSocket(n, s)
    BY <1>9
  <2>2. /\ Home[s] \in Nodes /\ windows \subseteq windows' /\ round[n] = "remove" /\ s \in todo[n]
        /\ sockets' = sockets \ {s} /\ index' = [index EXCEPT ![Home[s]] = @ \ {s}]
        /\ todo' = [todo EXCEPT ![n] = @ \ {s}]
        /\ adrift' = adrift \cup Astray({s})
        /\ UNCHANGED <<registry, process, first, round, swept, handler>>
    BY <2>1, HomeAssumption DEF SweepSocket, RemoveTx, At
  <2>3. \A q \in Sockets : /\ q \in sockets' <=> q \in sockets /\ q # s
                           /\ q \in index'[Home[q]] <=> q \in index[Home[q]] /\ q # s
    BY <2>2, HomeAssumption DEF TypeOK
  <2>4. \A m \in Nodes : /\ todo'[m] \subseteq todo[m]
                         /\ \A q \in todo[m] : q \in todo'[m] \/ (q = s /\ m = n)
    BY <2>2 DEF TypeOK
  <2>5. StartedOnly' /\ RoundsHold'
    BY <2>2, <2>4 DEF Safe, StartedOnly, RoundsHold, Of
  <2>6. SweptAreDead'
    BY <2>2, <2>4 DEF TypeOK, Safe, SweptAreDead, NoneSweptAlive
  <2>7. CanBeSwept'
    BY <2>2, <2>3 DEF Safe, CanBeSwept
  <2>8. OpenAtRegistered'
    <3> SUFFICES ASSUME NEW q \in Sockets \ adrift', handler[q] = "open", Up(Home[q]),
                        Home[q] \in registry
                 PROVE  Recorded(q)' \/ (round[Home[q]] = "register" /\ q \in todo'[Home[q]])
      BY <2>2 DEF OpenAtRegistered, Up
    <3>1. Recorded(q) \/ (round[Home[q]] = "register" /\ q \in todo[Home[q]])
      BY <2>2 DEF Safe, OpenAtRegistered
    <3>2. q # s
      BY <2>2 DEF Astray
    <3> QED
      BY <2>2, <2>3, <2>4, <3>1, <3>2, HomeAssumption DEF Recorded
  <2>9. HasASweeper'
    BY <2>2, <2>3, <2>4 DEF TypeOK, Safe, HasASweeper, Up
  <2> QED
    BY <2>5, <2>6, <2>7, <2>8, <2>9 DEF Safe
<1>10. CASE Forget(n)
  BY <1>10, HomeAssumption, NamesAssumption
  DEF Forget, Astray, TypeOK, redis, rounds, Up, Of, At, Go, Handle,
      Safe, StartedOnly, RoundsHold, SweptAreDead, NoneSweptAlive, CanBeSwept,
      OpenAtRegistered, HasASweeper, Recorded
<1> QED
  BY <1>1, <1>2, <1>3, <1>4, <1>5, <1>6, <1>7, <1>8, <1>9, <1>10 DEF RoundStep

LEMMA FaultSafe ==
  ASSUME TypeOK, Safe, NEW n \in Nodes, FaultStep(n)
  PROVE  Safe'
<1>1. CASE Start(n)
  BY <1>1, HomeAssumption, NamesAssumption
  DEF Start, TypeOK, redis, rounds, Up, Of, At, Go, Handle,
      Safe, StartedOnly, RoundsHold, SweptAreDead, NoneSweptAlive, CanBeSwept,
      OpenAtRegistered, HasASweeper, Recorded
<1>2. CASE Die(n)
  <2>1. /\ Up(n) /\ windows \subseteq windows'
        /\ process' = [process EXCEPT ![n] = "dead"]
        /\ handler' = [s \in Sockets |-> IF Home[s] = n /\ handler[s] # "none" THEN "gone" ELSE handler[s]]
        /\ round' = [round EXCEPT ![n] = "idle"] /\ todo' = [todo EXCEPT ![n] = {}]
        /\ swept' = [swept EXCEPT ![n] = None]
        /\ UNCHANGED <<sockets, index, registry, first>>
        /\ adrift' = adrift \cup {s \in Sockets : Home[s] = swept[n] \/ (Home[s] = n /\ n \notin registry)}
    BY <1>2 DEF Die, redis
  <2>2. StartedOnly' /\ RoundsHold'
    BY <2>1 DEF TypeOK, Safe, StartedOnly, RoundsHold, Of
  <2>3. SweptAreDead' /\ CanBeSwept'
    BY <2>1 DEF TypeOK, Safe, SweptAreDead, CanBeSwept, NoneSweptAlive
  <2>4. OpenAtRegistered'
    BY <2>1 DEF TypeOK, Safe, OpenAtRegistered, NoneSweptAlive, Recorded, Up
  <2>5. HasASweeper'
    <3> SUFFICES ASSUME "sweptAlive" \notin windows', NEW s \in sockets \ adrift',
                        process'[Home[s]] = "dead", Home[s] \notin registry
                 PROVE  \E m \in Nodes : /\ Up(m)' /\ swept'[m] = Home[s]
                                         /\ round'[m] = "list" \/ s \in todo'[m]
      BY <2>1 DEF HasASweeper
    <3>1. /\ "sweptAlive" \notin windows /\ s \in sockets \ adrift
          /\ swept[n] # Home[s] /\ process[Home[s]] = "dead"
      BY <2>1, HomeAssumption DEF TypeOK
    <3>2. PICK m \in Nodes : /\ Up(m) /\ swept[m] = Home[s]
                             /\ round[m] = "list" \/ s \in todo[m]
      BY <3>1 DEF Safe, HasASweeper
    <3>3. Home[s] \in Nodes
      BY HomeAssumption DEF TypeOK
    <3>4. m # n
      BY <3>1, <3>2
    <3>5. /\ process'[m] = process[m] /\ swept'[m] = swept[m]
          /\ round'[m] = round[m] /\ todo'[m] = todo[m]
      BY <2>1, <3>4 DEF TypeOK
    <3> QED
      BY <3>2, <3>5 DEF Up
  <2> QED
    BY <2>2, <2>3, <2>4, <2>5 DEF Safe
<1>3. CASE PulseRunsOut(n)
  BY <1>3, QuietSafe DEF PulseRunsOut, redis, rounds, Fault
<1> QED
  BY <1>1, <1>2, <1>3 DEF FaultStep

LEMMA RedisSafe ==
  ASSUME TypeOK, Safe, RedisStep
  PROVE  Safe'
<1>1. CASE RoundKeyRunsOut
  BY <1>1, QuietSafe DEF RoundKeyRunsOut, redis, rounds
<1>2. CASE RestartRedis
  BY <1>2, HomeAssumption, NamesAssumption
  DEF RestartRedis, TypeOK, redis, rounds, Up, Of, At, Go, Handle,
      Safe, StartedOnly, RoundsHold, SweptAreDead, NoneSweptAlive, CanBeSwept,
      OpenAtRegistered, HasASweeper, Recorded
<1> QED
  BY <1>1, <1>2 DEF RedisStep

LEMMA TabSafe ==
  ASSUME TypeOK, Safe, TabStep
  PROVE  Safe'
<1>1. CASE Note
  BY <1>1, QuietSafe DEF Note, redis, rounds
<1>2. CASE \E n \in Nodes : Ask(n)
  BY <1>2, QuietSafe DEF Ask, redis, rounds, Through
<1>3. CASE ReadVersion
  BY <1>3, QuietSafe DEF ReadVersion, redis, rounds
<1>4. CASE Answer
  BY <1>4, QuietSafe DEF Answer, redis, rounds
<1> QED
  BY <1>1, <1>2, <1>3, <1>4 DEF TabStep

-----------------------------------------------------------------------------
(* Calls that fail.                                                        *)

\* Whatever fails leaves its mark.
LEMMA FailsMark ==
  ASSUME Fails
  PROVE  "failed" \in windows' /\ windows \subseteq windows' /\ adrift \subseteq adrift'
  BY DEF Fails, OpenFails, CloseFails, RoundFails, BeatFails, ReregisterFails, GivesUp, ClaimFails,
         ListFails, SweepFails, ForgetFails, Lose, Applied, Dropped, Error

LEMMA SocketFailsSafe ==
  ASSUME TypeOK, Safe, NEW s \in Sockets, OpenFails(s) \/ CloseFails(s)
  PROVE  Safe'
<1>1. windows \subseteq windows' /\ adrift \subseteq adrift'
  BY FailsMark DEF Fails
<1>2. CASE OpenFails(s) /\ Record(Home[s], s)
  <2>1. /\ Up(Home[s]) /\ Home[s] \in Nodes
        /\ handler[s] = "opening" /\ handler' = [handler EXCEPT ![s] = "open"]
        /\ UNCHANGED <<registry, process, rounds>>
    BY <1>2, HomeAssumption DEF OpenFails, Handle
  <2>2. \A q \in Sockets : /\ q \in sockets' <=> q \in sockets \/ q = s
                           /\ q \in index'[Home[q]] <=> q \in index[Home[q]] \/ q = s
    BY <1>2, <2>1, HomeAssumption DEF TypeOK
  <2>3. StartedOnly' /\ RoundsHold' /\ SweptAreDead'
    BY <1>1, <1>2, <2>1, <2>2
    DEF TypeOK, Safe, StartedOnly, RoundsHold, SweptAreDead, NoneSweptAlive, rounds, Up, Of
  <2>4. CanBeSwept' /\ OpenAtRegistered'
    BY <1>1, <2>1, <2>2
    DEF TypeOK, Safe, CanBeSwept, OpenAtRegistered, NoneSweptAlive, Recorded, rounds, Up
  <2>5. HasASweeper'
    <3>1. \A q \in sockets' \ adrift' : process'[Home[q]] = "dead" => q \in sockets \ adrift
      BY <1>1, <1>2, <2>1, <2>2 DEF TypeOK, Up
    <3> QED
      BY <1>1, <2>1, <3>1 DEF Safe, HasASweeper, rounds, Up
  <2> QED
    BY <2>3, <2>4, <2>5 DEF Safe
<1>3. CASE OpenFails(s) /\ Dropped({s})
  <2>1. /\ s \in adrift' /\ handler[s] = "opening" /\ handler' = [handler EXCEPT ![s] = "open"]
        /\ UNCHANGED <<sockets, index, registry, process, rounds>>
    BY <1>3 DEF OpenFails, Dropped, Error, Handle
  <2> QED
    BY <1>1, <2>1
    DEF TypeOK, Safe, StartedOnly, RoundsHold, SweptAreDead, NoneSweptAlive, CanBeSwept,
        OpenAtRegistered, HasASweeper, Recorded, rounds, Up, Of
<1>4. CASE CloseFails(s) /\ Erase(s)
  <2>1. /\ handler[s] = "open" /\ handler' = [handler EXCEPT ![s] = "gone"]
        /\ UNCHANGED <<registry, process, rounds>>
    BY <1>4 DEF CloseFails, Handle
  <2>2. \A q \in Sockets : /\ q \in sockets' <=> q \in sockets /\ q # s
                           /\ q \in index'[Home[q]] <=> q \in index[Home[q]] /\ q # s
    BY <1>4, HomeAssumption DEF TypeOK
  <2>3. StartedOnly' /\ RoundsHold' /\ SweptAreDead'
    BY <1>1, <1>4, <2>1, <2>2, HomeAssumption
    DEF TypeOK, Safe, StartedOnly, RoundsHold, SweptAreDead, NoneSweptAlive, rounds, Of
  <2>4. CanBeSwept' /\ OpenAtRegistered'
    BY <1>1, <2>1, <2>2
    DEF TypeOK, Safe, CanBeSwept, OpenAtRegistered, NoneSweptAlive, Recorded, rounds, Up
  <2>5. HasASweeper'
    <3>1. \A q \in sockets' \ adrift' : q \in sockets \ adrift
      BY <1>1, <2>2, <1>4
    <3> QED
      BY <1>1, <2>1, <3>1 DEF Safe, HasASweeper, rounds, Up
  <2> QED
    BY <2>3, <2>4, <2>5 DEF Safe
<1>5. CASE CloseFails(s) /\ Dropped({})
  <2>1. /\ handler[s] = "open" /\ handler' = [handler EXCEPT ![s] = "gone"]
        /\ UNCHANGED <<sockets, index, registry, process, rounds>>
    BY <1>5 DEF CloseFails, Dropped, Handle
  <2> QED
    BY <1>1, <2>1
    DEF TypeOK, Safe, StartedOnly, RoundsHold, SweptAreDead, NoneSweptAlive, CanBeSwept,
        OpenAtRegistered, HasASweeper, Recorded, rounds, Up, Of
<1> QED
  BY <1>2, <1>3, <1>4, <1>5 DEF OpenFails, CloseFails, Applied

LEMMA RoundFailsSafe ==
  ASSUME TypeOK, Safe, NEW n \in Nodes, RoundFails(n)
  PROVE  Safe'
<1>1. windows \subseteq windows' /\ adrift \subseteq adrift'
  BY FailsMark DEF Fails
<1>2. CASE BeatFails(n)
  <2>1. /\ Up(n) /\ registry \subseteq registry' /\ registry' \subseteq registry \cup {n}
        /\ first' = first \ {n}
        /\ UNCHANGED <<sockets, index, process, round, swept, todo, handler>>
        /\ n \in registry' \ registry => {s \in Of(n) : handler[s] = "open"} \subseteq adrift'
    BY <1>2 DEF BeatFails, At, Error
  <2>2. StartedOnly' /\ RoundsHold' /\ SweptAreDead' /\ CanBeSwept'
    BY <1>1, <2>1
    DEF TypeOK, Safe, StartedOnly, RoundsHold, SweptAreDead, NoneSweptAlive, CanBeSwept, Up, Of
  <2>3. OpenAtRegistered'
    BY <1>1, <2>1 DEF Safe, OpenAtRegistered, Recorded, Up, Of
  <2>4. HasASweeper'
    BY <1>1, <2>1 DEF Safe, HasASweeper, Up
  <2> QED
    BY <2>2, <2>3, <2>4 DEF Safe
<1>3. CASE \E s \in Sockets : ReregisterFails(n, s)
  <2>1. PICK s \in Sockets : ReregisterFails(n, s)
    BY <1>3
  <2>2. /\ round[n] = "register" /\ s \in todo[n] /\ Up(n)
        /\ todo' = [todo EXCEPT ![n] = @ \ {s}]
        /\ UNCHANGED <<registry, process, first, round, swept, handler>>
        /\ Record(n, s) \/ (UNCHANGED <<sockets, index>> /\ s \in adrift')
    BY <2>1 DEF ReregisterFails, At, Applied, Dropped, Error
  <2>3. Home[s] = n
    BY <2>2 DEF Safe, RoundsHold, Of
  <2>4. \A q \in Sockets : q # s => /\ q \in sockets' <=> q \in sockets
                                    /\ q \in index'[Home[q]] <=> q \in index[Home[q]]
    BY <2>2, <2>3, HomeAssumption DEF TypeOK
  <2>5. Recorded(s)' \/ (UNCHANGED <<sockets, index>> /\ s \in adrift')
    BY <2>2, <2>3 DEF Recorded, TypeOK
  <2>6. \A m \in Nodes : /\ todo'[m] \subseteq todo[m]
                         /\ \A q \in todo[m] : q \in todo'[m] \/ (q = s /\ m = n)
    BY <2>2 DEF TypeOK
  <2>7. index' \in [Nodes -> SUBSET Sockets] /\ \A m \in Nodes : index'[m] \subseteq index[m] \cup ({s} \cap Of(m))
    BY <2>2, <2>3 DEF TypeOK, Of
  <2>8. StartedOnly' /\ RoundsHold'
    BY <2>2, <2>6, <2>7 DEF Safe, StartedOnly, RoundsHold, Of
  <2>9. SweptAreDead'
    <3> SUFFICES ASSUME NoneSweptAlive', NEW m \in Nodes, swept[m] # None
                 PROVE  /\ process[swept[m]] = "dead" /\ swept[m] \notin registry
                        /\ round[m] = "remove" =>
                              \A q \in sockets' \ adrift' : Home[q] = swept[m] => q \in todo'[m]
      BY <2>2 DEF SweptAreDead
    <3>1. /\ process[swept[m]] = "dead" /\ swept[m] \notin registry
          /\ round[m] = "remove" => \A q \in sockets \ adrift : Home[q] = swept[m] => q \in todo[m]
      BY <1>1 DEF Safe, SweptAreDead, NoneSweptAlive
    <3>2. swept[m] # n
      BY <2>2, <3>1 DEF Up
    <3> QED
      BY <1>1, <2>2, <2>3, <3>1, <3>2 DEF TypeOK
  <2>10. CanBeSwept'
    BY <1>1, <2>2, <2>3, <2>4, <2>5 DEF Safe, CanBeSwept, Recorded
  <2>11. OpenAtRegistered'
    BY <1>1, <2>2, <2>4, <2>5, <2>6, HomeAssumption DEF Safe, OpenAtRegistered, Recorded, Up
  <2>12. HasASweeper'
    <3> SUFFICES ASSUME "sweptAlive" \notin windows', NEW q \in sockets' \ adrift',
                        process[Home[q]] = "dead", Home[q] \notin registry
                 PROVE  \E m \in Nodes : /\ Up(m)' /\ swept[m] = Home[q]
                                         /\ round[m] = "list" \/ q \in todo'[m]
      BY <2>2 DEF HasASweeper
    <3>1. q # s /\ q \in sockets \ adrift
      BY <1>1, <2>2, <2>3 DEF Up, TypeOK
    <3>2. PICK m \in Nodes : /\ Up(m) /\ swept[m] = Home[q]
                             /\ round[m] = "list" \/ q \in todo[m]
      BY <1>1, <3>1 DEF Safe, HasASweeper
    <3> QED
      BY <2>2, <2>6, <3>1, <3>2 DEF Up
  <2> QED
    BY <2>8, <2>9, <2>10, <2>11, <2>12 DEF Safe
<1>4. CASE GivesUp(n)
  <2>1. /\ round[n] \in {"listen", "sweep"} /\ round' = [round EXCEPT ![n] = "idle"]
        /\ UNCHANGED <<sockets, index, registry, process, first, swept, todo, handler>>
    BY <1>4 DEF GivesUp, At, Go
  <2> QED
    BY <1>1, <2>1
    DEF TypeOK, Safe, StartedOnly, RoundsHold, SweptAreDead, NoneSweptAlive, CanBeSwept,
        OpenAtRegistered, HasASweeper, Recorded, Up, Of
<1>5. CASE ClaimFails(n)
  <2>1. PICK m \in Nodes : /\ registry' = registry \/ registry' = registry \ {m}
                           /\ m \in registry \ registry' /\ ~Up(m) => Of(m) \subseteq adrift'
    BY <1>5 DEF ClaimFails, Error, Abandoned, TypeOK
  <2>2. UNCHANGED <<sockets, index, process, first, round, swept, todo, handler>>
    BY <1>5 DEF ClaimFails
  <2>3. StartedOnly' /\ RoundsHold' /\ SweptAreDead' /\ CanBeSwept' /\ OpenAtRegistered'
    BY <1>1, <2>1, <2>2
    DEF Safe, StartedOnly, RoundsHold, SweptAreDead, NoneSweptAlive, CanBeSwept,
        OpenAtRegistered, Recorded, Up, Of
  <2>4. HasASweeper'
    BY <1>1, <2>1, <2>2 DEF TypeOK, Safe, HasASweeper, Up, Of
  <2> QED
    BY <2>3, <2>4 DEF Safe
<1>6. CASE ListFails(n)
  <2>1. /\ round[n] = "list" /\ Abandoned(swept[n]) \subseteq adrift'
        /\ swept' = [swept EXCEPT ![n] = None] /\ round' = [round EXCEPT ![n] = "claim"]
        /\ UNCHANGED <<sockets, index, registry, process, first, todo, handler>>
    BY <1>6 DEF ListFails, At, Go, Error, redis
  <2>2. StartedOnly' /\ RoundsHold' /\ SweptAreDead' /\ CanBeSwept' /\ OpenAtRegistered'
    BY <1>1, <2>1
    DEF TypeOK, Safe, StartedOnly, RoundsHold, SweptAreDead, NoneSweptAlive, CanBeSwept,
        OpenAtRegistered, Recorded, Up, Of
  <2>3. HasASweeper'
    BY <1>1, <2>1 DEF TypeOK, Safe, HasASweeper, Abandoned, Up, Of
  <2> QED
    BY <2>2, <2>3 DEF Safe
<1>7. CASE \E s \in Sockets : SweepFails(n, s)
  <2>1. PICK s \in Sockets : SweepFails(n, s)
    BY <1>7
  <2>2. /\ round[n] = "remove" /\ s \in todo[n]
        /\ todo' = [todo EXCEPT ![n] = @ \ {s}]
        /\ UNCHANGED <<registry, process, first, round, swept, handler>>
        /\ \/ Erase(s) /\ adrift' = adrift \cup Astray({s})
           \/ UNCHANGED <<sockets, index>> /\ s \in adrift'
    BY <2>1 DEF SweepFails, At, Applied, Dropped, Error
  <2>3. \A q \in Sockets : q # s => /\ q \in sockets' <=> q \in sockets
                                    /\ q \in index'[Home[q]] <=> q \in index[Home[q]]
    BY <2>2, HomeAssumption DEF TypeOK
  <2>4. \/ s \notin sockets' /\ s \notin index'[Home[s]] /\ (Home[s] \in registry => s \in adrift')
        \/ s \in adrift'
    BY <2>2, HomeAssumption DEF TypeOK, Astray
  <2>5. \A m \in Nodes : /\ todo'[m] \subseteq todo[m] /\ index'[m] \subseteq index[m]
                         /\ \A q \in todo[m] : q \in todo'[m] \/ (q = s /\ m = n)
    BY <2>2, HomeAssumption DEF TypeOK
  <2>6. StartedOnly' /\ RoundsHold' /\ SweptAreDead'
    BY <1>1, <2>2, <2>3, <2>4, <2>5
    DEF TypeOK, Safe, StartedOnly, RoundsHold, SweptAreDead, NoneSweptAlive, Of
  <2>7. CanBeSwept' /\ OpenAtRegistered'
    BY <1>1, <2>2, <2>3, <2>4, <2>5, HomeAssumption
    DEF Safe, CanBeSwept, OpenAtRegistered, NoneSweptAlive, Recorded, Up
  <2>8. HasASweeper'
    BY <1>1, <2>2, <2>3, <2>4, <2>5 DEF TypeOK, Safe, HasASweeper, Up
  <2> QED
    BY <2>6, <2>7, <2>8 DEF Safe
<1>8. CASE ForgetFails(n)
  <2>1. /\ round[n] = "remove" /\ todo[n] = {}
        /\ swept' = [swept EXCEPT ![n] = None] /\ round' = [round EXCEPT ![n] = "claim"]
        /\ UNCHANGED <<sockets, index, registry, process, first, todo, handler>>
    BY <1>8 DEF ForgetFails, At, Go, redis
  <2> QED
    BY <1>1, <2>1, HomeAssumption, NamesAssumption
    DEF TypeOK, Safe, StartedOnly, RoundsHold, SweptAreDead, NoneSweptAlive, CanBeSwept,
        OpenAtRegistered, HasASweeper, Recorded, Up, Of
<1> QED
  BY <1>2, <1>3, <1>4, <1>5, <1>6, <1>7, <1>8 DEF RoundFails

LEMMA FailsSafe ==
  ASSUME TypeOK, Safe, Fails
  PROVE  Safe'
<1>1. CASE Lose
  BY <1>1, FailsMark, QuietSafe DEF Lose, redis, rounds
<1> QED
  BY <1>1, SocketFailsSafe, RoundFailsSafe DEF Fails

-----------------------------------------------------------------------------
(* The theorems.                                                           *)

LEMMA InitIInv == Init => IInv
<1> SUFFICES ASSUME Init PROVE IInv
  OBVIOUS
<1>1. TypeOK
  <2>1. Old \subseteq Nodes /\ NoState \in State
    BY DEF Old, NoState, State
  <2>2. /\ process \in [Nodes -> {"new", "up", "dead"}] /\ first \in SUBSET Nodes
        /\ alive \in [Nodes -> SUBSET Nodes] /\ epochs \in [Nodes -> Nat]
    BY <2>1, NewcomersAssumption DEF Init
  <2>3. /\ lookup \in [at : {"none", "sockets", "version", "done"}, state : State, read : Nat]
        /\ faults \in 0 .. MaxFaults /\ errors \in 0 .. MaxErrors
    BY <2>1, BoundsAssumption DEF Init
  <2> QED
    BY <2>1, <2>2, <2>3 DEF Init, TypeOK
<1>2. StartedOnly
  BY DEF Init, StartedOnly, Old
<1>3. RoundsHold
  BY DEF Init, RoundsHold
<1>4. Safe
  <2>1. \A n \in Nodes : swept[n] = None
    BY DEF Init
  <2>2. SweptAreDead /\ OpenAtRegistered
    BY <2>1 DEF Init, SweptAreDead, OpenAtRegistered
  <2>3. CanBeSwept /\ HasASweeper
    BY HomeAssumption DEF Init, CanBeSwept, HasASweeper
  <2> QED
    BY <1>2, <1>3, <2>2, <2>3 DEF Safe
<1> QED
  BY <1>1, <1>4 DEF IInv

LEMMA NextIInv == IInv /\ [Next]_vars => IInv'
<1> SUFFICES ASSUME IInv, [Next]_vars PROVE IInv'
  OBVIOUS
<1>1. TypeOK /\ Safe /\ RoundsHold
  BY DEF IInv, Safe
<1>2. CASE UNCHANGED vars
  <2>1. TypeOK'
    BY <1>1, <1>2 DEF vars, redis, rounds, tab, TypeOK
  <2>2. Safe'
    BY <1>1, <1>2, QuietSafe DEF vars, redis, rounds
  <2> QED
    BY <2>1, <2>2 DEF IInv
<1>3. ASSUME NEW s \in Sockets, SocketStep(s) PROVE IInv'
  BY <1>1, <1>3, SocketTypes, SocketSafe DEF IInv
<1>4. ASSUME NEW n \in Nodes, RoundStep(n) PROVE IInv'
  BY <1>1, <1>4, RoundTypes, RoundSafe DEF IInv
<1>5. ASSUME NEW n \in Nodes, FaultStep(n) PROVE IInv'
  BY <1>1, <1>5, FaultTypes, FaultSafe DEF IInv
<1>6. CASE TabStep
  BY <1>1, <1>6, TabTypes, TabSafe DEF IInv
<1>7. CASE RedisStep
  BY <1>1, <1>7, RedisTypes, RedisSafe DEF IInv
<1>8. CASE Fails
  BY <1>1, <1>8, FailsTypes, FailsSafe DEF IInv
<1> QED
  BY <1>2, <1>3, <1>4, <1>5, <1>6, <1>7, <1>8
  DEF Next, SocketStep, FaultStep, RedisStep, TabStep, Fails

\* The invariant, for every size.
THEOREM PresenceInvariant == Spec => []IInv
  BY InitIInv, NextIInv, PTL DEF Spec

\* The types.
THEOREM PresenceTypes == Spec => []TypeOK
  BY PresenceInvariant, PTL DEF IInv

\* connect and remove change both sets of a socket in one transaction, and sweepNode
\* forgets a node's set only when it is empty.
THEOREM PresenceCanBeSwept == Spec => []CanBeSwept
  BY PresenceInvariant, PTL DEF IInv, Safe

\* socketOpened and reregister leave no open socket unrecorded, even when Redis has
\* come back empty.
THEOREM PresenceOpenIsRecorded == Spec => []OpenIsRecorded
<1>1. IInv => OpenIsRecorded
  BY HomeAssumption
  DEF IInv, Safe, OpenIsRecorded, OpenAtRegistered, StartedOnly, Recorded, Settled, TypeOK
<1> QED
  BY <1>1, PresenceInvariant, PTL

\* What a dead node left has somebody to remove it.
THEOREM PresenceHasASweeper == Spec => []HasASweeper
  BY PresenceInvariant, PTL DEF IInv, Safe
-----------------------------------------------------------------------------
(* What the tab shows.  Outside the windows a decision goes wrong only about    *)
(* nodes that are gone, so what was announced last, or answered since, is right: *)
(* "offline" leaves no socket of a live node, and "online" leaves a socket.      *)

Clean == windows = {}
Right(o) == (~o => \A s \in sockets : ~Alive(s)) /\ (o => sockets # {})

\* A node that has not beaten does nothing.
FirstIsIdle ==
    /\ \A n \in Nodes : process[n] = "new" => n \in first
    /\ \A n \in first : round[n] = "idle"

\* No living node is ever forgotten, so nothing is registered again, and what is
\* recorded of a living node is open.
Steady ==
    Clean =>
        /\ \A n \in Nodes : Up(n) /\ n \notin first => n \in registry
        /\ \A n \in Nodes : round[n] # "register"
        /\ \A s \in sockets : /\ handler[s] \notin {"none", "opening"}
                              /\ Up(Home[s]) => handler[s] = "open"
        /\ adrift = {}

\* Redis has one life, and whoever speaks has read its epoch.
OneLife ==
    Clean =>
        /\ epoch = 1 /\ \A n \in Nodes \ first : epochs[n] = 1
        /\ \A e \in events : e.state.epoch = 1
        /\ shown = NoState \/ shown.epoch = 1
        /\ lookup.at \in {"sockets", "version"} => lookup.state.epoch = 1

Counted ==
    Clean =>
        /\ \A e \in events : e.state.version <= version
        /\ shown.version <= version
        /\ lookup.at \in {"sockets", "version"} => lookup.read <= version
        /\ lookup.at = "version" => /\ lookup.state.version \in {lookup.read, lookup.read + 1}
                                     /\ lookup.state.version <= version

\* The newest of what is on its way and what is shown is right,
LatestIsRight ==
    Clean =>
        /\ \A e \in events :
             (\A d \in events : d.state.version <= e.state.version) /\ shown.version <= e.state.version
                 => Right(e.state.online)
        /\ (\A d \in events : d.state.version < shown.version) => Right(shown.online)

\* and so is an answer on its way, unless something newer was announced.
AnswerIsRight ==
    Clean /\ lookup.at \in {"sockets", "version"}
          /\ (\A d \in events : d.state.version <= lookup.read) /\ shown.version <= lookup.read
        => Right(lookup.state.online)

Told == FirstIsIdle /\ Steady /\ OneLife /\ Counted /\ LatestIsRight /\ AnswerIsRight

LEMMA InitTold == Init => Told
<1> SUFFICES ASSUME Init PROVE Told
  OBVIOUS
<1>1. FirstIsIdle /\ Steady
  BY NewcomersAssumption DEF Init, FirstIsIdle, Steady, Old, Up
<1>2. OneLife /\ Counted
  BY DEF Init, OneLife, Counted, Old, NoState
<1>3. LatestIsRight /\ AnswerIsRight
  BY DEF Init, LatestIsRight, AnswerIsRight, Right, NoState
<1> QED
  BY <1>1, <1>2, <1>3 DEF Told

\* A window that is open stays open.
LEMMA WindowsStay ==
  ASSUME [Next]_vars
  PROVE  windows \subseteq windows'
<1>1. ASSUME NEW s \in Sockets, SocketStep(s) PROVE windows \subseteq windows'
  BY <1>1 DEF SocketStep, Enter, Refuse, Open, Close
<1>2. ASSUME NEW n \in Nodes, RoundStep(n) PROVE windows \subseteq windows'
  BY <1>2 DEF RoundStep, Beat, Reregister, Registered, Listen, TakeRound, Claim, RoundEnds,
              ListSockets, SweepSocket, Forget
<1>3. ASSUME NEW n \in Nodes, FaultStep(n) PROVE windows \subseteq windows'
  BY <1>3 DEF FaultStep, Start, Die, PulseRunsOut
<1>4. ASSUME RedisStep \/ TabStep PROVE windows \subseteq windows'
  BY <1>4 DEF RedisStep, TabStep, RoundKeyRunsOut, RestartRedis, Note, Ask, ReadVersion, Answer
<1>5. CASE Fails
  BY <1>5, FailsMark
<1> QED
  BY <1>1, <1>2, <1>3, <1>4, <1>5
  DEF Next, SocketStep, FaultStep, RedisStep, TabStep, Fails, vars

-----------------------------------------------------------------------------
(* Who is idle, and what is recorded.                                        *)

LEMMA FirstStep ==
  ASSUME TypeOK, FirstIsIdle, [Next]_vars
  PROVE  FirstIsIdle'
<1>1. ASSUME NEW s \in Sockets, SocketStep(s) PROVE FirstIsIdle'
  BY <1>1 DEF SocketStep, Enter, Refuse, Open, Close, FirstIsIdle, rounds
<1>2. ASSUME NEW n \in Nodes, RoundStep(n) PROVE FirstIsIdle'
  <2>1. /\ process' = process /\ first' \subseteq first
        /\ \A m \in first : m \in first' \/ m = n
        /\ \A m \in Nodes \ {n} : round'[m] = round[m]
    BY <1>2 DEF RoundStep, Beat, Reregister, Registered, Listen, TakeRound, Claim, RoundEnds,
                ListSockets, SweepSocket, Forget, Go, TypeOK
  <2>2. n \notin first'
    BY <1>2 DEF RoundStep, Beat, Reregister, Registered, Listen, TakeRound, Claim, RoundEnds,
                ListSockets, SweepSocket, Forget, At, FirstIsIdle
  <2>3. process[n] = "up"
    BY <1>2 DEF RoundStep, Beat, Reregister, Registered, Listen, TakeRound, Claim, RoundEnds,
                ListSockets, SweepSocket, Forget, At, Up
  <2> QED
    BY <2>1, <2>2, <2>3 DEF FirstIsIdle, TypeOK
<1>3. ASSUME NEW n \in Nodes, FaultStep(n) PROVE FirstIsIdle'
  BY <1>3 DEF FaultStep, Start, Die, PulseRunsOut, FirstIsIdle, TypeOK, rounds
<1>4. ASSUME RedisStep \/ TabStep PROVE FirstIsIdle'
  BY <1>4 DEF RedisStep, TabStep, RoundKeyRunsOut, RestartRedis, Note, Ask, ReadVersion, Answer,
              FirstIsIdle, rounds
<1>5. ASSUME NEW n \in Nodes, RoundFails(n) PROVE FirstIsIdle'
  <2>1. CASE BeatFails(n)
    BY <2>1 DEF BeatFails, At, Up, FirstIsIdle, TypeOK
  <2>2. CASE RoundFails(n) /\ ~BeatFails(n)
    <3>1. /\ UNCHANGED <<process, first>> /\ round[n] # "idle"
          /\ \A m \in Nodes \ {n} : round'[m] = round[m]
      BY <2>2 DEF RoundFails, ReregisterFails, GivesUp, ClaimFails, ListFails, SweepFails, ForgetFails,
                  At, Go, TypeOK
    <3> QED
      BY <3>1 DEF FirstIsIdle, TypeOK
  <2> QED
    BY <1>5, <2>1, <2>2
<1>6. CASE (\E s \in Sockets : OpenFails(s) \/ CloseFails(s)) \/ Lose
  BY <1>6 DEF OpenFails, CloseFails, Lose, FirstIsIdle, rounds
<1> QED
  BY <1>1, <1>2, <1>3, <1>4, <1>5, <1>6
  DEF Next, SocketStep, FaultStep, RedisStep, TabStep, vars, rounds, FirstIsIdle

LEMMA SteadyStep ==
  ASSUME TypeOK, Safe, FirstIsIdle, Steady, [Next]_vars
  PROVE  Steady'
<1> SUFFICES ASSUME Clean' PROVE Steady'
  BY DEF Steady
<1>1. Clean
  BY WindowsStay DEF Clean
<1>2. ASSUME NEW s \in Sockets, SocketStep(s) PROVE Steady'
  <2>1. CASE Enter(s) \/ Refuse(s)
    BY <1>1, <2>1 DEF Enter, Refuse, Handle, Steady, TypeOK, redis, rounds, Up
  <2>2. CASE Open(s)
    BY <1>1, <2>2 DEF Open, ConnectTx, Handle, Steady, TypeOK, rounds, Up
  <2>3. CASE Close(s)
    BY <1>1, <2>3 DEF Close, RemoveTx, Handle, Steady, TypeOK, rounds, Up
  <2> QED
    BY <1>2, <2>1, <2>2, <2>3 DEF SocketStep
<1>3. ASSUME NEW n \in Nodes, RoundStep(n) PROVE Steady'
  <2>1. CASE Beat(n)
    BY <1>1, <2>1 DEF Beat, At, Go, Steady, TypeOK, Up
  <2>2. CASE (\E s \in Sockets : Reregister(n, s)) \/ Registered(n)
    BY <1>1, <2>2 DEF Reregister, Registered, At, Steady
  <2>3. CASE Claim(n)
    BY <1>1, <2>3 DEF Claim, Go, Steady, TypeOK, Up, Clean
  <2>4. CASE \E s \in Sockets : SweepSocket(n, s)
    <3>1. PICK s \in Sockets : SweepSocket(n, s)
      BY <2>4
    <3>2. Home[s] = swept[n] /\ swept[n] # None
      BY <3>1 DEF SweepSocket, At, Safe, RoundsHold, Of
    <3>3. Astray({s}) = {}
      BY <1>1, <3>2 DEF Astray, Clean, Safe, SweptAreDead, NoneSweptAlive
    <3>4. adrift' = {}
      BY <1>1, <3>1, <3>3 DEF SweepSocket, Steady
    <3> QED
      BY <1>1, <3>1, <3>4 DEF SweepSocket, RemoveTx, Steady, Up
  <2>5. CASE Listen(n) \/ TakeRound(n) \/ RoundEnds(n) \/ ListSockets(n)
    BY <1>1, <2>5 DEF Listen, TakeRound, RoundEnds, ListSockets, Go, Steady, TypeOK, Up,
       redis, rounds
  <2>6. CASE Forget(n)
    <3>1. swept[n] # None /\ index[swept[n]] \subseteq Of(swept[n])
      BY <2>6 DEF Forget, At, Safe, RoundsHold, TypeOK
    <3>2. Astray(index[swept[n]]) = {}
      BY <1>1, <3>1 DEF Astray, Of, Clean, Safe, SweptAreDead, NoneSweptAlive
    <3>3. adrift' = {}
      BY <1>1, <2>6, <3>2 DEF Forget, Steady
    <3> QED
      BY <1>1, <2>6, <3>3 DEF Forget, Go, Steady, TypeOK, Up
  <2> QED
    BY <1>3, <2>1, <2>2, <2>3, <2>4, <2>5, <2>6 DEF RoundStep
<1>4. ASSUME NEW n \in Nodes, FaultStep(n) PROVE Steady'
  <2>1. CASE Start(n)
    BY <1>1, <2>1, HomeAssumption DEF Start, Safe, StartedOnly, FirstIsIdle, Steady, TypeOK, Up, redis, rounds
  <2>2. CASE Die(n)
    <3>1. swept[n] = None /\ n \in registry
      BY <2>2 DEF Die, Clean
    <3>2. {s \in Sockets : Home[s] = swept[n] \/ (Home[s] = n /\ n \notin registry)} = {}
      BY <3>1, HomeAssumption, NamesAssumption
    <3>3. adrift' = {}
      BY <1>1, <2>2, <3>2 DEF Die, Steady
    <3> QED
      BY <1>1, <2>2, <3>3, HomeAssumption DEF Die, Steady, TypeOK, Up, redis
  <2>3. CASE PulseRunsOut(n)
    BY <1>1, <2>3 DEF PulseRunsOut, Steady, Up, redis, rounds
  <2> QED
    BY <1>4, <2>1, <2>2, <2>3 DEF FaultStep
<1>5. CASE RedisStep
  BY <1>1, <1>5 DEF RedisStep, RoundKeyRunsOut, RestartRedis, Clean, Steady, Up, rounds
<1>6. CASE TabStep
  BY <1>1, <1>6 DEF TabStep, Note, Ask, ReadVersion, Answer, Steady, Up, redis, rounds
<1>7. CASE UNCHANGED vars
  BY <1>1, <1>7 DEF vars, Steady, Up, redis, rounds
<1>8. ~Fails
  BY FailsMark DEF Clean
<1> QED
  BY <1>2, <1>3, <1>4, <1>5, <1>6, <1>7, <1>8
  DEF Next, SocketStep, FaultStep, RedisStep, TabStep, Fails

-----------------------------------------------------------------------------
(* Announcements.                                                          *)

\* A transaction on behalf of node n, announced or not.
Transaction(n) ==
    /\ n \in Nodes \ first /\ version' = version + 1
    /\ events' = events \/ \E o \in BOOLEAN : Announce(n, o)
    /\ UNCHANGED <<epoch, clock, first, epochs, shown, lookup>>

\* What moves neither events nor versions nor the tab.
Silent == UNCHANGED <<version, events, shown, lookup>>

LEMMA Transactions ==
  ASSUME TypeOK, Safe, FirstIsIdle, Steady, [Next]_vars, Clean'
  PROVE  \/ \E n \in Nodes : Transaction(n)
         \/ Silent
         \/ TabStep
<1>1. Clean
  BY WindowsStay DEF Clean
<1>2. ASSUME NEW s \in Sockets, SocketStep(s)
      PROVE  Transaction(Home[s]) \/ Silent
  <2>1. CASE Enter(s) \/ Refuse(s)
    BY <2>1 DEF Enter, Refuse, Silent, redis, tab
  <2>2. CASE Open(s) \/ Close(s)
    <3>1. Home[s] \in Nodes \ first
      BY <2>2, HomeAssumption DEF Open, Close, Safe, StartedOnly
    <3>2. version' = version + 1 /\ (events' = events \/ \E o \in BOOLEAN : Announce(Home[s], o))
      BY <2>2 DEF Open, Close, ConnectTx, RemoveTx
    <3> QED
      BY <2>2, <3>1, <3>2 DEF Open, Close, Transaction, rounds
  <2> QED
    BY <1>2, <2>1, <2>2 DEF SocketStep
<1>3. ASSUME NEW n \in Nodes, RoundStep(n)
      PROVE  Transaction(n) \/ Silent
  <2>1. CASE (\E s \in Sockets : Reregister(n, s)) \/ Registered(n)
    BY <1>1, <2>1 DEF Reregister, Registered, At, Steady
  <2>2. CASE \E s \in Sockets : SweepSocket(n, s)
    <3>1. PICK s \in Sockets : SweepSocket(n, s)
      BY <2>2
    <3>2. n \in Nodes \ first
      BY <3>1 DEF SweepSocket, At, FirstIsIdle
    <3>3. version' = version + 1 /\ (events' = events \/ \E o \in BOOLEAN : Announce(n, o))
      BY <3>1 DEF SweepSocket, RemoveTx
    <3> QED
      BY <3>1, <3>2, <3>3 DEF SweepSocket, Transaction
  <2>3. CASE Beat(n) \/ Listen(n) \/ TakeRound(n) \/ Claim(n) \/ RoundEnds(n) \/ ListSockets(n) \/ Forget(n)
    BY <2>3 DEF Beat, Listen, TakeRound, Claim, RoundEnds, ListSockets, Forget, Silent, redis, tab
  <2> QED
    BY <1>3, <2>1, <2>2, <2>3 DEF RoundStep
<1>4. ASSUME NEW n \in Nodes, FaultStep(n)
      PROVE  Silent
  <2>1. CASE Die(n)
    <3>1. PICK unsent \in SUBSET {e \in events : e.by = n} :
             events' = events \ unsent /\ (unsent # {} => "cutShort" \in windows')
      BY <2>1 DEF Die
    <3>2. events' = events
      BY <3>1 DEF Clean
    <3> QED
      BY <2>1, <3>2 DEF Die, Silent, redis
  <2>2. CASE Start(n) \/ PulseRunsOut(n)
    BY <2>2 DEF Start, PulseRunsOut, Silent, redis, tab
  <2> QED
    BY <1>4, <2>1, <2>2 DEF FaultStep
<1>5. CASE RedisStep
  BY <1>5 DEF RedisStep, RoundKeyRunsOut, RestartRedis, Clean, Silent, tab
<1>6. CASE UNCHANGED vars
  BY <1>6 DEF vars, Silent, redis, tab
<1>7. ~Fails
  BY FailsMark DEF Clean
<1> QED
  BY <1>2, <1>3, <1>4, <1>5, <1>6, <1>7, HomeAssumption
  DEF Next, SocketStep, FaultStep, RedisStep, TabStep, Fails

LEMMA OneLifeStep ==
  ASSUME TypeOK, Safe, FirstIsIdle, Steady, OneLife, [Next]_vars
  PROVE  OneLife'
<1> SUFFICES ASSUME Clean' PROVE OneLife'
  BY DEF OneLife
<1>1. Clean
  BY WindowsStay DEF Clean
<1>2. epoch' = 1 /\ \A n \in Nodes \ first' : epochs'[n] = 1
  <2>1. ASSUME NEW s \in Sockets, SocketStep(s) PROVE UNCHANGED <<epoch, epochs, first>>
    BY <2>1 DEF SocketStep, Enter, Refuse, Open, Close, redis, rounds
  <2>2. ASSUME NEW n \in Nodes, Beat(n) PROVE epoch' = 1 /\ \A m \in Nodes \ first' : epochs'[m] = 1
    BY <1>1, <2>2 DEF Beat, OneLife, TypeOK
  <2>3. ASSUME NEW n \in Nodes, RoundStep(n), ~Beat(n) PROVE UNCHANGED <<epoch, epochs, first>>
    BY <2>3 DEF RoundStep, Reregister, Registered, Listen, TakeRound, Claim, RoundEnds,
                ListSockets, SweepSocket, Forget, redis
  <2>4. ASSUME NEW n \in Nodes, FaultStep(n) PROVE UNCHANGED <<epoch, epochs, first>>
    BY <2>4 DEF FaultStep, Start, Die, PulseRunsOut, redis, rounds
  <2>5. ASSUME RedisStep \/ TabStep PROVE UNCHANGED <<epoch, epochs, first>>
    BY <2>5 DEF RedisStep, TabStep, RoundKeyRunsOut, RestartRedis, Note, Ask, ReadVersion, Answer,
                redis, rounds, Clean
  <2>6. \/ UNCHANGED <<epoch, epochs, first>>
        \/ epoch' = 1 /\ \A n \in Nodes \ first' : epochs'[n] = 1
    <3>1. ~Fails
      BY FailsMark DEF Clean
    <3> QED
      BY <2>1, <2>2, <2>3, <2>4, <2>5, <3>1
      DEF Next, SocketStep, FaultStep, RedisStep, TabStep, Fails, vars, redis, rounds
  <2> QED
    BY <1>1, <2>6 DEF OneLife
<1>3. CASE \E n \in Nodes : Transaction(n)
  BY <1>1, <1>2, <1>3 DEF Transaction, Announce, OneLife
<1>4. CASE Silent
  BY <1>1, <1>2, <1>4 DEF Silent, OneLife
<1>5. CASE TabStep
  <2>1. CASE Note
    BY <1>1, <1>2, <2>1 DEF Note, OneLife
  <2>2. CASE \E n \in Nodes : Ask(n)
    BY <1>1, <1>2, <2>2 DEF Ask, Serves, OneLife
  <2>3. CASE ReadVersion
    BY <1>1, <1>2, <2>3 DEF ReadVersion, OneLife, TypeOK, State
  <2>4. CASE Answer
    BY <1>1, <1>2, <2>4 DEF Answer, OneLife
  <2> QED
    BY <1>5, <2>1, <2>2, <2>3, <2>4 DEF TabStep
<1> QED
  BY <1>3, <1>4, <1>5, Transactions

LEMMA CountedStep ==
  ASSUME TypeOK, Safe, FirstIsIdle, Steady, Counted, [Next]_vars
  PROVE  Counted'
<1> SUFFICES ASSUME Clean' PROVE Counted'
  BY DEF Counted
<1>1. Clean
  BY WindowsStay DEF Clean
<1>2. version \in Nat /\ shown.version \in Nat /\ lookup.read \in Nat /\ lookup.state.version \in Nat
      /\ \A e \in events : e.state.version \in Nat
  BY DEF TypeOK, State
<1>3. CASE \E n \in Nodes : Transaction(n)
  BY <1>1, <1>2, <1>3 DEF Transaction, Announce, Counted
<1>4. CASE Silent
  BY <1>1, <1>4 DEF Silent, Counted
<1>5. CASE TabStep
  <2>1. CASE Note
    BY <1>1, <2>1 DEF Note, Counted, redis
  <2>2. CASE \E n \in Nodes : Ask(n)
    BY <1>1, <1>2, <2>2 DEF Ask, Counted, redis
  <2>3. CASE ReadVersion
    <3>1. version \in {lookup.read, lookup.read + 1}
      BY <1>1, <1>2, <2>3 DEF ReadVersion, Counted, Clean
    <3>2. lookup'.read = lookup.read /\ lookup'.state.version = version /\ lookup'.at = "version"
      BY <2>3 DEF ReadVersion, TypeOK, State
    <3> QED
      BY <1>1, <1>2, <2>3, <3>1, <3>2 DEF ReadVersion, Counted, redis
  <2>4. CASE Answer
    BY <1>1, <1>2, <2>4 DEF Answer, Counted, redis
  <2> QED
    BY <1>5, <2>1, <2>2, <2>3, <2>4 DEF TabStep
<1> QED
  BY <1>3, <1>4, <1>5, Transactions

-----------------------------------------------------------------------------
(* What was announced last stays right.                                    *)

Kept == \A o \in BOOLEAN : Right(o) => Right(o)'

\* Whoever else dies or falls silent: sockets only cease to be alive.
LEMMA FewerAlive ==
  ASSUME sockets' = sockets, \A s \in sockets : Alive(s)' => Alive(s)
  PROVE  Kept
  BY DEF Kept, Right

LEMMA Decides ==
  ASSUME NEW n \in Nodes, NEW S \in SUBSET Sockets, Through(n, S) = {}
  PROVE  ~OnlineIn(n, S) => \A s \in S : ~Alive(s)
  BY DEF Through, Misjudges, OnlineIn

LEMMA ConnectDecides ==
  ASSUME TypeOK, NEW n \in Nodes, NEW s \in Sockets \ sockets, ConnectTx(n, s),
         ThroughConnect(n, sockets) = {}, UNCHANGED <<process, pulse>>
  PROVE  \/ Announce(n, TRUE) /\ Right(TRUE)'
         \/ Kept /\ events' = events
<1>1. sockets' = sockets \cup {s} /\ sockets \ {s} = sockets
  BY DEF ConnectTx
<1>2. \A q \in sockets : Alive(q)' <=> Alive(q)
  BY DEF Alive, Up
<1>3. CASE OnlineIn(n, sockets)
  <2>1. \E q \in sockets : Alive(q)
    BY <1>3 DEF ThroughConnect, Hides
  <2>2. Kept
    BY <1>1, <1>2, <2>1 DEF Kept, Right
  <2> QED
    BY <1>1, <1>3, <2>2 DEF ConnectTx
<1>4. CASE ~OnlineIn(n, sockets)
  BY <1>1, <1>4 DEF ConnectTx, Right
<1> QED
  BY <1>3, <1>4

LEMMA RemoveDecides ==
  ASSUME TypeOK, NEW n \in Nodes, NEW s \in Sockets, RemoveTx(n, s),
         Through(n, sockets \ {s}) = {}, UNCHANGED <<process, pulse>>
  PROVE  \/ Announce(n, FALSE) /\ Right(FALSE)'
         \/ Kept /\ events' = events
<1>1. sockets' = sockets \ {s} /\ sockets \ {s} \in SUBSET Sockets
  BY DEF RemoveTx, TypeOK
<1>2. \A q \in sockets : Alive(q)' <=> Alive(q)
  BY DEF Alive, Up
<1>3. CASE s \in sockets /\ ~OnlineIn(n, sockets \ {s})
  <2>1. \A q \in sockets \ {s} : ~Alive(q)
    BY <1>1, <1>3, Decides
  <2> QED
    BY <1>1, <1>2, <1>3, <2>1 DEF RemoveTx, Right
<1>4. CASE s \in sockets /\ OnlineIn(n, sockets \ {s})
  <2>1. sockets' # {}
    BY <1>1, <1>4 DEF OnlineIn
  <2>2. Kept
    BY <1>1, <1>2, <2>1 DEF Kept, Right
  <2> QED
    BY <1>4, <2>2 DEF RemoveTx
<1>5. CASE s \notin sockets
  <2>1. Kept
    BY <1>1, <1>2, <1>5, FewerAlive
  <2> QED
    BY <1>5, <2>1 DEF RemoveTx
<1> QED
  BY <1>3, <1>4, <1>5

LEMMA Decisions ==
  ASSUME TypeOK, Safe, FirstIsIdle, Steady, [Next]_vars, Clean', ~TabStep
  PROVE  \/ Kept /\ UNCHANGED <<events, shown, lookup>>
         \/ \E n \in Nodes, o \in BOOLEAN :
               Announce(n, o) /\ Right(o)' /\ version' = version + 1 /\ UNCHANGED <<shown, lookup>>
<1>1. Clean
  BY WindowsStay DEF Clean
<1>2. UNCHANGED <<shown, lookup>>
  BY Transactions DEF Transaction, Silent
<1> DEFINE Announced == \E n \in Nodes, o \in BOOLEAN : Announce(n, o) /\ Right(o)' /\ version' = version + 1
           Unsaid == Kept /\ events' = events
<1>3. ASSUME NEW s \in Sockets, SocketStep(s) PROVE Announced \/ Unsaid
  <2>1. CASE Enter(s) \/ Refuse(s)
    <3>1. UNCHANGED <<redis, process, events>>
      BY <2>1 DEF Enter, Refuse, tab
    <3>2. Kept
      BY <3>1, FewerAlive DEF Alive, Up, redis
    <3> QED
      BY <3>1, <3>2
  <2>2. CASE Open(s)
    <3>1. /\ ConnectTx(Home[s], s) /\ ThroughConnect(Home[s], sockets) = {}
          /\ UNCHANGED <<process, pulse>> /\ Home[s] \in Nodes /\ version' = version + 1
      BY <1>1, <2>2, HomeAssumption DEF Open, ConnectTx, Clean
    <3>2. s \notin sockets
      BY <1>1, <2>2 DEF Open, Steady
    <3> QED
      BY <3>1, <3>2, ConnectDecides
  <2>3. CASE Close(s)
    <3>1. /\ RemoveTx(Home[s], s) /\ Through(Home[s], sockets \ {s}) = {}
          /\ UNCHANGED <<process, pulse>> /\ Home[s] \in Nodes /\ version' = version + 1
      BY <1>1, <2>3, HomeAssumption DEF Close, RemoveTx, Clean
    <3> QED
      BY <3>1, RemoveDecides
  <2> QED
    BY <1>3, <2>1, <2>2, <2>3 DEF SocketStep
<1>4. ASSUME NEW n \in Nodes, RoundStep(n) PROVE Announced \/ Unsaid
  <2>1. CASE (\E s \in Sockets : Reregister(n, s)) \/ Registered(n)
    BY <1>1, <2>1 DEF Reregister, Registered, At, Steady
  <2>2. CASE \E s \in Sockets : SweepSocket(n, s)
    <3>1. PICK s \in Sockets : SweepSocket(n, s)
      BY <2>2
    <3>2. /\ RemoveTx(n, s) /\ Through(n, sockets \ {s}) = {}
          /\ UNCHANGED <<process, pulse>> /\ version' = version + 1
      BY <1>1, <3>1 DEF SweepSocket, RemoveTx, Clean
    <3> QED
      BY <3>2, RemoveDecides
  <2>3. CASE Beat(n)
    <3>1. sockets' = sockets /\ events' = events /\ process' = process
          /\ pulse' = pulse \cup {n} /\ Up(n)
      BY <2>3 DEF Beat, At, tab
    <3>2. Kept
      BY <3>1, FewerAlive DEF Alive, Up
    <3> QED
      BY <3>1, <3>2
  <2>4. CASE Listen(n) \/ TakeRound(n) \/ Claim(n) \/ RoundEnds(n) \/ ListSockets(n) \/ Forget(n)
    <3>1. UNCHANGED <<sockets, events, process, pulse>>
      BY <2>4 DEF Listen, TakeRound, Claim, RoundEnds, ListSockets, Forget, redis, tab
    <3>2. Kept
      BY <3>1, FewerAlive DEF Alive, Up
    <3> QED
      BY <3>1, <3>2
  <2> QED
    BY <1>4, <2>1, <2>2, <2>3, <2>4 DEF RoundStep
<1>5. ASSUME NEW n \in Nodes, FaultStep(n) PROVE Unsaid
  <2>1. sockets' = sockets /\ pulse' \subseteq pulse
    BY <1>5 DEF FaultStep, Start, Die, PulseRunsOut, redis
  <2>2. \A s \in sockets : Alive(s)' => Alive(s)
    <3>1. CASE Start(n)
      <4>1. process' = [process EXCEPT ![n] = "up"] /\ n \in first
        BY <3>1 DEF Start, FirstIsIdle
      <4>2. \A s \in sockets : Home[s] # n /\ Home[s] \in Nodes
        BY <1>1, <4>1, HomeAssumption DEF Steady, Safe, StartedOnly, TypeOK
      <4> QED
        BY <2>1, <4>1, <4>2 DEF Alive, Up, TypeOK
    <3>2. CASE Die(n)
      BY <2>1, <3>2, HomeAssumption DEF Die, Alive, Up, TypeOK
    <3>3. CASE PulseRunsOut(n)
      BY <2>1, <3>3 DEF PulseRunsOut, Alive, Up
    <3> QED
      BY <1>5, <3>1, <3>2, <3>3 DEF FaultStep
  <2>3. events' = events
    <3>1. CASE Die(n)
      <4>1. PICK unsent \in SUBSET {e \in events : e.by = n} :
               events' = events \ unsent /\ (unsent # {} => "cutShort" \in windows')
        BY <3>1 DEF Die
      <4> QED
        BY <4>1 DEF Clean
    <3>2. CASE Start(n) \/ PulseRunsOut(n)
      BY <3>2 DEF Start, PulseRunsOut, tab
    <3> QED
      BY <1>5, <3>1, <3>2 DEF FaultStep
  <2> QED
    BY <2>1, <2>2, <2>3, FewerAlive
<1>6. ASSUME RedisStep \/ UNCHANGED vars PROVE Unsaid
  <2>1. UNCHANGED <<sockets, events, process, pulse>>
    BY <1>6 DEF RedisStep, RoundKeyRunsOut, RestartRedis, Clean, tab, redis, vars
  <2> QED
    BY <2>1, FewerAlive DEF Alive, Up
<1>7. ~Fails
  BY FailsMark DEF Clean
<1>8. Announced \/ Unsaid
  BY <1>3, <1>4, <1>5, <1>6, <1>7 DEF Next, SocketStep, FaultStep, RedisStep, TabStep, Fails
<1> QED
  BY <1>2, <1>8

LEMMA RightStep ==
  ASSUME TypeOK, Safe, Told, [Next]_vars, Clean'
  PROVE  LatestIsRight' /\ AnswerIsRight'
<1>1. Clean
  BY WindowsStay DEF Clean
<1>2. /\ version \in Nat /\ shown.version \in Nat /\ lookup.read \in Nat
      /\ lookup.state.version \in Nat /\ lookup.state.online \in BOOLEAN /\ shown.online \in BOOLEAN
      /\ \A e \in events : e.state.version \in Nat /\ e.state.online \in BOOLEAN
  BY DEF TypeOK, State
<1>3. CASE Kept /\ UNCHANGED <<events, shown, lookup>>
  BY <1>1, <1>2, <1>3 DEF Told, LatestIsRight, AnswerIsRight, Kept
<1>4. ASSUME NEW n \in Nodes, NEW o \in BOOLEAN, Announce(n, o), Right(o)', version' = version + 1,
             UNCHANGED <<shown, lookup>>
      PROVE  LatestIsRight' /\ AnswerIsRight'
  <2> DEFINE new == [by |-> n, state |-> [online |-> o, version |-> version', epoch |-> epochs[n]]]
  <2>1. events' = events \cup {new} /\ new.state.version = version + 1 /\ new.state.online = o
    BY <1>4 DEF Announce
  <2> HIDE DEF new
  <2>2. /\ \A e \in events : e.state.version < new.state.version
        /\ shown.version < new.state.version
    BY <1>1, <1>2, <2>1 DEF Told, Counted
  <2>3. LatestIsRight'
    <3>1. ASSUME NEW e \in events', \A d \in events' : d.state.version <= e.state.version
          PROVE  e = new
      BY <1>2, <2>1, <2>2, <3>1
    <3>2. ~\A d \in events' : d.state.version < shown'.version
      BY <1>2, <1>4, <2>1, <2>2
    <3>3. \A e \in events' : (\A d \in events' : d.state.version <= e.state.version)
                => Right(e.state.online)'
      BY <1>4, <2>1, <3>1
    <3> QED
      BY <3>2, <3>3 DEF LatestIsRight
  <2>4. AnswerIsRight'
    BY <1>1, <1>2, <1>4, <2>1 DEF Told, AnswerIsRight, Counted
  <2> QED
    BY <2>3, <2>4
<1>5. CASE TabStep
  <2>1. UNCHANGED <<sockets, process, pulse>>
    BY <1>5 DEF TabStep, Note, Ask, ReadVersion, Answer, redis
  <2>2. \A o \in BOOLEAN : Right(o)' <=> Right(o)
    BY <2>1 DEF Right, Alive, Up
  <2>3. CASE Note
    <3>1. PICK e \in events : /\ events' = events \ {e}
                              /\ shown' = IF Newer(shown, e.state) THEN e.state ELSE shown
                              /\ lookup' = lookup
      BY <2>3 DEF Note
    <3>2. Newer(shown, e.state) <=> e.state.version >= shown.version
      BY <1>1, <1>2, <3>1 DEF Newer, Told, OneLife, NoState
    <3>3. CASE e.state.version >= shown.version
      <4>1. shown' = e.state
        BY <3>1, <3>2, <3>3
      <4>2. LatestIsRight'
        <5>1. ASSUME NEW d \in events', \A x \in events' : x.state.version <= d.state.version,
                     shown'.version <= d.state.version
              PROVE  Right(d.state.online)'
          <6>1. d \in events /\ \A x \in events : x.state.version <= d.state.version
            BY <3>1, <4>1, <5>1
          <6>2. shown.version <= d.state.version
            BY <1>2, <3>3, <4>1, <5>1, <6>1
          <6> QED
            BY <1>1, <1>2, <2>2, <6>1, <6>2 DEF Told, LatestIsRight
        <5>2. ASSUME \A x \in events' : x.state.version < shown'.version
              PROVE  Right(shown.online)'
          <6>1. \A x \in events : x.state.version <= e.state.version
            BY <1>2, <3>1, <4>1, <5>2
          <6> QED
            BY <1>1, <1>2, <2>2, <3>3, <4>1, <6>1 DEF Right, Told, LatestIsRight
        <5> QED
          BY <5>1, <5>2 DEF LatestIsRight
      <4>3. AnswerIsRight'
        BY <1>1, <1>2, <2>2, <3>1, <3>3, <4>1 DEF Told, AnswerIsRight
      <4> QED
        BY <4>2, <4>3
    <3>4. CASE e.state.version < shown.version
      <4>1. shown' = shown
        BY <1>2, <3>1, <3>2, <3>4
      <4>2. \A d \in events : d.state.version >= shown.version => d \in events'
        BY <1>2, <3>1, <3>4
      <4>3. LatestIsRight'
        <5>1. ASSUME NEW d \in events', \A x \in events' : x.state.version <= d.state.version,
                     shown'.version <= d.state.version
              PROVE  Right(d.state.online)'
          <6>1. d \in events /\ \A x \in events : x.state.version <= d.state.version
            BY <1>2, <3>1, <3>4, <4>1, <5>1
          <6> QED
            BY <1>1, <1>2, <2>2, <4>1, <5>1, <6>1 DEF Told, LatestIsRight
        <5>2. ASSUME \A x \in events' : x.state.version < shown'.version
              PROVE  Right(shown.online)'
          <6>1. \A x \in events : x.state.version < shown.version
            BY <1>2, <3>1, <3>4, <4>1, <5>2
          <6> QED
            BY <1>1, <1>2, <2>2, <4>1, <6>1 DEF Right, Told, LatestIsRight
        <5> QED
          BY <5>1, <5>2 DEF LatestIsRight
      <4>4. AnswerIsRight'
        BY <1>1, <1>2, <2>2, <3>1, <3>4, <4>1 DEF Told, AnswerIsRight
      <4> QED
        BY <4>3, <4>4
    <3> QED
      BY <1>2, <3>3, <3>4
  <2>4. CASE \E n \in Nodes : Ask(n)
    <3>1. PICK n \in Nodes : Ask(n)
      BY <2>4
    <3>2. /\ UNCHANGED <<events, shown>> /\ Through(n, sockets) = {}
          /\ lookup'.read = version /\ lookup'.state.online = OnlineIn(n, sockets)
      BY <3>1 DEF Ask, Clean
    <3>3. Right(OnlineIn(n, sockets))
      BY <3>2, Decides DEF Right, OnlineIn, TypeOK
    <3>4. Right(lookup.state.online)'
      <4>1. OnlineIn(n, sockets) \in BOOLEAN
        BY DEF OnlineIn
      <4> QED
        BY <2>1, <3>2, <3>3, <4>1 DEF Right, Alive, Up
    <3>5. LatestIsRight'
      BY <1>1, <1>2, <2>2, <3>2 DEF Told, LatestIsRight
    <3> QED
      BY <3>4, <3>5 DEF AnswerIsRight
  <2>5. CASE ReadVersion
    <3>1. /\ UNCHANGED <<events, shown>> /\ lookup.at = "sockets"
          /\ lookup'.read = lookup.read /\ lookup'.state.online = lookup.state.online
      BY <2>5 DEF ReadVersion, TypeOK, State
    <3>2. LatestIsRight'
      BY <1>1, <1>2, <2>2, <3>1 DEF Told, LatestIsRight
    <3>3. AnswerIsRight'
      BY <1>1, <1>2, <2>2, <3>1 DEF Told, AnswerIsRight
    <3> QED
      BY <3>2, <3>3
  <2>6. CASE Answer
    <3>1. /\ lookup.at = "version" /\ shown' = lookup.state /\ events' = events /\ lookup'.at = "done"
          /\ ~(shown.epoch > lookup.state.epoch)
          /\ ~(shown.epoch = lookup.state.epoch /\ shown.version > lookup.read)
      BY <2>6 DEF Answer, Clean
    <3>2. shown.version <= lookup.read
      BY <1>1, <1>2, <3>1 DEF Told, OneLife, NoState
    <3>3. lookup.state.version \in {lookup.read, lookup.read + 1}
      BY <1>1, <3>1 DEF Told, Counted
    <3>4. LatestIsRight'
      <4>1. ASSUME NEW d \in events, \A x \in events : x.state.version <= d.state.version,
                   lookup.state.version <= d.state.version
            PROVE  Right(d.state.online)'
        <5>1. shown.version <= d.state.version
          BY <1>2, <3>2, <3>3, <4>1
        <5> QED
          BY <1>1, <1>2, <2>2, <4>1, <5>1 DEF Told, LatestIsRight
      <4>2. ASSUME \A x \in events : x.state.version < lookup.state.version
            PROVE  Right(shown.online)'
        <5>1. \A x \in events : x.state.version <= lookup.read
          BY <1>2, <3>3, <4>2
        <5> QED
          BY <1>1, <1>2, <2>2, <3>1, <3>2, <5>1 DEF Right, Told, AnswerIsRight
      <4> QED
        BY <3>1, <4>1, <4>2 DEF LatestIsRight
    <3>5. AnswerIsRight'
      BY <3>1 DEF AnswerIsRight
    <3> QED
      BY <3>4, <3>5
  <2> QED
    BY <1>5, <2>3, <2>4, <2>5, <2>6 DEF TabStep
<1> QED
  BY <1>3, <1>4, <1>5, Decisions DEF Told

LEMMA NextTold == TypeOK /\ Safe /\ Told /\ [Next]_vars => Told'
<1> SUFFICES ASSUME TypeOK, Safe, Told, [Next]_vars PROVE Told'
  OBVIOUS
<1>1. FirstIsIdle' /\ Steady' /\ OneLife' /\ Counted'
  BY FirstStep, SteadyStep, OneLifeStep, CountedStep DEF Told
<1>2. LatestIsRight' /\ AnswerIsRight'
  BY RightStep DEF LatestIsRight, AnswerIsRight
<1> QED
  BY <1>1, <1>2 DEF Told

\* Outside the windows a tab to which nothing is on its way any more shows who is
\* online, and who is not as soon as the sockets of dead nodes are swept.
THEOREM PresenceTabIsRight == Spec => []TabIsRight
<1>1. TypeOK /\ Safe /\ Told => TabIsRight
  <2> SUFFICES ASSUME TypeOK, Safe, Told, Clean, Arrived
               PROVE  /\ Online => shown.online
                      /\ shown.online /\ (\A s \in sockets : Up(Home[s])) => Online
    BY DEF TabIsRight, Clean
  <2>1. Right(shown.online) /\ shown.online \in BOOLEAN
    BY DEF Told, LatestIsRight, Arrived, TypeOK, State
  <2>2. Online => \E s \in sockets : Alive(s)
    BY HomeAssumption
    DEF Online, Alive, Told, Steady, Safe, StartedOnly, OpenAtRegistered, Recorded, Clean, Up
  <2>3. sockets # {} /\ (\A s \in sockets : Up(Home[s])) => Online
    BY DEF Online, Told, Steady, TypeOK
  <2> QED
    BY <2>1, <2>2, <2>3 DEF Right
<1>2. Spec => [](TypeOK /\ Safe /\ Told)
  <2>1. IInv <=> TypeOK /\ Safe
    BY DEF IInv
  <2> QED
    BY <2>1, PresenceInvariant, InitTold, NextTold, PTL DEF Spec
<1> QED
  BY <1>1, <1>2, PTL
=============================================================================
