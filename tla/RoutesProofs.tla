--------------------------- MODULE RoutesProofs ---------------------------
(***************************************************************************)
(* Hub implements Routes, for every set of users, channels and sockets     *)
(* and every buffer: each method is one step of Routes or none.  The       *)
(* invariant of HubProofs says that the three maps are one fact, so that   *)
(* what a method does to byChannel is what Routes does to its pairs.       *)
(***************************************************************************)
EXTENDS HubProofs

\* A socket not in the hub yet has no frames waiting, for Routes lets it in with
\* none.
FreshIsEmpty ==
    \A c \in Sockets : handler[c] \in {"none", "upgraded"} => queued[c] = 0

-----------------------------------------------------------------------------
(* The mapped variables.                                                   *)

LEMMA ServingIn ==
  ASSUME NEW c \in Sockets, NEW t \in Topics
  PROVE  /\ <<c, t>> \in Serving <=> c \in byChannel[t]
         /\ (<<c, t>> \in Serving)' <=> c \in byChannel'[t]
  BY DEF Serving

\* Two sets of pairs with the same pairs are the same.
LEMMA SamePairs ==
  ASSUME NEW A, NEW B, A \subseteq Sockets \X Topics, B \subseteq Sockets \X Topics,
         \A c \in Sockets, t \in Topics : <<c, t>> \in A <=> <<c, t>> \in B
  PROVE  A = B
<1>1. \A p \in A : p \in B
  <2> SUFFICES ASSUME NEW p \in A PROVE p \in B
    OBVIOUS
  <2>1. PICK c \in Sockets, t \in Topics : p = <<c, t>>
    OBVIOUS
  <2> QED BY <2>1
<1>2. \A p \in B : p \in A
  <2> SUFFICES ASSUME NEW p \in B PROVE p \in A
    OBVIOUS
  <2>1. PICK c \in Sockets, t \in Topics : p = <<c, t>>
    OBVIOUS
  <2> QED BY <2>1
<1> QED BY <1>1, <1>2

\* The sockets of a user, and those of a topic, are the map's.
LEMMA OfIsByUser ==
  ASSUME IInv, NEW u \in Users
  PROVE  Promise!Of(u) = byUser[u]
<1>1. byUser \in [Users -> SUBSET Sockets] /\ UsersAgree
  BY DEF IInv, TypeOK, RoutesAgree
<1> QED
  BY <1>1, OwnerAssumption DEF Promise!Of, Connected, UsersAgree

LEMMA ReadersIsByChannel ==
  ASSUME IInv, NEW t \in Topics
  PROVE  Promise!Readers(t) = byChannel[t]
<1>1. byChannel[t] \subseteq Connected /\ Connected \subseteq Sockets
  BY InHub
<1> QED
  BY <1>1, ServingIn DEF Promise!Readers

-----------------------------------------------------------------------------
(* What the hub's methods are made of.                                     *)

LEMMA DropMaps ==
  ASSUME IInv, NEW S \in SUBSET Sockets, Drop(S), Dropping(S) \subseteq Connected
  PROVE  Promise!Part(Dropping(S))
<1> DEFINE D == Dropping(S)
<1>1. /\ byChannel \in [Topics -> SUBSET Sockets] /\ byUser \in [Users -> SUBSET Sockets]
      /\ ChannelsAgree /\ UsersAgree
  BY DEF IInv, TypeOK, RoutesAgree
<1>2. Connected' = Connected \ D
  <2>1. \A u \in Users : byUser'[u] = byUser[u] \ D
    BY <1>1 DEF Drop, RemainingOf, UsersAgree
  <2> QED
    BY <2>1, <1>1 DEF Connected
<1>3. dropped' = dropped \cup D
  BY DEF Drop
<1>4. Serving' = {p \in Serving : p[1] \notin D}
  <2>1. \A t \in Topics, c \in Sockets : c \in byChannel'[t] <=> c \in byChannel[t] /\ c \notin D
    BY <1>1 DEF Drop, Remaining, ChannelsAgree
  <2>2. Serving' \subseteq Sockets \X Topics /\ Serving \subseteq Sockets \X Topics
    BY DEF Serving
  <2>3. \A c \in Sockets, t \in Topics :
           <<c, t>> \in Serving' <=> <<c, t>> \in {p \in Serving : p[1] \notin D}
    BY <2>1, ServingIn
  <2> QED
    BY <2>2, <2>3, SamePairs
<1> QED
  BY <1>2, <1>3, <1>4 DEF Promise!Part

\* A frame for sockets of the hub, and for some that were dropped, is a frame for
\* the former.
LEMMA DeliverMaps ==
  ASSUME IInv, NEW S \in SUBSET Sockets, Deliver(S), S \ dropped \subseteq Connected
  PROVE  Promise!Tell(S \ dropped)
<1> DEFINE T == S \ dropped
<1>1. /\ queued \in [Sockets -> 0..SendBuffer] /\ Connected \subseteq Sockets
      /\ \A c \in Connected : c \notin dropped
  <2>1. \A c \in Connected : c \notin dropped
    BY InHub, OwnerAssumption DEF IInv, TypeOK, RoutesAgree, UsersAgree, Connected
  <2> QED
    BY <2>1, InHub DEF IInv, TypeOK
<1>2. Full(S) = Promise!Late(T) /\ Dropping(Full(S)) = Full(S) /\ Full(S) \subseteq T
  BY <1>1 DEF Full, Deliverable, Promise!Late, Waiting, Dropping
<1>3. Promise!Part(Full(S))
  BY <1>1, <1>2, DropMaps DEF Deliver
<1>4. Connected' = Connected \ Full(S)
  BY <1>3 DEF Promise!Part
<1>5. Waiting' = [c \in Sockets |-> IF c \in Promise!Late(T) THEN 0
                                    ELSE IF c \in T THEN Waiting[c] + 1 ELSE Waiting[c]]
  <2>1. \A c \in Sockets : queued'[c] = queued[c] + (IF c \in T \ Full(S) THEN 1 ELSE 0)
    BY DEF Deliver, Deliverable
  <2>2. \A c \in Sockets :
           (IF c \in Connected' THEN queued'[c] ELSE 0)
             = IF c \in Promise!Late(T) THEN 0
               ELSE IF c \in T THEN Waiting[c] + 1 ELSE Waiting[c]
    <3> SUFFICES ASSUME NEW c \in Sockets
                 PROVE (IF c \in Connected' THEN queued'[c] ELSE 0)
                         = IF c \in Promise!Late(T) THEN 0
                           ELSE IF c \in T THEN Waiting[c] + 1 ELSE Waiting[c]
      OBVIOUS
    <3>1. Waiting[c] = IF c \in Connected THEN queued[c] ELSE 0
      BY DEF Waiting
    <3>2. c \in T => c \in Connected
      OBVIOUS
    <3>3. queued[c] \in Nat
      BY <1>1, BufferAssumption
    <3>4. CASE c \in Full(S)
      BY <3>4, <1>2, <1>4
    <3>5. CASE c \notin Full(S)
      BY <3>5, <3>1, <3>2, <3>3, <2>1, <1>2, <1>4
    <3> QED BY <3>4, <3>5
  <2> QED
    BY <2>2 DEF Waiting
<1>6. closed' = closed
  BY DEF Deliver
<1> QED
  BY <1>2, <1>3, <1>5, <1>6 DEF Promise!Tell

\* Sockets leave without a frame.
LEMMA LeaveMaps ==
  ASSUME IInv, NEW S \in SUBSET Sockets, Drop(S), Dropping(S) \subseteq Connected,
         queued' = queued
  PROVE  Promise!Depart(Dropping(S))
<1>1. Promise!Part(Dropping(S))
  BY DropMaps
<1>2. Connected' = Connected \ Dropping(S)
  BY <1>1 DEF Promise!Part
<1>3. \A c \in Sockets : (IF c \in Connected' THEN queued'[c] ELSE 0)
                           = IF c \in Dropping(S) THEN 0 ELSE Waiting[c]
  BY <1>2 DEF Waiting
<1>4. Waiting' = [c \in Sockets |-> IF c \in Dropping(S) THEN 0 ELSE Waiting[c]]
  BY <1>3 DEF Waiting
<1> QED
  BY <1>1, <1>4 DEF Promise!Depart

\* Every socket of u is served W beside what it had, and of that X no more.
LEMMA RerouteMaps ==
  ASSUME IInv, NEW u \in Users, NEW W \in SUBSET Topics, NEW X \in SUBSET Topics,
         W \cap X = {}, Reroute(u, W, X)
  PROVE  /\ \A c \in Sockets, t \in Topics :
              <<c, t>> \in Serving' <=>
                 IF c \in byUser[u] THEN t \in W \/ (<<c, t>> \in Serving /\ t \notin X)
                 ELSE <<c, t>> \in Serving
         /\ Connected' = Connected /\ dropped' = dropped /\ closed' = closed
         /\ Waiting' = Waiting
<1>1. /\ byChannel \in [Topics -> SUBSET Sockets] /\ byUser \in [Users -> SUBSET Sockets]
      /\ UsersAgree
  BY DEF IInv, TypeOK, RoutesAgree
<1>2. Attachable(byUser[u]) = byUser[u]
  BY <1>1 DEF Attachable, UsersAgree
<1>3. \A t \in Topics : byChannel'[t] =
         IF t \in W THEN byChannel[t] \cup byUser[u]
         ELSE IF t \in X THEN byChannel[t] \ byUser[u] ELSE byChannel[t]
  BY <1>2 DEF Reroute
<1>4. byUser' = byUser /\ dropped' = dropped /\ closed' = closed /\ queued' = queued
  BY DEF Reroute
<1> QED
  BY <1>1, <1>3, <1>4, ServingIn DEF Connected, Waiting

-----------------------------------------------------------------------------
(* Steps.                                                                  *)

LEMMA InitMaps == Init => Promise!Init
<1> SUFFICES ASSUME Init PROVE Promise!Init
  OBVIOUS
<1>1. Connected = {}
  BY DEF Init, Connected
<1>2. Serving = {}
  BY DEF Init, Serving
<1>3. Waiting = [c \in Sockets |-> 0]
  BY <1>1 DEF Waiting
<1> QED
  BY <1>1, <1>2, <1>3 DEF Init, Promise!Init

\* A step of the handler that does not touch the hub.
LEMMA OutsideMaps ==
  ASSUME UNCHANGED <<byChannel, byUser, dropped, queued, closed>>
  PROVE  UNCHANGED Promise!vars
<1>1. Connected' = Connected /\ Serving' = Serving
  BY DEF Connected, Serving
<1> QED
  BY <1>1 DEF Waiting, Promise!vars

\* Whether the socket is still in the hub or was dropped already.
LEMMA GoingMaps ==
  ASSUME IInv, NEW c \in Sockets, handler[c] \in {"opening", "open"}, Drop({c}),
         queued' = queued, closed' = closed
  PROVE  [Promise!Next]_(Promise!vars)
<1>1. UsersAgree /\ Owner[c] \in Users
  BY OwnerAssumption DEF IInv, RoutesAgree
<1>2. CASE c \in dropped
  <2>1. Dropping({c}) = {}
    BY <1>2 DEF Dropping
  <2>2. Promise!Depart({})
    BY <2>1, LeaveMaps
  <2>3. /\ Connected' = Connected /\ dropped' = dropped
    BY <2>2 DEF Promise!Depart, Promise!Part
  <2>4. Serving' = Serving
    BY <2>2 DEF Promise!Depart, Promise!Part
  <2>5. Waiting' = Waiting
    BY <2>3 DEF Waiting
  <2> QED
    BY <2>3, <2>4, <2>5 DEF Promise!vars
<1>3. CASE c \notin dropped
  <2>1. Dropping({c}) = {c} /\ c \in Connected
    BY <1>1, <1>3 DEF Dropping, UsersAgree, Connected
  <2>2. Promise!Leave(c)
    BY <2>1, LeaveMaps DEF Promise!Leave
  <2> QED
    BY <2>2 DEF Promise!Next
<1> QED
  BY <1>2, <1>3

LEMMA ConnectMaps ==
  ASSUME IInv, FreshIsEmpty, NEW c \in Sockets, NEW ids \in SUBSET Channels, Connect(c, ids)
  PROVE  Promise!Next
<1> DEFINE T == ids \cup {UserTopic(Owner[c])}
<1>1. /\ byUser \in [Users -> SUBSET Sockets] /\ byChannel \in [Topics -> SUBSET Sockets]
      /\ UsersAgree /\ FreshApart /\ Owner[c] \in Users
  BY OwnerAssumption DEF IInv, TypeOK, RoutesAgree
<1>2. c \notin dropped /\ queued[c] = 0 /\ c \notin Connected
  BY <1>1, OwnerAssumption DEF Connect, At, FreshApart, FreshIsEmpty, UsersAgree, Connected
<1>3. T \in SUBSET Topics
  BY <1>1, TopicOfUser, ChannelsAreTopics
<1>4. \A t \in Topics : byChannel'[t] = byChannel[t] \cup (IF t \in T THEN {c} ELSE {})
  BY <1>2 DEF Connect, Attach, Attachable
<1>5. Connected' = Connected \cup {c}
  BY <1>1 DEF Connect, Connected
<1>6. Serving' = Serving \cup ({c} \X (T \cup {OwnTopics[Owner[c]]}))
  <2>1. OwnTopics[Owner[c]] = UserTopic(Owner[c])
    BY <1>1 DEF OwnTopics
  <2>2. \A d \in Sockets, t \in Topics :
           <<d, t>> \in Serving' <=> <<d, t>> \in Serving \cup ({c} \X T)
    BY <1>4, ServingIn
  <2>3. Serving' \subseteq Sockets \X Topics /\ Serving \cup ({c} \X T) \subseteq Sockets \X Topics
    BY <1>3 DEF Serving
  <2>4. Serving' = Serving \cup ({c} \X T)
    BY <2>2, <2>3, SamePairs
  <2> QED BY <2>1, <2>4
<1>7. Waiting' = Waiting
  BY <1>2, <1>5 DEF Waiting, Connect
<1>8. ~closed /\ closed' = closed /\ dropped' = dropped
  BY DEF Connect, Refuses
<1>9. Promise!Enter(c, T)
  BY <1>2, <1>5, <1>6, <1>7, <1>8 DEF Promise!Enter
<1> QED
  BY <1>3, <1>9 DEF Promise!Next

LEMMA SocketMaps ==
  ASSUME IInv, FreshIsEmpty, NEW c \in Sockets, SocketStep(c)
  PROVE  [Promise!Next]_(Promise!vars)
<1>1. CASE Upgrade(c)
  BY <1>1, OutsideMaps DEF Upgrade, index
<1>2. CASE \E ids \in SUBSET Channels : Connect(c, ids)
  BY <1>2, ConnectMaps
<1>3. CASE ConnectRefused(c)
  BY <1>3, OutsideMaps DEF ConnectRefused, index
<1>4. CASE Refuse(c)
  <2>1. CASE UNCHANGED <<index, dropped>>
    BY <1>4, <2>1, OutsideMaps DEF Refuse, index
  <2>2. CASE At(c, "opening") /\ Drop({c})
    BY <1>4, <2>2, GoingMaps DEF Refuse, At
  <2> QED BY <1>4, <2>1, <2>2 DEF Refuse
<1>5. CASE Ready(c)
  <2>1. handler[c] = "opening" /\ Deliver({c})
    BY <1>5 DEF Ready, At
  <2>2. UsersAgree /\ Owner[c] \in Users
    BY OwnerAssumption DEF IInv, RoutesAgree
  <2>3. CASE c \in dropped
    <3>1. {c} \ dropped = {}
      BY <2>3
    <3>2. Promise!Tell({})
      BY <2>1, <3>1, DeliverMaps
    <3>3. Promise!Late({}) = {}
      BY DEF Promise!Late
    <3>4. Connected' = Connected /\ dropped' = dropped /\ Serving' = Serving /\ closed' = closed
      BY <3>2, <3>3 DEF Promise!Tell, Promise!Part
    <3>5. Waiting' = Waiting
      BY <3>2, <3>3 DEF Promise!Tell, Waiting
    <3> QED
      BY <3>4, <3>5 DEF Promise!vars
  <2>4. CASE c \notin dropped
    <3>1. {c} \ dropped = {c} /\ c \in Connected
      BY <2>1, <2>2, <2>4 DEF UsersAgree, Connected
    <3>2. Promise!Greet(c)
      BY <2>1, <3>1, DeliverMaps DEF Promise!Greet
    <3> QED BY <3>2 DEF Promise!Next
  <2> QED BY <2>3, <2>4
<1>6. CASE PumpTakes(c)
  <2>1. /\ queued \in [Sockets -> 0..SendBuffer] /\ queued[c] > 0
        /\ queued' = [queued EXCEPT ![c] = @ - 1]
    BY <1>6 DEF PumpTakes, IInv, TypeOK
  <2>2. Connected' = Connected /\ Serving' = Serving /\ dropped' = dropped /\ closed' = closed
    BY <1>6 DEF PumpTakes, index, Connected, Serving
  <2>3. CASE c \in Connected
    <3>1. Waiting[c] > 0 /\ Waiting' = [Waiting EXCEPT ![c] = @ - 1]
      BY <2>1, <2>2, <2>3 DEF Waiting
    <3>2. Promise!Take(c)
      BY <2>2, <2>3, <3>1 DEF Promise!Take
    <3> QED BY <3>2 DEF Promise!Next
  <2>4. CASE c \notin Connected
    <3>1. Waiting' = Waiting
      BY <2>1, <2>2, <2>4 DEF Waiting
    <3> QED BY <2>2, <3>1 DEF Promise!vars
  <2> QED BY <2>3, <2>4
<1>7. CASE PumpEnds(c) \/ SessionExpires(c) \/ ConnectionLost(c)
  BY <1>7, OutsideMaps DEF PumpEnds, SessionExpires, ConnectionLost, index
<1>8. CASE Disconnect(c)
  BY <1>8, GoingMaps DEF Disconnect, At
<1> QED
  BY <1>1, <1>2, <1>3, <1>4, <1>5, <1>6, <1>7, <1>8 DEF SocketStep

LEMMA RouteMaps ==
  ASSUME IInv, NEW u \in Users, RouteStep(u)
  PROVE  Promise!Next
<1>1. /\ byUser \in [Users -> SUBSET Sockets] /\ channels \in [Sockets -> SUBSET Topics]
      /\ ChannelsAgree /\ UsersAgree /\ Promise!Of(u) = byUser[u]
  BY OfIsByUser DEF IInv, TypeOK, RoutesAgree
<1>2. /\ Serving \subseteq Sockets \X Topics /\ Serving' \subseteq Sockets \X Topics
  BY DEF Serving
<1>own. OwnTopics[u] = UserTopic(u) /\ UserTopic(u) \in Topics
  BY TopicOfUser DEF OwnTopics
<1>3. ASSUME NEW t \in Channels, Subscribe(u, t) PROVE Promise!Next
  <2>1. t \in Topics
    BY ChannelsAreTopics
  <2>2. Reroute(u, {t}, {})
    BY <1>3 DEF Subscribe
  <2>3. Promise!Gain(u, t)
    <3>reroute. /\ \A c \in Sockets, s \in Topics :
                     <<c, s>> \in Serving' <=>
                       IF c \in byUser[u] THEN s \in {t} \/ (<<c, s>> \in Serving /\ s \notin {})
                       ELSE <<c, s>> \in Serving
                /\ Connected' = Connected /\ dropped' = dropped /\ closed' = closed
                /\ Waiting' = Waiting
      <4>1. {t} \in SUBSET Topics /\ {} \in SUBSET Topics /\ {t} \cap {} = {}
        BY <2>1
      <4> QED BY ONLY <4>1, <2>2, IInv, u \in Users, RerouteMaps
    <3>1. \A c \in Sockets, s \in Topics :
             <<c, s>> \in Serving' <=> <<c, s>> \in Serving \cup (byUser[u] \X {t})
      BY <3>reroute
    <3>2. Serving \cup (byUser[u] \X {t}) \subseteq Sockets \X Topics
      BY <1>1, <1>2, <2>1
    <3>3. Serving' = Serving \cup (byUser[u] \X {t})
      BY <1>2, <3>1, <3>2, SamePairs
    <3> QED
      BY <1>1, <3>3, <3>reroute DEF Promise!Gain
  <2> QED BY <2>1, <2>3 DEF Promise!Next
<1>4. ASSUME NEW t \in Channels, Unsubscribe(u, t) PROVE Promise!Next
  <2>1. t \in Topics
    BY ChannelsAreTopics
  <2>2. Reroute(u, {}, {t})
    BY <1>4 DEF Unsubscribe
  <2>3. Promise!Lose(u, t)
    <3>reroute. /\ \A c \in Sockets, s \in Topics :
                     <<c, s>> \in Serving' <=>
                       IF c \in byUser[u] THEN s \in {} \/ (<<c, s>> \in Serving /\ s \notin {t})
                       ELSE <<c, s>> \in Serving
                /\ Connected' = Connected /\ dropped' = dropped /\ closed' = closed
                /\ Waiting' = Waiting
      <4>1. {t} \in SUBSET Topics /\ {} \in SUBSET Topics /\ {} \cap {t} = {}
        BY <2>1
      <4> QED BY ONLY <4>1, <2>2, IInv, u \in Users, RerouteMaps
    <3>1. \A c \in Sockets, s \in Topics :
             <<c, s>> \in Serving' <=> <<c, s>> \in Serving \ (byUser[u] \X {t})
      BY <3>reroute
    <3>3. Serving' = Serving \ (byUser[u] \X {t})
      BY <1>2, <3>1, SamePairs
    <3>4. t # OwnTopics[u]
      BY <1>own, TopicsApart
    <3> QED
      BY <1>1, <3>3, <3>4, <3>reroute DEF Promise!Lose
  <2> QED BY <2>1, <2>3 DEF Promise!Next
<1>5. ASSUME NEW chIDs \in SUBSET Channels, SetChannels(u, chIDs) PROVE Promise!Next
  <2> DEFINE W == chIDs \cup {UserTopic(u)}
             X == Extra(u, W)
  <2>1. W \in SUBSET Topics /\ X \in SUBSET Topics /\ W \cap X = {}
    BY <1>1, <1>own, ChannelsAreTopics DEF Extra
  <2>2. Reroute(u, W, X)
    BY <1>5 DEF SetChannels
  <2>3. \A c \in byUser[u], t \in Topics : <<c, t>> \in Serving => t \in W \/ t \in X
    BY <1>1, ServingIn DEF ChannelsAgree, Extra
  <2> HIDE DEF W, X
  <2>reroute. /\ \A c \in Sockets, t \in Topics :
                   <<c, t>> \in Serving' <=>
                     IF c \in byUser[u] THEN t \in W \/ (<<c, t>> \in Serving /\ t \notin X)
                     ELSE <<c, t>> \in Serving
              /\ Connected' = Connected /\ dropped' = dropped /\ closed' = closed
              /\ Waiting' = Waiting
    BY ONLY <2>1, <2>2, IInv, u \in Users, RerouteMaps
  <2>4. \A c \in Sockets, t \in Topics :
           <<c, t>> \in Serving' <=>
             <<c, t>> \in {p \in Serving : p[1] \notin byUser[u]} \cup (byUser[u] \X W)
    BY <2>3, <2>reroute
  <2>5. {p \in Serving : p[1] \notin byUser[u]} \cup (byUser[u] \X W) \subseteq Sockets \X Topics
    BY <1>1, <1>2, <2>1
  <2>6. Serving' = {p \in Serving : p[1] \notin byUser[u]} \cup (byUser[u] \X W)
    BY <1>2, <2>4, <2>5, SamePairs
  <2>7. W = W \cup {OwnTopics[u]}
    BY <1>own DEF W
  <2>8. Promise!Assign(u, W)
    BY <1>1, <2>6, <2>7, <2>reroute DEF Promise!Assign
  <2> QED BY <2>1, <2>8 DEF Promise!Next
<1> QED
  BY <1>3, <1>4, <1>5 DEF RouteStep

LEMMA NextMaps ==
  ASSUME IInv, FreshIsEmpty, [Next]_vars
  PROVE  [Promise!Next]_(Promise!vars)
<1>1. /\ Connected \in SUBSET Sockets /\ \A t \in Topics : byChannel[t] \subseteq Connected
      /\ \A c \in Connected : c \notin dropped
  BY InHub, OwnerAssumption DEF IInv, TypeOK, RoutesAgree, UsersAgree, Connected
<1>2. CASE \E c \in Sockets : SocketStep(c)
  BY <1>2, SocketMaps
<1>3. CASE \E u \in Users : RouteStep(u)
  BY <1>3, RouteMaps
<1>4. ASSUME NEW t \in Topics, Publish(t) PROVE Promise!Next
  <2>1. byChannel[t] \ dropped = byChannel[t] /\ byChannel[t] \in SUBSET Sockets
    BY <1>1
  <2>2. Promise!Tell(byChannel[t])
    BY <1>1, <1>4, <2>1, DeliverMaps DEF Publish
  <2>3. Promise!Frame(t)
    BY <2>2, ReadersIsByChannel DEF Promise!Frame
  <2> QED BY <2>3 DEF Promise!Next
<1>5. CASE SendAll
  <2>1. Connected \ dropped = Connected
    BY <1>1
  <2>2. Promise!FrameToAll
    BY <1>1, <1>5, <2>1, DeliverMaps DEF SendAll, Promise!FrameToAll
  <2> QED BY <2>2 DEF Promise!Next
<1>6. ASSUME NEW S \in SUBSET Connected, NEW code, CloseWith(S, code)
      PROVE  Promise!Depart(S)
  <2>1. Dropping(S) = S
    BY <1>1 DEF Dropping
  <2> QED
    BY <1>1, <1>6, <2>1, LeaveMaps DEF CloseWith
<1>7. ASSUME NEW s \in Sessions, CloseSession(s) PROVE Promise!Next
  <2>1. OfSession(s) = {c \in Connected : SessionOf[c] = s}
    BY <1>1 DEF OfSession
  <2>2. Promise!EndSession(s)
    BY <1>6, <1>7, <2>1 DEF CloseSession, Promise!EndSession
  <2> QED BY <2>2 DEF Promise!Next
<1>8. CASE CloseAll
  <2>1. Promise!Close
    BY <1>6, <1>8 DEF CloseAll, Promise!Close
  <2> QED BY <2>1 DEF Promise!Next
<1>9. CASE ApplyWatches
  BY <1>9, OutsideMaps DEF ApplyWatches
<1>10. CASE UNCHANGED vars
  BY <1>10, OutsideMaps DEF vars, index
<1> QED
  BY <1>2, <1>3, <1>4, <1>5, <1>7, <1>8, <1>9, <1>10 DEF Next

LEMMA FreshStaysEmpty ==
  ASSUME IInv, FreshIsEmpty, [Next]_vars
  PROVE  FreshIsEmpty'
<1>1. /\ queued \in [Sockets -> 0..SendBuffer] /\ handler \in [Sockets -> Places]
      /\ \A c \in Connected : handler[c] \in {"opening", "open"}
      /\ \A t \in Topics : byChannel[t] \subseteq Connected
  BY InHub DEF IInv, TypeOK, Places
<1>2. ASSUME NEW S, Deliver(S), \A c \in S : handler'[c] \in {"opening", "open"},
             \A c \in Sockets : handler'[c] \in {"none", "upgraded"} => handler'[c] = handler[c]
      PROVE  FreshIsEmpty'
  <2>1. \A c \in Sockets \ S : queued'[c] = queued[c]
    BY <1>1, <1>2, BufferAssumption DEF Deliver, Deliverable
  <2> QED
    BY <1>2, <2>1 DEF FreshIsEmpty
<1>3. CASE queued' = queued /\ handler' = handler
  BY <1>3 DEF FreshIsEmpty
<1>4. ASSUME NEW c \in Sockets, SocketStep(c) PROVE FreshIsEmpty'
  <2>1. CASE Ready(c)
    BY <1>1, <1>2, <2>1 DEF Ready, Goto, At, Places
  <2>2. CASE PumpTakes(c)
    <3>1. \A d \in Sockets : d # c => queued'[d] = queued[d]
      BY <1>1, <2>2 DEF PumpTakes
    <3> QED
      BY <2>2, <3>1 DEF PumpTakes, At, life, FreshIsEmpty
  <2>3. CASE queued' = queued /\ \A d \in Sockets : handler'[d] \in {"none", "upgraded"}
                                      => handler[d] \in {"none", "upgraded"}
    BY <2>3 DEF FreshIsEmpty
  <2>4. CASE Upgrade(c) \/ ConnectRefused(c) \/ Refuse(c) \/ Disconnect(c)
             \/ \E ids \in SUBSET Channels : Connect(c, ids)
    BY <1>1, <2>3, <2>4
    DEF Upgrade, ConnectRefused, Refuse, Disconnect, Connect, Leave, Goto, At, Places
  <2>5. CASE PumpEnds(c) \/ SessionExpires(c) \/ ConnectionLost(c)
    BY <1>3, <2>5 DEF PumpEnds, SessionExpires, ConnectionLost
  <2> QED
    BY <1>4, <2>1, <2>2, <2>4, <2>5 DEF SocketStep
<1>5. CASE \E u \in Users : RouteStep(u)
  BY <1>3, <1>5 DEF RouteStep, Subscribe, Unsubscribe, SetChannels, Reroute, life
<1>6. CASE \E t \in Topics : Publish(t)
  BY <1>1, <1>2, <1>6 DEF Publish, life
<1>7. CASE SendAll
  BY <1>1, <1>2, <1>7 DEF SendAll, life
<1>8. CASE (\E s \in Sessions : CloseSession(s)) \/ CloseAll
  BY <1>3, <1>8 DEF CloseSession, CloseAll, CloseWith, life
<1>9. CASE ApplyWatches \/ UNCHANGED vars
  BY <1>3, <1>9 DEF ApplyWatches, vars, life
<1> QED
  BY <1>4, <1>5, <1>6, <1>7, <1>8, <1>9 DEF Next

-----------------------------------------------------------------------------
\* The hub implements Routes: nothing but what its callers ask for changes which
\* socket is served which topic, and a frame for a topic reaches every socket served
\* it, or costs that socket its place, and reaches nobody else.
THEOREM HubServesRoutes == Spec => ServesRoutes
<1>1. Init => FreshIsEmpty
  BY DEF Init, FreshIsEmpty
<1>2. IInv /\ FreshIsEmpty /\ [Next]_vars => FreshIsEmpty'
  BY FreshStaysEmpty
<1>3. Spec => []FreshIsEmpty
  BY <1>1, <1>2, HubInvariant, PTL DEF Spec
<1>4. IInv /\ FreshIsEmpty /\ [Next]_vars => [Promise!Next]_(Promise!vars)
  BY NextMaps
<1> QED
  BY <1>3, <1>4, InitMaps, HubInvariant, PTL DEF Spec, ServesRoutes, Promise!Spec
=============================================================================
