---------------------------- MODULE HubProofs ----------------------------
(***************************************************************************)
(* What TLAPS proves of the hub, for every set of users, channels and      *)
(* sockets and every buffer size.  IInv is inductive: the routes agree     *)
(* only because no method touches a socket its handler has not connected   *)
(* yet (FreshApart), and what the bus wants is what is read only because   *)
(* the entries of byChannel are the topics somebody reads.                 *)
(***************************************************************************)
EXTENDS Hub, TLAPS

IInv == TypeOK /\ RoutesAgree /\ ListensExactly /\ ClosedHubEmpty

Places == {"none", "upgraded", "opening", "open", "gone"}

LEMMA TopicOfUser == \A u \in Users : UserTopic(u) \in Topics
  BY DEF Topics

LEMMA ChannelsAreTopics == Channels \subseteq Topics
  BY DEF Topics

LEMMA InitIInv == Init => IInv
<1> SUFFICES ASSUME Init PROVE IInv
  OBVIOUS
<1>1. TypeOK
  <2>1. queued \in [Sockets -> 0..SendBuffer]
    BY BufferAssumption DEF Init
  <2>2. closeCode \in [Sockets -> CloseCodes]
    BY DEF Init, CloseCodes
  <2>3. goodbye \in [Sockets -> CloseCodes \cup {NoGoodbye}]
    BY DEF Init
  <2> QED
    BY <2>1, <2>2, <2>3 DEF Init, TypeOK
<1>2. RoutesAgree
  BY OwnerAssumption
  DEF Init, RoutesAgree, ChannelsAgree, UsersAgree, EntriesAgree, FreshApart
<1>3. ListensExactly
  BY DEF Init, ListensExactly, Wanted
<1>4. ClosedHubEmpty
  BY DEF Init, ClosedHubEmpty
<1> QED
  BY <1>1, <1>2, <1>3, <1>4 DEF IInv

\* What a handler may do while routes change: nobody not dropped moves in or
\* out of the two places of a connected socket, and nobody turns fresh.
HandlerKept ==
    /\ handler' \in [Sockets -> Places]
    /\ \A c \in Sockets : handler'[c] \in {"none", "upgraded"}
                             => handler[c] \in {"none", "upgraded"}
    /\ \A c \in Sockets \ dropped' :
          handler'[c] \in {"opening", "open"} <=> handler[c] \in {"opening", "open"}

\* Dropping any set of sockets keeps the routes in agreement, and the notes it
\* leaves are exactly the topics nobody reads any more.
LEMMA DropKeeps ==
  ASSUME IInv, NEW S \in SUBSET Sockets, Drop(S), HandlerKept, listening' = listening,
         \A c \in Dropping(S) : handler[c] \in {"opening", "open"},
         \A c \in Dropping(S) : handler'[c] \notin {"none", "upgraded"}
  PROVE  /\ byChannel' \in [Topics -> SUBSET Sockets]
         /\ entries' \in SUBSET Topics
         /\ byUser' \in [Users -> SUBSET Sockets]
         /\ channels' \in [Sockets -> SUBSET Topics]
         /\ dropped' \in SUBSET Sockets
         /\ notes' \in [Topics -> {"none", "on", "off"}]
         /\ RoutesAgree'
         /\ ListensExactly'
         /\ Connected' = Connected \ S
<1> USE DEF Dropping
<1>1. /\ byChannel \in [Topics -> SUBSET Sockets] /\ entries \in SUBSET Topics
      /\ byUser \in [Users -> SUBSET Sockets] /\ channels \in [Sockets -> SUBSET Topics]
      /\ dropped \in SUBSET Sockets /\ notes \in [Topics -> {"none", "on", "off"}]
      /\ handler \in [Sockets -> Places]
  BY DEF IInv, TypeOK, Places
<1>2. ChannelsAgree /\ UsersAgree /\ EntriesAgree /\ FreshApart /\ ListensExactly
  BY DEF IInv, RoutesAgree
<1>typed. /\ byChannel' \in [Topics -> SUBSET Sockets] /\ entries' \in SUBSET Topics
      /\ byUser' \in [Users -> SUBSET Sockets] /\ channels' \in [Sockets -> SUBSET Topics]
      /\ dropped' \in SUBSET Sockets /\ notes' \in [Topics -> {"none", "on", "off"}]
  BY <1>1 DEF Drop, Remaining, RemainingOf
<1>3. \A t \in Topics, c \in Sockets :
         c \in byChannel'[t] <=> c \in byChannel[t] /\ c \notin Dropping(S)
  BY <1>1, <1>2 DEF Drop, Remaining, ChannelsAgree
<1>4. \A u \in Users, c \in Sockets :
         c \in byUser'[u] <=> c \in byUser[u] /\ c \notin Dropping(S)
  BY <1>1, <1>2 DEF Drop, RemainingOf, UsersAgree
<1>less. \A t \in Topics : byChannel'[t] # {} => byChannel[t] # {}
  BY <1>typed, <1>3
<1>5. \A t \in Topics : t \in Emptied(S) => byChannel[t] # {} /\ byChannel'[t] = {}
  <2> SUFFICES ASSUME NEW t \in Topics, t \in Emptied(S)
               PROVE  byChannel[t] # {} /\ byChannel'[t] = {}
    OBVIOUS
  <2>1. PICK c \in Dropping(S) : t \in channels[c]
    BY DEF Emptied
  <2>2. c \in byUser[Owner[c]]
    BY <1>2, <2>1, OwnerAssumption DEF UsersAgree
  <2>3. c \in byChannel[t]
    BY <1>2, <2>1, <2>2 DEF ChannelsAgree
  <2> QED
    BY <2>3 DEF Drop, Emptied
<1>6. \A t \in Topics : byChannel[t] # {} /\ byChannel'[t] = {} => t \in Emptied(S)
  <2> SUFFICES ASSUME NEW t \in Topics, byChannel[t] # {}, byChannel'[t] = {}
               PROVE  t \in Emptied(S)
    OBVIOUS
  <2>1. PICK c \in Sockets : c \in byChannel[t]
    BY <1>1
  <2>2. c \in Dropping(S)
    BY <1>3, <2>1
  <2>3. t \in channels[c]
    BY <1>2, <2>1 DEF ChannelsAgree
  <2> QED
    BY <2>2, <2>3 DEF Emptied, Drop
<1>7. ChannelsAgree'
  BY <1>1, <1>2, <1>3, <1>4, OwnerAssumption DEF ChannelsAgree, Drop
<1>8. UsersAgree'
  BY <1>1, <1>2, <1>4 DEF UsersAgree, Drop, HandlerKept
<1>9. EntriesAgree'
  <2> SUFFICES ASSUME NEW t \in Topics
               PROVE  t \in entries' <=> byChannel'[t] # {}
    BY DEF EntriesAgree
  <2>1. t \in entries' <=> t \in entries /\ t \notin Emptied(S)
    BY DEF Drop
  <2>2. t \in entries <=> byChannel[t] # {}
    BY <1>2 DEF EntriesAgree
  <2> QED
    BY <2>1, <2>2, <1>5, <1>6, <1>less
<1>10. FreshApart'
  <2> SUFFICES ASSUME NEW c \in Sockets, handler'[c] \in {"none", "upgraded"}
               PROVE  c \notin dropped' /\ channels'[c] = {}
    BY DEF FreshApart
  <2>1. c \notin Dropping(S)
    OBVIOUS
  <2>2. handler[c] \in {"none", "upgraded"}
    BY DEF HandlerKept
  <2> QED
    BY <1>2, <2>1, <2>2 DEF FreshApart, Drop
<1>11. ListensExactly'
  <2> SUFFICES ASSUME NEW t \in Topics PROVE (Wanted(t) <=> byChannel[t] # {})'
    BY DEF ListensExactly
  <2>1. CASE t \in Emptied(S)
    BY <2>1, <1>5 DEF Wanted, Drop
  <2>2. CASE t \notin Emptied(S)
    <3>1. Wanted(t)' <=> Wanted(t)
      BY <2>2, <1>1 DEF Wanted, Drop
    <3>2. byChannel'[t] # {} <=> byChannel[t] # {}
      BY <2>2, <1>6, <1>less
    <3> QED
      BY <3>1, <3>2, <1>2 DEF ListensExactly
  <2> QED BY <2>1, <2>2
<1>12. Connected' = Connected \ S
  <2>1. \A c \in Sockets, u \in Users : c \in byUser[u] => c \notin dropped
    BY <1>2 DEF UsersAgree
  <2>2. \A u \in Users : byUser'[u] = byUser[u] \ S
    BY <2>1, <1>1, <1>4, <1>typed
  <2> QED
    BY <2>2 DEF Connected
<1> QED
  BY <1>7, <1>8, <1>9, <1>10, <1>11, <1>12, <1>typed DEF RoutesAgree

\* The three methods that route a user's sockets keep the routes in agreement,
\* and note exactly what the node starts or stops to read.
LEMMA RerouteKeeps ==
  ASSUME IInv, NEW u \in Users, NEW W \in SUBSET Topics, NEW X \in SUBSET Topics,
         W \cap X = {}, Reroute(u, W, X)
  PROVE  IInv'
<1>1. /\ byChannel \in [Topics -> SUBSET Sockets] /\ entries \in SUBSET Topics
      /\ byUser \in [Users -> SUBSET Sockets] /\ channels \in [Sockets -> SUBSET Topics]
      /\ dropped \in SUBSET Sockets /\ notes \in [Topics -> {"none", "on", "off"}]
  BY DEF IInv, TypeOK
<1>2. ChannelsAgree /\ UsersAgree /\ EntriesAgree /\ FreshApart /\ ListensExactly
  BY DEF IInv, RoutesAgree
<1> DEFINE on  == Gained(byUser[u], W)
           off == {t \in X : Lost(u, t)}
<1>3. Attachable(byUser[u]) = byUser[u]
  BY <1>1, <1>2 DEF Attachable, UsersAgree
<1>4. \A t \in Topics : byChannel'[t] =
         IF t \in W THEN byChannel[t] \cup byUser[u]
         ELSE IF t \in X THEN byChannel[t] \ byUser[u] ELSE byChannel[t]
  BY <1>3 DEF Reroute
<1>5. entries' = (entries \cup on) \ off
  BY DEF Reroute
<1>6. /\ UNCHANGED <<byUser, dropped, queued, closeCode, closed, handler, conn, goodbye, listening>>
      /\ notes' = [t \in Topics |-> IF t \in on THEN "on"
                                    ELSE IF t \in off THEN "off" ELSE notes[t]]
      /\ channels' = [c \in Sockets |->
              IF c \in byUser[u] THEN (channels[c] \cup W) \ X ELSE channels[c]]
  BY DEF Reroute, life
<1>7. on \subseteq W /\ off \subseteq X
  BY DEF Gained
<1>8. byChannel' \in [Topics -> SUBSET Sockets]
  <2>1. byChannel' = [t \in Topics |->
              IF t \in W THEN byChannel[t] \cup byUser[u]
              ELSE IF t \in X THEN byChannel[t] \ byUser[u] ELSE byChannel[t]]
    BY <1>3 DEF Reroute
  <2> QED BY <2>1, <1>1
<1>9. \A t \in Topics : /\ t \in on => byChannel[t] = {} /\ byChannel'[t] # {}
                        /\ t \in off => byChannel[t] # {} /\ byChannel'[t] = {}
  <2> SUFFICES ASSUME NEW t \in Topics
               PROVE  /\ t \in on => byChannel[t] = {} /\ byChannel'[t] # {}
                      /\ t \in off => byChannel[t] # {} /\ byChannel'[t] = {}
    OBVIOUS
  <2>1. t \in entries <=> byChannel[t] # {}
    BY <1>2 DEF EntriesAgree
  <2>2. ASSUME t \in on PROVE byChannel[t] = {} /\ byChannel'[t] # {}
    <3>1. t \in W /\ t \notin entries /\ byUser[u] # {}
      BY <2>2, <1>3 DEF Gained
    <3> QED BY <3>1, <2>1, <1>4
  <2>3. ASSUME t \in off PROVE byChannel[t] # {} /\ byChannel'[t] = {}
    <3>1. t \in X /\ t \notin W /\ t \in entries /\ byChannel[t] \ byUser[u] = {}
      BY <2>3 DEF Lost
    <3> QED BY <3>1, <2>1, <1>4
  <2> QED BY <2>2, <2>3
<1>10. \A t \in Topics : t \notin on /\ t \notin off =>
                           (byChannel'[t] # {} <=> byChannel[t] # {})
  <2> SUFFICES ASSUME NEW t \in Topics, t \notin on, t \notin off
               PROVE  byChannel'[t] # {} <=> byChannel[t] # {}
    OBVIOUS
  <2>1. t \in entries <=> byChannel[t] # {}
    BY <1>2 DEF EntriesAgree
  <2>2. CASE t \in W
    <3>1. byUser[u] = {} \/ t \in entries
      BY <2>2, <1>3 DEF Gained
    <3> QED BY <2>1, <2>2, <3>1, <1>4
  <2>3. CASE t \in X /\ t \notin W
    <3>1. ~Lost(u, t)
      BY <2>3
    <3> QED BY <2>1, <2>3, <3>1, <1>4 DEF Lost
  <2>4. CASE t \notin X /\ t \notin W
    BY <2>4, <1>4
  <2> QED BY <2>2, <2>3, <2>4
<1>11. TypeOK'
  <2>1. channels' \in [Sockets -> SUBSET Topics]
    BY <1>1, <1>6
  <2>2. notes' \in [Topics -> {"none", "on", "off"}]
    BY <1>1, <1>6
  <2>3. entries' \in SUBSET Topics
    BY <1>1, <1>5, <1>7
  <2> QED
    BY <2>1, <2>2, <2>3, <1>6, <1>8 DEF IInv, TypeOK
<1>12. ChannelsAgree'
  <2> SUFFICES ASSUME NEW t \in Topics, NEW c \in Sockets
               PROVE  c \in byChannel'[t] <=> c \in byUser[Owner[c]] /\ t \in channels'[c]
    BY <1>6 DEF ChannelsAgree
  <2>1. c \in byChannel[t] <=> c \in byUser[Owner[c]] /\ t \in channels[c]
    BY <1>2 DEF ChannelsAgree
  <2>2. CASE c \in byUser[u]
    <3>1. Owner[c] = u
      BY <2>2, <1>2 DEF UsersAgree
    <3>2. channels'[c] = (channels[c] \cup W) \ X
      BY <2>2, <1>6
    <3> QED BY <2>1, <2>2, <3>1, <3>2, <1>4
  <2>3. CASE c \notin byUser[u]
    BY <2>1, <2>3, <1>4, <1>6
  <2> QED BY <2>2, <2>3
<1>13. UsersAgree'
  BY <1>2, <1>6 DEF UsersAgree
<1>14. EntriesAgree'
  <2> SUFFICES ASSUME NEW t \in Topics PROVE t \in entries' <=> byChannel'[t] # {}
    BY DEF EntriesAgree
  <2>1. t \in entries <=> byChannel[t] # {}
    BY <1>2 DEF EntriesAgree
  <2>2. t \in entries' <=> (t \in entries \/ t \in on) /\ t \notin off
    BY <1>5
  <2> QED BY <2>1, <2>2, <1>9, <1>10
<1>15. FreshApart'
  <2> SUFFICES ASSUME NEW c \in Sockets, handler[c] \in {"none", "upgraded"}
               PROVE  c \notin dropped /\ channels'[c] = {}
    BY <1>6 DEF FreshApart
  <2>1. c \notin byUser[u]
    BY <1>2 DEF UsersAgree
  <2> QED BY <2>1, <1>2, <1>6 DEF FreshApart
<1>16. ListensExactly'
  <2> SUFFICES ASSUME NEW t \in Topics PROVE Wanted(t)' <=> byChannel'[t] # {}
    BY DEF ListensExactly
  <2>1. Wanted(t)' <=> IF t \in on THEN TRUE ELSE IF t \in off THEN FALSE ELSE Wanted(t)
    BY <1>6 DEF Wanted
  <2>2. Wanted(t) <=> byChannel[t] # {}
    BY <1>2 DEF ListensExactly
  <2> QED BY <2>1, <2>2, <1>9, <1>10
<1>17. ClosedHubEmpty'
  <2> SUFFICES ASSUME closed PROVE Connected' = {} /\ entries' = {}
    BY <1>6 DEF ClosedHubEmpty
  <2>1. Connected = {} /\ entries = {}
    BY DEF IInv, ClosedHubEmpty
  <2>2. byUser[u] = {}
    BY <2>1 DEF Connected
  <2>3. on = {}
    BY <2>2, <1>3 DEF Gained
  <2> QED BY <2>1, <2>3, <1>5, <1>6 DEF Connected
<1> QED
  BY <1>11, <1>12, <1>13, <1>14, <1>15, <1>16, <1>17 DEF IInv, RoutesAgree

\* An action that drops sockets of connected handlers keeps the invariant, and
\* CloseAll does because it drops everybody it finds.
LEMMA DropInv ==
  ASSUME IInv, NEW S \in SUBSET Sockets, Drop(S), HandlerKept, listening' = listening,
         \A c \in Dropping(S) : handler[c] \in {"opening", "open"},
         \A c \in Dropping(S) : handler'[c] \notin {"none", "upgraded"},
         queued' \in [Sockets -> 0..SendBuffer],
         closeCode' \in [Sockets -> CloseCodes],
         conn' \in SUBSET Sockets,
         goodbye' \in [Sockets -> CloseCodes \cup {NoGoodbye}],
         closed' \in BOOLEAN,
         closed' => closed \/ Connected \subseteq S
  PROVE  IInv'
<1>1. /\ byChannel' \in [Topics -> SUBSET Sockets]
      /\ entries' \in SUBSET Topics
      /\ byUser' \in [Users -> SUBSET Sockets]
      /\ channels' \in [Sockets -> SUBSET Topics]
      /\ dropped' \in SUBSET Sockets
      /\ notes' \in [Topics -> {"none", "on", "off"}]
      /\ RoutesAgree'
      /\ ListensExactly'
      /\ Connected' = Connected \ S
  BY DropKeeps
<1>2. TypeOK'
  BY <1>1 DEF IInv, TypeOK, HandlerKept, Places
<1>3. ClosedHubEmpty'
  <2> SUFFICES ASSUME closed' PROVE Connected' = {} /\ entries' = {}
    BY DEF ClosedHubEmpty
  <2>1. Connected' = {}
    BY <1>1 DEF IInv, ClosedHubEmpty
  <2>2. \A t \in Topics : byChannel'[t] = {}
    BY <2>1, <1>1, OwnerAssumption DEF RoutesAgree, ChannelsAgree, Connected
  <2>3. entries' = {}
    BY <2>2, <1>1 DEF RoutesAgree, EntriesAgree
  <2> QED BY <2>1, <2>3
<1> QED
  BY <1>1, <1>2, <1>3 DEF IInv

\* Whoever is in the hub has a handler past Connect.
LEMMA InHub ==
  ASSUME IInv
  PROVE  /\ Connected \in SUBSET Sockets
         /\ \A c \in Connected : handler[c] \in {"opening", "open"}
         /\ \A t \in Topics : byChannel[t] \subseteq Connected
<1>1. byUser \in [Users -> SUBSET Sockets] /\ byChannel \in [Topics -> SUBSET Sockets]
  BY DEF IInv, TypeOK
<1>2. ChannelsAgree /\ UsersAgree
  BY DEF IInv, RoutesAgree
<1> QED
  BY <1>1, <1>2, OwnerAssumption DEF ChannelsAgree, UsersAgree, Connected

LEMMA KeptWhenUnchanged ==
  ASSUME IInv, handler' = handler
  PROVE  HandlerKept
  BY DEF IInv, TypeOK, HandlerKept, Places

\* Delivering a frame to sockets of connected handlers keeps the invariant: a
\* full one is dropped instead of filled beyond the buffer.
LEMMA DeliverKeeps ==
  ASSUME IInv, NEW S \in SUBSET Sockets, Deliver(S), HandlerKept,
         \A c \in S : handler[c] \in {"opening", "open"},
         \A c \in S : handler'[c] \notin {"none", "upgraded"},
         conn' = conn, goodbye' = goodbye
  PROVE  IInv'
<1>1. /\ queued \in [Sockets -> 0..SendBuffer] /\ closeCode \in [Sockets -> CloseCodes]
      /\ conn \in SUBSET Sockets /\ goodbye \in [Sockets -> CloseCodes \cup {NoGoodbye}]
      /\ closed \in BOOLEAN
  BY DEF IInv, TypeOK
<1>2. /\ Drop(Full(S)) /\ closeCode' = closeCode /\ closed' = closed /\ listening' = listening
      /\ queued' = [c \in Sockets |-> queued[c] +
                      (IF c \in Deliverable(S) \ Full(S) THEN 1 ELSE 0)]
  BY DEF Deliver
<1>3. Full(S) \in SUBSET Sockets /\ Full(S) \subseteq S
  BY DEF Full, Deliverable
<1>4. queued' \in [Sockets -> 0..SendBuffer]
  <2> SUFFICES ASSUME NEW c \in Sockets
               PROVE  queued[c] + (IF c \in Deliverable(S) \ Full(S) THEN 1 ELSE 0)
                         \in 0..SendBuffer
    BY <1>2
  <2>1. queued[c] \in 0..SendBuffer
    BY <1>1
  <2>2. c \in Deliverable(S) \ Full(S) => queued[c] # SendBuffer
    BY DEF Full
  <2> QED BY <2>1, <2>2, BufferAssumption
<1>5. \A c \in Dropping(Full(S)) : c \in S
  BY <1>3 DEF Dropping
<1> QED
  BY <1>1, <1>2, <1>3, <1>4, <1>5, DropInv

LEMMA CloseKeeps ==
  ASSUME IInv, NEW S \in SUBSET Connected, NEW code \in CloseCodes, CloseWith(S, code),
         closed' \in BOOLEAN, closed' => closed \/ Connected \subseteq S
  PROVE  IInv'
<1>1. /\ queued \in [Sockets -> 0..SendBuffer] /\ closeCode \in [Sockets -> CloseCodes]
      /\ conn \in SUBSET Sockets /\ goodbye \in [Sockets -> CloseCodes \cup {NoGoodbye}]
  BY DEF IInv, TypeOK
<1>2. /\ Drop(S) /\ queued' = queued /\ listening' = listening
      /\ handler' = handler /\ conn' = conn /\ goodbye' = goodbye
  BY DEF CloseWith, life
<1>3. closeCode' \in [Sockets -> CloseCodes]
  BY <1>1 DEF CloseWith
<1>4. S \in SUBSET Sockets /\ \A c \in Dropping(S) : handler[c] \in {"opening", "open"}
  BY InHub DEF Dropping
<1>5. HandlerKept
  BY <1>2, KeptWhenUnchanged
<1>6. \A c \in Dropping(S) : handler'[c] \notin {"none", "upgraded"}
  BY <1>2, <1>4
<1> QED
  BY <1>1, <1>2, <1>3, <1>4, <1>5, <1>6, DropInv

\* A step of one handler outside the hub keeps the invariant: it does not make
\* a connected socket of one that is not, nor a fresh one of one that is used.
LEMMA OutsideKeeps ==
  ASSUME IInv, UNCHANGED <<index, dropped, closed, closeCode, listening>>,
         HandlerKept, queued' \in [Sockets -> 0..SendBuffer], conn' \in SUBSET Sockets,
         goodbye' \in [Sockets -> CloseCodes \cup {NoGoodbye}]
  PROVE  IInv'
<1>1. /\ byChannel' = byChannel /\ entries' = entries /\ byUser' = byUser
      /\ channels' = channels /\ notes' = notes /\ dropped' = dropped
      /\ closed' = closed /\ closeCode' = closeCode /\ listening' = listening
  BY DEF index
<1>2. TypeOK'
  BY <1>1 DEF IInv, TypeOK, HandlerKept, Places
<1>3. ChannelsAgree' /\ EntriesAgree'
  BY <1>1 DEF IInv, RoutesAgree, ChannelsAgree, EntriesAgree
<1>4. UsersAgree'
  BY <1>1 DEF IInv, RoutesAgree, UsersAgree, HandlerKept
<1>5. FreshApart'
  BY <1>1 DEF IInv, RoutesAgree, FreshApart, HandlerKept
<1>6. ListensExactly' /\ ClosedHubEmpty'
  BY <1>1 DEF IInv, ListensExactly, Wanted, ClosedHubEmpty, Connected
<1> QED
  BY <1>2, <1>3, <1>4, <1>5, <1>6 DEF IInv, RoutesAgree

\* Connect: the socket reads nothing before, so that what it reads after is what
\* it was attached to.
LEMMA ConnectKeeps ==
  ASSUME IInv, NEW c \in Sockets, NEW ids \in SUBSET Channels, Connect(c, ids)
  PROVE  IInv'
<1> DEFINE u == Owner[c]
           T == ids \cup {UserTopic(u)}
<1>1. /\ byChannel \in [Topics -> SUBSET Sockets] /\ entries \in SUBSET Topics
      /\ byUser \in [Users -> SUBSET Sockets] /\ channels \in [Sockets -> SUBSET Topics]
      /\ dropped \in SUBSET Sockets /\ notes \in [Topics -> {"none", "on", "off"}]
      /\ handler \in [Sockets -> Places]
  BY DEF IInv, TypeOK, Places
<1>2. ChannelsAgree /\ UsersAgree /\ EntriesAgree /\ FreshApart /\ ListensExactly
  BY DEF IInv, RoutesAgree
<1>3. u \in Users /\ T \in SUBSET Topics
  BY OwnerAssumption, TopicOfUser, ChannelsAreTopics
<1>4. c \notin dropped /\ channels[c] = {} /\ c \notin byUser[u] /\ ~closed
  <2>1. handler[c] = "upgraded" /\ ~closed
    BY DEF Connect, At, Refuses
  <2> QED BY <2>1, <1>2, <1>3 DEF FreshApart, UsersAgree
<1>5. Attachable({c}) = {c} /\ Gained({c}, T) = T \ entries
  BY <1>4 DEF Attachable, Gained
<1>6. /\ byChannel' = [t \in Topics |-> byChannel[t] \cup (IF t \in T THEN {c} ELSE {})]
      /\ channels' = [d \in Sockets |-> channels[d] \cup (IF d \in {c} THEN T ELSE {})]
      /\ entries' = entries \cup (T \ entries)
      /\ notes' = [t \in Topics |-> IF t \in T \ entries THEN "on" ELSE notes[t]]
  BY <1>5 DEF Connect, Attach
<1>7. /\ byUser' = [byUser EXCEPT ![u] = @ \cup {c}]
      /\ handler' = [handler EXCEPT ![c] = "opening"]
      /\ UNCHANGED <<dropped, queued, closeCode, closed, conn, goodbye, listening>>
  BY DEF Connect, Goto
<1>8. \A d \in Sockets, v \in Users : d \in byUser'[v] <=> d \in byUser[v] \/ (d = c /\ v = u)
  BY <1>1, <1>3, <1>7
<1>9. TypeOK'
  <2>1. byChannel' \in [Topics -> SUBSET Sockets]
    BY <1>1, <1>6
  <2>2. channels' \in [Sockets -> SUBSET Topics]
    BY <1>1, <1>3, <1>6
  <2>3. entries' \in SUBSET Topics
    BY <1>1, <1>3, <1>6
  <2>4. notes' \in [Topics -> {"none", "on", "off"}]
    BY <1>1, <1>6
  <2>5. byUser' \in [Users -> SUBSET Sockets] /\ handler' \in [Sockets -> Places]
    BY <1>1, <1>3, <1>7 DEF Places
  <2> QED
    BY <2>1, <2>2, <2>3, <2>4, <2>5, <1>7 DEF IInv, TypeOK, Places
<1>10. ChannelsAgree'
  <2> SUFFICES ASSUME NEW t \in Topics, NEW d \in Sockets
               PROVE  d \in byChannel'[t] <=> d \in byUser'[Owner[d]] /\ t \in channels'[d]
    BY DEF ChannelsAgree
  <2>1. d \in byChannel[t] <=> d \in byUser[Owner[d]] /\ t \in channels[d]
    BY <1>2 DEF ChannelsAgree
  <2>2. Owner[d] \in Users
    BY OwnerAssumption
  <2>3. CASE d = c
    <3>1. d \in byUser'[Owner[d]] /\ channels'[d] = T /\ d \notin byChannel[t]
      BY <2>1, <2>2, <2>3, <1>4, <1>6, <1>8
    <3> QED BY <3>1, <2>3, <1>6
  <2>4. CASE d # c
    <3>1. channels'[d] = channels[d] /\ (d \in byUser'[Owner[d]] <=> d \in byUser[Owner[d]])
      BY <2>2, <2>4, <1>6, <1>8
    <3> QED BY <3>1, <2>1, <2>4, <1>6
  <2> QED BY <2>3, <2>4
<1>11. UsersAgree'
  <2> SUFFICES ASSUME NEW v \in Users, NEW d \in Sockets
               PROVE  d \in byUser'[v] <=> /\ Owner[d] = v
                                          /\ handler'[d] \in {"opening", "open"}
                                          /\ d \notin dropped
    BY <1>7 DEF UsersAgree
  <2>1. CASE d = c
    BY <2>1, <1>1, <1>2, <1>4, <1>7, <1>8 DEF UsersAgree
  <2>2. CASE d # c
    BY <2>2, <1>1, <1>2, <1>7, <1>8 DEF UsersAgree
  <2> QED BY <2>1, <2>2
<1>12. EntriesAgree'
  <2> SUFFICES ASSUME NEW t \in Topics PROVE t \in entries' <=> byChannel'[t] # {}
    BY DEF EntriesAgree
  <2>1. t \in entries <=> byChannel[t] # {}
    BY <1>2 DEF EntriesAgree
  <2>2. t \in entries' <=> t \in entries \/ t \in T
    BY <1>6
  <2>3. byChannel'[t] = byChannel[t] \cup (IF t \in T THEN {c} ELSE {})
    BY <1>6
  <2> QED BY <2>1, <2>2, <2>3
<1>13. FreshApart'
  BY <1>1, <1>2, <1>6, <1>7 DEF FreshApart
<1>14. ListensExactly'
  <2> SUFFICES ASSUME NEW t \in Topics PROVE Wanted(t)' <=> byChannel'[t] # {}
    BY DEF ListensExactly
  <2>1. Wanted(t) <=> byChannel[t] # {}
    BY <1>2 DEF ListensExactly
  <2>2. t \in entries <=> byChannel[t] # {}
    BY <1>2 DEF EntriesAgree
  <2>3. Wanted(t)' <=> t \in T \ entries \/ Wanted(t)
    BY <2>1, <2>2, <1>6, <1>7 DEF Wanted
  <2> QED BY <2>1, <2>2, <2>3, <1>6
<1>15. ClosedHubEmpty'
  BY <1>4, <1>7 DEF ClosedHubEmpty
<1> QED
  BY <1>9, <1>10, <1>11, <1>12, <1>13, <1>14, <1>15 DEF IInv, RoutesAgree

LEMMA SocketKeeps ==
  ASSUME IInv, NEW c \in Sockets, SocketStep(c)
  PROVE  IInv'
<1>1. /\ queued \in [Sockets -> 0..SendBuffer] /\ closeCode \in [Sockets -> CloseCodes]
      /\ conn \in SUBSET Sockets /\ goodbye \in [Sockets -> CloseCodes \cup {NoGoodbye}]
      /\ closed \in BOOLEAN /\ handler \in [Sockets -> Places] /\ dropped \in SUBSET Sockets
  BY DEF IInv, TypeOK, Places
<1>2. \A code \in CloseCodes :
         Leave(c, code) => goodbye' \in [Sockets -> CloseCodes \cup {NoGoodbye}]
  BY <1>1 DEF Leave
<1>3. CASE Upgrade(c)
  <2>1. HandlerKept
    <3>1. handler[c] = "none" /\ c \notin dropped /\ handler' = [handler EXCEPT ![c] = "upgraded"]
      BY <1>3 DEF Upgrade, At, Goto, IInv, RoutesAgree, FreshApart
    <3> QED BY <3>1, <1>1 DEF HandlerKept, Places
  <2> QED
    BY <2>1, <1>1, <1>3, OutsideKeeps DEF Upgrade
<1>4. CASE \E ids \in SUBSET Channels : Connect(c, ids)
  BY <1>4, ConnectKeeps
<1>5. CASE ConnectRefused(c)
  <2>1. HandlerKept
    BY <1>1, <1>5 DEF ConnectRefused, Leave, At, Goto, HandlerKept, Places
  <2> QED
    BY <2>1, <1>1, <1>2, <1>5, OutsideKeeps DEF ConnectRefused, Leave, CloseCodes
<1>6. CASE Refuse(c)
  <2> PICK code \in {SessionEnded, InternalError} : Leave(c, code)
    BY <1>6 DEF Refuse
  <2>1. Leave(c, code) /\ UNCHANGED <<queued, closeCode, closed, listening>>
    BY <1>6 DEF Refuse
  <2>2. /\ conn' \in SUBSET Sockets /\ goodbye' \in [Sockets -> CloseCodes \cup {NoGoodbye}]
        /\ handler' = [handler EXCEPT ![c] = "gone"]
    BY <2>1, <1>1, <1>2 DEF Leave, Goto, CloseCodes
  <2>3. CASE At(c, "upgraded") /\ UNCHANGED <<index, dropped>>
    <3>1. HandlerKept
      BY <2>2, <2>3, <1>1 DEF At, HandlerKept, Places
    <3>2. queued' \in [Sockets -> 0..SendBuffer]
      BY <2>1, <1>1
    <3>3. UNCHANGED <<index, dropped, closed, closeCode, listening>>
      BY <2>1, <2>3
    <3> QED BY <3>1, <3>2, <3>3, <2>2, OutsideKeeps
  <2>4. CASE At(c, "opening") /\ Drop({c})
    <3>1. c \in dropped'
      BY <2>4 DEF Drop, Dropping
    <3>2. HandlerKept
      BY <3>1, <2>2, <1>1 DEF HandlerKept, Places
    <3>3. \A d \in Dropping({c}) : d = c
      BY DEF Dropping
    <3>4. handler[c] \in {"opening", "open"} /\ handler'[c] \notin {"none", "upgraded"}
      BY <2>2, <2>4, <1>1 DEF At
    <3> QED BY <3>2, <3>3, <3>4, <2>1, <2>2, <2>4, <1>1, DropInv
  <2> QED BY <2>3, <2>4, <1>6 DEF Refuse
<1>7. CASE Ready(c)
  <2>1. handler[c] = "opening" /\ handler' = [handler EXCEPT ![c] = "open"]
    BY <1>7 DEF Ready, At, Goto
  <2>2. HandlerKept
    BY <2>1, <1>1 DEF HandlerKept, Places
  <2>3. handler'[c] \notin {"none", "upgraded"}
    BY <2>1, <1>1
  <2> QED
    BY <2>1, <2>2, <2>3, <1>7, DeliverKeeps DEF Ready
<1>8. CASE PumpTakes(c)
  <2>1. queued' \in [Sockets -> 0..SendBuffer]
    BY <1>1, <1>8, BufferAssumption DEF PumpTakes
  <2>2. HandlerKept
    BY <1>8, KeptWhenUnchanged DEF PumpTakes, life
  <2> QED
    BY <2>1, <2>2, <1>1, <1>8, OutsideKeeps DEF PumpTakes, life
<1>9. CASE PumpEnds(c)
  <2>1. goodbye' \in [Sockets -> CloseCodes \cup {NoGoodbye}]
    BY <1>1, <1>9 DEF PumpEnds
  <2>2. HandlerKept
    BY <1>9, KeptWhenUnchanged DEF PumpEnds
  <2> QED
    BY <2>1, <2>2, <1>1, <1>9, OutsideKeeps DEF PumpEnds
<1>10. CASE ConnectionLost(c)
  <2>1. HandlerKept
    BY <1>10, KeptWhenUnchanged DEF ConnectionLost
  <2> QED
    BY <2>1, <1>1, <1>10, OutsideKeeps DEF ConnectionLost
<1>11. CASE Disconnect(c)
  <2>1. handler[c] = "open" /\ handler' = [handler EXCEPT ![c] = "gone"] /\ c \in dropped'
    BY <1>11 DEF Disconnect, At, Goto, Drop, Dropping
  <2>2. HandlerKept
    BY <2>1, <1>1 DEF HandlerKept, Places
  <2>3. handler'[c] \notin {"none", "upgraded"} /\ \A d \in Dropping({c}) : d = c
    BY <2>1, <1>1 DEF Dropping
  <2> QED
    BY <2>1, <2>2, <2>3, <1>1, <1>11, DropInv DEF Disconnect
<1>12. CASE SessionExpires(c)
  <2>1. goodbye' \in [Sockets -> CloseCodes \cup {NoGoodbye}]
    BY <1>1, <1>12 DEF SessionExpires, CloseCodes
  <2>2. HandlerKept
    BY <1>12, KeptWhenUnchanged DEF SessionExpires
  <2> QED
    BY <2>1, <2>2, <1>1, <1>12, OutsideKeeps DEF SessionExpires
<1> QED
  BY <1>3, <1>4, <1>5, <1>6, <1>7, <1>8, <1>9, <1>10, <1>11, <1>12 DEF SocketStep

LEMMA WatchesKeep ==
  ASSUME IInv, ApplyWatches
  PROVE  IInv'
<1>1. /\ byChannel' = byChannel /\ entries' = entries /\ byUser' = byUser
      /\ channels' = channels /\ dropped' = dropped /\ queued' = queued
      /\ closeCode' = closeCode /\ closed' = closed /\ handler' = handler
      /\ conn' = conn /\ goodbye' = goodbye
      /\ listening' = (listening \cup Noted("on")) \ Noted("off")
      /\ notes' = [t \in Topics |-> "none"]
  BY DEF ApplyWatches, life
<1>2. TypeOK'
  <2>1. listening' \in SUBSET Topics
    BY <1>1 DEF IInv, TypeOK, Noted
  <2>2. notes' \in [Topics -> {"none", "on", "off"}]
    BY <1>1
  <2> QED BY <2>1, <2>2, <1>1 DEF IInv, TypeOK
<1>3. RoutesAgree'
  BY <1>1 DEF IInv, RoutesAgree, ChannelsAgree, UsersAgree, EntriesAgree, FreshApart
<1>4. ListensExactly'
  <2> SUFFICES ASSUME NEW t \in Topics PROVE Wanted(t)' <=> byChannel[t] # {}
    BY <1>1 DEF ListensExactly
  <2>1. notes[t] \in {"none", "on", "off"}
    BY DEF IInv, TypeOK
  <2>2. Wanted(t)' <=> Wanted(t)
    BY <2>1, <1>1 DEF Wanted, Noted
  <2> QED BY <2>2 DEF IInv, ListensExactly
<1>5. ClosedHubEmpty'
  BY <1>1 DEF IInv, ClosedHubEmpty, Connected
<1> QED
  BY <1>2, <1>3, <1>4, <1>5 DEF IInv

LEMMA NextKeeps == IInv /\ [Next]_vars => IInv'
<1> SUFFICES ASSUME IInv, [Next]_vars PROVE IInv'
  OBVIOUS
<1>1. CASE \E c \in Sockets : SocketStep(c)
  BY <1>1, SocketKeeps
<1>2. CASE \E u \in Users : RouteStep(u)
  <2> PICK u \in Users : RouteStep(u)
    BY <1>2
  <2>1. ASSUME NEW ch \in Channels, Subscribe(u, ch) PROVE IInv'
    BY <2>1, RerouteKeeps, ChannelsAreTopics DEF Subscribe
  <2>2. ASSUME NEW ch \in Channels, Unsubscribe(u, ch) PROVE IInv'
    BY <2>2, RerouteKeeps, ChannelsAreTopics DEF Unsubscribe
  <2>3. ASSUME NEW chIDs \in SUBSET Channels, SetChannels(u, chIDs) PROVE IInv'
    <3> DEFINE W == chIDs \cup {UserTopic(u)}
    <3>1. W \in SUBSET Topics
      BY ChannelsAreTopics, TopicOfUser
    <3>2. Extra(u, W) \in SUBSET Topics /\ W \cap Extra(u, W) = {}
      <4>1. byUser[u] \subseteq Sockets /\ \A c \in Sockets : channels[c] \subseteq Topics
        BY DEF IInv, TypeOK
      <4> QED BY <4>1 DEF Extra
    <3>3. Reroute(u, W, Extra(u, W))
      BY <2>3 DEF SetChannels
    <3> HIDE DEF W
    <3> QED BY <3>1, <3>2, <3>3, RerouteKeeps
  <2> QED BY <2>1, <2>2, <2>3 DEF RouteStep
<1>3. CASE \E t \in Topics : Publish(t)
  <2> PICK t \in Topics : Publish(t)
    BY <1>3
  <2>1. /\ byChannel[t] \in SUBSET Sockets
        /\ \A c \in byChannel[t] : handler[c] \in {"opening", "open"}
    BY InHub
  <2>2. Deliver(byChannel[t]) /\ handler' = handler /\ conn' = conn /\ goodbye' = goodbye
    BY DEF Publish, life
  <2>3. HandlerKept
    BY <2>2, KeptWhenUnchanged
  <2>4. \A c \in byChannel[t] : handler'[c] \notin {"none", "upgraded"}
    BY <2>1, <2>2
  <2> QED BY <2>1, <2>2, <2>3, <2>4, DeliverKeeps
<1>4. CASE SendAll
  <2>1. Deliver(Connected) /\ handler' = handler /\ conn' = conn /\ goodbye' = goodbye
    BY <1>4 DEF SendAll, life
  <2>2. HandlerKept
    BY <2>1, KeptWhenUnchanged
  <2>3. \A c \in Connected : handler'[c] \notin {"none", "upgraded"}
    BY <2>1, InHub
  <2> QED BY <2>1, <2>2, <2>3, InHub, DeliverKeeps
<1>5. CASE \E s \in Sessions : CloseSession(s)
  <2> PICK s \in Sessions : CloseSession(s)
    BY <1>5
  <2>1. CloseWith(OfSession(s), SessionEnded) /\ closed' = closed
    BY DEF CloseSession
  <2>2. OfSession(s) \in SUBSET Connected /\ SessionEnded \in CloseCodes /\ closed \in BOOLEAN
    BY DEF OfSession, CloseCodes, IInv, TypeOK
  <2> QED BY <2>1, <2>2, CloseKeeps
<1>6. CASE CloseAll
  <2>1. CloseWith(Connected, ServiceRestart) /\ closed' = TRUE /\ ServiceRestart \in CloseCodes
    BY <1>6 DEF CloseAll, CloseCodes
  <2> QED BY <2>1, CloseKeeps
<1>7. CASE ApplyWatches
  BY <1>7, WatchesKeep
<1>8. CASE UNCHANGED vars
  <2>1. HandlerKept
    BY <1>8, KeptWhenUnchanged DEF vars, life
  <2>2. /\ UNCHANGED <<index, dropped, closed, closeCode, listening>>
        /\ queued' \in [Sockets -> 0..SendBuffer] /\ conn' \in SUBSET Sockets
        /\ goodbye' \in [Sockets -> CloseCodes \cup {NoGoodbye}]
    BY <1>8 DEF vars, index, life, IInv, TypeOK
  <2> QED BY <2>1, <2>2, OutsideKeeps
<1> QED
  BY <1>1, <1>2, <1>3, <1>4, <1>5, <1>6, <1>7, <1>8 DEF Next

\* Everything the safety runs check as an invariant, for every size of node.
THEOREM HubInvariant == Spec => []IInv
<1>1. Init => IInv
  BY InitIInv
<1>2. IInv /\ [Next]_vars => IInv'
  BY NextKeeps
<1> QED
  BY <1>1, <1>2, PTL DEF Spec

\* The hub's variables keep their types.
THEOREM HubTypes == Spec => []TypeOK
<1>1. IInv => TypeOK
  BY DEF IInv
<1> QED
  BY <1>1, HubInvariant, PTL

\* hub.go: the three indexes and every socket's own list always agree.
THEOREM HubRoutes == Spec => []RoutesAgree
<1>1. IInv => RoutesAgree
  BY DEF IInv
<1> QED
  BY <1>1, HubInvariant, PTL

\* The notes of hub.go, applied by bus.go, make the node listen to exactly what
\* its sockets read.
THEOREM HubListens == Spec => []ListensExactly
<1>1. IInv => ListensExactly
  BY DEF IInv
<1> QED
  BY <1>1, HubInvariant, PTL

\* Nobody is left in a hub that CloseAll has emptied.
THEOREM HubCloses == Spec => []ClosedHubEmpty
<1>1. IInv => ClosedHubEmpty
  BY DEF IInv
<1> QED
  BY <1>1, HubInvariant, PTL

LEMMA QueuesOfDropped ==
  ASSUME IInv, [Next]_vars, NEW c \in Sockets, c \in dropped
  PROVE  queued'[c] <= queued[c]
<1>1. queued \in [Sockets -> 0..SendBuffer] /\ queued[c] \in Nat
  BY BufferAssumption DEF IInv, TypeOK
<1>2. ASSUME NEW S, Deliver(S) PROVE queued'[c] <= queued[c]
  BY <1>1, <1>2 DEF Deliver, Deliverable
<1>3. CASE queued' = queued
  BY <1>1, <1>3
<1>4. ASSUME NEW d \in Sockets, SocketStep(d) PROVE queued'[c] <= queued[c]
  <2>1. CASE PumpTakes(d)
    BY <2>1, <1>1 DEF PumpTakes
  <2>2. CASE Ready(d)
    BY <2>2, <1>2 DEF Ready
  <2>3. CASE queued' = queued
    BY <2>3, <1>3
  <2> QED
    BY <2>1, <2>2, <2>3, <1>4
    DEF SocketStep, Upgrade, Connect, ConnectRefused, Refuse, PumpEnds, SessionExpires, ConnectionLost, Disconnect
<1>5. ASSUME NEW u \in Users, RouteStep(u) PROVE queued' = queued
  BY <1>5 DEF RouteStep, Subscribe, Unsubscribe, SetChannels, Reroute
<1>6. CASE \E t \in Topics : Publish(t)
  BY <1>6, <1>2 DEF Publish
<1>7. CASE SendAll
  BY <1>7, <1>2 DEF SendAll
<1>8. ASSUME NEW S, NEW code, CloseWith(S, code) PROVE queued' = queued
  BY <1>8 DEF CloseWith
<1>9. CASE \E s \in Sessions : CloseSession(s)
  BY <1>9, <1>8, <1>3 DEF CloseSession
<1>10. CASE CloseAll
  BY <1>10, <1>8, <1>3 DEF CloseAll
<1>11. CASE ApplyWatches
  BY <1>11, <1>3 DEF ApplyWatches
<1>12. CASE UNCHANGED vars
  BY <1>12, <1>3 DEF vars
<1> QED
  BY <1>3, <1>4, <1>5, <1>6, <1>7, <1>9, <1>10, <1>11, <1>12 DEF Next

LEMMA CodesOfDropped ==
  ASSUME IInv, [Next]_vars, NEW c \in Sockets, c \in dropped
  PROVE  c \in dropped' /\ closeCode'[c] = closeCode[c]
<1>1. \A u \in Users : c \notin byUser[u]
  BY DEF IInv, RoutesAgree, UsersAgree
<1>2. ASSUME NEW S, Drop(S) PROVE c \in dropped'
  BY <1>2 DEF Drop
<1>3. ASSUME NEW S, Deliver(S) PROVE c \in dropped' /\ closeCode' = closeCode
  BY <1>3, <1>2 DEF Deliver
<1>4. ASSUME NEW S \in SUBSET Connected, NEW code, CloseWith(S, code)
      PROVE  c \in dropped' /\ closeCode'[c] = closeCode[c]
  <2>1. c \notin S
    BY <1>1 DEF Connected
  <2>2. closeCode \in [Sockets -> CloseCodes]
    BY DEF IInv, TypeOK
  <2> QED BY <2>1, <2>2, <1>2, <1>4 DEF CloseWith
<1>5. ASSUME NEW d \in Sockets, SocketStep(d) PROVE c \in dropped' /\ closeCode' = closeCode
  <2>1. CASE Refuse(d)
    BY <2>1, <1>2 DEF Refuse
  <2>2. CASE Disconnect(d)
    BY <2>2, <1>2 DEF Disconnect
  <2>3. CASE Ready(d)
    BY <2>3, <1>3 DEF Ready
  <2> QED
    BY <2>1, <2>2, <2>3, <1>5
    DEF SocketStep, Upgrade, Connect, ConnectRefused, PumpTakes, PumpEnds, SessionExpires, ConnectionLost
<1>6. ASSUME NEW u \in Users, RouteStep(u) PROVE dropped' = dropped /\ closeCode' = closeCode
  BY <1>6 DEF RouteStep, Subscribe, Unsubscribe, SetChannels, Reroute
<1>7. CASE \E t \in Topics : Publish(t)
  BY <1>7, <1>3 DEF Publish
<1>8. CASE SendAll
  BY <1>8, <1>3 DEF SendAll
<1>9. CASE \E s \in Sessions : CloseSession(s)
  <2>1. \A s \in Sessions : OfSession(s) \in SUBSET Connected
    BY DEF OfSession
  <2> QED BY <2>1, <1>4, <1>9 DEF CloseSession
<1>10. CASE CloseAll
  BY <1>10, <1>4 DEF CloseAll
<1>11. CASE ApplyWatches
  BY <1>11 DEF ApplyWatches
<1>12. CASE UNCHANGED vars
  BY <1>12 DEF vars
<1> QED
  BY <1>5, <1>6, <1>7, <1>8, <1>9, <1>10, <1>11, <1>12 DEF Next

\* Nothing is sent to a dropped socket, which stays dropped with the close code it was
\* dropped with, whatever the interleaving of methods, handlers and shutdown.
THEOREM HubDroppedIsFinal == Spec => DroppedIsFinal
<1>1. IInv /\ [Next]_vars => [\A c \in dropped : queued'[c] <= queued[c]]_vars
  BY QueuesOfDropped DEF IInv, TypeOK
<1>2. IInv /\ [Next]_vars =>
        [\A c \in dropped : c \in dropped' /\ closeCode'[c] = closeCode[c]]_vars
  BY CodesOfDropped DEF IInv, TypeOK
<1>3. IInv /\ [Next]_vars =>
        [\A c \in dropped : /\ c \in dropped' /\ closeCode'[c] = closeCode[c]
                            /\ queued'[c] <= queued[c]]_vars
  BY <1>1, <1>2
<1> QED
  BY <1>3, HubInvariant, PTL DEF Spec, DroppedIsFinal
=============================================================================
