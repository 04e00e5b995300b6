------------------------------- MODULE Hub -------------------------------
(***************************************************************************)
(* The hub of one node (src/server/hub.go) together with the handler of    *)
(* each of its sockets (handleWS, readPump and writePump in                *)
(* src/server/ws.go) and the watch notes it leaves for the bus             *)
(* (change and applyWatches in src/server/bus.go).                         *)
(*                                                                         *)
(* Every hub method holds one mutex from its first line to its last, so a  *)
(* method is one action.  The bus takes its own mutex and may empty the    *)
(* notes between two notes of one method; as no method notes a topic       *)
(* twice, that commutes with emptying them after the method.               *)
(***************************************************************************)
EXTENDS Naturals, FiniteSets

CONSTANTS
    Users,
    Channels,
    Sockets,      \* every Subscriber that is ever made
    Sessions,
    Owner,        \* userID of each socket
    SessionOf,    \* sessionID of each socket
    SendBuffer    \* capacity of a socket's send channel (256 in the code)

UserTopic(u) == <<"u", u>>
Topics == Channels \cup {UserTopic(u) : u \in Users}

PlainDrop      == 0
SessionEnded   == 4001
ServiceRestart == 1012
InternalError  == 1011
CloseCodes     == {PlainDrop, SessionEnded, ServiceRestart, InternalError}

ASSUME OwnerAssumption == Owner \in [Sockets -> Users]
ASSUME SessionOfAssumption == SessionOf \in [Sockets -> Sessions]
ASSUME BufferAssumption == SendBuffer \in Nat \ {0}
\* The "u:" prefix keeps a user's topic out of the space of channel ids.
ASSUME TopicsApart == \A u \in Users : UserTopic(u) \notin Channels

VARIABLES
    byChannel,   \* the sockets of each topic; a topic without an entry has none
    entries,     \* the topics that have an entry in the map byChannel
    byUser,      \* the sockets of each user
    channels,    \* the channels each socket reads
    dropped,     \* the sockets whose send channel is closed
    queued,      \* how many frames wait in each socket's send channel
    closeCode,   \* why the hub dropped each socket
    closed,      \* set by CloseAll
    handler,     \* where each socket's handleWS stands
    conn,        \* the sockets whose connection is up
    goodbye,     \* the close code each write pump put on the wire
    notes,       \* the bus's pending watches, by topic
    listening    \* the topics the bus asked Redis for

index == <<byChannel, entries, byUser, channels, notes>>
life  == <<handler, conn, goodbye>>
vars  == <<index, dropped, queued, closeCode, closed, life, listening>>

NoGoodbye == 1

TypeOK ==
    /\ byChannel \in [Topics -> SUBSET Sockets]
    /\ entries \in SUBSET Topics
    /\ byUser \in [Users -> SUBSET Sockets]
    /\ channels \in [Sockets -> SUBSET Topics]
    /\ dropped \in SUBSET Sockets
    /\ queued \in [Sockets -> 0..SendBuffer]
    /\ closeCode \in [Sockets -> CloseCodes]
    /\ closed \in BOOLEAN
    /\ handler \in [Sockets -> {"none", "upgraded", "opening", "open", "gone"}]
    /\ conn \in SUBSET Sockets
    /\ goodbye \in [Sockets -> CloseCodes \cup {NoGoodbye}]
    /\ notes \in [Topics -> {"none", "on", "off"}]
    /\ listening \in SUBSET Topics

Init ==
    /\ byChannel = [t \in Topics |-> {}]
    /\ entries = {}
    /\ byUser = [u \in Users |-> {}]
    /\ channels = [c \in Sockets |-> {}]
    /\ dropped = {}
    /\ queued = [c \in Sockets |-> 0]
    /\ closeCode = [c \in Sockets |-> PlainDrop]
    /\ closed = FALSE
    /\ handler = [c \in Sockets |-> "none"]
    /\ conn = {}
    /\ goodbye = [c \in Sockets |-> NoGoodbye]
    /\ notes = [t \in Topics |-> "none"]
    /\ listening = {}

-----------------------------------------------------------------------------
(* What the hub's methods are made of.                                     *)

\* attach: the sockets of S that are not dropped start to read the topics T.
Attachable(S) == S \ dropped
Gained(S, T) == IF Attachable(S) = {} THEN {} ELSE T \ entries
Attach(S, T) ==
    /\ byChannel' = [t \in Topics |->
                        byChannel[t] \cup (IF t \in T THEN Attachable(S) ELSE {})]
    /\ channels' = [c \in Sockets |->
                        channels[c] \cup (IF c \in Attachable(S) THEN T ELSE {})]
    /\ entries' = entries \cup Gained(S, T)
    /\ notes' = [t \in Topics |-> IF t \in Gained(S, T) THEN "on" ELSE notes[t]]

\* detachUser, for one channel: every socket of the user stops reading it.  The
\* entry goes only if it is there: a channel nobody watched reads as empty too.
Lost(u, t) == t \in entries /\ byChannel[t] \ byUser[u] = {}

\* drop, for a set of sockets: those already dropped are left as they are.
\* A dropped socket keeps its channels, for the announcement of its going.
Dropping(S) == S \ dropped
Remaining(S, t) == byChannel[t] \ {c \in Dropping(S) : t \in channels[c]}
\* Variant: a topic is tested before the socket is taken out of it.
EmptyBefore(S) == {t \in UNION {channels[c] : c \in Dropping(S)} : byChannel[t] = {}}
Emptied(S) == {t \in UNION {channels[c] : c \in Dropping(S)} : Remaining(S, t) = {}}
\* Variant: drop leaves the socket in its owner's set.
RemainingAll(S, u) == byUser[u]
RemainingOf(S, u) == byUser[u] \ {c \in Dropping(S) : Owner[c] = u}
Drop(S) ==
    /\ dropped' = dropped \cup Dropping(S)
    /\ byChannel' = [t \in Topics |-> Remaining(S, t)]
    /\ entries' = entries \ Emptied(S)
    /\ notes' = [t \in Topics |-> IF t \in Emptied(S) THEN "off" ELSE notes[t]]
    /\ byUser' = [u \in Users |-> RemainingOf(S, u)]
    /\ UNCHANGED channels

\* Variant: deliver does not look whether the socket was dropped.
DeliverableAlways(S) == S
\* deliver, for a set of sockets: one with room gets the frame, one without is
\* dropped, one already dropped is left alone.
Deliverable(S) == S \ dropped
\* Variant: one frame too many is let in.
FullTooLate(S) == {c \in Deliverable(S) : queued[c] > SendBuffer}
Full(S) == {c \in Deliverable(S) : queued[c] = SendBuffer}
Deliver(S) ==
    /\ queued' = [c \in Sockets |-> queued[c] +
                    (IF c \in Deliverable(S) \ Full(S) THEN 1 ELSE 0)]
    /\ Drop(Full(S))
    /\ UNCHANGED <<closeCode, closed, listening>>

Connected == UNION {byUser[u] : u \in Users}

-----------------------------------------------------------------------------
(* The routes: Connect belongs to a socket's handler, below.               *)

\* Every socket of u is attached to the topics W, then detached from the topics
\* X, which share none with W.
Reroute(u, W, X) ==
    LET on  == Gained(byUser[u], W)
        off == {t \in X : Lost(u, t)}
    IN  /\ byChannel' = [t \in Topics |->
              IF t \in W THEN byChannel[t] \cup Attachable(byUser[u])
              ELSE IF t \in X THEN byChannel[t] \ byUser[u]
              ELSE byChannel[t]]
        /\ channels' = [c \in Sockets |->
              IF c \in byUser[u] THEN (channels[c] \cup W) \ X ELSE channels[c]]
        /\ entries' = (entries \cup on) \ off
        /\ notes' = [t \in Topics |-> IF t \in on THEN "on"
                                      ELSE IF t \in off THEN "off" ELSE notes[t]]
        /\ UNCHANGED <<byUser, dropped, queued, closeCode, closed, life, listening>>

Subscribe(u, ch) == Reroute(u, {ch}, {})

Unsubscribe(u, ch) == Reroute(u, {}, {ch})

\* What one socket of u reads beyond the list is taken from all of them.
Extra(u, W) == (UNION {channels[c] : c \in byUser[u]}) \ W
\* Variant: the list replaces the user's own topic too.
SetChannelsBare(u, chIDs) == Reroute(u, chIDs, Extra(u, chIDs))
SetChannels(u, chIDs) ==
    LET W == chIDs \cup {UserTopic(u)} IN Reroute(u, W, Extra(u, W))

-----------------------------------------------------------------------------
(* The frames.                                                             *)

Publish(t) ==
    /\ Deliver(byChannel[t])
    /\ UNCHANGED life

SendAll ==
    /\ Deliver(Connected)
    /\ UNCHANGED life

-----------------------------------------------------------------------------
(* Revocation and shutdown.                                                *)

\* Both walk byUser, give the sockets they take a close code and drop them.
CloseWith(S, code) ==
    /\ closeCode' = [c \in Sockets |-> IF c \in S THEN code ELSE closeCode[c]]
    /\ Drop(S)
    /\ UNCHANGED <<queued, life, listening>>

OfSession(s) == {c \in Connected : SessionOf[c] = s /\ c \notin dropped}
CloseSession(s) ==
    /\ CloseWith(OfSession(s), SessionEnded)
    /\ UNCHANGED closed

CloseAll ==
    /\ closed' = TRUE
    /\ CloseWith(Connected, ServiceRestart)

-----------------------------------------------------------------------------
(* One socket: handleWS and its two pumps.                                 *)

At(c, place) == handler[c] = place
Goto(c, place) == handler' = [handler EXCEPT ![c] = place]

\* The request is upgraded; the session and the channels are being looked up.
Upgrade(c) ==
    /\ At(c, "none")
    /\ Goto(c, "upgraded")
    /\ conn' = conn \cup {c}
    /\ UNCHANGED <<index, dropped, queued, closeCode, closed, goodbye, listening>>

\* Variant: Connect does not look whether the hub is closed.
RefusesNever == FALSE
\* Connect refuses once the hub is closed; the handler then says goodbye itself.
Refuses == closed
Connect(c, ids) ==
    /\ At(c, "upgraded")
    /\ ~Refuses
    /\ Goto(c, "opening")
    /\ byUser' = [byUser EXCEPT ![Owner[c]] = @ \cup {c}]
    /\ Attach({c}, ids \cup {UserTopic(Owner[c])})
    /\ UNCHANGED <<dropped, queued, closeCode, closed, conn, goodbye, listening>>

Leave(c, code) ==
    /\ Goto(c, "gone")
    /\ conn' = conn \ {c}
    /\ goodbye' = [goodbye EXCEPT ![c] = IF c \in conn THEN code ELSE @]

ConnectRefused(c) ==
    /\ At(c, "upgraded")
    /\ Refuses
    /\ Leave(c, ServiceRestart)
    /\ UNCHANGED <<index, dropped, queued, closeCode, closed, listening>>

\* The session is gone before Connect, or when it is asked for again after it; or
\* the database did not answer, which the client is told is a fault of ours.
Refuse(c) ==
    /\ \/ At(c, "upgraded") /\ UNCHANGED <<index, dropped>>
       \/ At(c, "opening") /\ Drop({c})
    /\ \E code \in {SessionEnded, InternalError} : Leave(c, code)
    /\ UNCHANGED <<queued, closeCode, closed, listening>>

\* The bus is settled, or was waited for long enough: ready is sent and the
\* pumps start.
Ready(c) ==
    /\ At(c, "opening")
    /\ Goto(c, "open")
    /\ Deliver({c})
    /\ UNCHANGED <<conn, goodbye>>

\* The write pump puts one frame on the wire.
PumpTakes(c) ==
    /\ At(c, "open") /\ c \in conn /\ queued[c] > 0
    /\ queued' = [queued EXCEPT ![c] = @ - 1]
    /\ UNCHANGED <<index, dropped, closeCode, closed, life, listening>>

\* Variant: the write pump returns and leaves the connection open.
PumpEndsOpen(c) ==
    /\ At(c, "open") /\ c \in conn /\ c \in dropped /\ queued[c] = 0
    /\ goodbye' = [goodbye EXCEPT ![c] = closeCode[c]]
    /\ UNCHANGED <<index, dropped, queued, closeCode, closed, handler, conn, listening>>
\* The write pump has drained a closed send channel: it says goodbye.
PumpEnds(c) ==
    /\ At(c, "open") /\ c \in conn /\ c \in dropped /\ queued[c] = 0
    /\ goodbye' = [goodbye EXCEPT ![c] = closeCode[c]]
    /\ conn' = conn \ {c}
    /\ UNCHANGED <<index, dropped, queued, closeCode, closed, handler, listening>>

\* The write pump's timer: the session has run out.
SessionExpires(c) ==
    /\ At(c, "open") /\ c \in conn
    /\ goodbye' = [goodbye EXCEPT ![c] = SessionEnded]
    /\ conn' = conn \ {c}
    /\ UNCHANGED <<index, dropped, queued, closeCode, closed, handler, listening>>

\* The network or the peer ends the connection, or the read pump times out.
ConnectionLost(c) ==
    /\ c \in conn
    /\ conn' = conn \ {c}
    /\ UNCHANGED <<index, dropped, queued, closeCode, closed, handler, goodbye, listening>>

\* readPump has returned: handleWS takes the socket out of the hub and ends.
Disconnect(c) ==
    /\ At(c, "open") /\ c \notin conn
    /\ Drop({c})
    /\ Goto(c, "gone")
    /\ UNCHANGED <<queued, closeCode, closed, conn, goodbye, listening>>

-----------------------------------------------------------------------------
(* The bus goroutine takes all the notes at once.                          *)

Noted(note) == {t \in Topics : notes[t] = note}
ApplyWatches ==
    /\ Noted("on") \cup Noted("off") # {}
    /\ listening' = (listening \cup Noted("on")) \ Noted("off")
    /\ notes' = [t \in Topics |-> "none"]
    /\ UNCHANGED <<byChannel, entries, byUser, channels, dropped, queued,
                   closeCode, closed, life>>

-----------------------------------------------------------------------------
SocketStep(c) ==
    \/ Upgrade(c)
    \/ \E ids \in SUBSET Channels : Connect(c, ids)
    \/ ConnectRefused(c)
    \/ Refuse(c)
    \/ Ready(c)
    \/ PumpTakes(c)
    \/ PumpEnds(c)
    \/ SessionExpires(c)
    \/ ConnectionLost(c)
    \/ Disconnect(c)

RouteStep(u) ==
    \/ \E ch \in Channels : Subscribe(u, ch)
    \/ \E ch \in Channels : Unsubscribe(u, ch)
    \/ \E chIDs \in SUBSET Channels : SetChannels(u, chIDs)

Next ==
    \/ \E c \in Sockets : SocketStep(c)
    \/ \E u \in Users : RouteStep(u)
    \/ \E t \in Topics : Publish(t)
    \/ SendAll
    \/ \E s \in Sessions : CloseSession(s)
    \/ CloseAll
    \/ ApplyWatches

Spec == Init /\ [][Next]_vars

\* The goroutines of a node run: a socket's handler goes on from where it
\* stands, its write pump writes, and the bus goroutine reads its notes.  Nobody
\* has to open a socket, close one or publish.
HandlerGoesOn(c) ==
    \/ \E ids \in SUBSET Channels : Connect(c, ids)
    \/ ConnectRefused(c)
    \/ Ready(c)
    \/ Disconnect(c)

Fairness ==
    /\ \A c \in Sockets : /\ WF_vars(HandlerGoesOn(c))
                          /\ WF_vars(PumpTakes(c))
                          /\ WF_vars(PumpEnds(c))
    /\ WF_vars(ApplyWatches)

FairSpec == Spec /\ Fairness

-----------------------------------------------------------------------------
(* Properties.                                                             *)

ChannelsAgree ==
    \A t \in Topics, c \in Sockets :
        c \in byChannel[t] <=> c \in byUser[Owner[c]] /\ t \in channels[c]
UsersAgree ==
    \A u \in Users, c \in Sockets :
        c \in byUser[u] <=> /\ Owner[c] = u
                           /\ handler[c] \in {"opening", "open"}
                           /\ c \notin dropped
EntriesAgree == \A t \in Topics : t \in entries <=> byChannel[t] # {}
FreshApart ==
    \A c \in Sockets :
        handler[c] \in {"none", "upgraded"} => c \notin dropped /\ channels[c] = {}

\* byChannel, byUser and the channels each socket carries are three copies of
\* one fact, changed by eight methods: a socket is in a topic's set exactly
\* while it is in the hub and reads the topic, it is in its owner's set exactly
\* while it is connected and not dropped, a topic has an entry exactly while
\* somebody reads it, and a socket not yet connected reads nothing.
RoutesAgree == ChannelsAgree /\ UsersAgree /\ EntriesAgree /\ FreshApart

\* What the bus listens to, once it has applied its notes, is exactly what some
\* socket of this node reads: the last note about a topic always wins, and no
\* method forgets one or leaves one too many.
Wanted(t) == IF notes[t] = "none" THEN t \in listening ELSE notes[t] = "on"
ListensExactly == \A t \in Topics : Wanted(t) <=> byChannel[t] # {}

\* A socket that connects while the process is going away is not left behind:
\* once CloseAll has run, the hub is empty and stays empty.
ClosedHubEmpty == closed => Connected = {} /\ entries = {}

\* A dropped socket is left alone.  No frame is sent on its send channel, which is
\* closed (in Go that is a panic under the mutex), although ready is sent to a socket
\* that a revocation, a full buffer or a shutdown may have dropped since Connect.
\* And its close code is settled, although the write pump reads it later and without
\* the mutex: a shutdown does not turn the 4001 of a revoked session into a 1012 that
\* tells the client to come back.
DroppedIsFinal ==
    [][\A c \in dropped : /\ c \in dropped' /\ closeCode'[c] = closeCode[c]
                          /\ queued'[c] <= queued[c]]_vars

\* Handlers end by themselves, each one that was dropped and all of them after
\* CloseAll, the ones that connect too late included (main waits for them in
\* sockets.Wait): the write pump drains what is queued, says goodbye and closes the
\* connection, which ends the read pump.
HandlersEnd ==
    \A c \in Sockets : c \in dropped \/ closed ~> handler[c] \in {"none", "gone"}

\* The hub keeps the promise of Routes: whatever its maps go through, which socket
\* is served which topic changes only as its callers ask, for all sockets of a user
\* alike, and a frame reaches exactly the sockets served its topic or drops them.
OwnTopics == [u \in Users |-> UserTopic(u)]
Serving   == {ct \in Sockets \X Topics : ct[1] \in byChannel[ct[2]]}
Waiting   == [c \in Sockets |-> IF c \in Connected THEN queued[c] ELSE 0]
Promise == INSTANCE Routes WITH
    OwnTopic <- OwnTopics, Room <- SendBuffer,
    present <- Connected, past <- dropped, serves <- Serving, waiting <- Waiting
ServesRoutes == Promise!Spec
=============================================================================
