-------------------------------- MODULE Bus --------------------------------
(***************************************************************************)
(* The bus of one node (src/server/bus.go): the goroutine Run, the notes   *)
(* the hub leaves for it, the subscription connection to Redis with its    *)
(* losses and reconnections, Settled, and the resyncs that follow a loss.  *)
(*                                                                         *)
(* Of the hub only what the bus sees of it is kept: a socket reads its     *)
(* channels from Connect to Disconnect, and a channel is watched while     *)
(* somebody reads it (module Hub shows that much).  Of a frame only that   *)
(* it missed a socket is kept.                                             *)
(*                                                                         *)
(* Redis and the client library are modelled from what bus.go says of      *)
(* them: a command is written before it is executed, each topic of a       *)
(* SUBSCRIBE is confirmed by a reply of its own, and a new connection      *)
(* subscribes everything again.                                            *)
(***************************************************************************)
EXTENDS Naturals, FiniteSets, Sequences

CONSTANTS
    Channels,
    Permanent,       \* the topics subscribed in newBus
    SessionTopic,    \* the one whose confirmation tells of a reconnection
    Sockets,         \* each calls Settled once
    Reads,           \* the channels of each socket
    MaxBreaks,       \* how often the connection is lost
    MaxFailures      \* how many publishes fail

Topics == Channels \cup Permanent

ASSUME SessionTopicAssumption == SessionTopic \in Permanent
ASSUME ApartAssumption == Channels \cap Permanent = {}
ASSUME ReadsAssumption == Reads \in [Sockets -> SUBSET Channels]
ASSUME FiniteAssumption == IsFiniteSet(Channels)
ASSUME BoundsAssumption == {MaxBreaks, MaxFailures} \subseteq Nat

VARIABLES
    stage,         \* each socket: "new", "connected", "waiting", "open", "gone"
    notes,         \* pending
    wake,          \* whether the wake channel holds a signal
    waiters,       \* the sockets whose Settled Run has not seen
    held,          \* those it has seen and not let go
    released,      \* those whose done channel is closed
    unconfirmed,   \* subscriptions written and not confirmed
    recorded,      \* the topics the client library subscribes again
    link,          \* the subscription connection: "up", "dead" before the library
                   \* has noticed, "down" after
    commands,      \* written and not executed
    subscribed,    \* what Redis sends down the connection
    replies,       \* from Redis, not read by Run
    gaps,          \* recoveries that run, and will send resync
    lost,          \* a publish failed and nobody was told
    announcing,    \* announceIfLost between its swap and its publish
    covered,       \* history: open sockets whose channels were all subscribed
    missed,        \* history: those of them a frame passed by since resync
    breaks,        \* how often the connection was lost
    failures       \* how many publishes have failed

asked   == <<notes, wake, waiters>>
run     == <<held, released, unconfirmed, recorded>>
redis   == <<link, commands, subscribed, replies>>
telling == <<gaps, lost, announcing>>
history == <<covered, missed, breaks, failures>>
vars    == <<stage, asked, run, redis, telling, history>>

Command == [on : BOOLEAN, topics : SUBSET Topics]
ResyncTold == [confirmed |-> FALSE, topics |-> {}]
Confirmed(T) == [confirmed |-> TRUE, topics |-> T]
Reply == {ResyncTold} \cup {Confirmed(T) : T \in SUBSET Topics}

TypeOK ==
    /\ stage \in [Sockets -> {"new", "connected", "waiting", "open", "gone"}]
    /\ notes \in [Channels -> {"none", "on", "off"}]
    /\ wake \in BOOLEAN
    /\ waiters \cup held \cup released \in SUBSET Sockets
    /\ unconfirmed \in Nat
    /\ recorded \in SUBSET Channels
    /\ link \in {"up", "dead", "down"}
    /\ commands \in Seq(Command)
    /\ subscribed \in SUBSET Topics
    /\ replies \in Seq(Reply)
    /\ gaps \in Nat
    /\ lost \in BOOLEAN
    /\ announcing \in Nat
    /\ missed \subseteq covered /\ covered \subseteq {c \in Sockets : stage[c] = "open"}
    /\ breaks \in 0..MaxBreaks
    /\ failures \in 0..MaxFailures

\* newBus returns when every permanent topic is confirmed.
Init ==
    /\ stage = [c \in Sockets |-> "new"]
    /\ notes = [t \in Channels |-> "none"]
    /\ wake = FALSE
    /\ waiters = {} /\ held = {} /\ released = {}
    /\ unconfirmed = 0
    /\ recorded = {}
    /\ link = "up"
    /\ commands = <<>>
    /\ subscribed = Permanent
    /\ replies = <<>>
    /\ gaps = 0
    /\ lost = FALSE
    /\ announcing = 0
    /\ covered = {} /\ missed = {}
    /\ breaks = 0 /\ failures = 0

-----------------------------------------------------------------------------
(* The sockets: their handlers run beside the bus goroutine.               *)

InHub == {c \in Sockets : stage[c] \in {"connected", "waiting", "open"}}
Readers(t) == {c \in InHub : t \in Reads[c]}

\* Watch and Unwatch: the hub notes what it begins and what it ceases to read.
Note(T, on) ==
    /\ notes' = [t \in Channels |-> IF t \in T THEN on ELSE notes[t]]
    /\ wake' = (wake \/ T # {})

Connect(c) ==
    /\ stage[c] = "new"
    /\ stage' = [stage EXCEPT ![c] = "connected"]
    /\ Note({t \in Reads[c] : Readers(t) = {}}, "on")
    /\ UNCHANGED <<waiters, run, redis, telling, history>>

Settled(c) ==
    /\ stage[c] = "connected"
    /\ stage' = [stage EXCEPT ![c] = "waiting"]
    /\ waiters' = waiters \cup {c}
    /\ wake' = TRUE
    /\ UNCHANGED <<notes, run, redis, telling, history>>

\* The sockets of S whose channels are all subscribed, with nothing on its way
\* that would undo it.
Heard(S, topics, ahead) ==
    {c \in S : /\ Reads[c] \subseteq topics
               /\ \A t \in Reads[c] : notes[t] = "none"
               /\ \A i \in 1..Len(ahead) : ahead[i].on \/ ahead[i].topics \cap Reads[c] = {}}
\* Settled returns, or its context ends: ready is sent either way.
Open(c) ==
    /\ stage' = [stage EXCEPT ![c] = "open"]
    /\ covered' = covered \cup Heard({c}, subscribed, commands)
    /\ UNCHANGED <<asked, run, redis, telling, missed, breaks, failures>>
SettledReturns(c) == stage[c] = "waiting" /\ c \in released /\ Open(c)
SettledTimesOut(c) == stage[c] = "waiting" /\ c \notin released /\ Open(c)

Disconnect(c) ==
    /\ stage[c] = "open"
    /\ stage' = [stage EXCEPT ![c] = "gone"]
    /\ Note({t \in Reads[c] : Readers(t) = {c}}, "off")
    /\ covered' = covered \ {c}
    /\ missed' = missed \ {c}
    /\ UNCHANGED <<waiters, run, redis, telling, breaks, failures>>

-----------------------------------------------------------------------------
(* Run.                                                                    *)

Noted(on) == {t \in Channels : notes[t] = on}
Write(on, T) == IF T = {} THEN <<>> ELSE <<[on |-> on, topics |-> T]>>

\* release, given the callers that are held and the count.
Release(callers, count) ==
    /\ released' = released \cup (IF count = 0 THEN callers ELSE {})
    /\ held' = IF count = 0 THEN {} ELSE callers
    /\ unconfirmed' = count

\* Variant: the library forgets the channels of a command it could not write.
RecordWritten(add, drop) == IF link = "down" THEN recorded ELSE (recorded \cup add) \ drop
\* The library records the channels whatever the command returned.
Record(add, drop) == (recorded \cup add) \ drop
\* Variant: the callers are let go before the new channels are counted.
CountLater(add) == unconfirmed
\* A write that fails is not counted; one into a connection that is dead, and
\* not known to be, succeeds.
Count(add) == unconfirmed + (IF link = "down" THEN 0 ELSE Cardinality(add))

ApplyWatches ==
    /\ wake
    /\ wake' = FALSE
    /\ notes' = [t \in Channels |-> "none"]
    /\ waiters' = {}
    /\ commands' = IF link = "up"
                   THEN commands \o Write(TRUE, Noted("on")) \o Write(FALSE, Noted("off"))
                   ELSE commands
    /\ recorded' = Record(Noted("on"), Noted("off"))
    /\ Release(held \cup waiters, Count(Noted("on")))
    /\ UNCHANGED <<stage, link, subscribed, replies, telling, history>>

\* Variant: the count is not kept from going below zero.
OffAlways == unconfirmed - 1
\* A reconnection confirms more topics than this node has counted.
Off == IF unconfirmed > 0 THEN unconfirmed - 1 ELSE 0

\* Variant: a reconnection is not noticed.
GapNever(t) == UNCHANGED gaps
Gap(t) == gaps' = gaps + (IF t = SessionTopic THEN 1 ELSE 0)

\* One confirmation is read.  The replies to one command come in any order.
ConfirmedOne(t) ==
    /\ replies # <<>> /\ t \in Head(replies).topics
    /\ LET rest == Head(replies).topics \ {t}
       IN  replies' = IF rest = {} THEN Tail(replies)
                      ELSE <<Confirmed(rest)>> \o Tail(replies)
    /\ Gap(t)
    /\ Release(held, Off)
    /\ UNCHANGED <<stage, asked, recorded, link, commands, subscribed, lost, announcing,
                   history>>

DispatchResync ==
    /\ replies # <<>> /\ Head(replies) = ResyncTold
    /\ replies' = Tail(replies)
    /\ gaps' = gaps + 1
    /\ UNCHANGED <<stage, asked, run, link, commands, subscribed, lost, announcing, history>>

\* recoverFromGap ends: every socket in the hub is sent resync.
Resync ==
    /\ gaps > 0
    /\ gaps' = gaps - 1
    /\ missed' = {}
    /\ UNCHANGED <<stage, asked, run, redis, lost, announcing, covered, breaks, failures>>

-----------------------------------------------------------------------------
(* Publishing, from this node: a failure is remembered, and told once      *)
(* Redis takes a publish again.                                            *)

PublishFails(t) ==
    /\ failures < MaxFailures
    /\ failures' = failures + 1
    /\ lost' = TRUE
    /\ missed' = missed \cup {c \in covered : t \in Reads[c]}
    /\ UNCHANGED <<stage, asked, run, redis, gaps, announcing, covered, breaks>>

AnnounceIfLost ==
    /\ lost
    /\ lost' = FALSE
    /\ announcing' = announcing + 1
    /\ UNCHANGED <<stage, asked, run, redis, gaps, history>>

AnnounceEnds(ok) ==
    /\ announcing > 0
    /\ announcing' = announcing - 1
    /\ lost' = (lost \/ ~ok)
    /\ ok \/ failures < MaxFailures
    /\ failures' = failures + (IF ok THEN 0 ELSE 1)
    /\ replies' = IF ok /\ Permanent \subseteq subscribed
                  THEN Append(replies, ResyncTold) ELSE replies
    /\ UNCHANGED <<stage, asked, run, link, commands, subscribed, gaps,
                   covered, missed, breaks>>

-----------------------------------------------------------------------------
(* Redis and the subscription connection.                                  *)

Execute ==
    /\ commands # <<>>
    /\ LET k == Head(commands) IN
         /\ subscribed' = IF k.on THEN subscribed \cup k.topics ELSE subscribed \ k.topics
         /\ replies' = IF k.on THEN Append(replies, Confirmed(k.topics)) ELSE replies
    /\ commands' = Tail(commands)
    /\ covered' = covered \cup
          Heard({c \in Sockets : stage[c] = "open"}, subscribed', commands')
    /\ UNCHANGED <<stage, asked, run, link, telling, missed, breaks, failures>>

\* Somebody publishes to a channel this node does not hear.
PassesBy(t) ==
    /\ t \notin subscribed
    /\ missed' = missed \cup {c \in covered : t \in Reads[c]}
    /\ missed' # missed
    /\ UNCHANGED <<stage, asked, run, redis, telling, covered, breaks, failures>>

\* The connection is lost, with the commands on it, what Redis had sent and Run
\* has not been handed, and the frames among it.
Received(k, T) ==
    IF T = {} THEN SubSeq(replies, 1, k) ELSE Append(SubSeq(replies, 1, k), Confirmed(T))
Break ==
    /\ link = "up" /\ breaks < MaxBreaks
    /\ breaks' = breaks + 1
    /\ link' = "dead"
    /\ subscribed' = {}
    /\ commands' = <<>>
    /\ \E k \in 0..Len(replies) :
         \E T \in SUBSET (IF k < Len(replies) THEN replies[k + 1].topics ELSE {}) :
            replies' = Received(k, T)
    /\ missed' = covered
    /\ UNCHANGED <<stage, asked, run, telling, covered, failures>>

Noticed ==
    /\ link = "dead"
    /\ link' = "down"
    /\ UNCHANGED <<stage, asked, run, commands, subscribed, replies, telling, history>>

Reconnect ==
    /\ link = "down"
    /\ link' = "up"
    /\ commands' = <<[on |-> TRUE, topics |-> recorded \cup Permanent]>>
    /\ UNCHANGED <<stage, asked, run, subscribed, replies, telling, history>>

-----------------------------------------------------------------------------
Run ==
    \/ ApplyWatches
    \/ \E t \in Topics : ConfirmedOne(t)
    \/ DispatchResync

Redis == Execute \/ Noticed \/ Reconnect

Announce == AnnounceIfLost \/ AnnounceEnds(TRUE)

Next ==
    \/ \E c \in Sockets : Connect(c) \/ Settled(c) \/ SettledReturns(c)
                             \/ SettledTimesOut(c) \/ Disconnect(c)
    \/ Run
    \/ Resync
    \/ \E t \in Channels : PublishFails(t) \/ PassesBy(t)
    \/ Announce
    \/ AnnounceEnds(FALSE)
    \/ Redis
    \/ Break

Spec == Init /\ [][Next]_vars

\* The bus goroutine runs, Redis executes what it is sent, and a lost connection
\* is noticed and opened again.
Fairness == WF_vars(Run) /\ WF_vars(Redis)
FairSpec == Spec /\ Fairness

-----------------------------------------------------------------------------
(* Properties.                                                             *)

\* A loss is never the end of the matter (bus.go, publish: "Once Redis takes a
\* publish again, every node is told to resync"): while a frame has passed by a
\* socket whose channels were once subscribed, a resync is still to come.
ResyncComing ==
    \/ link # "up" \/ gaps > 0 \/ lost \/ announcing > 0
    \/ \E i \in 1..Len(commands) : SessionTopic \in commands[i].topics
    \/ \E i \in 1..Len(replies) :
          replies[i] = ResyncTold \/ SessionTopic \in replies[i].topics
LossIsFollowed == missed # {} => ResyncComing

\* Until the connection is lost for the first time, Settled keeps its word (bus.go:
\* it "returns once every channel this node listens to is confirmed by Redis"):
\* whoever is let go has its channels subscribed.
SettledAtFirst ==
    [][\A c \in released' \ released :
          stage[c] = "waiting" /\ breaks = 0 => Reads[c] \subseteq subscribed]_vars

\* Whatever the connection goes through, a channel that stays read is subscribed
\* in the end, and one that stays unread is not.
ReadIsSubscribed ==
    \A t \in Channels :
        /\ <>[](Readers(t) # {}) => <>[](t \in subscribed)
        /\ <>[](Readers(t) = {}) => <>[](t \notin subscribed)
=============================================================================
