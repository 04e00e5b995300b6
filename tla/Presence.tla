----------------------------- MODULE Presence -----------------------------
(***************************************************************************)
(* Who is online (src/server/presence.go, presence_nodes.go, the ends of   *)
(* handleWS in src/server/ws.go, and what a tab makes of it in             *)
(* src/web/src/views/Messenger.vue), for one user and one tab that watches *)
(* that user.  People are independent: every key is one person's or one    *)
(* node's.                                                                 *)
(*                                                                         *)
(* A MULTI block is one step, and so is a pipeline that reads.  What a     *)
(* node announces is on its way from the transaction on: the bus keeps no  *)
(* order between publishers, and a node that dies may take with it what it *)
(* had not published yet.                                                  *)
(*                                                                         *)
(* The code has windows in which presence goes wrong until the next        *)
(* change.  The history variable windows names the ones a behaviour has    *)
(* been through, so that the properties say what holds outside them:       *)
(*   unseen      a decision was taken by a node whose view lacks a live    *)
(*               node that holds a socket                                  *)
(*   sweptAlive  a node that was only slow was claimed as dead             *)
(*   cutShort    a node died inside a sweep, before an announcement, or    *)
(*               before a Redis that had lost everything knew it again     *)
(*   restart     Redis lost everything                                     *)
(*   overwritten the answer of a lookup replaced a newer event             *)
(*   torn        two changes fell between the two reads of one lookup      *)
(*   hidden      a node let a socket in without a word, since it believed  *)
(*               in a node whose pulse had run out already                 *)
(*   failed      a call of Redis failed, applied or not, or an announcement *)
(*               was lost; the code logs it and goes on                    *)
(* The history variable adrift has the sockets nobody puts right any more: *)
(* what a failed call was about, what a sweeper took from a node that had  *)
(* introduced itself again, and what a node leaves that dies inside a      *)
(* sweep, or before a Redis that had forgotten it knew it again.           *)
(***************************************************************************)
EXTENDS Naturals, FiniteSets

CONSTANTS
    Nodes,
    Newcomers,    \* the nodes that start later than the others
    Sockets,      \* the user's sockets, each opened at most once
    Home,         \* the node of each socket
    Faults,       \* what may go wrong: "death" (or a shutdown), "slow", "restart"
    MaxFaults,    \* how often (a bound)
    MaxErrors     \* how many calls of Redis fail (a bound)

None == "none"

ASSUME HomeAssumption == Home \in [Sockets -> Nodes]
ASSUME NewcomersAssumption == Newcomers \subseteq Nodes
ASSUME BoundsAssumption == MaxFaults \in Nat /\ MaxErrors \in Nat /\ Faults \subseteq {"death", "slow", "restart"}
ASSUME NamesAssumption == None \notin Nodes

VARIABLES
    \* Redis
    sockets,    \* presence:sockets:<user>
    index,      \* presence:node:<node>
    version,    \* presence:version:<user>
    registry,   \* presence:nodes
    pulse,      \* the nodes with a key presence:alive:<node>
    sweeper,    \* whether presence:sweeper is held
    epoch,      \* presence:epoch, 0 if it is not set
    clock,      \* what the next epoch would be
    \* nodes
    process,    \* "new", "up", "dead"
    first,      \* the nodes whose first round is still to come
    alive,      \* what each node believes about the others
    epochs,     \* the epoch each node has read
    round,      \* where each node's presenceRound stands
    dead,       \* the dead nodes it has still to sweep
    swept,      \* the one it sweeps
    todo,       \* the sockets it has still to register again, or to remove
    \* handlers, bus, tab
    handler,    \* each socket: "none", "opening" (in the hub), "open", "gone"
    events,     \* announcements on their way to the tab, with the node they are of
    shown,      \* the tab's entry of presence.value
    lookup,     \* its request for the state
    faults, errors, windows, adrift

redis  == <<sockets, index, version, registry, pulse, sweeper, epoch, clock>>
rounds == <<first, alive, epochs, round, dead, swept, todo>>
tab    == <<events, shown, lookup>>
past   == <<faults, errors, windows, adrift>>
vars   == <<redis, process, rounds, handler, tab, past>>

NoState == [online |-> FALSE, version |-> 0, epoch |-> 0]
State   == [online : BOOLEAN, version : Nat, epoch : Nat]
Windows == {"unseen", "sweptAlive", "cutShort", "restart", "overwritten", "torn", "hidden", "failed"}

TypeOK ==
    /\ sockets \in SUBSET Sockets
    /\ index \in [Nodes -> SUBSET Sockets]
    /\ version \in Nat /\ epoch \in Nat /\ clock \in Nat
    /\ registry \in SUBSET Nodes /\ pulse \in SUBSET Nodes /\ sweeper \in BOOLEAN
    /\ process \in [Nodes -> {"new", "up", "dead"}]
    /\ first \in SUBSET Nodes
    /\ alive \in [Nodes -> SUBSET Nodes]
    /\ epochs \in [Nodes -> Nat]
    /\ round \in [Nodes -> {"idle", "register", "listen", "sweep", "claim", "list", "remove"}]
    /\ dead \in [Nodes -> SUBSET Nodes]
    /\ swept \in [Nodes -> Nodes \cup {None}]
    /\ todo \in [Nodes -> SUBSET Sockets]
    /\ handler \in [Sockets -> {"none", "opening", "open", "gone"}]
    /\ events \in SUBSET [by : Nodes, state : State]
    /\ shown \in State
    /\ lookup \in [at : {"none", "sockets", "version", "done"}, state : State, read : Nat]
    /\ faults \in 0 .. MaxFaults /\ errors \in 0 .. MaxErrors
    /\ windows \in SUBSET Windows /\ adrift \in SUBSET Sockets

\* The nodes that are not newcomers have been up for a while.
Old == Nodes \ Newcomers
Init ==
    /\ sockets = {} /\ index = [n \in Nodes |-> {}]
    /\ version = 0 /\ epoch = 1 /\ clock = 2
    /\ registry = Old /\ pulse = Old /\ sweeper = FALSE
    /\ process = [n \in Nodes |-> IF n \in Old THEN "up" ELSE "new"]
    /\ first = Newcomers
    /\ alive = [n \in Nodes |-> IF n \in Old THEN Old ELSE {n}]
    /\ epochs = [n \in Nodes |-> IF n \in Old THEN 1 ELSE 0]
    /\ round = [n \in Nodes |-> "idle"]
    /\ dead = [n \in Nodes |-> {}]
    /\ swept = [n \in Nodes |-> None]
    /\ todo = [n \in Nodes |-> {}]
    /\ handler = [s \in Sockets |-> "none"]
    /\ events = {}
    /\ shown = NoState
    /\ lookup = [at |-> "none", state |-> NoState, read |-> 0]
    /\ faults = 0 /\ errors = 0
    /\ windows = {} /\ adrift = {}

Up(n) == process[n] = "up"
Of(n) == {s \in Sockets : Home[s] = n}
InHub(s) == handler[s] \in {"opening", "open"} /\ Up(Home[s])

-----------------------------------------------------------------------------
(* The two transactions, and what node n announces after them.             *)

\* onlineIn: by the node's own view of who is alive.
OnlineIn(n, S) == \E s \in S : Home[s] \in alive[n]

\* A socket is alive while its node is, or while the others may still believe so.
Alive(s) == Up(Home[s]) \/ Home[s] \in pulse

\* The view lacks the node of such a socket.
Misjudges(n, S) == \E s \in S : Home[s] \notin alive[n] /\ Alive(s)
Through(n, S) == IF Misjudges(n, S) THEN {"unseen"} ELSE {}

\* The view has only nodes that are gone: the user comes online, and nobody is told.
Hides(n, S) == OnlineIn(n, S) /\ \A s \in S : ~Alive(s)
ThroughConnect(n, S) == Through(n, S) \cup (IF Hides(n, S) THEN {"hidden"} ELSE {})

Announce(n, online) ==
    events' = events \cup
        {[by |-> n, state |-> [online |-> online, version |-> version', epoch |-> epochs[n]]]}

\* What the two transactions write.
Record(n, s) ==
    /\ sockets' = sockets \cup {s}
    /\ index' = [index EXCEPT ![n] = @ \cup {s}]
    /\ version' = version + 1

Erase(s) ==
    /\ sockets' = sockets \ {s}
    /\ index' = [index EXCEPT ![Home[s]] = @ \ {s}]
    /\ version' = version + 1

\* connect and, if the user was offline without this socket, the announcement.
ConnectTx(n, s) ==
    /\ Record(n, s)
    /\ IF s \notin sockets /\ ~OnlineIn(n, sockets \ {s})
       THEN Announce(n, TRUE)
       ELSE UNCHANGED events

\* remove, by the socket's own node or by the one that sweeps it.
RemoveTx(n, s) ==
    /\ Erase(s)
    /\ IF s \in sockets /\ ~OnlineIn(n, sockets \ {s})
       THEN Announce(n, FALSE)
       ELSE UNCHANGED events

\* A call of Redis returns an error.  Redis may have applied it all the same: the
\* actions that fail say both.  The sockets of S are what nobody puts right.
Error(S) ==
    /\ errors < MaxErrors /\ errors' = errors + 1
    /\ lookup.at = "none"    \* as in Fault (a bound)
    /\ windows' = windows \cup {"failed"}
    /\ adrift' = adrift \cup S
    /\ UNCHANGED faults

Applied(write, S) == write /\ Error(S)
Dropped(S) == UNCHANGED <<sockets, index, version>> /\ Error(S)

-----------------------------------------------------------------------------
(* A socket's handler.                                                     *)

Handle(s, h) == handler' = [handler EXCEPT ![s] = h]

\* A node answers requests.  Its first beat is sent just before its HTTP server
\* starts, and is taken to be there before the first request.
Serves(n) == Up(n) /\ n \notin first

\* hub.Connect.
Enter(s) ==
    /\ handler[s] = "none" /\ Serves(Home[s])
    /\ Handle(s, "opening")
    /\ UNCHANGED <<redis, process, rounds, tab, past>>

\* The session's second check fails: the socket was never in presence.
Refuse(s) ==
    /\ handler[s] = "opening" /\ Up(Home[s])
    /\ Handle(s, "gone")
    /\ UNCHANGED <<redis, process, rounds, tab, past>>

\* socketOpened.
Open(s) ==
    /\ handler[s] = "opening" /\ Up(Home[s])
    /\ ConnectTx(Home[s], s)
    /\ windows' = windows \cup ThroughConnect(Home[s], sockets)
    /\ Handle(s, "open")
    /\ UNCHANGED <<registry, pulse, sweeper, epoch, clock, process, rounds, shown, lookup,
                   faults, errors, adrift>>

\* connect fails, and the socket stays open.
OpenFails(s) ==
    /\ handler[s] = "opening" /\ Up(Home[s])
    /\ Applied(Record(Home[s], s), {}) \/ Dropped({s})
    /\ Handle(s, "open")
    /\ UNCHANGED <<registry, pulse, sweeper, epoch, clock, process, rounds, tab>>

\* hub.Disconnect, then socketClosed.  Only Beat looks at the hub, and what it
\* copied is registered by steps of its own.
Close(s) ==
    /\ handler[s] = "open" /\ Up(Home[s])
    /\ RemoveTx(Home[s], s)
    /\ windows' = windows \cup Through(Home[s], sockets \ {s})
    /\ Handle(s, "gone")
    /\ UNCHANGED <<registry, pulse, sweeper, epoch, clock, process, rounds, shown, lookup,
                   faults, errors, adrift>>

\* disconnect fails, and the socket may stay recorded under a living node.
CloseFails(s) ==
    /\ handler[s] = "open" /\ Up(Home[s])
    /\ Applied(Erase(s), {}) \/ Dropped({})
    /\ Handle(s, "gone")
    /\ UNCHANGED <<registry, pulse, sweeper, epoch, clock, process, rounds, tab>>

-----------------------------------------------------------------------------
(* presenceRound of node n.                                                *)

At(n, r) == Up(n) /\ round[n] = r
Go(n, r) == round' = [round EXCEPT ![n] = r]

\* Variant: a node Redis has forgotten introduces itself and no more.
BeatOnly(n) ==
    /\ At(n, "idle")
    /\ pulse' = pulse \cup {n}
    /\ registry' = registry \cup {n}
    /\ epoch' = IF epoch = 0 THEN clock ELSE epoch
    /\ epochs' = [epochs EXCEPT ![n] = epoch']
    /\ first' = first \ {n}
    /\ Go(n, "listen") /\ UNCHANGED todo
    /\ UNCHANGED <<sockets, index, version, sweeper, clock, process, alive, dead, swept,
                   handler, tab, past>>

\* beat; a node that Redis has forgotten copies the sockets of its hub.
Beat(n) ==
    /\ At(n, "idle")
    /\ pulse' = pulse \cup {n}
    /\ registry' = registry \cup {n}
    /\ epoch' = IF epoch = 0 THEN clock ELSE epoch
    /\ epochs' = [epochs EXCEPT ![n] = epoch']
    /\ first' = first \ {n}
    /\ IF n \notin registry /\ n \notin first
       THEN /\ todo' = [todo EXCEPT ![n] = {s \in Of(n) : InHub(s)}]
            /\ Go(n, "register")
       ELSE Go(n, "listen") /\ UNCHANGED todo
    /\ UNCHANGED <<sockets, index, version, sweeper, clock, process, alive, dead, swept,
                   handler, tab, past>>

\* The pipeline of beat fails, before one of its writes or after the last, and the
\* round ends.  A node that Redis had forgotten may be known the next time, and then
\* registers nothing; one whose first round this was serves all the same.
BeatFails(n) ==
    /\ At(n, "idle")
    /\ \E applied \in {{}, {"pulse"}, {"pulse", "registry"}, {"pulse", "registry", "epoch"}} :
        /\ pulse' = IF "pulse" \in applied THEN pulse \cup {n} ELSE pulse
        /\ registry' = IF "registry" \in applied THEN registry \cup {n} ELSE registry
        /\ epoch' = IF "epoch" \in applied /\ epoch = 0 THEN clock ELSE epoch
        /\ Error(IF n \in registry' \ registry THEN {s \in Of(n) : handler[s] = "open"} ELSE {})
    /\ first' = first \ {n}
    /\ UNCHANGED <<sockets, index, version, sweeper, clock, process, alive, epochs, round, dead,
                   swept, todo, handler, tab>>

\* reregister, one socket.
Reregister(n, s) ==
    /\ At(n, "register") /\ s \in todo[n]
    /\ ConnectTx(n, s)
    /\ windows' = windows \cup ThroughConnect(n, sockets)
    /\ todo' = [todo EXCEPT ![n] = @ \ {s}]
    /\ UNCHANGED <<registry, pulse, sweeper, epoch, clock, process, first, alive, epochs,
                   round, dead, swept, handler, shown, lookup, faults, errors, adrift>>

\* connect fails, and reregister goes on with the next socket.
ReregisterFails(n, s) ==
    /\ At(n, "register") /\ s \in todo[n]
    /\ Applied(Record(n, s), {}) \/ Dropped({s})
    /\ todo' = [todo EXCEPT ![n] = @ \ {s}]
    /\ UNCHANGED <<registry, pulse, sweeper, epoch, clock, process, first, alive, epochs,
                   round, dead, swept, handler, tab>>

Registered(n) ==
    /\ At(n, "register") /\ todo[n] = {}
    /\ Go(n, "listen")
    /\ UNCHANGED <<redis, process, first, alive, epochs, dead, swept, todo, handler,
                   tab, past>>

\* listen.
Listen(n) ==
    /\ At(n, "listen")
    /\ alive' = [alive EXCEPT ![n] = {n} \cup (registry \cap pulse)]
    /\ dead' = [dead EXCEPT ![n] = registry \ (pulse \cup {n})]
    /\ Go(n, IF dead'[n] = {} THEN "idle" ELSE "sweep")
    /\ UNCHANGED <<redis, process, first, epochs, swept, todo, handler, tab, past>>

\* sweeping: one node cleans up per round.
TakeRound(n) ==
    /\ At(n, "sweep")
    /\ sweeper' = TRUE
    /\ Go(n, IF sweeper THEN "idle" ELSE "claim")
    /\ dead' = IF sweeper THEN [dead EXCEPT ![n] = {}] ELSE dead
    /\ UNCHANGED <<sockets, index, version, registry, pulse, epoch, clock, process, first, alive,
                   epochs, swept, todo, handler, tab, past>>

\* listen or sweeping fails, and the round ends.
GivesUp(n) ==
    /\ \/ At(n, "listen") /\ UNCHANGED sweeper
       \/ At(n, "sweep") /\ sweeper' \in {sweeper, TRUE}
    /\ Error({})
    /\ Go(n, "idle")
    /\ dead' = [dead EXCEPT ![n] = {}]
    /\ UNCHANGED <<sockets, index, version, registry, pulse, epoch, clock, process, first, alive,
                   epochs, swept, todo, handler, tab>>

\* Variant: the dead node is taken off the list, and its sockets are left.
ClaimOne(n) ==
    /\ At(n, "claim") /\ dead[n] # {}
    /\ \E m \in dead[n] :
        /\ dead' = [dead EXCEPT ![n] = @ \ {m}]
        /\ registry' = registry \ {m}
        /\ Go(n, "idle")
    /\ UNCHANGED <<sockets, index, version, pulse, sweeper, epoch, clock, process, first, alive,
                   epochs, swept, todo, handler, tab, past>>

\* sweepNode: only one caller sees the registry entry disappear.
Claim(n) ==
    /\ At(n, "claim") /\ dead[n] # {}
    /\ \E m \in dead[n] :
        /\ dead' = [dead EXCEPT ![n] = @ \ {m}]
        /\ registry' = registry \ {m}
        /\ IF m \in registry
           THEN /\ swept' = [swept EXCEPT ![n] = m]
                /\ Go(n, "list")
                /\ windows' = IF Up(m) THEN windows \cup {"sweptAlive"} ELSE windows
           ELSE UNCHANGED <<swept, round, windows>>
    /\ UNCHANGED <<sockets, index, version, pulse, sweeper, epoch, clock, process, first, alive,
                   epochs, todo, handler, tab, faults, errors, adrift>>

\* A dead node that is on the list no more is swept by whoever took it off, or never.
Abandoned(m) == IF Up(m) THEN {} ELSE Of(m)

\* claim fails, and sweepNode returns.
ClaimFails(n) ==
    /\ At(n, "claim")
    /\ \E m \in dead[n] :
        /\ dead' = [dead EXCEPT ![n] = @ \ {m}]
        /\ \/ UNCHANGED registry /\ Error({})
           \/ registry' = registry \ {m} /\ Error(IF m \in registry THEN Abandoned(m) ELSE {})
    /\ UNCHANGED <<sockets, index, version, pulse, sweeper, epoch, clock, process, first, alive,
                   epochs, round, swept, todo, handler, tab>>

RoundEnds(n) ==
    /\ At(n, "claim") /\ dead[n] = {}
    /\ Go(n, "idle")
    /\ UNCHANGED <<redis, process, first, alive, epochs, dead, swept, todo, handler,
                   tab, past>>

ListSockets(n) ==
    /\ At(n, "list")
    /\ todo' = [todo EXCEPT ![n] = index[swept[n]]]
    /\ Go(n, "remove")
    /\ UNCHANGED <<redis, process, first, alive, epochs, dead, swept, handler,
                   tab, past>>

\* socketsOf fails, and sweepNode returns.
ListFails(n) ==
    /\ At(n, "list")
    /\ Error(Abandoned(swept[n]))
    /\ swept' = [swept EXCEPT ![n] = None]
    /\ Go(n, "claim")
    /\ UNCHANGED <<redis, process, first, alive, epochs, dead, todo, handler, tab>>

\* Of what a sweeper takes, the sockets of a node that has introduced itself again,
\* which will not register them once more.
Astray(S) == {s \in S : Home[s] \in registry}

\* Each socket is removed the way its own node would have.
SweepSocket(n, s) ==
    /\ At(n, "remove") /\ s \in todo[n]
    /\ RemoveTx(n, s)
    /\ windows' = windows \cup Through(n, sockets \ {s})
    /\ adrift' = adrift \cup Astray({s})
    /\ todo' = [todo EXCEPT ![n] = @ \ {s}]
    /\ UNCHANGED <<registry, pulse, sweeper, epoch, clock, process, first, alive, epochs,
                   round, dead, swept, handler, shown, lookup, faults, errors>>

\* remove fails, and sweepNode goes on with the next socket.
SweepFails(n, s) ==
    /\ At(n, "remove") /\ s \in todo[n]
    /\ Applied(Erase(s), Astray({s})) \/ Dropped({s})
    /\ todo' = [todo EXCEPT ![n] = @ \ {s}]
    /\ UNCHANGED <<registry, pulse, sweeper, epoch, clock, process, first, alive, epochs,
                   round, dead, swept, handler, tab>>

\* forget.
Forget(n) ==
    /\ At(n, "remove") /\ todo[n] = {}
    /\ index' = [index EXCEPT ![swept[n]] = {}]
    /\ adrift' = adrift \cup Astray(index[swept[n]])
    /\ swept' = [swept EXCEPT ![n] = None]
    /\ Go(n, "claim")
    /\ UNCHANGED <<sockets, version, registry, pulse, sweeper, epoch, clock, process, first, alive,
                   epochs, dead, todo, handler, tab, faults, errors, windows>>

\* forget fails: the node's set stays as it is.
ForgetFails(n) ==
    /\ At(n, "remove") /\ todo[n] = {}
    /\ Error({})
    /\ swept' = [swept EXCEPT ![n] = None]
    /\ Go(n, "claim")
    /\ UNCHANGED <<redis, process, first, alive, epochs, dead, todo, handler, tab>>

RoundFails(n) ==
    \/ BeatFails(n) \/ (\E s \in Sockets : ReregisterFails(n, s))
    \/ GivesUp(n)
    \/ ClaimFails(n) \/ ListFails(n) \/ (\E s \in Sockets : SweepFails(n, s)) \/ ForgetFails(n)

RoundStep(n) ==
    \/ Beat(n)
    \/ (\E s \in Sockets : Reregister(n, s)) \/ Registered(n)
    \/ Listen(n)
    \/ TakeRound(n) \/ Claim(n) \/ RoundEnds(n)
    \/ ListSockets(n) \/ (\E s \in Sockets : SweepSocket(n, s)) \/ Forget(n)

-----------------------------------------------------------------------------
(* Processes, Redis and the bus.                                            *)

\* Little is said of what a tab shows after a slow node or a restart, so the tab
\* does not ask in such a behaviour (a bound, here and in Ask).
Fault(kind) ==
    /\ kind \in Faults
    /\ kind # "death" => lookup.at = "none"
    /\ faults < MaxFaults /\ faults' = faults + 1

Start(n) ==
    /\ process[n] = "new"
    /\ process' = [process EXCEPT ![n] = "up"]
    /\ UNCHANGED <<redis, rounds, handler, tab, past>>

\* A node dies or shuts down.  A closed hub's handlers leave their sockets in
\* presence, so both are the same to Redis.
Die(n) ==
    /\ Up(n) /\ Fault("death")
    /\ process' = [process EXCEPT ![n] = "dead"]
    /\ handler' = [s \in Sockets |-> IF Home[s] = n /\ handler[s] # "none" THEN "gone" ELSE handler[s]]
    /\ round' = [round EXCEPT ![n] = "idle"]
    /\ todo' = [todo EXCEPT ![n] = {}]
    /\ dead' = [dead EXCEPT ![n] = {}]
    /\ swept' = [swept EXCEPT ![n] = None]
    /\ \E unsent \in SUBSET {e \in events : e.by = n} :
        /\ events' = events \ unsent
        /\ windows' = IF unsent # {} \/ swept[n] # None \/ n \notin registry THEN windows \cup {"cutShort"} ELSE windows
    /\ adrift' = adrift \cup {s \in Sockets : Home[s] = swept[n] \/ (Home[s] = n /\ n \notin registry)}
    /\ UNCHANGED <<redis, first, alive, epochs, shown, lookup, errors>>

\* The pulse lasts three beats: it runs out under a dead node, or a slow one.
PulseRunsOut(n) ==
    /\ n \in pulse
    /\ pulse' = pulse \ {n}
    /\ IF Up(n) THEN Fault("slow") ELSE UNCHANGED faults
    /\ UNCHANGED <<sockets, index, version, registry, sweeper, epoch, clock, process, rounds,
                   handler, tab, errors, windows, adrift>>

RoundKeyRunsOut ==
    /\ sweeper
    /\ sweeper' = FALSE
    /\ UNCHANGED <<sockets, index, version, registry, pulse, epoch, clock, process, rounds,
                   handler, tab, past>>

\* Redis comes back empty; whatever a later epoch is taken from has moved on.
RestartRedis ==
    /\ Fault("restart")
    /\ sockets' = {} /\ index' = [n \in Nodes |-> {}] /\ version' = 0
    /\ registry' = {} /\ pulse' = {} /\ sweeper' = FALSE
    /\ epoch' = 0 /\ clock' = clock + 1
    /\ windows' = windows \cup {"restart"}
    /\ UNCHANGED <<process, rounds, handler, tab, errors, adrift>>

\* An announcement is lost: the channels it was for cannot be read, or the bus
\* cannot publish.
Lose ==
    /\ \E e \in events : events' = events \ {e}
    /\ Error({})
    /\ UNCHANGED <<redis, process, rounds, handler, shown, lookup>>

-----------------------------------------------------------------------------
(* The tab.                                                                *)

\* Variant: the state that came last wins.
NewerAny(had, got) == TRUE

\* newer.
Newer(had, got) ==
    IF got.epoch # had.epoch THEN got.epoch > had.epoch ELSE got.version >= had.version

\* Variant: the tab keeps the event itself.
NoteWhole ==
    /\ \E e \in events :
        /\ events' = events \ {e}
        /\ shown' = IF Newer(shown, e.state) THEN e ELSE shown
    /\ UNCHANGED <<redis, process, rounds, handler, lookup, past>>

\* notePresence.
Note ==
    /\ \E e \in events :
        /\ events' = events \ {e}
        /\ shown' = IF Newer(shown, e.state) THEN e.state ELSE shown
    /\ UNCHANGED <<redis, process, rounds, handler, lookup, past>>

\* loadPresence asks some node once, which reads the sockets,
Ask(n) ==
    /\ lookup.at = "none" /\ Serves(n)
    /\ faults = Cardinality({m \in Nodes : process[m] = "dead"}) /\ errors = 0
    /\ lookup' = [at |-> "sockets", read |-> version,
                  state |-> [online |-> OnlineIn(n, sockets), version |-> 0, epoch |-> epochs[n]]]
    /\ windows' = windows \cup Through(n, sockets)
    /\ UNCHANGED <<redis, process, rounds, handler, events, shown, faults, errors, adrift>>

\* then the version, which need not be of the same moment;
ReadVersion ==
    /\ lookup.at = "sockets"
    /\ lookup' = [lookup EXCEPT !.at = "version", !.state.version = version]
    /\ windows' = IF version > lookup.read + 1 THEN windows \cup {"torn"} ELSE windows
    /\ UNCHANGED <<redis, process, rounds, handler, events, shown, faults, errors, adrift>>

\* the answer replaces what the tab has.
Answer ==
    /\ lookup.at = "version"
    /\ shown' = lookup.state
    /\ windows' = IF \/ shown.epoch > lookup.state.epoch
                     \/ (shown.epoch = lookup.state.epoch /\ shown.version > lookup.read)
                  THEN windows \cup {"overwritten"} ELSE windows
    /\ lookup' = [at |-> "done", state |-> NoState, read |-> 0]
    /\ UNCHANGED <<redis, process, rounds, handler, events, faults, errors, adrift>>

-----------------------------------------------------------------------------
Next ==
    \/ \E s \in Sockets : Enter(s) \/ Refuse(s) \/ Open(s) \/ OpenFails(s) \/ Close(s) \/ CloseFails(s)
    \/ \E n \in Nodes : RoundStep(n) \/ RoundFails(n) \/ Start(n) \/ Die(n) \/ PulseRunsOut(n) \/ Ask(n)
    \/ RoundKeyRunsOut
    \/ RestartRedis \/ Lose
    \/ Note \/ ReadVersion \/ Answer

Spec == Init /\ [][Next]_vars

-----------------------------------------------------------------------------
(* Properties.                                                             *)

Online == \E s \in Sockets : handler[s] = "open" /\ Up(Home[s])

\* Nothing is on its way to the tab.
Arrived == events = {} /\ lookup.at \in {"none", "done"}

\* Once everything has arrived, a tab shows whoever is online as online, and whoever
\* is not as offline as soon as what dead nodes left has been swept - however the
\* events of different nodes crossed, wherever the user moved, and whoever died
\* or shut down under them, outside the windows named above.
TabIsRight ==
    windows = {} /\ Arrived =>
        /\ Online => shown.online
        /\ shown.online /\ (\A s \in sockets : Up(Home[s])) => Online

\* connect: "changed is true when it brought the user online, which is the only case
\* the other nodes have to hear about" - so whoever is online is shown as online, also
\* where a node still believes in one that is gone.
OnlineIsTold == windows \subseteq {"hidden"} /\ Arrived /\ Online => shown.online

\* Every open socket of a node that has beaten since Redis forgot it is recorded
\* under the user and under the node, so that somebody can sweep it: also when Redis
\* came back empty, and when the node was swept as dead and introduced itself again -
\* unless the call that should have recorded it failed, or the sweeper removed it
\* only after that (adrift).
Settled(n) == Up(n) /\ round[n] # "register" /\ (n \in registry \/ n \in first)
OpenIsRecorded ==
    \A s \in Sockets \ adrift : handler[s] = "open" /\ Settled(Home[s])
        => s \in sockets /\ s \in index[Home[s]]

\* The two sets move together: what the user's set holds can be swept, until a
\* removal fails in a sweep that goes on to forget the node's set (adrift).
CanBeSwept ==
    "sweptAlive" \notin windows =>
        \A s \in Sockets \ adrift : s \in sockets <=> s \in index[Home[s]]

\* What a dead node left is in somebody's hands: the node is registered still,
\* for the next round to find, or a living node has claimed it and has the socket
\* before it.  Not so what belongs to nobody from then on (adrift): a sweeper died
\* with it in hand, the sweep met an error after its claim, or the node died while
\* Redis did not know it.  Nothing is said once a living node has been swept.
HasASweeper ==
    "sweptAlive" \notin windows =>
        \A s \in sockets \ adrift : process[Home[s]] = "dead" =>
            \/ Home[s] \in registry
            \/ \E m \in Nodes : /\ Up(m) /\ swept[m] = Home[s]
                                /\ round[m] = "list" \/ s \in todo[m]
=============================================================================
