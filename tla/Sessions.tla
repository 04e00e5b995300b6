----------------------------- MODULE Sessions -----------------------------
(***************************************************************************)
(* Sessions and their revocation: the store of every node with its cache   *)
(* (src/server/sessions.go), the sockets that authenticate with them       *)
(* (handleWS in src/server/ws.go), the revocation events of the bus        *)
(* (wireRevocation in src/server/main.go) and the part of recoverFromGap   *)
(* (src/server/bus.go) that asks whether a socket's session still exists.  *)
(*                                                                         *)
(* A step is what happens under one lock or in one database operation, so  *)
(* every await of the code is a point where the others may run.  The       *)
(* counter "invalidations" is compared with the value a lookup noted and   *)
(* for nothing else: moved holds the lookups whose value is out of date.   *)
(***************************************************************************)
EXTENDS Naturals, FiniteSets

CONSTANTS
    Nodes,
    Sess,          \* the sessions that are ever created
    Requests,      \* HTTP requests that authenticate
    Sockets,       \* WebSocket connections
    Home,          \* the node each of them reaches
    TokenOf,       \* the session whose token it carries
    SlowLogins,    \* a session may end before its login has cached it
    BusLoses       \* a revocation event may pass a node by

Clients == Requests \cup Sockets

ASSUME HomeAssumption == Home \in [Clients -> Nodes]
ASSUME TokenAssumption == TokenOf \in [Clients -> Sess]
ASSUME DisjointAssumption == Requests \cap Sockets = {}
\* No node is called like a state of Create.
ASSUME NamesAssumption == {"none", "done"} \cap Nodes = {}
ASSUME FlagsAssumption == SlowLogins \in BOOLEAN /\ BusLoses \in BOOLEAN

VARIABLES
    db,         \* the documents of the collection "sessions"
    expired,    \* the sessions whose expires_at has passed
    login,      \* each session's Create: "none", the node that inserted it, "done"
    cache,      \* the sessions in each node's cache
    moved,      \* the lookups whose noted counter is out of date
    look,       \* where each client's ByToken stands
    stage,      \* where each client's handler stands
    evicted,    \* the sockets the hub has dropped
    removal,    \* where the removal of each session stands
    remover,    \* and on which node it runs
    events,     \* what each node has still to invalidate: sessions whose event is
                \* on its way, or that its recovery did not find
    heard,      \* sessions a node has invalidated for that, not yet closed
    owed,       \* nodes whose bus missed an event: they will recover
    toCheck,    \* the sockets each node's recovery has still to ask about
    told,       \* history: the ended sessions a node has invalidated
    shut        \* history: the ended sessions whose sockets a node has closed

store  == <<db, expired, login>>
nodes  == <<cache, moved, told>>
client == <<look, stage>>
hub    == <<evicted, shut>>
bus    == <<events, heard, owed, toCheck>>
ending == <<removal, remover>>
vars   == <<store, nodes, client, hub, ending, bus>>

TypeOK ==
    /\ db \in SUBSET Sess
    /\ expired \in SUBSET Sess
    /\ login \in [Sess -> Nodes \cup {"none", "done"}]
    /\ cache \in [Nodes -> SUBSET Sess]
    /\ moved \in SUBSET Clients
    /\ look \in [Clients -> {"none", "asking", "caching", "found",
                             "expiring", "touching", "recaching"}]
    /\ stage \in [Clients -> {"new", "first", "authed", "connected", "second",
                              "open", "recheck", "served", "gone"}]
    /\ \A r \in Requests : stage[r] \in {"new", "first", "served", "gone"}
    /\ evicted \in SUBSET Sockets
    /\ removal \in [Sess -> {"none", "deleted", "invalidated", "closed", "announced"}]
    /\ remover \in [Sess -> Nodes \cup {"none"}]
    /\ events \in [Nodes -> SUBSET Sess]
    /\ heard \in [Nodes -> SUBSET Sess]
    /\ owed \in SUBSET Nodes
    /\ toCheck \in [Nodes -> SUBSET Sockets]
    /\ told \in [Nodes -> SUBSET Sess]
    /\ shut \in [Nodes -> SUBSET Sess]

Init ==
    /\ db = {}
    /\ expired = {}
    /\ login = [s \in Sess |-> "none"]
    /\ cache = [n \in Nodes |-> {}]
    /\ moved = {}
    /\ look = [p \in Clients |-> "none"]
    /\ stage = [p \in Clients |-> "new"]
    /\ evicted = {}
    /\ removal = [s \in Sess |-> "none"]
    /\ remover = [s \in Sess |-> "none"]
    /\ events = [n \in Nodes |-> {}]
    /\ heard = [n \in Nodes |-> {}]
    /\ owed = {}
    /\ toCheck = [n \in Nodes |-> {}]
    /\ told = [n \in Nodes |-> {}]
    /\ shut = [n \in Nodes |-> {}]

Ended(s) == login[s] # "none" /\ s \notin db

-----------------------------------------------------------------------------
(* What the store does to one node's cache, each under its lock.           *)

Put(n, s) == cache' = [cache EXCEPT ![n] = @ \cup {s}]
Forget(n, s) == cache' = [cache EXCEPT ![n] = @ \ {s}]

\* Variant: a lookup caches what it read, whatever happened since.
CurrentAlways(p) == TRUE
\* putIfCurrent: what a lookup read is cached unless something was invalidated
\* on its node since it began.
Current(p) == p \notin moved
PutIfCurrent(p) ==
    IF Current(p) THEN Put(Home[p], TokenOf[p]) ELSE UNCHANGED cache

\* invalidate and invalidateByID: the entry goes and the counter moves.
Moves(n) == {p \in Clients : Home[p] = n}
Invalidate(n, s) ==
    /\ Forget(n, s)
    /\ moved' = moved \cup Moves(n)
    /\ told' = [told EXCEPT ![n] = @ \cup {s}]

\* The sockets of node n that are in its hub.
InHub(n) == {p \in Sockets \ evicted : /\ Home[p] = n
                                       /\ stage[p] \in {"connected", "second", "open", "recheck"}}
CloseSession(n, s) ==
    /\ evicted' = evicted \cup {p \in InHub(n) : TokenOf[p] = s}
    /\ shut' = [shut EXCEPT ![n] = @ \cup {s}]

-----------------------------------------------------------------------------
(* Create: the document is inserted, then the new session is cached.       *)

CreateInserts(n, s) ==
    /\ login[s] = "none"
    /\ login' = [login EXCEPT ![s] = n]
    /\ db' = db \cup {s}
    /\ UNCHANGED <<expired, nodes, client, hub, ending, bus>>

CreatePuts(s) ==
    /\ login[s] \in Nodes
    /\ Put(login[s], s)
    /\ login' = [login EXCEPT ![s] = "done"]
    /\ UNCHANGED <<db, expired, moved, told, client, hub, ending, bus>>

-----------------------------------------------------------------------------
(* Time: a session runs out, and Mongo's TTL index deletes it in silence;  *)
(* a cache entry reaches cacheTTL.                                         *)

Expire(s) ==
    /\ s \notin expired /\ login[s] = "done"
    /\ expired' = expired \cup {s}
    /\ UNCHANGED <<db, login, nodes, client, hub, ending, bus>>

TTLDeletes(s) ==
    /\ s \in expired \cap db
    /\ db' = db \ {s}
    /\ UNCHANGED <<expired, login, nodes, client, hub, ending, bus>>

CacheExpires(n, s) ==
    /\ s \in cache[n]
    /\ Forget(n, s)
    /\ UNCHANGED <<store, moved, told, client, hub, ending, bus>>

-----------------------------------------------------------------------------
(* ByToken, step by step, for the handler of client p.                     *)

\* Variant: a request goes on as a socket does.
Next1Alike(p, ok) ==
    IF ~ok THEN "gone" ELSE IF stage[p] = "first" THEN "authed" ELSE "open"
\* What the handler does with the answer.
Next1(p, ok) ==
    IF ~ok THEN "gone"
    ELSE IF p \in Requests THEN "served"
    ELSE IF stage[p] = "first" THEN "authed" ELSE "open"
Answer(p, ok) ==
    /\ look' = [look EXCEPT ![p] = "none"]
    /\ stage' = [stage EXCEPT ![p] = Next1(p, ok)]

\* One look at the cache; the counter is noted under the same lock.
Begin(p, place) ==
    /\ stage' = [stage EXCEPT ![p] = place]
    /\ look' = [look EXCEPT ![p] = IF TokenOf[p] \in cache[Home[p]]
                                   THEN "found" ELSE "asking"]
    /\ moved' = moved \ {p}
    /\ UNCHANGED <<store, cache, told, hub, ending, bus>>

Ask(p) ==
    /\ look[p] = "asking"
    /\ \/ /\ TokenOf[p] \in db
          /\ look' = [look EXCEPT ![p] = "caching"]
          /\ UNCHANGED <<cache, stage>>
       \/ /\ TokenOf[p] \notin db
          /\ Forget(Home[p], TokenOf[p])
          /\ Answer(p, FALSE)
    /\ UNCHANGED <<store, moved, told, hub, ending, bus>>

Cache(p) ==
    /\ look[p] = "caching"
    /\ PutIfCurrent(p)
    /\ look' = [look EXCEPT ![p] = "found"]
    /\ UNCHANGED <<store, moved, told, stage, hub, ending, bus>>

\* A session used a moment ago is not touched.
Return(p) ==
    /\ look[p] = "found" /\ TokenOf[p] \notin expired
    /\ Answer(p, TRUE)
    /\ UNCHANGED <<store, nodes, hub, ending, bus>>

NeedsTouch(p) ==
    /\ look[p] = "found" /\ TokenOf[p] \notin expired
    /\ look' = [look EXCEPT ![p] = "touching"]
    /\ UNCHANGED <<store, nodes, stage, hub, ending, bus>>

\* UpdateOne: no document matched means the session was deleted meanwhile, and
\* the extended copy is not cached.
Touch(p) ==
    /\ look[p] = "touching"
    /\ \/ /\ TokenOf[p] \in db
          /\ expired' = expired \ {TokenOf[p]}
          /\ look' = [look EXCEPT ![p] = "recaching"]
          /\ UNCHANGED stage
       \/ /\ TokenOf[p] \notin db
          /\ Answer(p, TRUE)
          /\ UNCHANGED expired
    /\ UNCHANGED <<db, login, nodes, hub, ending, bus>>

Recache(p) ==
    /\ look[p] = "recaching"
    /\ PutIfCurrent(p)
    /\ Answer(p, TRUE)
    /\ UNCHANGED <<store, moved, told, hub, ending, bus>>

-----------------------------------------------------------------------------
(* The end of a session: Revoke, Delete for a sign-out, and Delete of an   *)
(* expired session by the lookup that found it.  FindOneAndDelete hands    *)
(* the document to one caller, so there is one removal of a session.       *)

Remove(n, s) ==
    /\ s \in db
    /\ SlowLogins \/ login[s] = "done"
    /\ db' = db \ {s}
    /\ removal' = [removal EXCEPT ![s] = "deleted"]
    /\ remover' = [remover EXCEPT ![s] = n]

End(n, s) ==
    /\ Remove(n, s)
    /\ UNCHANGED <<expired, login, nodes, client, hub, bus>>

\* Signing out with a token that is gone already only forgets it.
SignOutAgain(n, s) ==
    /\ Ended(s) /\ s \in cache[n]
    /\ Forget(n, s)
    /\ UNCHANGED <<store, moved, told, client, hub, ending, bus>>

\* The lookup of an expired session deletes it, or finds it deleted already.
Expiring(p) ==
    /\ look[p] = "found" /\ TokenOf[p] \in expired
    /\ \/ /\ Remove(Home[p], TokenOf[p])
          /\ look' = [look EXCEPT ![p] = "expiring"]
          /\ UNCHANGED <<cache, stage>>
       \/ /\ TokenOf[p] \notin db
          /\ Forget(Home[p], TokenOf[p])
          /\ Answer(p, FALSE)
          /\ UNCHANGED <<db, ending>>
    /\ UNCHANGED <<expired, login, moved, told, hub, bus>>

Expired(p) ==
    /\ look[p] = "expiring" /\ removal[TokenOf[p]] = "announced"
    /\ Answer(p, FALSE)
    /\ UNCHANGED <<store, nodes, hub, ending, bus>>

RemovalGoto(s, from, to) ==
    /\ removal[s] = from
    /\ removal' = [removal EXCEPT ![s] = to]
    /\ UNCHANGED remover

RemovalInvalidates(s) ==
    /\ RemovalGoto(s, "deleted", "invalidated")
    /\ Invalidate(remover[s], s)
    /\ UNCHANGED <<store, client, hub, bus>>

RemovalCloses(s) ==
    /\ RemovalGoto(s, "invalidated", "closed")
    /\ CloseSession(remover[s], s)
    /\ UNCHANGED <<store, nodes, client, bus>>

\* Variant: the removal stays on its node.
RemovalKept(s, missing) ==
    /\ RemovalGoto(s, "closed", "announced")
    /\ missing # {} => BusLoses
    /\ UNCHANGED <<store, nodes, client, hub, bus>>
\* PublishRevoked: the nodes that miss it notice later that they may have, by a
\* reconnection or by the resync of a node whose publish failed.
RemovalAnnounces(s, missing) ==
    /\ RemovalGoto(s, "closed", "announced")
    /\ missing # {} => BusLoses
    /\ events' = [n \in Nodes |-> events[n] \cup (IF n \in missing THEN {} ELSE {s})]
    /\ owed' = owed \cup missing
    /\ UNCHANGED <<store, nodes, client, hub, heard, toCheck>>

-----------------------------------------------------------------------------
(* Another node's revocation, and the recovery of one that may have missed *)
(* it.                                                                     *)

\* The cache first, so that a socket which asks again after Connect is refused.
HearInvalidates(n, s) ==
    /\ s \in events[n]
    /\ Invalidate(n, s)
    /\ events' = [events EXCEPT ![n] = @ \ {s}]
    /\ heard' = [heard EXCEPT ![n] = @ \cup {s}]
    /\ UNCHANGED <<store, client, hub, ending, owed, toCheck>>

HearCloses(n, s) ==
    /\ s \in heard[n]
    /\ CloseSession(n, s)
    /\ heard' = [heard EXCEPT ![n] = @ \ {s}]
    /\ UNCHANGED <<store, nodes, client, ending, events, owed, toCheck>>

\* recoverFromGap copies the node's sockets, then asks for one session at a time.
RecoverStarts(n) ==
    /\ n \in owed
    /\ owed' = owed \ {n}
    /\ toCheck' = [toCheck EXCEPT ![n] = @ \cup InHub(n)]
    /\ UNCHANGED <<store, nodes, client, hub, ending, events, heard>>

\* One that is gone is invalidated and closed, by the calls an event leads to.
RecoverChecks(n, p) ==
    /\ p \in toCheck[n]
    /\ toCheck' = [toCheck EXCEPT ![n] = @ \ {p}]
    /\ events' = [events EXCEPT ![n] = @ \cup ({TokenOf[p]} \ db)]
    /\ UNCHANGED <<store, nodes, client, hub, ending, heard, owed>>

-----------------------------------------------------------------------------
(* The handlers.  A client knows a token once its login has returned.      *)

Arrive(p) ==
    /\ stage[p] = "new" /\ login[TokenOf[p]] = "done"
    /\ Begin(p, "first")

\* Variant: the session is not asked for again.
ConnectAtOnce(p) ==
    /\ stage[p] = "authed"
    /\ stage' = [stage EXCEPT ![p] = "open"]
    /\ UNCHANGED <<store, nodes, look, hub, ending, bus>>
\* The socket enters the hub, and only then is its session asked for again.
Connect(p) ==
    /\ stage[p] = "authed"
    /\ stage' = [stage EXCEPT ![p] = "connected"]
    /\ UNCHANGED <<store, nodes, look, hub, ending, bus>>

AskAgain(p) ==
    /\ stage[p] = "connected"
    /\ Begin(p, "second")

\* Variant: no timer is set for a session that is due already.
RecheckFresh(p) ==
    /\ stage[p] = "open" /\ TokenOf[p] \notin expired
    /\ Begin(p, "recheck")
\* The write pump asks again when the session it knows is due.
Recheck(p) ==
    /\ stage[p] = "open"
    /\ Begin(p, "recheck")

\* The connection ends: dropped by the hub, or by the peer.
Disconnect(p) ==
    /\ stage[p] = "open"
    /\ stage' = [stage EXCEPT ![p] = "gone"]
    /\ UNCHANGED <<store, nodes, look, hub, ending, bus>>

-----------------------------------------------------------------------------
Lookup(p) ==
    Ask(p) \/ Cache(p) \/ Return(p) \/ NeedsTouch(p) \/ Touch(p)
           \/ Recache(p) \/ Expiring(p) \/ Expired(p)

SocketStep(p) == Connect(p) \/ AskAgain(p)

Removal(s) ==
    \/ RemovalInvalidates(s)
    \/ RemovalCloses(s)
    \/ \E missing \in SUBSET Nodes : RemovalAnnounces(s, missing)

Listen(n) ==
    \/ \E s \in Sess : HearInvalidates(n, s) \/ HearCloses(n, s)
    \/ RecoverStarts(n)
    \/ \E p \in Sockets : RecoverChecks(n, p)

Next ==
    \/ \E s \in Sess : CreatePuts(s) \/ Expire(s) \/ TTLDeletes(s) \/ Removal(s)
    \/ \E n \in Nodes, s \in Sess :
          CreateInserts(n, s) \/ CacheExpires(n, s) \/ End(n, s) \/ SignOutAgain(n, s)
    \/ \E n \in Nodes : Listen(n)
    \/ \E p \in Clients : Arrive(p) \/ Lookup(p)
    \/ \E p \in Sockets : SocketStep(p) \/ Recheck(p) \/ Disconnect(p)

Spec == Init /\ [][Next]_vars

\* A handler goes on once it has begun, a removal too; the bus goroutine reads
\* its events, and a write pump's timer fires once the session is due.  Nobody
\* has to sign in, to connect or to sign out.
Fairness ==
    /\ \A p \in Clients : WF_vars(Lookup(p))
    /\ \A p \in Sockets : /\ WF_vars(SocketStep(p))
                          /\ WF_vars(p \in evicted /\ Disconnect(p))
                          /\ WF_vars(TokenOf[p] \in expired /\ Recheck(p))
    /\ \A s \in Sess : WF_vars(Removal(s))
    /\ \A n \in Nodes : WF_vars(Listen(n))

FairSpec == Spec /\ Fairness

-----------------------------------------------------------------------------
(* Properties.                                                             *)

\* A node that has been told of a session's end never has it in its cache again:
\* a lookup that read the document before it was deleted does not bring it back,
\* and neither does a touch that matched it before (sessions.go, putIfCurrent:
\* "a revocation either comes first and the write is skipped, or comes after and
\* removes what was written").
InvalidatedStaysOut == \A n \in Nodes : told[n] \cap cache[n] = {}

\* No socket is left open with a session whose sockets its node has closed: a
\* socket that authenticated before the revocation and entered the hub after it
\* asks again, so one of the two always sees the other (ws.go, handleWS).
NoSocketOutlivesItsSession ==
    \A p \in Sockets :
        stage[p] \in {"open", "recheck"} /\ p \notin evicted
            => TokenOf[p] \notin shut[Home[p]]

\* While no node misses an event, a removed session disappears from every cache and
\* every socket; and a node that missed one closes, by recoverFromGap, the sockets it
\* has of the sessions that are gone.
EndsEverywhere ==
    /\ [](owed = {}) =>
           \A s \in Sess : removal[s] = "deleted" ~>
               /\ \A n \in Nodes : s \notin cache[n]
               /\ \A p \in Sockets :
                     TokenOf[p] = s => stage[p] \in {"new", "first", "authed", "gone"}
    /\ \A n \in Nodes, p \in Sockets :
           n \in owed /\ p \in InHub(n) /\ TokenOf[p] \notin db ~> stage[p] = "gone"

\* A socket outlives its session's expiry no longer than its write pump's timer,
\* although the TTL index deletes the document without a word.
ExpiryEnds ==
    \A p \in Sockets :
        stage[p] = "open" /\ TokenOf[p] \in expired \ db ~> stage[p] = "gone"
=============================================================================
