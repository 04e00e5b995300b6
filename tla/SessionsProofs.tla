--------------------------- MODULE SessionsProofs ---------------------------
(***************************************************************************)
(* Proofs about the module Sessions, for any nodes, sessions, requests and *)
(* sockets: as long as no session ends before its login has cached it, a   *)
(* node never caches a session again that it has been told has ended, and  *)
(* leaves no socket of it open.                                            *)
(***************************************************************************)
EXTENDS Sessions, TLAPS

Gone(s) == s \notin db /\ login[s] = "done"

\* A removal begins with the document, and tells its own node before anything
\* else is done.
RemovalsGo ==
    /\ \A s \in Sess : removal[s] # "none" => Gone(s) /\ remover[s] \in Nodes
    /\ \A s \in Sess : removal[s] \in {"invalidated", "closed", "announced"}
                          => s \in told[remover[s]]

\* Whatever a node is to invalidate is gone; what was heard has been told.
EventsGo ==
    \A n \in Nodes : /\ \A s \in events[n] : Gone(s)
                     /\ heard[n] \subseteq told[n]
                     /\ shut[n] \subseteq told[n]

ToldGo == \A n \in Nodes : \A s \in told[n] : Gone(s)

\* A client has a token once its login is done, and so has a socket that a
\* recovery asks about.
ClientsLoggedIn ==
    /\ \A p \in Clients : stage[p] # "new" => login[TokenOf[p]] = "done"
    /\ \A n \in Nodes : \A p \in toCheck[n] : login[TokenOf[p]] = "done"

\* A lookup that would still write a session its node has been told of is one
\* whose counter is out of date.
WritersMoved ==
    \A p \in Clients :
        TokenOf[p] \in told[Home[p]] /\ look[p] \in {"caching", "recaching"} => p \in moved

\* A socket that is not dropped, of a session whose sockets its node has closed,
\* entered the hub after that, and its second look finds nothing in the cache.
LateSockets ==
    \A p \in Sockets \ evicted :
        TokenOf[p] \in shut[Home[p]] =>
            /\ stage[p] \notin {"open", "recheck"}
            /\ stage[p] = "second" => look[p] = "asking"

\* A handler waits for its lookup.
LookingWaits ==
    \A p \in Clients : look[p] # "none" => stage[p] \in {"first", "second", "recheck"}

Safe ==
    /\ RemovalsGo /\ EventsGo /\ ToldGo /\ ClientsLoggedIn /\ LookingWaits
    /\ InvalidatedStaysOut /\ WritersMoved /\ LateSockets

IInv == TypeOK /\ (~SlowLogins => Safe)

LEMMA InitIInv == Init => IInv
  BY HomeAssumption, TokenAssumption
  DEF Init, IInv, TypeOK, Safe, RemovalsGo, EventsGo, ToldGo, ClientsLoggedIn,
      LookingWaits, InvalidatedStaysOut, WritersMoved, LateSockets, Gone, Clients

-----------------------------------------------------------------------------
(* Types.                                                                  *)

LEMMA SessTypes ==
  ASSUME TypeOK, NEW s \in Sess,
         \/ CreatePuts(s) \/ Expire(s) \/ TTLDeletes(s) \/ Removal(s)
  PROVE  TypeOK'
<1>1. CASE CreatePuts(s)
  BY <1>1 DEF TypeOK, CreatePuts, Put, client, hub, ending, bus
<1>2. CASE Expire(s)
  BY <1>2 DEF TypeOK, Expire, nodes, client, hub, ending, bus
<1>3. CASE TTLDeletes(s)
  BY <1>3 DEF TypeOK, TTLDeletes, nodes, client, hub, ending, bus
<1>4. CASE RemovalInvalidates(s)
  <2>1. removal' \in [Sess -> {"none", "deleted", "invalidated", "closed", "announced"}]
    BY <1>4 DEF TypeOK, RemovalInvalidates, RemovalGoto
  <2>2. cache' \in [Nodes -> SUBSET Sess]
    BY <1>4 DEF TypeOK, RemovalInvalidates, Invalidate, Forget
  <2>3. moved' \in SUBSET Clients
    BY <1>4 DEF TypeOK, RemovalInvalidates, Invalidate, Moves
  <2>4. told' \in [Nodes -> SUBSET Sess]
    BY <1>4 DEF TypeOK, RemovalInvalidates, Invalidate
  <2> QED
    BY <1>4, <2>1, <2>2, <2>3, <2>4
    DEF TypeOK, RemovalInvalidates, RemovalGoto, store, client, hub, bus
<1>5. CASE RemovalCloses(s)
  <2>1. removal' \in [Sess -> {"none", "deleted", "invalidated", "closed", "announced"}]
    BY <1>5 DEF TypeOK, RemovalCloses, RemovalGoto
  <2>2. evicted' \in SUBSET Sockets
    BY <1>5 DEF TypeOK, RemovalCloses, CloseSession, InHub
  <2>3. shut' \in [Nodes -> SUBSET Sess]
    BY <1>5 DEF TypeOK, RemovalCloses, CloseSession
  <2> QED
    BY <1>5, <2>1, <2>2, <2>3
    DEF TypeOK, RemovalCloses, RemovalGoto, store, nodes, client, bus
<1>6. ASSUME NEW missing \in SUBSET Nodes, RemovalAnnounces(s, missing) PROVE TypeOK'
  BY <1>6 DEF TypeOK, RemovalAnnounces, RemovalGoto, store, nodes, client, hub
<1> QED
  BY <1>1, <1>2, <1>3, <1>4, <1>5, <1>6 DEF Removal

LEMMA NodeTypes ==
  ASSUME TypeOK, NEW n \in Nodes, NEW s \in Sess,
         \/ CreateInserts(n, s) \/ CacheExpires(n, s) \/ End(n, s) \/ SignOutAgain(n, s)
         \/ HearInvalidates(n, s) \/ HearCloses(n, s)
  PROVE  TypeOK'
<1>1. CASE CreateInserts(n, s)
  BY <1>1 DEF TypeOK, CreateInserts, nodes, client, hub, ending, bus
<1>2. CASE CacheExpires(n, s)
  BY <1>2 DEF TypeOK, CacheExpires, Forget, store, client, hub, ending, bus
<1>3. CASE End(n, s)
  BY <1>3 DEF TypeOK, End, Remove, nodes, client, hub, bus
<1>4. CASE SignOutAgain(n, s)
  BY <1>4 DEF TypeOK, SignOutAgain, Forget, store, client, hub, ending, bus
<1>5. CASE HearInvalidates(n, s)
  BY <1>5 DEF TypeOK, HearInvalidates, Invalidate, Forget, Moves, store, client, hub, ending
<1>6. CASE HearCloses(n, s)
  BY <1>6 DEF TypeOK, HearCloses, CloseSession, InHub, store, nodes, client, ending
<1> QED
  BY <1>1, <1>2, <1>3, <1>4, <1>5, <1>6

LEMMA RecoveryTypes ==
  ASSUME TypeOK, NEW n \in Nodes, RecoverStarts(n) \/ \E p \in Sockets : RecoverChecks(n, p)
  PROVE  TypeOK'
<1>1. CASE RecoverStarts(n)
  BY <1>1 DEF TypeOK, RecoverStarts, InHub, store, nodes, client, hub, ending
<1>2. ASSUME NEW p \in Sockets, RecoverChecks(n, p) PROVE TypeOK'
  <2>1. TokenOf[p] \in Sess
    BY TokenAssumption DEF Clients
  <2> QED
    BY <1>2, <2>1 DEF TypeOK, RecoverChecks, store, nodes, client, hub, ending
<1> QED
  BY <1>1, <1>2

LEMMA AnswerTypes ==
  ASSUME TypeOK, NEW p \in Clients, NEW ok \in BOOLEAN, Answer(p, ok)
  PROVE  /\ look' \in [Clients -> {"none", "asking", "caching", "found",
                                   "expiring", "touching", "recaching"}]
         /\ stage' \in [Clients -> {"new", "first", "authed", "connected", "second",
                                    "open", "recheck", "served", "gone"}]
         /\ \A r \in Requests : stage'[r] \in {"new", "first", "served", "gone"}
<1>1. /\ Next1(p, ok) \in {"authed", "open", "served", "gone"}
      /\ p \in Requests => Next1(p, ok) \in {"served", "gone"}
  BY DEF Next1
<1> QED
  BY <1>1 DEF TypeOK, Answer, Clients

LEMMA LookupTypes ==
  ASSUME TypeOK, NEW p \in Clients, Lookup(p)
  PROVE  TypeOK'
<1>1. TokenOf[p] \in Sess /\ Home[p] \in Nodes
  BY TokenAssumption, HomeAssumption
<1>2. CASE Ask(p)
  <2>1. ASSUME look' = [look EXCEPT ![p] = "caching"], UNCHANGED <<cache, stage>> PROVE TypeOK'
    BY <1>2, <2>1 DEF TypeOK, Ask, store, hub, ending, bus
  <2>2. ASSUME Forget(Home[p], TokenOf[p]), Answer(p, FALSE) PROVE TypeOK'
    BY <1>1, <1>2, <2>2, AnswerTypes DEF TypeOK, Ask, Forget, store, hub, ending, bus
  <2> QED
    BY <1>2, <2>1, <2>2 DEF Ask
<1>3. CASE Cache(p)
  BY <1>1, <1>3 DEF TypeOK, Cache, PutIfCurrent, Put, store, hub, ending, bus
<1>4. CASE Return(p)
  BY <1>4, AnswerTypes DEF TypeOK, Return, store, nodes, hub, ending, bus
<1>5. CASE NeedsTouch(p)
  BY <1>5 DEF TypeOK, NeedsTouch, store, nodes, hub, ending, bus
<1>6. CASE Touch(p)
  <2>1. CASE TokenOf[p] \in db
    BY <1>6, <2>1 DEF TypeOK, Touch, nodes, hub, ending, bus
  <2>2. CASE TokenOf[p] \notin db
    BY <1>6, <2>2, AnswerTypes DEF TypeOK, Touch, nodes, hub, ending, bus
  <2> QED
    BY <2>1, <2>2
<1>7. CASE Recache(p)
  <2>1. cache' \in [Nodes -> SUBSET Sess]
    BY <1>1, <1>7 DEF TypeOK, Recache, PutIfCurrent, Put
  <2> QED
    BY <1>7, <2>1, AnswerTypes DEF TypeOK, Recache, store, hub, ending, bus
<1>8. CASE Expiring(p)
  <2>1. CASE Remove(Home[p], TokenOf[p]) /\ look' = [look EXCEPT ![p] = "expiring"]
                /\ UNCHANGED <<cache, stage>>
    BY <1>1, <1>8, <2>1 DEF TypeOK, Expiring, Remove, hub, bus
  <2>2. CASE Forget(Home[p], TokenOf[p]) /\ Answer(p, FALSE) /\ UNCHANGED <<db, ending>>
    BY <1>1, <1>8, <2>2, AnswerTypes DEF TypeOK, Expiring, Forget, ending, hub, bus
  <2> QED
    BY <1>8, <2>1, <2>2 DEF Expiring
<1>9. CASE Expired(p)
  BY <1>9, AnswerTypes DEF TypeOK, Expired, store, nodes, hub, ending, bus
<1> QED
  BY <1>2, <1>3, <1>4, <1>5, <1>6, <1>7, <1>8, <1>9 DEF Lookup

LEMMA HandlerTypes ==
  ASSUME TypeOK, NEW p \in Clients,
         \/ Arrive(p)
         \/ p \in Sockets /\ (SocketStep(p) \/ Recheck(p) \/ Disconnect(p))
  PROVE  TypeOK'
<1>1. CASE Arrive(p)
  BY <1>1 DEF TypeOK, Arrive, Begin, store, hub, ending, bus
<1>2. p \in Sockets => p \notin Requests
  BY DisjointAssumption
<1>3. CASE p \in Sockets /\ Connect(p)
  BY <1>2, <1>3 DEF TypeOK, Connect, store, nodes, hub, ending, bus
<1>4. CASE p \in Sockets /\ AskAgain(p)
  BY <1>2, <1>4 DEF TypeOK, AskAgain, Begin, store, hub, ending, bus
<1>5. CASE p \in Sockets /\ Recheck(p)
  BY <1>2, <1>5 DEF TypeOK, Recheck, Begin, store, hub, ending, bus
<1>6. CASE p \in Sockets /\ Disconnect(p)
  BY <1>2, <1>6 DEF TypeOK, Disconnect, store, nodes, hub, ending, bus
<1> QED
  BY <1>1, <1>3, <1>4, <1>5, <1>6 DEF SocketStep

LEMMA NextTypes == TypeOK /\ [Next]_vars => TypeOK'
<1> SUFFICES ASSUME TypeOK, [Next]_vars PROVE TypeOK'
  OBVIOUS
<1>1. CASE UNCHANGED vars
  BY <1>1 DEF TypeOK, vars, store, nodes, client, hub, bus, ending
<1>2. \A p \in Sockets : p \in Clients
  BY DEF Clients
<1> QED
  BY <1>1, <1>2, SessTypes, NodeTypes, RecoveryTypes, LookupTypes, HandlerTypes DEF Next, Listen

-----------------------------------------------------------------------------
(* Safety, as long as no login is slow.                                    *)

LEMMA SessSafe ==
  ASSUME TypeOK, ~SlowLogins, Safe, NEW s \in Sess,
         \/ CreatePuts(s) \/ Expire(s) \/ TTLDeletes(s) \/ Removal(s)
  PROVE  Safe'
<1>1. CASE CreatePuts(s)
  BY <1>1, NamesAssumption
  DEF TypeOK, CreatePuts, Put, client, hub, ending, bus,
      Safe, RemovalsGo, EventsGo, ToldGo, ClientsLoggedIn,
      LookingWaits, InvalidatedStaysOut, WritersMoved, LateSockets, Gone
<1>2. CASE Expire(s)
  BY <1>2
  DEF TypeOK, Expire, nodes, client, hub, ending, bus,
      Safe, RemovalsGo, EventsGo, ToldGo, ClientsLoggedIn,
      LookingWaits, InvalidatedStaysOut, WritersMoved, LateSockets, Gone
<1>3. CASE TTLDeletes(s)
  BY <1>3
  DEF TypeOK, TTLDeletes, nodes, client, hub, ending, bus,
      Safe, RemovalsGo, EventsGo, ToldGo, ClientsLoggedIn,
      LookingWaits, InvalidatedStaysOut, WritersMoved, LateSockets, Gone
<1>4. CASE RemovalInvalidates(s)
  BY <1>4
  DEF TypeOK, RemovalInvalidates, RemovalGoto, Invalidate, Forget, Moves,
      store, client, hub, bus,
      Safe, RemovalsGo, EventsGo, ToldGo, ClientsLoggedIn,
      LookingWaits, InvalidatedStaysOut, WritersMoved, LateSockets, Gone
<1>5. CASE RemovalCloses(s)
  BY <1>5
  DEF TypeOK, RemovalCloses, RemovalGoto, CloseSession, InHub, store, nodes, client, bus,
      Safe, RemovalsGo, EventsGo, ToldGo, ClientsLoggedIn,
      LookingWaits, InvalidatedStaysOut, WritersMoved, LateSockets, Gone
<1>6. CASE \E missing \in SUBSET Nodes : RemovalAnnounces(s, missing)
  BY <1>6
  DEF TypeOK, RemovalAnnounces, RemovalGoto, store, nodes, client, hub,
      Safe, RemovalsGo, EventsGo, ToldGo, ClientsLoggedIn,
      LookingWaits, InvalidatedStaysOut, WritersMoved, LateSockets, Gone
<1> QED
  BY <1>1, <1>2, <1>3, <1>4, <1>5, <1>6 DEF Removal

LEMMA NodeSafe ==
  ASSUME TypeOK, ~SlowLogins, Safe, NEW n \in Nodes, NEW s \in Sess,
         \/ CreateInserts(n, s) \/ CacheExpires(n, s) \/ End(n, s) \/ SignOutAgain(n, s)
  PROVE  Safe'
<1>1. CASE CreateInserts(n, s)
  BY <1>1, NamesAssumption
  DEF TypeOK, CreateInserts, nodes, client, hub, ending, bus,
      Safe, RemovalsGo, EventsGo, ToldGo, ClientsLoggedIn,
      LookingWaits, InvalidatedStaysOut, WritersMoved, LateSockets, Gone
<1>2. CASE CacheExpires(n, s)
  BY <1>2
  DEF TypeOK, CacheExpires, Forget, store, client, hub, ending, bus,
      Safe, RemovalsGo, EventsGo, ToldGo, ClientsLoggedIn,
      LookingWaits, InvalidatedStaysOut, WritersMoved, LateSockets, Gone
<1>3. CASE End(n, s)
  BY <1>3
  DEF TypeOK, End, Remove, nodes, client, hub, bus,
      Safe, RemovalsGo, EventsGo, ToldGo, ClientsLoggedIn,
      LookingWaits, InvalidatedStaysOut, WritersMoved, LateSockets, Gone
<1>4. CASE SignOutAgain(n, s)
  BY <1>4
  DEF TypeOK, SignOutAgain, Forget, store, client, hub, ending, bus,
      Safe, RemovalsGo, EventsGo, ToldGo, ClientsLoggedIn,
      LookingWaits, InvalidatedStaysOut, WritersMoved, LateSockets, Gone
<1> QED
  BY <1>1, <1>2, <1>3, <1>4

LEMMA ListenSafe ==
  ASSUME TypeOK, ~SlowLogins, Safe, NEW n \in Nodes,
         Listen(n)
  PROVE  Safe'
<1>1. CASE \E s \in Sess : HearInvalidates(n, s)
  BY <1>1
  DEF TypeOK, HearInvalidates, Invalidate, Forget, Moves, store, client, hub, ending,
      Safe, RemovalsGo, EventsGo, ToldGo, ClientsLoggedIn,
      LookingWaits, InvalidatedStaysOut, WritersMoved, LateSockets, Gone
<1>2. CASE \E s \in Sess : HearCloses(n, s)
  BY <1>2
  DEF TypeOK, HearCloses, CloseSession, InHub, store, nodes, client, ending,
      Safe, RemovalsGo, EventsGo, ToldGo, ClientsLoggedIn,
      LookingWaits, InvalidatedStaysOut, WritersMoved, LateSockets, Gone
<1>3. CASE RecoverStarts(n)
  BY <1>3, TokenAssumption
  DEF TypeOK, RecoverStarts, InHub, Clients, store, nodes, client, hub, ending,
      Safe, RemovalsGo, EventsGo, ToldGo, ClientsLoggedIn,
      LookingWaits, InvalidatedStaysOut, WritersMoved, LateSockets, Gone
<1>4. ASSUME NEW p \in Sockets, RecoverChecks(n, p) PROVE Safe'
  <2> USE <1>4 DEF Safe, RecoverChecks, store, client, ending, nodes, hub
  <2>1. p \in Clients /\ TokenOf[p] \in Sess
    BY TokenAssumption DEF Clients
  <2>2. UNCHANGED <<db, login, cache, moved, look, stage, evicted, removal, remover,
                    heard, told, shut>>
    OBVIOUS
  <2>3. /\ toCheck' = [toCheck EXCEPT ![n] = @ \ {p}]
        /\ events' = [events EXCEPT ![n] = @ \cup ({TokenOf[p]} \ db)]
    OBVIOUS
  <2>4. TokenOf[p] \in db \/ Gone(TokenOf[p])
    BY <2>1 DEF ClientsLoggedIn, Gone
  <2>5. EventsGo'
    BY <2>2, <2>3, <2>4 DEF TypeOK, EventsGo, Gone
  <2>6. ClientsLoggedIn'
    BY <2>2, <2>3 DEF TypeOK, ClientsLoggedIn
  <2> QED
    BY <2>2, <2>5, <2>6
    DEF RemovalsGo, ToldGo, LookingWaits, InvalidatedStaysOut, WritersMoved, LateSockets, Gone
<1> QED
  BY <1>1, <1>2, <1>3, <1>4 DEF Listen

LEMMA LookupSafe ==
  ASSUME TypeOK, ~SlowLogins, Safe, NEW p \in Clients,
         Lookup(p)
  PROVE  Safe'
<1>1. CASE Ask(p)
  <2>1. ASSUME TokenOf[p] \in db, look' = [look EXCEPT ![p] = "caching"],
               UNCHANGED <<cache, stage>>
        PROVE  Safe'
    BY <1>1, <2>1, TokenAssumption, HomeAssumption
    DEF TypeOK, Ask, store, hub, ending, bus, Clients,
        Safe, RemovalsGo, EventsGo, ToldGo, ClientsLoggedIn,
        LookingWaits, InvalidatedStaysOut, WritersMoved, LateSockets, Gone
  <2>2. ASSUME TokenOf[p] \notin db, Forget(Home[p], TokenOf[p]), Answer(p, FALSE)
        PROVE  Safe'
    BY <1>1, <2>2, TokenAssumption, HomeAssumption
    DEF TypeOK, Ask, Forget, Answer, Next1, store, hub, ending, bus, Clients,
        Safe, RemovalsGo, EventsGo, ToldGo, ClientsLoggedIn,
        LookingWaits, InvalidatedStaysOut, WritersMoved, LateSockets, Gone
  <2> QED
    BY <1>1, <2>1, <2>2 DEF Ask
<1>2. CASE Cache(p)
  BY <1>2, TokenAssumption, HomeAssumption
  DEF TypeOK, Cache, PutIfCurrent, Put, Current, store, hub, ending, bus, Clients,
      Safe, RemovalsGo, EventsGo, ToldGo, ClientsLoggedIn,
      LookingWaits, InvalidatedStaysOut, WritersMoved, LateSockets, Gone
<1>3. CASE Return(p)
  BY <1>3, TokenAssumption, HomeAssumption
  DEF TypeOK, Return, Answer, Next1, store, nodes, hub, ending, bus, Clients,
      Safe, RemovalsGo, EventsGo, ToldGo, ClientsLoggedIn,
      LookingWaits, InvalidatedStaysOut, WritersMoved, LateSockets, Gone
<1>4. CASE NeedsTouch(p)
  BY <1>4, TokenAssumption, HomeAssumption
  DEF TypeOK, NeedsTouch, store, nodes, hub, ending, bus, Clients,
      Safe, RemovalsGo, EventsGo, ToldGo, ClientsLoggedIn,
      LookingWaits, InvalidatedStaysOut, WritersMoved, LateSockets, Gone
<1>5. CASE Touch(p)
  BY <1>5, TokenAssumption, HomeAssumption
  DEF TypeOK, Touch, Answer, Next1, nodes, hub, ending, bus, Clients,
      Safe, RemovalsGo, EventsGo, ToldGo, ClientsLoggedIn,
      LookingWaits, InvalidatedStaysOut, WritersMoved, LateSockets, Gone
<1>6. CASE Recache(p)
  BY <1>6, TokenAssumption, HomeAssumption
  DEF TypeOK, Recache, PutIfCurrent, Put, Current, Answer, Next1, store, hub, ending, bus, Clients,
      Safe, RemovalsGo, EventsGo, ToldGo, ClientsLoggedIn,
      LookingWaits, InvalidatedStaysOut, WritersMoved, LateSockets, Gone
<1>7. CASE Expiring(p)
  BY <1>7, TokenAssumption, HomeAssumption
  DEF TypeOK, Expiring, Remove, Forget, Answer, Next1, ending, hub, bus, Clients,
      Safe, RemovalsGo, EventsGo, ToldGo, ClientsLoggedIn,
      LookingWaits, InvalidatedStaysOut, WritersMoved, LateSockets, Gone
<1>8. CASE Expired(p)
  BY <1>8, TokenAssumption, HomeAssumption
  DEF TypeOK, Expired, Answer, Next1, store, nodes, hub, ending, bus, Clients,
      Safe, RemovalsGo, EventsGo, ToldGo, ClientsLoggedIn,
      LookingWaits, InvalidatedStaysOut, WritersMoved, LateSockets, Gone
<1> QED
  BY <1>1, <1>2, <1>3, <1>4, <1>5, <1>6, <1>7, <1>8 DEF Lookup

LEMMA HandlerSafe ==
  ASSUME TypeOK, ~SlowLogins, Safe, NEW p \in Clients,
         \/ Arrive(p)
         \/ p \in Sockets /\ (SocketStep(p) \/ Recheck(p) \/ Disconnect(p))
  PROVE  Safe'
<1>1. CASE Arrive(p)
  BY <1>1, TokenAssumption, HomeAssumption
  DEF TypeOK, Arrive, Begin, store, hub, ending, bus, Clients,
      Safe, RemovalsGo, EventsGo, ToldGo, ClientsLoggedIn,
      LookingWaits, InvalidatedStaysOut, WritersMoved, LateSockets, Gone
<1>2. CASE p \in Sockets /\ Connect(p)
  BY <1>2, TokenAssumption, HomeAssumption
  DEF TypeOK, Connect, store, nodes, hub, ending, bus, Clients,
      Safe, RemovalsGo, EventsGo, ToldGo, ClientsLoggedIn,
      LookingWaits, InvalidatedStaysOut, WritersMoved, LateSockets, Gone
<1>3. CASE p \in Sockets /\ AskAgain(p)
  BY <1>3, TokenAssumption, HomeAssumption
  DEF TypeOK, AskAgain, Begin, store, hub, ending, bus, Clients,
      Safe, RemovalsGo, EventsGo, ToldGo, ClientsLoggedIn,
      LookingWaits, InvalidatedStaysOut, WritersMoved, LateSockets, Gone
<1>4. CASE p \in Sockets /\ Recheck(p)
  BY <1>4, TokenAssumption, HomeAssumption
  DEF TypeOK, Recheck, Begin, store, hub, ending, bus, Clients,
      Safe, RemovalsGo, EventsGo, ToldGo, ClientsLoggedIn,
      LookingWaits, InvalidatedStaysOut, WritersMoved, LateSockets, Gone
<1>5. CASE p \in Sockets /\ Disconnect(p)
  BY <1>5, TokenAssumption, HomeAssumption
  DEF TypeOK, Disconnect, store, nodes, hub, ending, bus, Clients,
      Safe, RemovalsGo, EventsGo, ToldGo, ClientsLoggedIn,
      LookingWaits, InvalidatedStaysOut, WritersMoved, LateSockets, Gone
<1> QED
  BY <1>1, <1>2, <1>3, <1>4, <1>5 DEF SocketStep

LEMMA NextSafe ==
  ASSUME TypeOK, ~SlowLogins, Safe, [Next]_vars
  PROVE  Safe'
<1>1. CASE UNCHANGED vars
  BY <1>1
  DEF vars, store, nodes, client, hub, ending, bus, Safe, RemovalsGo, EventsGo, ToldGo, ClientsLoggedIn,
      LookingWaits, InvalidatedStaysOut, WritersMoved, LateSockets, Gone
<1>2. \A p \in Sockets : p \in Clients
  BY DEF Clients
<1> QED
  BY <1>1, <1>2, SessSafe, NodeSafe, ListenSafe, LookupSafe, HandlerSafe DEF Next

LEMMA NextKeeps == IInv /\ [Next]_vars => IInv'
  BY NextTypes, NextSafe DEF IInv

-----------------------------------------------------------------------------
(* The theorems.                                                           *)

\* The invariant behind them holds of every behaviour.
THEOREM SessionsInvariant == Spec => []IInv
<1> QED
  BY InitIInv, NextKeeps, PTL DEF Spec

\* The variables of the session store, the handlers and the bus keep their types.
THEOREM SessionsTypes == Spec => []TypeOK
<1>1. IInv => TypeOK
  BY DEF IInv
<1> QED
  BY <1>1, SessionsInvariant, PTL

\* putIfCurrent is enough: no lookup brings back a session that its node has been
\* told has ended, as long as every login has cached its session before it ends.
THEOREM SessionsStayOut == Spec => [](~SlowLogins => InvalidatedStaysOut)
<1>1. IInv => (~SlowLogins => InvalidatedStaysOut)
  BY DEF IInv, Safe
<1> QED
  BY <1>1, SessionsInvariant, PTL

\* Asking again after Connect is enough: no socket is left open with a session
\* whose sockets its node has closed.
THEOREM SessionsLeaveNoSocket == Spec => [](~SlowLogins => NoSocketOutlivesItsSession)
<1>1. IInv => (~SlowLogins => NoSocketOutlivesItsSession)
  BY DEF IInv, Safe, LateSockets, NoSocketOutlivesItsSession
<1> QED
  BY <1>1, SessionsInvariant, PTL
=============================================================================
