# Verification of the messenger

TLA+ models of the messenger's server and of the part of its web client that keeps a
conversation complete, checked with TLC on small instances and proved with TLAPS for every size.
The reference is the code under `src/`; where a comment or a document says something else, the
model follows the code and the difference is listed under [Findings](#findings).

## The system

A messenger in Go with a Vue client. Several instances ("nodes") of one process serve HTTP and
WebSockets; MongoDB (standalone, no transactions) holds everything durable, Redis carries
events between the nodes and holds presence. There are no locks across nodes: every guarantee
comes from the order of single-document writes, unique indexes, claims that run out, and clients
that fetch what they notice they lack.

| Component | State | Operations | Interacts with | Module |
|---|---|---|---|---|
| Hub (`hub.go`) | `byChannel`, `byUser`, each socket's channels, send channel, close code and `dropped`, `closed`; one mutex | Connect, Disconnect, Subscribe, Unsubscribe, SetChannels, CloseSession, CloseAll, Publish, Send, SendAll | called by socket handlers, the bus goroutine and shutdown; notes watches for the bus under its own mutex | `Hub`, `Routes` |
| Socket handler (`ws.go`) | one goroutine per socket and one write pump | upgrade, session check, Connect, second check, Settled, ready, read loop, goodbye, recheck at expiry | hub, sessions, bus, presence | `Hub`, `Sessions` |
| Bus (`bus.go`) | pending watches, waiters, `held`, `unconfirmed`, `lost` | Watch/Unwatch, Run, Settled, Publish, resync and recovery | Redis Pub/Sub; dispatches to hub and session store | `Bus` |
| Sessions (`sessions.go`, `main.go: wireRevocation`) | documents; per node a cache and an invalidation counter | Create, ByToken (with touch and deletion of expired ones), Revoke, Delete, invalidate | hub (close sockets), bus (tell other nodes), MongoDB's TTL index | `Sessions` |
| Sending (`messages_http.go`, `messages.go`, `channels.go: nextSeq`, `reads.go`) | `last_seq` of a channel, messages with unique `seq` and `client_msg_id`, read positions | number, insert or recognise a repeat, publish, mark own message read; list after a number; mark read | bus, client | `Delivery` |
| Open conversation (`Messenger.vue`, `socket.js`) | list, state of each bubble, running catch-ups, socket | send, retry, receive, catch up, mark read, reconnect | HTTP API, socket | `Delivery` |
| Membership (`channels.go`, `channels_http.go`, `invites_http.go`, `friends.go`) | members, owner, `deleted_at`, direct key, invite code; friend requests | create, join, leave, ensureOwner, direct conversations, links, ask, answer, remove | bus (routes), sockets, purge | `Members` |
| Account erasure (`account.go`, `users.go`) | `deleted_at`, `erase_owner`, `erase_until`, the tomb name | claim, revoke, leave everywhere, delete requests and reads, rename author, free the name | sessions, membership, messages | `Erasure` |
| Purge and media (`purge.go`, `media.go`, claims in `channels.go`) | marks and claims, batches of messages, records and their files | claim, delete in batches, renew, drop; expire uploads, sweep files without a record; forward a picture | membership, sending | `Purge` |
| Presence (`presence.go`, `presence_nodes.go`) | sockets per user and per node in Redis, pulses, epochs and versions | connect, disconnect, beat, round, sweep of dead nodes, register again, lookup | handler, bus, client | `Presence` |
| Typing, rate limits, passwords and profiles, metrics, wiring, rendering | small | single writes or none | | none |

What is hard in it: everything between two awaits of a handler can be overtaken by an event of
another node; a socket enters the hub between two looks at its session; the bus loses events
and says so afterwards; numbers are handed out before the messages they belong to are stored;
the client repeats requests that may still be running; claims run out under nodes that still
work; nodes die between any two writes. The list `hazards` in `PROJECT.json` names each of these
at its line, with the properties that would notice it going wrong.

What makes each component correct, in a sentence: a hub serves exactly the pairs of socket and
topic its callers asked for; a session its node has forgotten stays forgotten and no socket
outlives it; a loss is always followed by a resync; a message is stored once, told only when it
is stored, and missed by nobody at rest; a marked channel is empty and a live one has one owner; of
an erased account nothing stays but what came late; a channel's document goes last and no shared
picture loses its file; an open socket is recorded and a dead node's sockets are in somebody's
hands.

## The modules

| Module | Models | Instances | Proofs |
|---|---|---|---|
| `Routes` | abstract: which socket is served which topic, and whom a frame reaches | by `Hub` | |
| `Hub` | one node's hub, its socket handlers, the notes it leaves for the bus; implements `Routes` | `MCHub` | `HubProofs`, `RoutesProofs` |
| `Sessions` | session store of every node, lookups step by step, removal, revocation events, recovery, the sockets that depend on them | `MCSessions` | `SessionsProofs` |
| `Bus` | one node's bus goroutine, its connection to Redis, Settled, lost publishes and resync | `MCBus` | `BusProofs` |
| `Log` | abstract: places in a channel's log, what tabs show of it, what is told and read | by `Delivery` | |
| `Delivery` | one channel from the send button to every screen; implements `Log` | `MCDelivery` | `DeliveryProofs` |
| `Members` | who is in which channel, who owns it, links, friends, conversations, and what sockets hear of it | by `Erasure` | `ErasureProofs` |
| `Erasure` | `Members` with logins, sends and the deletion of accounts beside its requests | `MCErasure` | `ErasureProofs` |
| `Purge` | marked channels, pictures and their files, the purges and sweeps of several nodes | `MCPurge` | `PurgeProofs` |
| `Presence` | one person's sockets in Redis, the rounds of the nodes, and a tab that watches | `MCPresence` | `PresenceProofs` |

Names follow the code. An operator that starts with the comment "Variant" is not part of a
model: it is how a plausible mistake would read, and `PROJECT.json` (`mutants`) names the
property that fails when it takes the place of the definition after it.

### Hub and Routes

`byChannel`, `byUser`, `channels`, `dropped`, `closeCode` and `closed` are the fields of the same
names; `entries` is the set of keys of the map `byChannel`, as a topic without an entry and one
with an empty set are told apart by `detachUser` and `drop`; `queued` counts the frames in a
socket's buffered channel. Each method holds the mutex throughout and is one action. The
handler of a socket goes through `upgraded`, `opening` (in the hub, ready not sent), `open` and
`gone`; `conn` says whether its connection is up. `notes` is the bus's `pending`, of which
`applyWatches` takes all at once into `listening`. A method that drops several sockets (`Publish`
with full buffers, `CloseAll`) does so in one action: under the mutex nobody sees it half done.

`Routes` is what the hub promises together: one set of pairs `<<socket, topic>>`, changed for all
sockets of a user alike, and frames that reach exactly those served their topic or cost them
their place. `Hub` shows that it implements it with `Promise == INSTANCE Routes WITH ...`, where the
pairs are read off `byChannel` alone; that `byUser` and the sockets' own sets never make a method
act otherwise is what the refinement says.

### Sessions

A step is one critical section or one database operation. `look[p]` is where client `p`'s
`ByToken` stands, `stage[p]` where its handler does, `removal[s]` where `Revoke` or `Delete`
does: deleted, invalidated, sockets closed, announced. The counter `invalidations` is only ever
compared with the value a lookup noted under the same lock, so the model keeps the set `moved` of
lookups for which the comparison would fail. `events`, `heard` and `owed` are the bus: an event
is invalidated and then closed in two steps, as `wireRevocation` does, and a node that missed
one recovers (`toCheck`) by asking for the session of each socket it held when it began; one it
does not find goes through the same two steps. `told` and `shut` are history for the properties.

### Bus

`notes`, `wake`, `waiters`, `held` and `unconfirmed` are the fields; `recorded` is what the client
library would subscribe again. The connection carries `commands` one way and `replies` the other,
each taken in order; it is `up`, `dead` (writes vanish without an error, as they do until the
library notices) or `down` (writes fail). When it breaks, any prefix of the replies may already
have reached the process. Of a frame only the sockets it passed by are kept (`missed`), and only
for sockets all of whose channels had been subscribed (`covered`): one that was sent `ready` after
`settleTimeout` without it is known to the code as not listening yet. `AnnounceIfLost` and
`AnnounceEnds` are the swap and the publish of `announceIfLost`, between which more publishes may
fail.

### Delivery

A message is known by its `client_msg_id`; a request `<<m, k>>` is the k-th time it is sent, and
walks through `deliverMessage` (`at`). `stored[m]` is the set of numbers it has documents
under. A tab shows `list`, gets frames in order through `inbox`, and runs `fetches`, one per
`catchUp`, page by page; `ready` and `resync` are answered alike and are one frame. `Lossy` tabs may
miss a frame and are then owed a resync (module `Bus` shows that one comes); `Mobile` tabs close
and open their socket, and a `Deaf` one never has one and only sends; `Dying` requests may be cut short
by the end of their node; `Failing` ones may be told of an error by any call to the database, applied or
not, or lose their answer. Requests overlap freely, so numbers may be stored in another order than
they were handed out. Two histories name what the code then does not promise: `untold`, the messages an
insert stored although it reported an error - nobody announces them, since the author's retry is
a repeat - and `late`, the numbers stored when a higher one was stored already. `Log` is what remains of it for the people in the channel: the pairs of a
message and its number (`Places`), what each tab shows, which messages are delivered (`Told`), and the
read positions; requests, frames, fetches and sockets are its stutters.

### Members and Erasure

One step is one database operation or one call of the bus. A request (`req[r]`) remembers what its
handler read: a link is followed, the member added, the last number read, the mark written, the
route set, each beside everything else. `members`, `owners`, `status`, `key`, `pair` and `code`
are the fields of a channel's document; the order of a member list is left out, so `ensureOwner`
promotes any member. `routed` is what each person's socket hears; the bus and the hub between a
Subscribe and the socket are the subject of their own modules. `torn` notes memberships whose
route was written by requests that overlapped on them, or by one that died half-way: for these the
code promises nothing, and `RoutedIsMember` holds for all others.

`Erasure` adds logins, sends and forwards, which check an account first (a forward copies the name of the
author it has read) and write afterwards, and per node one `eraseAccount` (`stage`, `victim`, `todo`, `promoting`). `holder` and `held` are `erase_owner` and an
`erase_until` that is still ahead. `signed[u]` is which names stand under a person's messages, and
`Register` gives a freed name to a newcomer. A step that fails, a node that dies and a lease that runs
out under a slow one count against `MaxFaults`. `late` is the history of what was written for an
account after its mark.

### Purge

A picture is a pair of a file and the channel whose message carries it; a forwarded copy is a second
record of the same file, as in `CopyTo`. A node's `purgeChannel` goes through the batches (renewing its
claim between them), the read positions, the files one at a time (each is deleted unless a record outside
the channel names it, which `CountDocuments` is asked just before), the records and the document last. Beside it run uploads, sends,
forwards, `DeleteExpired` and the sweep of files without a record, each of which lists first and deletes
afterwards; `deleteWhere`, under `DeleteExpired`, deletes a record and then its file without asking for
others, as what was never sent was never forwarded. The sweep deletes nothing above `SweepLimit`. A request holds its channel's id from before the mark. Time passes in four steps: `Grace`,
`LeaseOut`, `Overdue`, and the age of a stray file.

### Presence

One person, one watching tab: keys are per person or per node, so people are independent. A `MULTI`
is one step; `lookup`, a pipeline that is no transaction, is two reads. A round goes `beat`, `register`, `listen`, `sweep`, `claim`, `list`, `remove`. What a node
announces is on its way from the transaction on, and the tab keeps the state with the higher epoch and
version. `windows` is history: which of the windows that the code leaves open a behaviour has been
through, so that the properties say what holds outside them:

- `unseen`: a decision taken by a node that does not know a newcomer yet;
- `sweptAlive`: a node that was only slow is claimed as dead;
- `cutShort`: a node dies inside a sweep, before an announcement, or before a Redis that had lost
  everything knew it again;
- `restart`: Redis lost everything;
- `overwritten`: the answer of a lookup replaces a newer event (`Messenger.vue:702`);
- `torn`: two changes fall between the two reads of one lookup;
- `hidden`: a node lets a socket in without an announcement, because its view of the others is a round
  old and still has one in it that is gone;
- `failed`: a call of Redis returned an error, or an announcement was lost.

Every call of Redis may fail, applied or not: the code logs the error and goes on or returns, and each such
path is an action (`OpenFails`, `CloseFails`, `BeatFails`, `ReregisterFails`, `GivesUp`, `ClaimFails`, `ListFails`,
`SweepFails`, `ForgetFails`; `Lose` for an announcement). The sweep's limit of ten seconds is the same to it:
what comes after it fails. `adrift` is the history of the sockets nobody puts right any more:

- what an `OpenFails`, a `ReregisterFails` or a `SweepFails` that was not applied was about;
- those of a dead node whose sweep was given up after the claim, or whose sweeper died;
- those of a node that died, or whose beat failed half-way, while Redis did not know it;
- those a sweeper removes from a node that has introduced itself again.

Every property names the windows and the sockets it leaves out, and `TabIsRight` alone needs all windows closed. With them
closed it holds across deaths and shutdowns: whoever is online is shown so at once, and whoever is
not as soon as the sockets of dead nodes are swept. `OnlineIsTold` is what the comment on `connect` says, with the
window `hidden` open.
`Disconnect` of the hub and `socketClosed` are one step.

## What is checked

| Run | Question | States |
|---|---|---|
| `hub` | Do the three copies of the routing agree, does the bus listen to what is read, is a dropped socket left alone, does every handler end, is all of it `Routes`? | 105,000 |
| `sessions` | Can a lookup bring back a session its node has forgotten, or a socket slip past a revocation? Does a removed session leave every cache and socket, also on a node that missed the event; an expired one its sockets? | 332,000 |
| `bus` | Is every loss followed by a resync, is what is read subscribed in the end, does Settled keep its word until the first loss? | 480,000 |
| `delivery` | Is a message stored once, only what is stored announced, shown or called delivered, and is all of it `Log`? | 654,000 |
| `delivery_reader` | Does a reading tab show no hole, miss nothing at rest, and get everything in the end, but for what is late or untold? | 508,000 |
| `erasure` | Do membership, owners, links and routes keep in step, and what is left of an erased account? | 677,000 |
| `purge` | Does a channel's document go last and does it go; does a shared picture keep its file, and does no file stay for nothing? | 526,000 |
| `presence` | Are open sockets recorded, is what a dead node left in somebody's hands, does a quiet tab show the truth, also when calls of Redis fail? | 3,172,000 |
| `sessions_slow_login`, `delivery_own_send`, `erasure_owner`, `presence_moved` | The findings below | |

The safety properties, in a sentence each, stand before their definitions. The ones worth a
reader's time first: `ServesRoutes` and `ListensExactly` (Hub), `InvalidatedStaysOut` and
`NoSocketOutlivesItsSession` (Sessions), `LossIsFollowed` (Bus), `KeepsLog`,
`ReadersShowPrefix` and `NothingMissed` (Delivery), `FirstsAgree` and `RoutedIsMember` (Members), `OnlyLateRemains` and
`NobodyElsesWords` (Erasure), `PicturesShow` and `PurgedInTheEnd` (Purge), `HasASweeper` and
`TabIsRight` (Presence).

### Bounds, and why they are enough

- `MCHub`: two sockets of one user with a session each, one channel besides the user's own topic,
  a send buffer of one. Two sockets are what `SetChannels` and `Unsubscribe` treat together and
  `CloseSession` apart; a buffer of one is full after one frame. More users, sockets and channels
  are covered by the proofs.
- `MCSessions`: one session, because sessions share only the counter, which the model moves for
  every lookup of the node; a socket and a request on one node, so that two lookups meet on one
  cache beside removals, events and recovery; a request on the other node, which finds the session
  expired, touches it or caches it there; a removal may run on either. Clients of two nodes meet only in the database
  and through events. The first half of `EndsEverywhere` assumes that no node misses an event; the second
  says what the recovery of one that did ends, the sockets it has then. Those it lets in from its cache afterwards are a remark under Findings. A removal may
  expire, be revoked or be asked twice. `SlowLogins = FALSE` keeps removals behind their login's cache entry;
  `sessions_slow_login` shows what happens without.
- `MCBus`: two sockets, two channels of which one is shared, one loss of the connection
  (`MaxBreaks`), two failing publishes (`MaxFailures`, so that the announcement of the first can
  fail too) and one permanent topic, which stands for three: they are subscribed together and only
  the one called `SessionTopic` is told apart.
- `MCDelivery`: two messages of one author. `delivery` sends the first up to twice
  (`MaxTries`), with both requests possibly running at once, and lets every request fail or die;
  `delivery_reader` has a writer and a reader whose socket closes and opens without limit, whose
  node loses frames, and a request that may die, with at most two catch-ups at a time (`MaxFetches`)
  of two messages a page (`Page`), so that a catch-up after a full page asks again.
- `delivery_reader` lets every request fail with its write applied or not. Its two histories matter: without
  `untold` TLC finds that a stored message nobody announced is missing at rest, and without `late` that a
  fetch between two inserts takes the higher number for the newest and never asks for the lower. The
  author has no socket there (`Deaf`), as a tab's own messages are the subject of `delivery_own_send`.
- `MCErasure`: two people, one named channel and two conversation documents (so that one can be left by
  both and opened anew), any friendships and any membership at first, two nodes, one fault
  (`MaxFaults`). `TwoOrErasures` keeps two requests beside each other or one beside the erasures;
  `Alike` is sound because none of the people, conversations, requests and nodes is named in a
  definition. `erasure_owner` needs no request.
- `MCPurge`: two channels that may share one picture, two nodes, one request, one fault. A channel has
  one message at first and may get a second from the request; with a batch of one (`Batch`) that makes
  a purge of up to two full batches, between which its claim is renewed or lost. Of the two files one
  (`Leftovers`) is stored from the beginning without a record; with `SweepLimit = 1` the sweep deletes a
  file without a record that is alone and none when there are two, so both branches of the limit
  happen, and `UnshownGoes` speaks of the behaviours that are not above the limit for ever.
- `MCPresence`: a socket on each of two nodes, of which the second starts later, one fault of any
  kind (`MaxFaults`) and one failing call (`MaxErrors`). Once a window is open the tab hears nothing more
  (`Deafened`): `TabIsRight` is silent then, and the other properties do not look at the tab. Without that bound
  there are 13.4 million states, and the properties hold as well. The tab does not ask (`lookup`) in behaviours with a slow node or a restart, after which
  `TabIsRight` says nothing anyway. `presence_moved` has three nodes, all running at first, with a
  socket on each: the one that dies, one that has noticed and one that has not. Its constraint keeps the
  tab from asking, so that the counterexample is about events alone.
- Deadlock is not checked: every model may come to rest, with all sockets gone, all messages
  delivered, every account erased or no breaks left.

### Fairness

Weak fairness throughout, on steps that a running goroutine, a ticker, Redis or the browser takes by
itself: a handler goes on once it has begun, a write pump writes, the bus goroutine reads, a page
arrives, a lost connection is noticed and opened again, time passes, a node's purge loop takes the next
step and its sweeps run again. Never on what a person or the network may leave undone: opening or closing a
socket, publishing, signing in or out, revoking, retrying, failing. In `Purge` fairness is per node: faults are
bounded, a node that dies is started again (its work is lost, its loop is not), and a claim that its
holder no longer renews runs out, which is what lets another node take over. The write pump's timer is fair
once its session is due. In `Delivery` a catch-up always ends; one whose request fails ends in silence in the
code and is not repeated until the next skipped number, `ready` or `resync` (hazard at
`Messenger.vue:740`), which is left out. `Members`, `Erasure` and `Presence` state no liveness: their
modules are about safety, with `OwnersInTheEnd` and `TabIsRight` as statements about states at rest.

## What is proved

For any values of the constants. Every proof has the same form: an inductive invariant, shown for the
initial states and for one action at a time, from which the properties of the runs follow. The
assumptions are the modules' own named `ASSUME`s, which TLC evaluates in every run.

**`HubProofs`** (`HubTypes`, `HubRoutes`, `HubListens`, `HubCloses`, `HubDroppedIsFinal`). `IInv` is
`TypeOK /\ RoutesAgree /\ ListensExactly /\ ClosedHubEmpty`. None of the last three is inductive
alone. `RoutesAgree` needs its fourth part, `FreshApart`, that a socket not yet in the hub is neither
dropped nor reads anything: otherwise Connect could insert a dropped socket. `ListensExactly`
needs `EntriesAgree`, because the notes follow the keys of the map while the property speaks of its
sets. One lemma each says what attaching, dropping and rerouting do to the invariant, whatever the
sockets and topics; the actions follow from these. Assumed: every socket has one owner and one session
(`OwnerAssumption`, `SessionOfAssumption`), the send channel has room for a frame (`BufferAssumption`), and a
user's topic `u:<id>` is no channel id (`TopicsApart`), which the prefix ensures (`hub.go:37-43`).

**`RoutesProofs`** (`HubServesRoutes`). `Hub` implements `Routes`: the initial states map to the initial
state, and each action of the hub, its handlers and pumps to a step of `Routes` or to a stutter. The
invariant needed beside `IInv` is that a socket that never entered has no frame waiting
(`FreshIsEmpty`).

**`SessionsProofs`** (`SessionsTypes`, `SessionsStayOut`, `SessionsLeaveNoSocket`). The last two hold when a
session does not end before its login has cached it; the condition is needed, and
`sessions_slow_login` is the counterexample. `InvalidatedStaysOut` is not inductive, because a
lookup may still hold a document it read before the session ended. `Safe` adds that whatever a node
has been told of, or is about to be, is out of the database for good (`RemovalsGo`, `EventsGo`, `ToldGo`),
so that no new lookup reads it; and that an old lookup which would still write it has a counter that
has moved (`WritersMoved`), so that putIfCurrent refuses. For the sockets, `LateSockets` says that a
socket that is in the hub although its node has closed its session's sockets entered it afterwards;
its second look then finds nothing in the cache, by `InvalidatedStaysOut`, nor in the database, by
`ToldGo`, and it never opens. Assumed: a client reaches one node with one token, a request is not a
socket, and no node is called like a state of Create.

**`BusProofs`** (`BusTypes`, `BusLossIsFollowed`, `BusSettledAtFirst`). That a resync is always still to come does not follow
from what the code does at the moment of a loss, but from what the connection still carries. `Ahead`
says that what a covered socket reads is recorded for the next connection and, while this one lasts,
subscribed or about to be together with the session topic, whose confirmation brings the resync, with no
unsubscription under way (`CoveredHeard`, and `PermanentHeard` for the permanent topics, which are
never given up, `OffsAreChannels`); that what the library has forgotten is unsubscribed once the commands
are executed (`Forgotten`); and that a lost connection has nothing in it (`LinkLess`).

`BusSettledAtFirst` has an invariant of its own, `FirstInv`, about the time before the first loss. What a socket in
the hub reads is noted, or will be subscribed once the commands under way are executed, and has been
written if the socket's Settled is held (`Heading`); and no more confirmations are to come than `unconfirmed`
counts (`Counted`). The second part counts pairs of a place, in the replies and then in the commands, and a topic
(`Out`). Executing a subscription moves its pairs from the one to the other without changing their places; every
other step moves places by one, which an injection answers for (`NoMore`). When the count is zero no subscription is under
way, so whatever will be subscribed is subscribed (`NothingOwed`). `FiniteAssumption`, that there are
finitely many channels, is needed because `unconfirmed` counts them. The property is about the
time before the first loss because afterwards it is false (see Findings).

**`DeliveryProofs`** (`DeliveryTypes`, `DeliveryStoresOnce`, `DeliveryToldIsStored`,
`DeliveryReadMovesForward`, `DeliveryReadersShowPrefix`, `DeliveryNothingMissed`, `DeliveryKeepsLog`). `Numbered` says
that numbers are handed out once and only by `nextSeq` (`HandedOut`, `OneNumber`), that an insert
under way has a number nothing is stored under (`InsertsFresh`), and that a request goes on past its insert only with
a number that is stored (`GoOnStored`); `StoredOnce` and `ToldIsStored` follow. `DeliveryReadMovesForward`
is an action property that no run lists, for `KeepsLog` contains it: a read position never moves back nor beyond the last number.

What a tab shows needs a second invariant, `Delivered`. `Follows` is what all tabs have in common: a message is
tried so far and no further (`Unsent`), everything written is newer than the first message of the channel
(`AfterFirst`), a catch-up starts after a message of the channel and goes on after one (`Catching`), and what is
late or untold is stored (`Noted`). Upon it, a tab that only reads shows every message together with all before it that
were not late, and so will each of its catch-ups (`NoHole`); and for a tab that is not about to catch up, every stored
message of somebody else that is not excused is shown, on the bus, in its inbox or within what a running catch-up will
fetch (`Covered`). `EachOne` bounds the numbers by the requests. `ReadersShowPrefix` holds of every behaviour.
`NothingMissed` holds if each tab only reads (`Readers`), or is `Steady` (its socket is never closed, its node loses
nothing for it and no request is cut short), or is the only author (`OnlyAuthor`); what the property itself leaves out is
`Excused`: what was stored by an insert that reported an error, and, for a tab that is not `Steady`, what was
stored after a higher number. The condition is needed: a tab that writes while its socket is down misses what
came in (`delivery_own_send`). `MsgsAssumption`, that there are finitely many messages, makes a page of a
catch-up and its last number well defined; `LargestIs`, `SmallestIs`, `PageIs` and `FullPageIs` say what the model's
`CHOOSE`s return, by the cardinality of an interval of numbers, without induction.

`DeliveryKeepsLog` maps every step to one of `Log` or to a stutter: `TakeNumber` hands out a place, `Insert` fills it
(`PlacesGrow`; that it is free and not the first is `InsertsFresh` and `AfterFirst`), `RequestFails` is either or a
stutter, `Answered` delivers
(by `GoOnStored`, under the stored number), a frame that is shown and the end of a catch-up show places that are
filled (`ToldIsStored`), and the marks read. An answer or a failure for an attempt that is over is a stutter.

**`PurgeProofs`** (`PurgeTypesHold`, `PurgeOrphansNothing`, `PurgePicturesShow`, `PurgeSentStays`).
`PInv` has two groups beside the types. `Goes`: a request's channel has a document (`RequestsLive`,
`RequestsHave`), and a purge that has come to some step has nothing left of the steps before
(`PurgesInOrder`), although other nodes may purge the same channel: that is why `NothingOrphaned` holds
whoever loses a claim. `Kept`: uploads under way have fresh ids, unsent records are apart from sent
ones, a copy under way has a source that keeps its file, and a file found to be named by nobody else stays so
(`UploadsFresh`, `UnsentApart`, `CopiesHaveSource`, `DoomedLost`).

**`PresenceProofs`** (`PresenceTypes`, `PresenceCanBeSwept`, `PresenceOpenIsRecorded`,
`PresenceHasASweeper`, `PresenceTabIsRight`). `Safe` says which nodes can beat and sweep (`StartedOnly`, `RoundsHold`), that what is
swept is dead outside the window `sweptAlive` (`SweptAreDead`), and that an open socket of a node that has
finished registering is recorded in both sets (`OpenAtRegistered`), each but for the sockets adrift. `CanBeSwept`,
that the two sets hold the same sockets, is a part of it that no run lists. Every failing call is in the induction: one that
was applied does to Redis what the call that succeeds does, and one that was not sets adrift what it was
about (`FailsSafe`); neither has a bound on how often.

`TabIsRight` relates what is recorded to a state that was decided earlier, by another node, on its view of
that time. Its invariant `Told` says, while no window has been open: a node that has not beaten does nothing
(`FirstIsIdle`); no running node is forgotten, so nothing is registered again, and what is recorded of a running
node is open (`Steady`); there is one epoch (`OneLife`); no version on its way, shown or read is beyond Redis's own
(`Counted`); and the newest state that is announced or shown is right (`LatestIsRight`), as is the answer of a
lookup unless something newer was announced (`AnswerIsRight`). `Right` is chosen so that a death does not disturb it:
"offline" leaves no socket of a living node, "online" leaves some socket. One lemma for each transaction
shows that what a node decides on its old view is right, or leaves right what was (`ConnectDecides`,
`RemoveDecides`).

**`ErasureProofs`** (`ErasureMarkedIsEmpty`, `ErasureFirstsAgree`, `ErasureOneOwner`,
`ErasureOnlyLateRemains`, `ErasureNobodyElsesWords`, `ErasureRoutedIsMember`, `ErasureTypes`), about `Members` and `Erasure` together. `Rooms`
holds together what a channel's fields say about each other, and `Owned` that a live channel without an
owner has somebody on the way to promote one, which survives each step because whoever is between
the two writes of Leave stays there until it promotes or dies (`Keeps`). `OnlyLateRemains` speaks of freed names; the invariant
`TakenStays` says it of every step in between: what an erasure has taken is not there again unless `late`
says so, also after another node took over, and while a node is leaving channels, those still to be left
are on its list. `NobodyElsesWords` is inductive given that a running erasure has somebody to erase
(`Erasing`).

`RoutedIsMember` speaks of requests that are done, and several may be under way for one membership. `RoutesInv`
follows them: for every membership that is not `torn`, of somebody who still has an account, a request that is about to set a
route has written the membership that asks for it, one that is about to take a route away has taken the
membership, a socket that is being given its list gets the current one, and any route that disagrees with the
membership is in the hands of exactly such a request (`RoutesFollow`). That two requests never disagree about one
membership is what `torn` is for: whoever writes a membership that another request has in hand marks it (`NotCrossed`). The lemmas go by what a
step does to one membership - nothing (`FollowsCalm`), one request moves on (`FollowsOneMoves`), or one
writes (`FollowsOneWrites`) - and every action is one of the three. `AbsentIsEmpty`, a channel without a document has no
members, joined `Rooms` for it.

Only model-checked: the liveness properties `HandlersEnd`, `ReadIsSubscribed`, `EndsEverywhere`,
`ExpiryEnds`, `ReachesReaders`, `PurgedInTheEnd` and `UnshownGoes`. TLAPS here proves neither liveness
under fairness (it has no `ENABLED`) nor what a recursive definition computes for every input; no
module declares a recursive operator. Every invariant and action property of the passing runs is stated by a
theorem; `DeliveryNothingMissed` with the hypothesis above, which the constants of `delivery_reader` satisfy for
its reader; its writer has no socket and is never at rest.

## Findings

Each is a run in which TLC refutes what a comment or document says; the quotations are in
`PROJECT.json`.

- `sessions_slow_login`: a session revoked between the insert and the cache entry of its own
  login is cached after its node has invalidated it. `ByToken` guards its writes, `Create` does not.
- `delivery_own_send`: a tab that writes while its socket is down starts its catch-up after its
  own message.
- `erasure_owner`: an erasure cut short between the two writes of Leave leaves a channel without an
  owner, and the run that finishes it lists the channels anew and does not come back to that one.
- `presence_moved`: a person whose node dies goes on, on another node that has not yet noticed. It believes the dead
  node's socket to be alive and announces nobody as having come online, while a node that has noticed announces
  them as gone when their tab there closes. The tabs that watch show them offline until something else happens.

Met while modelling, without a run of their own:

- Recovery asks about the sockets the node holds when it begins, not about the sessions it caches. A node
  that missed a revocation lets a socket in from its cache afterwards, and nothing closes that one until the
  session would have expired.
- An insert that is applied and reports an error all the same - the request's context ends, or the connection to
  MongoDB breaks (`architecture.md:86-90`) - stores a message that nobody announces: its handler returns (`messages_http.go:266`), and
  the retry is a repeat, which is not announced either. Readers have it from the next skipped number, `ready` or `resync` on
  (`untold`).
- Two sends may be stored in the other order than they were numbered. A tab that fetches between the two takes the higher for
  the newest and never asks for the lower, and if the frame of the lower one is lost for it, it misses it for as long as the
  conversation is open (`late`; with `Excused(c)` without `late`, `delivery_reader` ends in this counterexample). The remark at `channels.go:708` is
  about numbers nobody uses, not about late ones.
- A failed `connect` leaves an open socket out of presence for as long as it is open (`presence.go:211-215`), a failed call inside a
  sweep leaves sockets of a dead node in it (`presence_nodes.go:84-101`): `adrift`.
- Subscriptions counted before a lost connection and given up before the next one are never counted
  off, so Settled may time out for everybody afterwards; and confirmations of a reconnection count
  against subscriptions written after it, so it may also return too early. `SettledAtFirst` therefore
  speaks of the time before the first loss.
- A number left unused by a failed insert or a repeat counts as unread.
- `loadPresence` (`Messenger.vue:702`) puts the answer of a lookup over states that newer events have
  brought, although the comment at lines 662-666 says "only a newer one replaces what we have".
- A node that dies inside a sweep leaves the rest of the dead node's sockets to nobody (`presence.go:364`),
  and a node that is swept while it is only slow loses its sockets from presence until it registers
  them again - for good, those the sweep takes after that.

## What is not modelled

- Errors of MongoDB in Revoke, Delete and recovery; the age of a cached copy's `expires_at` (the
  model keeps one expiry per session, not per copy).
- An insert of a picture's record that is applied although it reports an error (`media.go:146-148`): its id is
  never handed out, so it is a record without a file that nobody shows. Two reads of one handler are one
  step where nothing can depend on what lies between: whether the other exists and is a friend
  (`channels_http.go:124-139`), and the list of sessions an erasure revokes one by one (`account.go:75-83`).
- The composition of bus, hub and membership: each is checked against what the others promise it. A Subscribe in
  `Members` reaches a socket at once; that it does in the end is `ListensExactly` with
  `ReadIsSubscribed`. Recovery is one request per person in `Members`.
- `checkOrigin`, wording of close reasons, metrics and logs; replies and history pages of
  messages; switching channels, lists, typing and rendering in the client.
- The order of `drain` at shutdown; avatars, resizing and serving of pictures; last-seen times.
- Typing events, rate limits, password hashing and changes, profiles, health, static wiring: single
  writes, checks or pure I/O, whose interleavings have nothing to break.

## Plan

Done: every module of the table above with its run, and proofs for all of them: of the runs' properties
only liveness is left to TLC alone. What would add most next, in this order:

1. Liveness of `Erasure` (every mark ends in a freed name while faults are bounded) and of `Presence`
   (a dead node's sockets go in the end unless they are adrift), on instances smaller than today's.
2. Errors of MongoDB in `Sessions`, and one expiry per cached copy.
3. A composition of `Hub` and `Bus` over the notes both model, so that a Subscribe can be followed from
   the store to the socket.
