----------------------------- MODULE Delivery -----------------------------
(***************************************************************************)
(* One channel from the send button to every screen: deliverMessage and    *)
(* handleListMessages (src/server/messages_http.go), the message store,    *)
(* nextSeq (src/server/channels.go), the read positions (reads.go), what   *)
(* the bus and a socket do to the order and the loss of frames, and the    *)
(* open conversation of src/web/src/views/Messenger.vue: send, deliver,    *)
(* receive, catchUp and markRead.                                          *)
(*                                                                         *)
(* A message is known by its client_msg_id, a frame by the number of the   *)
(* message it carries; the frames "ready" and "resync" are answered alike  *)
(* and are both CatchUpFrame.  The channel holds one message, number 1,    *)
(* which every client shows when the model begins.                         *)
(***************************************************************************)
EXTENDS Naturals, FiniteSets, Sequences

CONSTANTS
    Clients,       \* browser tabs with the conversation open
    Msgs,          \* what is ever written, by client_msg_id
    Author,        \* the tab each message is written in
    MaxTries,      \* how often each message is sent at most
    Page,          \* CATCH_UP_PAGE, 100 in the code
    MaxFetches,    \* how many catch-ups of a tab run at once, at most
    Mobile,        \* the tabs whose sockets close and open again
    Deaf,          \* the clients that never open a socket and only send
    Lossy,         \* the tabs the bus may lose frames for; a resync follows
    Marking,       \* the tabs that mark the channel read
    Dying,         \* the requests whose node may die under them
    Failing        \* the requests that may be told of an error, or whose answer is lost

ASSUME MsgsAssumption == IsFiniteSet(Msgs)
ASSUME AuthorAssumption == Author \in [Msgs -> Clients]
ASSUME BoundsAssumption ==
    MaxTries \in [Msgs -> Nat \ {0}] /\ {Page, MaxFetches} \subseteq Nat \ {0}
ASSUME TabsAssumption == Mobile \cup Lossy \cup Deaf \cup Marking \subseteq Clients

Requests == UNION {{m} \X (1..MaxTries[m]) : m \in Msgs}
ASSUME DyingAssumption == Dying \cup Failing \subseteq Requests

First == 1
Top == First + Cardinality(Requests)
Numbers == First..Top
CatchUpFrame == 0
NoNumber == 0

VARIABLES
    lastSeq,    \* last_seq of the channel document
    stored,     \* the numbers each message is stored under
    untold,     \* history: those an insert stored although it reported an error
    late,       \* history: those stored when a larger one was stored already
    at,         \* where each request of deliverMessage stands
    num,        \* the number it was handed out
    entry,      \* the state of each message in its author's tab
    tries,      \* how often it was sent
    list,       \* the numbers each tab shows
    inbox,      \* the frames on their way to each tab, in order
    socket,     \* "down", "joining" until ready is sent, "up"
    owed,       \* the tabs whose node has to send resync
    fetches,    \* each tab's running catch-ups
    read        \* read_seq of each tab's person

messages == <<stored, untold, late>>
server == <<lastSeq, messages, at, num>>
tab    == <<list, fetches>>
line   == <<inbox, socket, owed>>
vars   == <<server, entry, tries, tab, line, read>>

Fetch == [after : Numbers, found : SUBSET Numbers, full : BOOLEAN]

TypeOK ==
    /\ lastSeq \in Numbers
    /\ stored \in [Msgs -> SUBSET Numbers]
    /\ untold \in SUBSET Numbers /\ late \in SUBSET Numbers
    /\ at \in [Requests -> {"none", "numbering", "inserting", "resolving",
                            "publishing", "marking", "answering", "done"}]
    /\ num \in [Requests -> Numbers \cup {NoNumber}]
    /\ entry \in [Msgs -> {"unsent", "sending", "failed", "delivered"}]
    /\ \A m \in Msgs : tries[m] \in 0..MaxTries[m]
    /\ list \in [Clients -> SUBSET Numbers]
    /\ inbox \in [Clients -> Seq(Numbers \cup {CatchUpFrame})]
    /\ socket \in [Clients -> {"down", "joining", "up"}]
    /\ owed \in SUBSET Clients
    /\ fetches \in [Clients -> SUBSET Fetch]
    /\ read \in [Clients -> 0..Top]

Init ==
    /\ lastSeq = First
    /\ stored = [m \in Msgs |-> {}]
    /\ untold = {} /\ late = {}
    /\ at = [r \in Requests |-> "none"]
    /\ num = [r \in Requests |-> NoNumber]
    /\ entry = [m \in Msgs |-> "unsent"]
    /\ tries = [m \in Msgs |-> 0]
    /\ list = [c \in Clients |-> {First}]
    /\ inbox = [c \in Clients |-> <<>>]
    /\ socket = [c \in Clients |-> IF c \in Deaf THEN "down" ELSE "up"]
    /\ owed = {}
    /\ fetches = [c \in Clients |-> {}]
    /\ read = [c \in Clients |-> 0]

\* The numbers in the collection "messages".
History == {First} \cup UNION {stored[m] : m \in Msgs}

-----------------------------------------------------------------------------
(* deliverMessage: one request, step by step.                              *)

At(r, place) == at[r] = place
Goto(r, place) == at' = [at EXCEPT ![r] = place]

\* Another request may take the next number, and be stored and announced before.
TakeNumber(r) ==
    /\ At(r, "numbering")
    /\ lastSeq' = lastSeq + 1
    /\ num' = [num EXCEPT ![r] = lastSeq + 1]
    /\ Goto(r, "inserting")
    /\ UNCHANGED <<messages, entry, tries, tab, line, read>>

\* Variant: there is no unique index on client_msg_id.
RepeatNever(m) == FALSE
\* Two unique indexes, on the number and on client_msg_id, decide.
Repeat(m) == stored[m] # {}

Store(r) ==
    /\ stored' = [stored EXCEPT ![r[1]] = @ \cup {num[r]}]
    /\ late' = late \cup {n \in {num[r]} : \E k \in History : k > n}

\* Variant: the server itself tries a failed insert again.
InsertAgain(r) ==
    /\ At(r, "inserting")
    /\ \/ ~Repeat(r[1]) /\ Store(r) /\ Goto(r, "publishing")
       \/ (r \in Failing \/ Repeat(r[1])) /\ Goto(r, "numbering") /\ UNCHANGED <<stored, late>>
    /\ UNCHANGED <<lastSeq, num, untold, entry, tries, tab, line, read>>
Insert(r) ==
    /\ At(r, "inserting")
    /\ \/ ~Repeat(r[1]) /\ Store(r) /\ Goto(r, "publishing")
       \/ Repeat(r[1]) /\ Goto(r, "resolving") /\ UNCHANGED <<stored, late>>
    /\ UNCHANGED <<lastSeq, num, untold, entry, tries, tab, line, read>>

\* A call to the database reports an error, and the request is answered with it.
\* The write it reports on may have been applied all the same: nobody announces the
\* message then, as the author's retry is a repeat.
RequestFails(r) ==
    /\ r \in Failing
    /\ \/ /\ at[r] \in {"numbering", "inserting", "resolving"}
          /\ UNCHANGED <<lastSeq, messages>>
       \/ /\ At(r, "numbering")
          /\ lastSeq' = lastSeq + 1
          /\ UNCHANGED messages
       \/ /\ At(r, "inserting") /\ ~Repeat(r[1])
          /\ Store(r)
          /\ untold' = untold \cup {num[r]}
          /\ UNCHANGED lastSeq
    /\ Goto(r, "done")
    /\ UNCHANGED <<num, entry, tries, tab, line, read>>

\* Variant: a repeat is answered with the number it was handed out.
ResolveUnread(r) ==
    /\ At(r, "resolving")
    /\ Goto(r, "answering")
    /\ UNCHANGED <<lastSeq, messages, num, entry, tries, tab, line, read>>
\* A repeat is answered with the message stored the first time, and not announced.
Resolve(r) ==
    /\ At(r, "resolving")
    /\ num' = [num EXCEPT ![r] = CHOOSE n \in stored[r[1]] : TRUE]
    /\ Goto(r, "answering")
    /\ UNCHANGED <<lastSeq, messages, entry, tries, tab, line, read>>

\* The bus hands the frame to the tabs whose sockets are routed.  One that is
\* still joining may miss it, as Redis has not confirmed its channels; one that
\* is up misses it when a publish or a node's connection fails, and is then owed
\* a resync.
Announce(r, missing) ==
    /\ At(r, "publishing")
    /\ \A c \in missing : socket[c] = "up" => c \in Lossy
    /\ inbox' = [c \in Clients |-> IF socket[c] = "down" \/ c \in missing THEN inbox[c]
                                   ELSE Append(inbox[c], num[r])]
    /\ owed' = owed \cup {c \in missing : socket[c] = "up"}
    /\ Goto(r, "marking")
    /\ UNCHANGED <<lastSeq, messages, num, entry, tries, tab, socket, read>>

\* Variant: a position is stored as it comes ($set, not $max).
MarkAsAsked(c, n) == read' = [read EXCEPT ![c] = n]
\* What you wrote yourself is not unread to you; reads only move forward.  An error
\* is only logged.
Mark(c, n) == read' = [read EXCEPT ![c] = IF n > @ THEN n ELSE @]
MarkOwn(r) ==
    /\ At(r, "marking")
    /\ \/ Mark(Author[r[1]], num[r])
       \/ r \in Failing /\ UNCHANGED read
    /\ Goto(r, "answering")
    /\ UNCHANGED <<lastSeq, messages, num, entry, tries, tab, line>>

\* The node dies: what the request had not done yet never happens, and the node
\* that starts in its place tells every node to resync.
Crash(r) ==
    /\ r \in Dying /\ at[r] \notin {"none", "done"}
    /\ Goto(r, "done")
    /\ owed' = owed \cup {c \in Clients : socket[c] = "up"}
    /\ UNCHANGED <<lastSeq, messages, num, entry, tries, tab, inbox, socket, read>>

-----------------------------------------------------------------------------
(* The author's tab.                                                       *)

Post(m) ==
    /\ tries[m] < MaxTries[m]
    /\ tries' = [tries EXCEPT ![m] = @ + 1]
    /\ entry' = [entry EXCEPT ![m] = "sending"]
    /\ Goto(<<m, tries[m] + 1>>, "numbering")
    /\ UNCHANGED <<lastSeq, messages, num, tab, line, read>>

\* Only the parts of one send wait for each other: a second send, or a forward, may
\* go out beside it.
Write(m) ==
    /\ entry[m] = "unsent"
    /\ Post(m)

\* The bubble's Retry carries the same client_msg_id.
Retry(m) ==
    /\ entry[m] = "failed"
    /\ Post(m)

\* deliver: the saved message is merged into the entry, which has its number now.
Answered(r) ==
    /\ At(r, "answering")
    /\ Goto(r, "done")
    /\ \/ /\ r[2] = tries[r[1]] /\ entry[r[1]] = "sending"
          /\ entry' = [entry EXCEPT ![r[1]] = "delivered"]
          /\ list' = [list EXCEPT ![Author[r[1]]] = @ \cup {num[r]}]
       \/ /\ r \in Failing \/ r[2] # tries[r[1]] \/ entry[r[1]] # "sending"
          /\ UNCHANGED <<entry, list>>
    /\ UNCHANGED <<lastSeq, messages, num, tries, fetches, line, read>>

\* The fetch is rejected: by an error answer or the end of its node, or by a
\* network that gave up on a request which may still be running.
SendFails(m) ==
    /\ entry[m] = "sending"
    /\ <<m, tries[m]>> \in Failing \/ at[<<m, tries[m]>>] = "done"
    /\ entry' = [entry EXCEPT ![m] = "failed"]
    /\ UNCHANGED <<server, tries, tab, line, read>>

-----------------------------------------------------------------------------
(* The conversation: receive, catchUp, markRead.                           *)

Newest(c) == CHOOSE n \in list[c] : \A k \in list[c] : k <= n

\* By id, or by the client_msg_id of an entry of the tab's own.
Known(c, n) ==
    \/ n \in list[c]
    \/ \E m \in Msgs : n \in stored[m] /\ Author[m] = c /\ entry[m] # "unsent"

StartCatchUp(c) ==
    fetches' = [fetches EXCEPT ![c] = @ \cup {[after |-> Newest(c), found |-> {}, full |-> TRUE]}]

\* Variant: a number after a gap is shown like any other.
SkipsNever(c, n) == FALSE
Skips(c, n) == n > Newest(c) + 1
Receive(c) ==
    /\ inbox[c] # <<>>
    /\ Cardinality(fetches[c]) < MaxFetches
    /\ inbox' = [inbox EXCEPT ![c] = Tail(@)]
    /\ LET n == Head(inbox[c]) IN
         \/ /\ n = CatchUpFrame \/ (~Known(c, n) /\ Skips(c, n))
            /\ StartCatchUp(c)
            /\ UNCHANGED list
         \/ /\ n # CatchUpFrame /\ Known(c, n)
            /\ UNCHANGED <<list, fetches>>
         \/ /\ n # CatchUpFrame /\ ~Known(c, n) /\ ~Skips(c, n)
            /\ list' = [list EXCEPT ![c] = @ \cup {n}]
            /\ UNCHANGED fetches
    /\ UNCHANGED <<server, entry, tries, socket, owed, read>>

\* GET /messages?after_seq=: the first Page messages after a number, in order.
After(n) == {k \in History : k > n}
PageAfter(n) == {k \in After(n) : Cardinality({j \in After(n) : j < k}) < Page}
Largest(S) == CHOOSE n \in S : \A k \in S : k <= n

FetchPage(c, f) ==
    /\ f \in fetches[c] /\ f.full
    /\ LET page == PageAfter(f.after)
           full == Cardinality(page) = Page
           next == [after |-> IF full THEN Largest(page) ELSE f.after,
                    found |-> f.found \cup page,
                    full  |-> full]
       IN  fetches' = [fetches EXCEPT ![c] = (@ \ {f}) \cup {next}]
    /\ UNCHANGED <<server, entry, tries, list, line, read>>

\* The last page is in: what is not known yet is shown.
FetchEnds(c, f) ==
    /\ f \in fetches[c] /\ ~f.full
    /\ list' = [list EXCEPT ![c] = @ \cup {n \in f.found : ~Known(c, n)}]
    /\ fetches' = [fetches EXCEPT ![c] = @ \ {f}]
    /\ UNCHANGED <<server, entry, tries, line, read>>

\* handleMarkRead, on a request sent now or a while ago: never past the channel's
\* last number.
Capped(n) == IF n > lastSeq THEN lastSeq ELSE n
MarkRead(c, n) ==
    /\ n <= Newest(c)
    /\ Mark(c, Capped(n))
    /\ read' # read
    /\ UNCHANGED <<server, entry, tries, tab, line>>

-----------------------------------------------------------------------------
(* The socket.                                                             *)

Close(c) ==
    /\ c \in Mobile /\ socket[c] # "down"
    /\ socket' = [socket EXCEPT ![c] = "down"]
    /\ inbox' = [inbox EXCEPT ![c] = <<>>]
    /\ owed' = owed \ {c}
    /\ UNCHANGED <<server, entry, tries, tab, read>>

Join(c) ==
    /\ c \notin Deaf /\ socket[c] = "down"
    /\ socket' = [socket EXCEPT ![c] = "joining"]
    /\ UNCHANGED <<server, entry, tries, tab, inbox, owed, read>>

\* Variant: the socket is routed, and its tab is not told.
ReadySilent(c) ==
    /\ socket[c] = "joining"
    /\ socket' = [socket EXCEPT ![c] = "up"]
    /\ UNCHANGED <<server, entry, tries, tab, inbox, owed, read>>
Ready(c) ==
    /\ socket[c] = "joining"
    /\ socket' = [socket EXCEPT ![c] = "up"]
    /\ inbox' = [inbox EXCEPT ![c] = Append(@, CatchUpFrame)]
    /\ UNCHANGED <<server, entry, tries, tab, owed, read>>

Resync(c) ==
    /\ c \in owed
    /\ owed' = owed \ {c}
    /\ inbox' = [inbox EXCEPT ![c] = Append(@, CatchUpFrame)]
    /\ UNCHANGED <<server, entry, tries, tab, socket, read>>

-----------------------------------------------------------------------------
RequestStep(r) ==
    \/ TakeNumber(r) \/ Insert(r) \/ Resolve(r)
    \/ \E missing \in SUBSET {c \in Clients : socket[c] # "down"} : Announce(r, missing)
    \/ MarkOwn(r) \/ Answered(r)

TabStep(c) ==
    \/ Receive(c)
    \/ \E f \in fetches[c] : FetchPage(c, f) \/ FetchEnds(c, f)

SocketStep(c) == Join(c) \/ Ready(c) \/ Resync(c)

Next ==
    \/ \E r \in Requests : RequestStep(r) \/ RequestFails(r) \/ Crash(r)
    \/ \E m \in Msgs : Write(m) \/ Retry(m) \/ SendFails(m)
    \/ \E c \in Clients : \/ TabStep(c) \/ SocketStep(c) \/ Close(c)
                          \/ \E n \in Numbers : c \in Marking /\ MarkRead(c, n)

Spec == Init /\ [][Next]_vars

\* A request that runs goes on, frames arrive and catch-ups end, a socket that
\* has closed is opened again.  Nobody has to write, and nothing has to fail.
Fairness ==
    /\ \A r \in Requests : WF_vars(RequestStep(r))
    /\ \A c \in Clients : WF_vars(TabStep(c)) /\ WF_vars(SocketStep(c))

FairSpec == Spec /\ Fairness

-----------------------------------------------------------------------------
(* Properties.                                                             *)

\* However often a message is sent, it is stored once and under a number of its
\* own, although two requests of it may run at the same time.
StoredOnce ==
    /\ \A m \in Msgs : Cardinality(stored[m]) <= 1
    /\ \A m, k \in Msgs : m # k => stored[m] \cap stored[k] = {}

\* Persist first, then broadcast: whatever is on its way to a screen or on one is in
\* the database, and a repeat's unused number never gets out.  A bubble says
\* "delivered" only of a message that is stored, with the number everybody else sees.
ToldIsStored ==
    /\ \A c \in Clients :
        /\ list[c] \cup (UNION {f.found : f \in fetches[c]}) \subseteq History
        /\ \A i \in 1..Len(inbox[c]) : inbox[c][i] \in History \cup {CatchUpFrame}
    /\ \A m \in Msgs : entry[m] = "delivered" =>
        stored[m] # {} /\ stored[m] \subseteq list[Author[m]]

\* A read position never moves back, not even for a late request of another tab,
\* and never passes the channel's last number.
ReadMovesForward == [][\A c \in Clients : read[c] <= read'[c] /\ read'[c] <= lastSeq']_vars

\* A tab that only reads shows no message after a hole: with everything before
\* the newest message it shows, it shows the newest.  Late messages excepted:
\* deliverMessage numbers and stores in two steps, and a request that took its number
\* first may be stored second (messages_http.go:243-255).
Readers == {c \in Clients : \A m \in Msgs : Author[m] # c}
ReadersShowPrefix ==
    \A c \in Readers : \A n \in list[c], k \in History \ late : k < n => k \in list[c]

\* What a tab is not promised: a message nobody was told of, and, where frames can be
\* lost on the way to it, a late one, as a catch-up asks for what is newer.
Steady(c) == c \notin Mobile \cup Lossy \cup Deaf /\ Dying = {}
Excused(c) == untold \cup {n \in late : ~Steady(c)}

\* A tab at rest shows the whole history, except for an entry of its own that
\* waits for Retry and for what is excused (docs/architecture.md, "Persist first,
\* then broadcast": "once reconnected the client fetches what it missed").
AtRest(c) ==
    /\ socket[c] = "up" /\ inbox[c] = <<>> /\ fetches[c] = {} /\ c \notin owed
    /\ \A r \in Requests : at[r] \in {"none", "done"}
Own(c) == UNION {stored[m] : m \in {k \in Msgs : Author[k] = c}}
NothingMissed ==
    \A c \in Clients : AtRest(c) => History \ (Own(c) \cup Excused(c)) \subseteq list[c]

\* Every stored message reaches every tab that only reads, unless it is excused.
ReachesReaders ==
    \A c \in Readers, m \in Msgs :
        stored[m] \ Excused(c) # {} ~> (stored[m] \subseteq list[c] \/ socket[c] = "down")

\* The channel keeps the promise of Log, for requests that overlap, are repeated, fail
\* or die with their node: a message gets one place and keeps it, no tab drops a
\* message it has shown or shows one that is not stored, "delivered" is never taken
\* back by an answer or a failure that comes late, and no read position
\* moves back.
Places == UNION {{m} \X stored[m] : m \in Msgs}
Told == {m \in Msgs : entry[m] = "delivered"}
Promise == INSTANCE Log WITH last <- lastSeq, log <- Places, shows <- list, delivered <- Told
KeepsLog == Promise!Spec
=============================================================================
