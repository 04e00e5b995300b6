------------------------------ MODULE Members ------------------------------
(***************************************************************************)
(* Who is in which channel (src/server/channels.go, channels_http.go,      *)
(* invites_http.go), who may open a conversation (friends.go,              *)
(* friends_http.go), and which channels the sockets of each person hear    *)
(* (the Subscribe calls of the handlers, handleWS and recoverFromGap).     *)
(*                                                                         *)
(* Every step of a request is one database operation, which MongoDB makes  *)
(* atomic, or one call of the bus.  The bus and the hub are modelled in    *)
(* Bus and Hub; here a Subscribe reaches the sockets at once, and each     *)
(* person has at most one.                                                 *)
(*                                                                         *)
(* A channel's list of members is a set: the order decides only who is     *)
(* promoted, so ensureOwner promotes any of them.                          *)
(***************************************************************************)
EXTENDS Naturals, FiniteSets

CONSTANTS
    Users,
    Named,        \* the named channels, those still to be created among them
    Directs,      \* the conversations, as documents
    Requests,     \* HTTP requests and socket handlers, one operation each
    MaxFaults     \* requests that die in the middle (a bound)

None == "none"
Channels == Named \cup Directs

ASSUME NamesAssumption ==
    /\ None \notin Users \cup Channels
    /\ Named \cap Directs = {}
ASSUME BoundsAssumption == MaxFaults \in Nat

VARIABLES
    \* channels
    status,      \* "absent", "live", "marked" (deleted_at)
    members,     \* the people in it
    owners,      \* those of them with the role
    key,         \* the conversations that hold their direct_key
    pair,        \* the two people of a conversation
    code,        \* invite_code, 0 if there is none: codes are numbered
    \* other collections
    asks,        \* friend_requests that are pending or accepted
    reads,       \* who has a read position where
    accounts,    \* the people whose account is not deleted
    sessions,    \* the people who are signed in
    \* sockets
    connected,   \* the people with a socket
    routed,      \* which channels it hears
    \* requests
    req,
    faults,
    \* history
    given,       \* the links handed out since the last reset
    torn,        \* members whose route two overlapping operations, or one cut short, left open
    ownerless    \* channels where a Leave died between its two writes

channels == <<status, members, owners, key, pair, code>>
people   == <<asks, reads, accounts, sessions>>
sockets  == <<connected, routed>>
history  == <<given, torn, ownerless>>
mvars    == <<channels, people, sockets, req, faults, history>>

Steps == {"joining", "placing", "marking", "routing",
          "leaving", "ensuring", "unrouting", "forgetting",
          "coding", "asking", "opening", "routingBoth", "setting",
          "admitting", "sending"}    \* these two are Erasure's
Request == [at : Steps \cup {"none", "gone"}, by : Users \cup {None}, other : Users \cup {None},
            ch : Channels \cup {None}, list : SUBSET Channels]
NoRequest == [at |-> "none", by |-> None, other |-> None, ch |-> None, list |-> {}]

MTypeOK ==
    /\ status \in [Channels -> {"absent", "live", "marked"}]
    /\ members \in [Channels -> SUBSET Users]
    /\ \A c \in Channels : owners[c] \subseteq members[c]
    /\ key \in SUBSET Directs
    /\ pair \in [Directs -> SUBSET Users]
    /\ code \in [Named -> Nat]
    /\ asks \in SUBSET [from : Users, to : Users, status : {"pending", "accepted"}]
    /\ reads \in SUBSET (Users \X Channels)
    /\ accounts \in SUBSET Users
    /\ sessions \in SUBSET Users
    /\ connected \in SUBSET Users
    /\ routed \in SUBSET (connected \X Channels)
    /\ req \in [Requests -> Request]
    /\ faults \in 0 .. MaxFaults

Of(u) == {c \in Channels : u \in members[c]}

\* People who know each other or not, in channels with a link or without.
MInit ==
    /\ status \in [Channels -> {"absent", "live"}]
    /\ \A d \in Directs : status[d] = "absent"
    /\ members \in [Channels -> SUBSET Users]
    /\ \A c \in Channels : members[c] = {} <=> status[c] = "absent"
    /\ owners \in [Channels -> SUBSET Users]
    /\ \A c \in Channels :
        IF status[c] = "live" THEN \E u \in members[c] : owners[c] = {u} ELSE owners[c] = {}
    /\ key = {}
    /\ pair = [d \in Directs |-> {}]
    /\ code \in [Named -> {0, 1}]
    /\ \A c \in Named : status[c] = "absent" => code[c] = 0
    /\ \E met \in SUBSET {uv \in Users \X Users : uv[1] # uv[2]} :
         asks = {[from |-> uv[1], to |-> uv[2], status |-> "accepted"] : uv \in met}
    /\ reads = {}
    /\ accounts = Users
    /\ sessions = Users
    /\ connected = Users
    /\ routed = {uc \in Users \X Channels : uc[2] \in Of(uc[1])}
    /\ req = [r \in Requests |-> NoRequest]
    /\ faults = 0
    /\ given = [c \in Named |-> IF code[c] = 0 THEN {} ELSE {code[c]}]
    /\ torn = {}
    /\ ownerless = {}

-----------------------------------------------------------------------------
(* Requests.                                                               *)

\* A handler runs with the session the request came with.
Begin(r, u, at, c) ==
    /\ req[r] = NoRequest /\ u \in sessions
    /\ req' = [req EXCEPT ![r] = [NoRequest EXCEPT !.at = at, !.by = u, !.ch = c]]
BeginWith(r, u, at, v) ==
    /\ req[r] = NoRequest /\ u \in sessions
    /\ req' = [req EXCEPT ![r] = [NoRequest EXCEPT !.at = at, !.by = u, !.other = v]]
At(r, step) == req[r].at = step
Go(r, step) == req' = [req EXCEPT ![r].at = step]
End(r) == req' = [req EXCEPT ![r] = [NoRequest EXCEPT !.at = "gone"]]

\* A membership is written and not yet routed, or was read before the write and
\* is routed by what was read: each alone is right in the end, but not across a
\* write of another request.
Unrouted(r, u, c) ==
    /\ u \in {req[r].by, req[r].other}
    /\ \/ req[r].ch = c /\ req[r].at \in {"placing", "marking", "routing", "routingBoth",
                                          "ensuring", "unrouting"}
       \/ req[r].at = "setting"
Crossed(r, us, c) ==
    {<<u, c>> : u \in {v \in us : \E q \in Requests \ {r} : Unrouted(q, v, c)}}
Across(r, us, c) == torn' = torn \cup Crossed(r, us, c)

\* Variant: whoever has no socket is subscribed as well.
RouteAll(pairs) == routed' = routed \cup pairs
Route(pairs) == routed' = routed \cup {uc \in pairs : uc[1] \in connected}
Unroute(u, c) == routed' = routed \ {<<u, c>>}

\* handleCreateChannel.
Create(r, u, c) ==
    /\ status[c] = "absent" /\ c \in Named
    /\ status' = [status EXCEPT ![c] = "live"]
    /\ members' = [members EXCEPT ![c] = {u}]
    /\ owners' = [owners EXCEPT ![c] = {u}]
    /\ code' = [code EXCEPT ![c] = 1]
    /\ given' = [given EXCEPT ![c] = {1}]
    /\ Begin(r, u, "routing", c)
    /\ Across(r, {u}, c)
    /\ UNCHANGED <<key, pair, people, sockets, faults, ownerless>>

\* handleFollowInvite: the link leads to a channel,
Follow(r, u, c) ==
    /\ c \in Named /\ code[c] # 0
    /\ Begin(r, u, "joining", c)
    /\ UNCHANGED <<channels, people, sockets, faults, history>>

\* Variant: a marked channel takes members.
AddMemberMarked(r) ==
    LET u == req[r].by
        c == req[r].ch
    IN  /\ At(r, "joining")
        /\ members' = [members EXCEPT ![c] = @ \cup {u}]
        /\ Go(r, "placing")
        /\ Across(r, {u}, c)
        /\ UNCHANGED <<status, owners, key, pair, code, people, sockets, faults, given, ownerless>>

\* AddMember: the filter and the push are one write; whyNotAdded tells a member
\* from a channel that waits for the purge.
AddMember(r) ==
    LET u == req[r].by
        c == req[r].ch
    IN  /\ At(r, "joining")
        /\ IF status[c] = "live" /\ u \notin members[c]
           THEN /\ members' = [members EXCEPT ![c] = @ \cup {u}]
                /\ Go(r, "placing")
                /\ Across(r, {u}, c)
           ELSE /\ IF status[c] = "live" THEN Go(r, "routing") ELSE End(r)
                /\ UNCHANGED <<members, torn>>
        /\ UNCHANGED <<status, owners, key, pair, code, people, sockets, faults, given, ownerless>>

\* lastSeqFor, for a member only, then mark: what was written before is read.
Place(r) ==
    /\ At(r, "placing")
    /\ Go(r, IF req[r].by \in members[req[r].ch] THEN "marking" ELSE "routing")
    /\ UNCHANGED <<channels, people, sockets, faults, history>>

Mark(r) ==
    /\ At(r, "marking")
    /\ reads' = reads \cup {<<req[r].by, req[r].ch>>}
    /\ Go(r, "routing")
    /\ UNCHANGED <<channels, asks, accounts, sessions, sockets, faults, history>>

\* bus.Subscribe.
Subscribe(r) ==
    /\ At(r, "routing")
    /\ Route({<<req[r].by, req[r].ch>>})
    /\ End(r)
    /\ UNCHANGED <<channels, people, connected, faults, history>>

-----------------------------------------------------------------------------
(* Leaving.                                                                *)

\* handleLeaveChannel refuses a conversation (kindFor).
Leave(r, u, c) ==
    /\ c \in Named /\ u \in members[c]
    /\ Begin(r, u, "leaving", c)
    /\ UNCHANGED <<channels, people, sockets, faults, history>>

\* Leave, the store's: the write that empties the channel marks it, and takes
\* the key of a conversation.
TakeOut(u, c) ==
    /\ members' = [members EXCEPT ![c] = @ \ {u}]
    /\ owners' = [owners EXCEPT ![c] = @ \ {u}]
    /\ IF members'[c] = {}
       THEN status' = [status EXCEPT ![c] = "marked"] /\ key' = key \ {c}
       ELSE UNCHANGED <<status, key>>

LeaveWrite(r) ==
    LET u == req[r].by
        c == req[r].ch
    IN  /\ At(r, "leaving")
        /\ IF u \in members[c]
           THEN /\ TakeOut(u, c)
                /\ Go(r, IF status'[c] = "marked" THEN "unrouting" ELSE "ensuring")
                /\ Across(r, {u}, c)
           ELSE End(r) /\ UNCHANGED <<status, members, owners, key, torn>>
        /\ UNCHANGED <<pair, code, people, sockets, faults, given, ownerless>>

\* Variant: the promotion does not ask for an owner again.
PromoteAny(c) ==
    IF c \in Named /\ members[c] # {}
    THEN \E u \in members[c] : owners' = [owners EXCEPT ![c] = @ \cup {u}]
    ELSE UNCHANGED owners
\* ensureOwner: what holds now decides, not what Leave saw.
Promote(c) ==
    IF c \in Named /\ members[c] # {} /\ owners[c] = {}
    THEN \E u \in members[c] : owners' = [owners EXCEPT ![c] = {u}]
    ELSE UNCHANGED owners

EnsureOwner(r) ==
    /\ At(r, "ensuring")
    /\ Promote(req[r].ch)
    /\ Go(r, "unrouting")
    /\ UNCHANGED <<status, members, key, pair, code, people, sockets, faults, history>>

\* bus.Unsubscribe,
Unsubscribe(r) ==
    /\ At(r, "unrouting")
    /\ Unroute(req[r].by, req[r].ch)
    /\ Go(r, "forgetting")
    /\ UNCHANGED <<channels, people, connected, faults, history>>

\* then the read position.
Forget(r) ==
    /\ At(r, "forgetting")
    /\ reads' = reads \ {<<req[r].by, req[r].ch>>}
    /\ End(r)
    /\ UNCHANGED <<channels, asks, accounts, sessions, sockets, faults, history>>

-----------------------------------------------------------------------------
(* Links.                                                                  *)

\* A code never given before (rand.Text): codes only grow.
Fresh(c) == code[c] + 1

\* InviteCode, of a channel that has one or is to get one.
AskLink(r, u, c) ==
    /\ c \in Named /\ u \in members[c]
    /\ IF code[c] # 0
       THEN /\ req[r] = NoRequest /\ u \in sessions /\ End(r)
            /\ given' = [given EXCEPT ![c] = @ \cup {code[c]}]
       ELSE Begin(r, u, "coding", c) /\ UNCHANGED given
    /\ UNCHANGED <<channels, people, sockets, faults, torn, ownerless>>

\* Variant: the second of two first asks replaces the link.
GiveInviteCodeAnew(r) ==
    LET c == req[r].ch
    IN  /\ At(r, "coding")
        /\ code' = [code EXCEPT ![c] = Fresh(c)]
        /\ given' = [given EXCEPT ![c] = @ \cup {code'[c]}]
        /\ End(r)
        /\ UNCHANGED <<status, members, owners, key, pair, people, sockets, faults, torn, ownerless>>

\* giveInviteCode: $ifNull keeps a code another request set in the meantime.
GiveInviteCode(r) ==
    LET c == req[r].ch
    IN  /\ At(r, "coding")
        /\ code' = [code EXCEPT ![c] = IF @ = 0 THEN Fresh(c) ELSE @]
        /\ given' = [given EXCEPT ![c] = @ \cup {code'[c]}]
        /\ End(r)
        /\ UNCHANGED <<status, members, owners, key, pair, people, sockets, faults, torn, ownerless>>

\* ResetInviteCode, for the owner.
ResetLink(r, u, c) ==
    /\ c \in Named /\ u \in owners[c]
    /\ req[r] = NoRequest /\ u \in sessions /\ End(r)
    /\ code' = [code EXCEPT ![c] = Fresh(c)]
    /\ given' = [given EXCEPT ![c] = {code'[c]}]
    /\ UNCHANGED <<status, members, owners, key, pair, people, sockets, faults, torn, ownerless>>

-----------------------------------------------------------------------------
(* Friends and conversations.                                              *)

Ask(u, v, s) == [from |-> u, to |-> v, status |-> s]
Between(u, v) == {a \in asks : {a.from, a.to} = {u, v}}
Accepted(u, v) == {a \in Between(u, v) : a.status = "accepted"}
AreFriends(u, v) == Accepted(u, v) # {}

\* Send looks first for what is between the two.  An open request of the other's
\* is answered, which Respond below does.
SendAsk(r, u, v) ==
    /\ u # v /\ v \in accounts /\ Between(u, v) = {}
    /\ BeginWith(r, u, "asking", v)
    /\ UNCHANGED <<channels, people, sockets, faults, history>>

\* The insert.  The unique index sees only a pending request the same way.
InsertAsk(r) ==
    /\ At(r, "asking")
    /\ asks' = asks \cup {Ask(req[r].by, req[r].other, "pending")}
    /\ End(r)
    /\ UNCHANGED <<channels, reads, accounts, sessions, sockets, faults, history>>

\* Respond, with either answer.
Respond(r, u, v) ==
    /\ Ask(v, u, "pending") \in asks
    /\ req[r] = NoRequest /\ u \in sessions /\ End(r)
    /\ \/ asks' = (asks \ {Ask(v, u, "pending")}) \cup {Ask(v, u, "accepted")}
       \/ asks' = asks \ {Ask(v, u, "pending")}
    /\ UNCHANGED <<channels, reads, accounts, sessions, sockets, faults, history>>

\* Remove: many, not one.
Remove(r, u, v) ==
    /\ AreFriends(u, v)
    /\ req[r] = NoRequest /\ u \in sessions /\ End(r)
    /\ asks' = asks \ Accepted(u, v)
    /\ UNCHANGED <<channels, reads, accounts, sessions, sockets, faults, history>>

\* handleOpenDirect asks whether the other exists and is a friend - two reads, and
\* the first one's answer is used for nothing but the other's id -
OpenDirect(r, u, v) ==
    /\ u # v /\ v \in accounts /\ AreFriends(u, v)
    /\ BeginWith(r, u, "opening", v)
    /\ UNCHANGED <<channels, people, sockets, faults, history>>

Has(d, u, v) == d \in key /\ pair[d] = {u, v}
\* then Direct finds the conversation by its key, or creates it.
Direct(r) ==
    LET u == req[r].by
        v == req[r].other
        Arrive(d) == req' = [req EXCEPT ![r].at = "routingBoth", ![r].ch = d]
    IN  /\ At(r, "opening")
        /\ \E d \in Directs :
            \/ /\ Has(d, u, v)
               /\ Arrive(d)
               /\ UNCHANGED <<channels, torn>>
            \/ /\ status[d] = "absent" /\ ~\E e \in Directs : Has(e, u, v)
               /\ status' = [status EXCEPT ![d] = "live"]
               /\ members' = [members EXCEPT ![d] = {u, v}]
               /\ key' = key \cup {d}
               /\ pair' = [pair EXCEPT ![d] = {u, v}]
               /\ Arrive(d)
               /\ Across(r, {u, v}, d)
               /\ UNCHANGED <<owners, code>>
        /\ UNCHANGED <<people, sockets, faults, given, ownerless>>

\* Variant: only the one who opened it is.
SubscribeOne(r) ==
    /\ At(r, "routingBoth")
    /\ Route({<<req[r].by, req[r].ch>>})
    /\ End(r)
    /\ UNCHANGED <<channels, people, connected, faults, history>>
\* Both are subscribed, if the document that came back has them.
SubscribeBoth(r) ==
    /\ At(r, "routingBoth")
    /\ Route(({req[r].by, req[r].other} \cap members[req[r].ch]) \X {req[r].ch})
    /\ End(r)
    /\ UNCHANGED <<channels, people, connected, faults, history>>

-----------------------------------------------------------------------------
(* Sockets.                                                                *)

\* A socket closes: its person hears nothing until they are back.
HangUp(u) ==
    /\ u \in connected
    /\ connected' = connected \ {u}
    /\ routed' = {uc \in routed : uc[1] # u}
    /\ UNCHANGED <<channels, people, req, faults, history>>

\* handleWS, and recoverFromGap for a socket that is there: the channels are read
ReadChannels(r, u) ==
    /\ req[r] = NoRequest /\ u \in sessions
    /\ req' = [req EXCEPT ![r] = [NoRequest EXCEPT !.at = "setting", !.by = u, !.list = Of(u)]]
    /\ UNCHANGED <<channels, people, sockets, faults, history>>

\* and then set (hub.Connect, hub.SetChannels).
SetChannels(r) ==
    LET u == req[r].by
    IN  /\ At(r, "setting")
        /\ connected' = connected \cup {u}
        /\ routed' = {uc \in routed : uc[1] # u} \cup ({u} \X req[r].list)
        /\ End(r)
        /\ UNCHANGED <<channels, people, faults, history>>

\* A request dies, or a step of it fails: nobody finishes it.
Abort(r) ==
    LET u == req[r].by
        c == req[r].ch
    IN  /\ req[r].at \in Steps
        /\ faults < MaxFaults /\ faults' = faults + 1
        /\ torn' = torn \cup {<<v, c>> : v \in {w \in Users : c # None /\ Unrouted(r, w, c)}}
        /\ ownerless' = IF At(r, "ensuring") THEN ownerless \cup {c} ELSE ownerless
        /\ End(r)
        /\ UNCHANGED <<channels, people, sockets, given>>

-----------------------------------------------------------------------------
RequestGoesOn(r) ==
    \/ AddMember(r) \/ Place(r) \/ Mark(r) \/ Subscribe(r)
    \/ LeaveWrite(r) \/ EnsureOwner(r) \/ Unsubscribe(r) \/ Forget(r)
    \/ GiveInviteCode(r)
    \/ InsertAsk(r) \/ Direct(r) \/ SubscribeBoth(r)
    \/ SetChannels(r)

RequestBegins(r) ==
    \E u \in Users :
        \/ ReadChannels(r, u)
        \/ \E c \in Channels : Create(r, u, c) \/ Follow(r, u, c) \/ Leave(r, u, c)
                               \/ AskLink(r, u, c) \/ ResetLink(r, u, c)
        \/ \E v \in Users : SendAsk(r, u, v) \/ Respond(r, u, v) \/ Remove(r, u, v)
                            \/ OpenDirect(r, u, v)

MNext ==
    \/ \E r \in Requests : RequestBegins(r) \/ RequestGoesOn(r) \/ Abort(r)
    \/ \E u \in Users : HangUp(u)

-----------------------------------------------------------------------------
(* Properties.                                                             *)

\* A channel that was emptied is marked and never gets a member again, so the
\* purge takes nothing from anybody, and nothing empty is left without a mark.
MarkedIsEmpty == \A c \in Channels : status[c] = "marked" <=> (members[c] = {} /\ status[c] # "absent")

\* A named channel has one owner, unless somebody is between the two writes of a
\* Leave or died there; a conversation never has one, and so never a link.
Ensuring == {c \in Named : \E r \in Requests : At(r, "ensuring") /\ req[r].ch = c}
OneOwnerBut(excused) ==
    /\ \A c \in Named : status[c] = "live" =>
        /\ Cardinality(owners[c]) <= 1
        /\ owners[c] = {} => c \in excused
    /\ \A d \in Directs : owners[d] = {}

\* Two people who ask first at the same moment get the same thing.  Two members who
\* ask for the link of a channel get one link, which leads there until the owner
\* resets it; two people who press "message" get one conversation, with nobody else
\* in it, until both have left it.
FirstsAgree ==
    /\ \A c \in Named : given[c] \subseteq {code[c]}
    /\ \A d \in Directs : members[d] \subseteq pair[d]
    /\ \A d, e \in key : pair[d] = pair[e] => d = e

\* A socket hears the channels its person is in and no others, once their requests
\* are done - unless two of them overlapped on one membership, or one died.
RoutedIsMember ==
    \A u \in connected \cap accounts, c \in Channels :
        <<u, c>> \notin torn /\ (\A r \in Requests : ~Unrouted(r, u, c))
            => (<<u, c>> \in routed <=> u \in members[c])
=============================================================================
