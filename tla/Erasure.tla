------------------------------ MODULE Erasure ------------------------------
(***************************************************************************)
(* The deletion of accounts (src/server/account.go, the claims in          *)
(* src/server/users.go, deleteAllOf, deleteFor and renameAuthor), among    *)
(* the requests of Members: some of them began before the deletion and     *)
(* write after it.                                                         *)
(*                                                                         *)
(* A person's messages are the names they are signed with, in copies that  *)
(* others forward too: the person's own, or the tomb name.  Each node runs *)
(* at most one erasure at a time; the request that began one and the purge *)
(* loop are the same process.                                              *)
(***************************************************************************)
EXTENDS Members

CONSTANT Nodes

ASSUME NodesAssumption == None \notin Nodes

VARIABLES
    name,      \* the username of each account: "own" or "tomb"
    signed,    \* the names under a person's messages
    taken,     \* the names a newcomer registered again
    holder,    \* erase_owner
    held,      \* the accounts whose erase_until is still ahead
    stage,     \* where each node's eraseAccount stands
    victim,    \* whose account it erases
    todo,      \* the channels it has still to leave
    promoting, \* the channel it has left and not yet looked for an owner of
    late       \* history: what was written for an account after its mark

evars == <<name, signed, taken, holder, held, stage, victim, todo, promoting>>
vars  == <<mvars, evars, late>>

Stages == {"idle", "revoke", "list", "leave", "friends", "reads", "rename", "finish", "again"}
Kinds  == {"session", "member", "friend", "read", "message"}

TypeOK ==
    /\ MTypeOK
    /\ name \in [Users -> {"own", "tomb"}]
    /\ signed \in [Users -> SUBSET {"own", "tomb"}]
    /\ taken \in SUBSET Users
    /\ holder \in [Users -> Nodes \cup {None}]
    /\ held \in SUBSET Users
    /\ stage \in [Nodes -> Stages]
    /\ victim \in [Nodes -> Users \cup {None}]
    /\ todo \in [Nodes -> SUBSET Channels]
    /\ promoting \in [Nodes -> Channels \cup {None}]
    /\ late \in SUBSET (Users \X Kinds)

Init ==
    /\ MInit
    /\ name = [u \in Users |-> "own"]
    /\ signed = [u \in Users |-> {"own"}]
    /\ taken = {}
    /\ holder = [u \in Users |-> None]
    /\ held = {}
    /\ stage = [n \in Nodes |-> "idle"]
    /\ victim = [n \in Nodes |-> None]
    /\ todo = [n \in Nodes |-> {}]
    /\ promoting = [n \in Nodes |-> None]
    /\ late = {}

-----------------------------------------------------------------------------
(* Requests, and what they write for an account that is deleted already.   *)

Asked(u) == {a \in asks : u \in {a.from, a.to}}
Reads(u) == {uc \in reads : uc[1] = u}

NoteLate ==
    late' = late \cup
        {uk \in (Users \ accounts) \X Kinds :
            LET u == uk[1]
            IN  CASE uk[2] = "session" -> u \notin sessions /\ u \in sessions'
                  [] uk[2] = "member"  -> \E c \in Channels : u \notin members[c] /\ u \in members'[c]
                  [] uk[2] = "friend"  -> ~(Asked(u)' \subseteq Asked(u))
                  [] uk[2] = "read"    -> ~(Reads(u)' \subseteq Reads(u))
                  [] uk[2] = "message" -> FALSE}

MembersStep == MNext /\ NoteLate /\ UNCHANGED evars

\* handleLogin: the password was right for an account that was there,
Login(r, u) ==
    /\ u \in accounts
    /\ req[r] = NoRequest
    /\ req' = [req EXCEPT ![r] = [NoRequest EXCEPT !.at = "admitting", !.by = u]]
    /\ UNCHANGED <<channels, people, sockets, faults, history, evars, late>>

\* then the session is created, which asks nothing.
Admit(r) ==
    /\ At(r, "admitting")
    /\ sessions' = sessions \cup {req[r].by}
    /\ End(r)
    /\ UNCHANGED <<channels, asks, reads, accounts, sockets, faults, history, evars>>
    /\ NoteLate

\* handleSendMessage, for a member,
Send(r, u, c) ==
    /\ u \in members[c]
    /\ Begin(r, u, "sending", c)
    /\ UNCHANGED <<channels, people, sockets, faults, history, evars, late>>

\* or handleForwardMessage, which copies the name of the author it has read.  A
\* copy under the tomb name changes nothing.
Forward(r, u, v) ==
    /\ u # v /\ Of(u) # {} /\ "own" \in signed[v]
    /\ BeginWith(r, u, "sending", v)
    /\ UNCHANGED <<channels, people, sockets, faults, history, evars, late>>

\* stores the message, under the name in the session or the one that was copied.
Author(r) == IF req[r].other = None THEN req[r].by ELSE req[r].other
Store(r) ==
    LET u == Author(r)
    IN  /\ At(r, "sending")
        /\ signed' = [signed EXCEPT ![u] = @ \cup {"own"}]
        /\ late' = IF name[u] = "tomb" THEN late \cup {<<u, "message">>} ELSE late
        /\ End(r)
        /\ UNCHANGED <<channels, people, sockets, faults, history, name, taken, holder, held,
                       stage, victim, todo, promoting>>

\* handleRegister: the unique index gives a name nobody has.
Register(u) ==
    /\ name[u] = "tomb" /\ u \notin taken
    /\ taken' = taken \cup {u}
    /\ UNCHANGED <<mvars, name, signed, holder, held, stage, victim, todo, promoting, late>>

-----------------------------------------------------------------------------
(* eraseAccount, on node n.                                                *)

In(n, s) == stage[n] = s
To(n, s) == stage' = [stage EXCEPT ![n] = s]
Take(n, u) ==
    /\ In(n, "idle")
    /\ holder' = [holder EXCEPT ![u] = n]
    /\ held' = held \cup {u}
    /\ victim' = [victim EXCEPT ![n] = u]
    /\ To(n, "revoke")
Stop(n) ==
    /\ To(n, "idle")
    /\ victim' = [victim EXCEPT ![n] = None]
    /\ todo' = [todo EXCEPT ![n] = {}]
    /\ promoting' = [promoting EXCEPT ![n] = None]

\* handleDeleteAccount: markDeleted brings the claim with it.
Delete(n, u) ==
    /\ u \in accounts /\ u \in sessions
    /\ Take(n, u)
    /\ accounts' = accounts \ {u}
    /\ UNCHANGED <<channels, asks, reads, sessions, sockets, req, faults, history, name, signed,
                   taken, todo, promoting, late>>

\* claimErasure, once the claim of another has run out.
Claim(n, u) ==
    /\ holder[u] # None /\ u \notin held
    /\ Take(n, u)
    /\ UNCHANGED <<mvars, name, signed, taken, todo, promoting, late>>

\* Every device signs out, and its sockets close (Sessions).  The sessions are listed
\* first and revoked one at a time: one that a login adds in between is left alone,
\* as is one it adds afterwards, so the two orders are the same.
Revoke(n) ==
    /\ In(n, "revoke")
    /\ sessions' = sessions \ {victim[n]}
    /\ connected' = connected \ {victim[n]}
    /\ routed' = {uc \in routed : uc[1] # victim[n]}
    /\ To(n, "list")
    /\ UNCHANGED <<channels, asks, reads, accounts, req, faults, history, name, signed, taken,
                   holder, held, victim, todo, promoting, late>>

\* memberOf.
ListChannels(n) ==
    /\ In(n, "list")
    /\ todo' = [todo EXCEPT ![n] = Of(victim[n])]
    /\ To(n, "leave")
    /\ UNCHANGED <<mvars, name, signed, taken, holder, held, victim, promoting, late>>

\* Leave for each of them, in its two writes;
LeaveOne(n, c) ==
    LET u == victim[n]
    IN  /\ In(n, "leave") /\ promoting[n] = None /\ c \in todo[n]
        /\ todo' = [todo EXCEPT ![n] = @ \ {c}]
        /\ IF u \in members[c]
           THEN /\ TakeOut(u, c)
                /\ promoting' = [promoting EXCEPT ![n] = IF status'[c] = "marked" THEN None ELSE c]
           ELSE UNCHANGED <<status, members, owners, key, promoting>>
        /\ UNCHANGED <<pair, code, people, sockets, req, faults, history, name, signed, taken,
                       holder, held, stage, victim, late>>

PromoteOne(n) ==
    /\ promoting[n] # None
    /\ Promote(promoting[n])
    /\ promoting' = [promoting EXCEPT ![n] = None]
    /\ UNCHANGED <<status, members, key, pair, code, people, sockets, req, faults, history, name,
                   signed, taken, holder, held, stage, victim, todo, late>>

\* Variant: the requests a person got are forgotten, those they sent are not.
EraseFriendsTo(n) ==
    /\ In(n, "leave") /\ promoting[n] = None /\ todo[n] = {}
    /\ asks' = {a \in asks : a.to # victim[n]}
    /\ To(n, "reads")
    /\ UNCHANGED <<channels, reads, accounts, sessions, sockets, req, faults, history, name,
                   signed, taken, holder, held, victim, todo, promoting, late>>
\* deleteAllOf,
EraseFriends(n) ==
    /\ In(n, "leave") /\ promoting[n] = None /\ todo[n] = {}
    /\ asks' = asks \ Asked(victim[n])
    /\ To(n, "reads")
    /\ UNCHANGED <<channels, reads, accounts, sessions, sockets, req, faults, history, name,
                   signed, taken, holder, held, victim, todo, promoting, late>>

\* deleteFor,
EraseReads(n) ==
    /\ In(n, "reads")
    /\ reads' = reads \ Reads(victim[n])
    /\ To(n, "rename")
    /\ UNCHANGED <<channels, asks, accounts, sessions, sockets, req, faults, history, name,
                   signed, taken, holder, held, victim, todo, promoting, late>>

\* renameAuthor,
Renamed(u) == [signed EXCEPT ![u] = IF @ = {} THEN {} ELSE {"tomb"}]
Rename(n) ==
    /\ In(n, "rename")
    /\ signed' = Renamed(victim[n])
    /\ To(n, "finish")
    /\ UNCHANGED <<mvars, name, taken, holder, held, victim, todo, promoting, late>>

\* Variant: once is enough.
FinishForGood(n) ==
    LET u == victim[n]
    IN  /\ In(n, "finish")
        /\ Stop(n)
        /\ IF holder[u] = n
           THEN /\ name' = [name EXCEPT ![u] = "tomb"]
                /\ holder' = [holder EXCEPT ![u] = None] /\ held' = held \ {u}
           ELSE UNCHANGED <<name, holder, held>>
        /\ UNCHANGED <<mvars, signed, taken, late>>
\* finishErasure, for the node that holds the claim still,
Finish(n) ==
    LET u == victim[n]
    IN  /\ In(n, "finish")
        /\ IF holder[u] = n
           THEN /\ name' = [name EXCEPT ![u] = "tomb"]
                /\ holder' = [holder EXCEPT ![u] = None] /\ held' = held \ {u}
                /\ To(n, "again") /\ UNCHANGED <<victim, todo, promoting>>
           ELSE Stop(n) /\ UNCHANGED <<name, holder, held>>
        /\ UNCHANGED <<mvars, signed, taken, late>>

\* and renameAuthor once more.
RenameAgain(n) ==
    /\ In(n, "again")
    /\ signed' = Renamed(victim[n])
    /\ Stop(n)
    /\ UNCHANGED <<mvars, name, taken, holder, held, late>>

\* A step fails, or the node dies.
EraserFails(n) ==
    /\ ~In(n, "idle")
    /\ faults < MaxFaults /\ faults' = faults + 1
    /\ ownerless' = ownerless \cup ({promoting[n]} \ {None})
    /\ late' = IF In(n, "again") THEN late \cup {<<victim[n], "message">>} ELSE late
    /\ Stop(n)
    /\ UNCHANGED <<channels, people, sockets, req, given, torn, name, signed, taken, holder, held>>

\* eraseLease runs out: five minutes, so under a node that is at work only if it
\* is slow.
LeaseOut(u) ==
    /\ u \in held
    /\ held' = held \ {u}
    /\ IF \E n \in Nodes : victim[n] = u /\ holder[u] = n
       THEN faults < MaxFaults /\ faults' = faults + 1
       ELSE UNCHANGED faults
    /\ UNCHANGED <<channels, people, sockets, req, history, name, signed, taken, holder, stage,
                   victim, todo, promoting, late>>

EraseStep(n) ==
    \/ \E u \in Users : Claim(n, u)
    \/ Revoke(n) \/ ListChannels(n)
    \/ (\E c \in Channels : LeaveOne(n, c)) \/ PromoteOne(n)
    \/ EraseFriends(n) \/ EraseReads(n)
    \/ Rename(n) \/ Finish(n) \/ RenameAgain(n)

-----------------------------------------------------------------------------
Next ==
    \/ MembersStep
    \/ \E r \in Requests :
        \/ \E u \in Users : Login(r, u)
        \/ Admit(r)
        \/ \E u \in Users, c \in Channels : Send(r, u, c)
        \/ \E u, v \in Users : Forward(r, u, v)
        \/ Store(r)
    \/ \E n \in Nodes : (\E u \in Users : Delete(n, u)) \/ EraseStep(n) \/ EraserFails(n)
    \/ \E u \in Users : LeaseOut(u) \/ Register(u)

Spec == Init /\ [][Next]_vars

-----------------------------------------------------------------------------
(* Properties.                                                             *)

Leaving == Ensuring \cup {promoting[n] : n \in Nodes}

\* Members' invariant of owners, where an erasure leaves channels too.
OneOwner == OneOwnerBut(Leaving \cup ownerless)

\* Of an account whose name was freed nothing is left that was there when it was
\* marked, however often the erasure was cut short and taken over: what is there
\* was written afterwards by a request that was already under way.
OnlyLateRemains ==
    \A u \in Users : name[u] = "tomb" =>
        /\ u \in sessions => <<u, "session">> \in late
        /\ Of(u) # {} => <<u, "member">> \in late
        /\ Asked(u) # {} => <<u, "friend">> \in late
        /\ Reads(u) # {} => <<u, "read">> \in late

\* A newcomer is not shown as the author of somebody else's messages: the name is
\* freed after the messages were renamed, and those that were stored in between are
\* renamed once more - unless the message came after that, or the node died before it.
NobodyElsesWords ==
    \A u \in Users : name[u] = "tomb" /\ "own" \in signed[u] =>
        \/ <<u, "message">> \in late
        \/ \E n \in Nodes : victim[n] = u /\ In(n, "again")

\* Once every erasure is through, every channel has an owner again, as the comment
\* over eraseAccount has it: a run cut short is finished by the next one.
OwnersInTheEnd ==
    (\A u \in Users : u \notin accounts => name[u] = "tomb") =>
        OneOwnerBut(Leaving)
=============================================================================
