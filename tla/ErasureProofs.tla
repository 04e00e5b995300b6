--------------------------- MODULE ErasureProofs ---------------------------
(***************************************************************************)
(* Proofs about the modules Members and Erasure, for any people, channels, *)
(* requests, nodes and faults: who owns and who may be in a channel, what  *)
(* two first askers get, and what is left of an erased account.            *)
(***************************************************************************)
EXTENDS Erasure, FiniteSetTheorems, TLAPS

-----------------------------------------------------------------------------
(* The inductive invariant.                                                *)

\* What the arguments below need of the types.
RoomShape ==
    /\ status \in [Channels -> {"absent", "live", "marked"}]
    /\ members \in [Channels -> SUBSET Users]
    /\ owners \in [Channels -> SUBSET Users]
    /\ key \in SUBSET Directs
    /\ pair \in [Directs -> SUBSET Users]
    /\ code \in [Named -> Nat]
    /\ given \in [Named -> SUBSET Nat]
EraseShape ==
    /\ accounts \in SUBSET Users
    /\ name \in [Users -> {"own", "tomb"}]
    /\ signed \in [Users -> SUBSET {"own", "tomb"}]
    /\ holder \in [Users -> Nodes \cup {None}]
    /\ held \in SUBSET Users
    /\ stage \in [Nodes -> Stages]
    /\ victim \in [Nodes -> Users \cup {None}]
    /\ todo \in [Nodes -> SUBSET Channels]
    /\ promoting \in [Nodes -> Channels \cup {None}]

\* What a request knows of itself at the steps that write.
Knows(q) ==
    /\ q.at \in {"joining", "leaving", "coding"} => q.by \in Users /\ q.ch \in Named
    /\ q.at = "opening" => q.by \in Users /\ q.other \in Users
    /\ q.at = "ensuring" => q.ch \in Channels
RequestShape == req \in [Requests -> Request] /\ \A r \in Requests : Knows(req[r])

\* An erasure looks for an owner before it goes on to the next channel.
PromotingLeaves == \A n \in Nodes : promoting[n] # None => In(n, "leave")

OwnersAreMembers == \A c \in Channels : owners[c] \subseteq members[c]

\* A channel has one owner at most, a conversation none.
OneOwns ==
    /\ \A c \in Channels : \A u, v \in owners[c] : u = v
    /\ \A c \in Directs : owners[c] = {}

\* A live named channel has an owner, or somebody is on the way to promote one.
Excused == Leaving \cup ownerless
Owned == \A c \in Named : status[c] = "live" /\ owners[c] = {} => c \in Excused

\* A channel without a link has none that could be followed.
LinksGiven == \A c \in Named : 0 \notin given[c]

\* Nobody is in a channel that was not created yet.
AbsentIsEmpty == \A c \in Channels : status[c] = "absent" => members[c] = {}

Rooms == MarkedIsEmpty /\ FirstsAgree /\ LinksGiven /\ OwnersAreMembers /\ OneOwns /\ AbsentIsEmpty

\* An account on its way out is out of accounts.
Erasing ==
    /\ \A u \in Users : holder[u] # None \/ name[u] = "tomb" => u \notin accounts
    /\ \A n \in Nodes : ~In(n, "idle") => victim[n] \in Users /\ victim[n] \notin accounts

\* The steps of an erasure after the ones that take the sessions, the memberships with
\* the requests of friendship, and the read positions.
AfterRevoke  == Stages \ {"idle", "revoke"}
AfterLeave   == {"reads", "rename", "finish", "again"}
AfterReads   == {"rename", "finish", "again"}
\* The accounts that some erasure has brought so far.
Brought(S) == {u \in Users : name[u] = "tomb" \/ \E n \in Nodes : victim[n] = u /\ stage[n] \in S}

\* What an erasure has taken once is not there again, unless it came late.
TakenStays ==
    /\ \A u \in Brought(AfterRevoke) : u \in sessions => <<u, "session">> \in late
    /\ \A u \in Brought(AfterLeave) : Of(u) # {} => <<u, "member">> \in late
    /\ \A n \in Nodes : In(n, "leave") =>
          \/ Of(victim[n]) \subseteq todo[n]
          \/ <<victim[n], "member">> \in late
    /\ \A u \in Brought(AfterLeave) : Asked(u) # {} => <<u, "friend">> \in late
    /\ \A u \in Brought(AfterReads) : Reads(u) # {} => <<u, "read">> \in late

Shape == RoomShape /\ EraseShape /\ RequestShape

IInv == Shape /\ Rooms /\ Owned /\ PromotingLeaves /\ Erasing /\ TakenStays /\ NobodyElsesWords

-----------------------------------------------------------------------------
(* Requests.                                                               *)

Others(r) == \A q \in Requests \ {r} : req'[q] = req[q]

LEMMA Replaced ==
  ASSUME RequestShape, NEW r \in Requests, NEW q \in Request, Knows(q), req' = [req EXCEPT ![r] = q]
  PROVE  RequestShape' /\ Others(r) /\ req'[r] = q
  BY DEF RequestShape, Others

\* The record a request begins with.
LEMMA BegunAs ==
  ASSUME NEW at, NEW u, NEW c
  PROVE  [NoRequest EXCEPT !.at = at, !.by = u, !.ch = c]
           = [at |-> at, by |-> u, other |-> None, ch |-> c, list |-> {}]
<1>1. [NoRequest EXCEPT !.at = at] = [at |-> at, by |-> None, other |-> None, ch |-> None, list |-> {}]
  BY DEF NoRequest
<1>2. [[at |-> at, by |-> None, other |-> None, ch |-> None, list |-> {}] EXCEPT !.by = u]
        = [at |-> at, by |-> u, other |-> None, ch |-> None, list |-> {}]
  OBVIOUS
<1>3. [[at |-> at, by |-> u, other |-> None, ch |-> None, list |-> {}] EXCEPT !.ch = c]
        = [at |-> at, by |-> u, other |-> None, ch |-> c, list |-> {}]
  OBVIOUS
<1> QED
  BY <1>1, <1>2, <1>3, Zenon

LEMMA BegunWithAs ==
  ASSUME NEW at, NEW u, NEW v
  PROVE  [NoRequest EXCEPT !.at = at, !.by = u, !.other = v]
           = [at |-> at, by |-> u, other |-> v, ch |-> None, list |-> {}]
<1>1. [NoRequest EXCEPT !.at = at] = [at |-> at, by |-> None, other |-> None, ch |-> None, list |-> {}]
  BY DEF NoRequest
<1>2. [[at |-> at, by |-> None, other |-> None, ch |-> None, list |-> {}] EXCEPT !.by = u]
        = [at |-> at, by |-> u, other |-> None, ch |-> None, list |-> {}]
  OBVIOUS
<1>3. [[at |-> at, by |-> u, other |-> None, ch |-> None, list |-> {}] EXCEPT !.other = v]
        = [at |-> at, by |-> u, other |-> v, ch |-> None, list |-> {}]
  OBVIOUS
<1> QED
  BY <1>1, <1>2, <1>3, Zenon

LEMMA SettingAs ==
  ASSUME NEW u, NEW l
  PROVE  [NoRequest EXCEPT !.at = "setting", !.by = u, !.list = l]
           = [at |-> "setting", by |-> u, other |-> None, ch |-> None, list |-> l]
<1>1. [NoRequest EXCEPT !.at = "setting"]
        = [at |-> "setting", by |-> None, other |-> None, ch |-> None, list |-> {}]
  BY DEF NoRequest
<1>2. [[at |-> "setting", by |-> None, other |-> None, ch |-> None, list |-> {}] EXCEPT !.by = u]
        = [at |-> "setting", by |-> u, other |-> None, ch |-> None, list |-> {}]
  OBVIOUS
<1>3. [[at |-> "setting", by |-> u, other |-> None, ch |-> None, list |-> {}] EXCEPT !.list = l]
        = [at |-> "setting", by |-> u, other |-> None, ch |-> None, list |-> l]
  OBVIOUS
<1> QED
  BY <1>1, <1>2, <1>3, Zenon

LEMMA Begun ==
  ASSUME RequestShape, NEW r \in Requests, NEW u \in Users, NEW c \in Channels \cup {None},
         NEW at \in Steps, Begin(r, u, at, c),
         at \in {"joining", "leaving", "coding"} => c \in Named,
         at \notin {"opening", "ensuring"}
  PROVE  RequestShape' /\ Others(r) /\ req[r].at = "none" /\ req'[r].at = at
<1> DEFINE q == [NoRequest EXCEPT !.at = at, !.by = u, !.ch = c]
<1>1. q = [at |-> at, by |-> u, other |-> None, ch |-> c, list |-> {}]
  BY BegunAs
<1>2. q \in Request /\ Knows(q) /\ q.at = at
  BY <1>1 DEF Request, Knows
<1>3. req' = [req EXCEPT ![r] = q] /\ req[r].at = "none"
  BY DEF Begin, NoRequest
<1> HIDE DEF q
<1> QED
  BY <1>2, <1>3, Replaced

LEMMA BegunWith ==
  ASSUME RequestShape, NEW r \in Requests, NEW u \in Users, NEW v \in Users,
         NEW at \in {"asking", "opening", "sending"}, BeginWith(r, u, at, v)
  PROVE  RequestShape' /\ Others(r) /\ req[r].at = "none"
<1> DEFINE q == [NoRequest EXCEPT !.at = at, !.by = u, !.other = v]
<1>1. q = [at |-> at, by |-> u, other |-> v, ch |-> None, list |-> {}]
  BY BegunWithAs
<1>2. q \in Request /\ Knows(q)
  BY <1>1 DEF Request, Knows, Steps
<1>3. req' = [req EXCEPT ![r] = q] /\ req[r].at = "none"
  BY DEF BeginWith, NoRequest
<1> HIDE DEF q
<1> QED
  BY <1>2, <1>3, Replaced

LEMMA Gone ==
  ASSUME RequestShape, NEW r \in Requests, NEW step \in Steps, Go(r, step),
         step \notin {"joining", "leaving", "coding", "opening"},
         step = "ensuring" => req[r].ch \in Channels
  PROVE  RequestShape' /\ Others(r) /\ req'[r].at = step /\ req'[r].ch = req[r].ch
<1> DEFINE q == [req[r] EXCEPT !.at = step]
<1>1. req[r] \in Request
  BY DEF RequestShape
<1>2. q \in Request /\ Knows(q) /\ q.at = step /\ q.ch = req[r].ch
  BY <1>1 DEF Request, Knows
<1>3. req' = [req EXCEPT ![r] = q]
  BY DEF Go, RequestShape
<1> HIDE DEF q
<1> QED
  BY <1>2, <1>3, Replaced

LEMMA Ended ==
  ASSUME RequestShape, NEW r \in Requests, End(r)
  PROVE  RequestShape' /\ Others(r) /\ req'[r].at = "gone"
<1> DEFINE q == [NoRequest EXCEPT !.at = "gone"]
<1>1. q = [at |-> "gone", by |-> None, other |-> None, ch |-> None, list |-> {}]
  BY DEF NoRequest
<1>2. q \in Request /\ Knows(q) /\ q.at = "gone"
  BY <1>1 DEF Request, Knows
<1>3. req' = [req EXCEPT ![r] = q]
  BY DEF End
<1> HIDE DEF q
<1> QED
  BY <1>2, <1>3, Replaced

\* What a step makes of its request.
LEMMA PutAs ==
  ASSUME RequestShape, NEW r \in Requests, NEW q, req' = [req EXCEPT ![r] = q]
  PROVE  Others(r) /\ req'[r] = q
  BY DEF RequestShape, Others

LEMMA BeginsAs ==
  ASSUME RequestShape, NEW r \in Requests, NEW u, NEW at, NEW c, Begin(r, u, at, c)
  PROVE  /\ Others(r) /\ req[r].at = "none"
         /\ req'[r].at = at /\ req'[r].by = u /\ req'[r].other = None /\ req'[r].ch = c
<1> DEFINE q == [at |-> at, by |-> u, other |-> None, ch |-> c, list |-> {}]
<1>1. req' = [req EXCEPT ![r] = q] /\ req[r].at = "none"
  <2>1. req' = [req EXCEPT ![r] = [NoRequest EXCEPT !.at = at, !.by = u, !.ch = c]] /\ req[r] = NoRequest
    BY DEF Begin
  <2>2. [NoRequest EXCEPT !.at = at, !.by = u, !.ch = c] = q
    BY BegunAs
  <2>3. NoRequest.at = "none"
    BY DEF NoRequest
  <2> QED
    BY <2>1, <2>2, <2>3
<1>2. Others(r) /\ req'[r] = q
  BY <1>1, PutAs
<1> QED
  BY <1>1, <1>2

LEMMA BeginsWithAs ==
  ASSUME RequestShape, NEW r \in Requests, NEW u, NEW at, NEW v, BeginWith(r, u, at, v)
  PROVE  /\ Others(r) /\ req[r].at = "none"
         /\ req'[r].at = at /\ req'[r].by = u /\ req'[r].other = v
<1> DEFINE q == [at |-> at, by |-> u, other |-> v, ch |-> None, list |-> {}]
<1>1. req' = [req EXCEPT ![r] = q] /\ req[r].at = "none"
  <2>1. req' = [req EXCEPT ![r] = [NoRequest EXCEPT !.at = at, !.by = u, !.other = v]] /\ req[r] = NoRequest
    BY DEF BeginWith
  <2>2. [NoRequest EXCEPT !.at = at, !.by = u, !.other = v] = q
    BY BegunWithAs
  <2>3. NoRequest.at = "none"
    BY DEF NoRequest
  <2> QED
    BY <2>1, <2>2, <2>3
<1>2. Others(r) /\ req'[r] = q
  BY <1>1, PutAs
<1> QED
  BY <1>1, <1>2

LEMMA ReadsAs ==
  ASSUME RequestShape, NEW r \in Requests, NEW u, ReadChannels(r, u)
  PROVE  /\ Others(r) /\ req[r].at = "none"
         /\ req'[r].at = "setting" /\ req'[r].by = u /\ req'[r].list = Of(u)
<1> DEFINE q == [at |-> "setting", by |-> u, other |-> None, ch |-> None, list |-> Of(u)]
<1>1. req' = [req EXCEPT ![r] = q] /\ req[r].at = "none"
  <2>1. req' = [req EXCEPT ![r] = [NoRequest EXCEPT !.at = "setting", !.by = u, !.list = Of(u)]] /\ req[r] = NoRequest
    BY DEF ReadChannels
  <2>2. [NoRequest EXCEPT !.at = "setting", !.by = u, !.list = Of(u)] = q
    BY SettingAs
  <2>3. NoRequest.at = "none"
    BY DEF NoRequest
  <2> QED
    BY <2>1, <2>2, <2>3
<1>2. Others(r) /\ req'[r] = q
  BY <1>1, PutAs
<1> QED
  BY <1>1, <1>2

LEMMA LoginAs ==
  ASSUME RequestShape, NEW r \in Requests, NEW u, Login(r, u)
  PROVE  Others(r) /\ req[r].at = "none" /\ req'[r].at = "admitting" /\ req'[r].by = u
<1> DEFINE q == [NoRequest EXCEPT !.at = "admitting", !.by = u]
<1>1. q.at = "admitting" /\ q.by = u
  BY DEF NoRequest
<1>2. req' = [req EXCEPT ![r] = q] /\ req[r].at = "none"
  BY DEF Login, NoRequest
<1> HIDE DEF q
<1>3. Others(r) /\ req'[r] = q
  BY <1>2, PutAs
<1> QED
  BY <1>1, <1>2, <1>3

LEMMA GoesAs ==
  ASSUME RequestShape, NEW r \in Requests, NEW step, Go(r, step)
  PROVE  /\ Others(r) /\ req'[r].at = step /\ req'[r].by = req[r].by
         /\ req'[r].other = req[r].other /\ req'[r].ch = req[r].ch
<1> DEFINE q == [req[r] EXCEPT !.at = step]
<1>1. req[r] \in Request
  BY DEF RequestShape
<1>2. q.at = step /\ q.by = req[r].by /\ q.other = req[r].other /\ q.ch = req[r].ch
  BY <1>1 DEF Request
<1>3. req' = [req EXCEPT ![r] = q]
  BY DEF Go, RequestShape
<1> HIDE DEF q
<1>4. Others(r) /\ req'[r] = q
  BY <1>3, PutAs
<1> QED
  BY <1>2, <1>4

LEMMA ArrivesAs ==
  ASSUME RequestShape, NEW r \in Requests, NEW d,
         req' = [req EXCEPT ![r].at = "routingBoth", ![r].ch = d]
  PROVE  /\ Others(r)
         /\ req' = [req EXCEPT ![r] = [at |-> "routingBoth", by |-> req[r].by, other |-> req[r].other,
                                      ch |-> d, list |-> req[r].list]]
         /\ req'[r].at = "routingBoth" /\ req'[r].by = req[r].by
         /\ req'[r].other = req[r].other /\ req'[r].ch = d
<1> DEFINE q1 == [at |-> "routingBoth", by |-> req[r].by, other |-> req[r].other,
                  ch |-> req[r].ch, list |-> req[r].list]
           q2 == [at |-> "routingBoth", by |-> req[r].by, other |-> req[r].other, ch |-> d,
                  list |-> req[r].list]
           mid == [req EXCEPT ![r] = q1]
<1>1. req \in [Requests -> Request] /\ req[r] \in Request
  BY DEF RequestShape
<1>2. q1 = [req[r] EXCEPT !.at = "routingBoth"]
  BY <1>1 DEF Request
<1>3. [req EXCEPT ![r].at = "routingBoth"] = mid
  BY <1>1, <1>2
<1>4. q2 = [q1 EXCEPT !.ch = d]
  OBVIOUS
<1>5. mid[r] = q1
  BY <1>1
<1>6. [mid EXCEPT ![r].ch = d] = [mid EXCEPT ![r] = [mid[r] EXCEPT !.ch = d]]
  OBVIOUS
<1>7. [mid EXCEPT ![r] = q2] = [req EXCEPT ![r] = q2]
  BY <1>1
<1>8. req' = [mid EXCEPT ![r].ch = d]
  BY <1>3, Zenon
<1> HIDE DEF q1, q2, mid
<1>9. req' = [req EXCEPT ![r] = q2]
  BY <1>4, <1>5, <1>6, <1>7, <1>8
<1>10. Others(r) /\ req'[r] = q2
  BY <1>9, PutAs
<1>11. q2.at = "routingBoth" /\ q2.by = req[r].by /\ q2.other = req[r].other /\ q2.ch = d
  BY DEF q2
<1> QED
  BY <1>9, <1>10, <1>11 DEF q2

\* Whoever is between the two writes of Leave stays there.
Keeps(r) == At(r, "ensuring") => req'[r].at = "ensuring" /\ req'[r].ch = req[r].ch
LEMMA KeptBy ==
  ASSUME NEW r \in Requests, Others(r), ~At(r, "ensuring")
  PROVE  \A q \in Requests : Keeps(q)
  BY DEF Others, Keeps, At

Calm ==
    /\ UNCHANGED <<status, members, owners, key, pair, code, given, ownerless>>
    /\ RequestShape'
    /\ \A r \in Requests : Keeps(r)

LEMMA CalmBegins ==
  ASSUME RequestShape, NEW r \in Requests, NEW u \in Users,
         \/ ReadChannels(r, u)
         \/ \E c \in Channels : Follow(r, u, c) \/ Leave(r, u, c)
         \/ \E v \in Users : SendAsk(r, u, v) \/ Respond(r, u, v) \/ Remove(r, u, v) \/ OpenDirect(r, u, v)
  PROVE  Calm /\ UNCHANGED accounts
<1> USE DEF channels, people, sockets, history
<1>1. CASE ReadChannels(r, u)
  <2> DEFINE q == [NoRequest EXCEPT !.at = "setting", !.by = u, !.list = Of(u)]
  <2>1. q = [at |-> "setting", by |-> u, other |-> None, ch |-> None, list |-> Of(u)]
    BY SettingAs
  <2>2. Of(u) \in SUBSET Channels
    BY DEF Of
  <2>3. q \in Request /\ Knows(q)
    BY <2>1, <2>2 DEF Request, Knows, Steps
  <2>4. req' = [req EXCEPT ![r] = q] /\ ~At(r, "ensuring")
    BY <1>1 DEF ReadChannels, At, NoRequest
  <2> HIDE DEF q
  <2>5. RequestShape' /\ Others(r)
    BY <2>3, <2>4, Replaced
  <2> QED
    BY <1>1, <2>4, <2>5, KeptBy DEF ReadChannels, Calm
<1>2. ASSUME NEW c \in Channels, Follow(r, u, c) \/ Leave(r, u, c) PROVE Calm /\ UNCHANGED accounts
  <2>1. c \in Named /\ (Begin(r, u, "joining", c) \/ Begin(r, u, "leaving", c))
    BY <1>2 DEF Follow, Leave
  <2>2. RequestShape' /\ Others(r) /\ ~At(r, "ensuring")
    BY <2>1, Begun DEF At, Steps
  <2> QED
    BY <1>2, <2>2, KeptBy DEF Follow, Leave, Calm
<1>3. ASSUME NEW v \in Users, SendAsk(r, u, v) \/ OpenDirect(r, u, v) PROVE Calm /\ UNCHANGED accounts
  <2>1. BeginWith(r, u, "asking", v) \/ BeginWith(r, u, "opening", v)
    BY <1>3 DEF SendAsk, OpenDirect
  <2>2. RequestShape' /\ Others(r) /\ ~At(r, "ensuring")
    BY <2>1, BegunWith DEF At
  <2> QED
    BY <1>3, <2>2, KeptBy DEF SendAsk, OpenDirect, Calm
<1>4. ASSUME NEW v \in Users, Respond(r, u, v) \/ Remove(r, u, v) PROVE Calm /\ UNCHANGED accounts
  <2>1. End(r) /\ ~At(r, "ensuring")
    BY <1>4 DEF Respond, Remove, At, NoRequest
  <2>2. RequestShape' /\ Others(r)
    BY <2>1, Ended
  <2> QED
    BY <1>4, <2>1, <2>2, KeptBy DEF Respond, Remove, Calm
<1> QED
  BY <1>1, <1>2, <1>3, <1>4

LEMMA CalmGoesOn ==
  ASSUME RequestShape, NEW r \in Requests,
         Place(r) \/ Mark(r) \/ Subscribe(r) \/ Unsubscribe(r) \/ Forget(r) \/ InsertAsk(r)
         \/ SubscribeBoth(r) \/ SetChannels(r)
  PROVE  Calm /\ UNCHANGED accounts
<1> USE DEF channels, people, sockets, history
<1>1. CASE Place(r) \/ Mark(r) \/ Unsubscribe(r)
  <2>1. ~At(r, "ensuring") /\ \E step \in {"marking", "routing", "forgetting"} : Go(r, step)
    BY <1>1 DEF Place, Mark, Unsubscribe, At
  <2>2. RequestShape' /\ Others(r)
    BY <2>1, Gone DEF Steps
  <2> QED
    BY <1>1, <2>1, <2>2, KeptBy DEF Place, Mark, Unsubscribe, Calm
<1>2. CASE Subscribe(r) \/ Forget(r) \/ InsertAsk(r) \/ SubscribeBoth(r) \/ SetChannels(r)
  <2>1. End(r) /\ ~At(r, "ensuring")
    BY <1>2 DEF Subscribe, Forget, InsertAsk, SubscribeBoth, SetChannels, At
  <2>2. RequestShape' /\ Others(r)
    BY <2>1, Ended
  <2> QED
    BY <1>2, <2>1, <2>2, KeptBy DEF Subscribe, Forget, InsertAsk, SubscribeBoth, SetChannels, Calm
<1> QED
  BY <1>1, <1>2

-----------------------------------------------------------------------------
(* Rooms.                                                                  *)

LEMMA CalmRooms ==
  ASSUME RoomShape, Rooms, UNCHANGED <<status, members, owners, key, pair, code, given>>
  PROVE  RoomShape' /\ Rooms'
  BY DEF RoomShape, Rooms, MarkedIsEmpty, FirstsAgree, LinksGiven, OwnersAreMembers, OneOwns, AbsentIsEmpty

\* A member goes: the write that empties a channel marks it.
LEMMA TakenOut ==
  ASSUME RoomShape, Rooms, NEW u \in Users, NEW c \in Channels, u \in members[c], TakeOut(u, c),
         UNCHANGED <<pair, code, given>>
  PROVE  /\ RoomShape' /\ Rooms'
         /\ \A e \in Channels \ {c} : status'[e] = status[e] /\ owners'[e] = owners[e]
         /\ \A e \in Channels : members'[e] \subseteq members[e]
<1>1. members' = [members EXCEPT ![c] = @ \ {u}] /\ owners' = [owners EXCEPT ![c] = @ \ {u}]
  BY DEF TakeOut
<1>2. members' \in [Channels -> SUBSET Users] /\ owners' \in [Channels -> SUBSET Users]
  <2>1. members[c] \ {u} \in SUBSET Users /\ owners[c] \ {u} \in SUBSET Users
    BY DEF RoomShape
  <2> QED
    BY <1>1, <2>1 DEF RoomShape
<1>3. /\ members'[c] = members[c] \ {u} /\ owners'[c] = owners[c] \ {u}
      /\ \A e \in Channels \ {c} : members'[e] = members[e] /\ owners'[e] = owners[e]
  BY <1>1 DEF RoomShape
<1>4. \/ members'[c] = {} /\ status' = [status EXCEPT ![c] = "marked"] /\ key' = key \ {c}
      \/ members'[c] # {} /\ status' = status /\ key' = key
  BY DEF TakeOut
<1>5. RoomShape'
  BY <1>2, <1>4 DEF RoomShape
<1>6. MarkedIsEmpty'
  BY <1>3, <1>4 DEF RoomShape, Rooms, MarkedIsEmpty
<1>7. FirstsAgree'
  <2>1. \A d \in Directs : members'[d] \subseteq pair[d]
    BY <1>3 DEF Rooms, FirstsAgree, Channels
  <2> QED
    BY <1>4, <2>1 DEF Rooms, FirstsAgree
<1>8. LinksGiven' /\ OwnersAreMembers' /\ OneOwns'
  BY <1>3 DEF Rooms, LinksGiven, OwnersAreMembers, OneOwns, Channels
<1>9. \A e \in Channels \ {c} : status'[e] = status[e]
  BY <1>4 DEF RoomShape
<1>10. AbsentIsEmpty'
  BY <1>3, <1>4, <1>9 DEF Rooms, AbsentIsEmpty
<1> QED
  BY <1>3, <1>5, <1>6, <1>7, <1>8, <1>9, <1>10 DEF Rooms

\* Somebody is promoted where nobody owns.
LEMMA Promoted ==
  ASSUME RoomShape, Rooms, NEW c \in Channels, Promote(c),
         UNCHANGED <<status, members, key, pair, code, given>>
  PROVE  /\ RoomShape' /\ Rooms'
         /\ \A e \in Channels \ {c} : owners'[e] = owners[e]
         /\ c \in Named /\ status[c] = "live" => owners'[c] # {}
<1>1. CASE c \in Named /\ members[c] # {} /\ owners[c] = {}
  <2>1. PICK u \in members[c] : owners' = [owners EXCEPT ![c] = {u}]
    BY <1>1 DEF Promote
  <2>2. {u} \in SUBSET Users
    BY <2>1 DEF RoomShape
  <2>3. owners' \in [Channels -> SUBSET Users]
    BY <2>1, <2>2 DEF RoomShape
  <2>4. owners'[c] = {u} /\ \A e \in Channels \ {c} : owners'[e] = owners[e]
    BY <2>1 DEF RoomShape
  <2>5. RoomShape'
    BY <2>3 DEF RoomShape
  <2>6. MarkedIsEmpty' /\ FirstsAgree' /\ LinksGiven' /\ AbsentIsEmpty'
    BY DEF Rooms, MarkedIsEmpty, FirstsAgree, LinksGiven, AbsentIsEmpty
  <2>7. OwnersAreMembers' /\ OneOwns'
    BY <1>1, <2>1, <2>4, NamesAssumption DEF Rooms, OwnersAreMembers, OneOwns, Channels
  <2> QED
    BY <2>4, <2>5, <2>6, <2>7 DEF Rooms
<1>2. CASE ~(c \in Named /\ members[c] # {} /\ owners[c] = {})
  <2>1. owners' = owners
    BY <1>2 DEF Promote
  <2>2. c \in Named /\ status[c] = "live" => members[c] # {}
    BY DEF Rooms, MarkedIsEmpty
  <2> QED
    BY <1>2, <2>1, <2>2, CalmRooms
<1> QED
  BY <1>1, <1>2

LEMMA CreateRooms ==
  ASSUME RoomShape, Rooms, NEW r \in Requests, NEW u \in Users, NEW c \in Channels, Create(r, u, c)
  PROVE  /\ RoomShape' /\ Rooms'
         /\ owners'[c] # {} /\ \A e \in Channels \ {c} : status'[e] = status[e] /\ owners'[e] = owners[e]
<1>1. /\ c \in Named /\ c \notin Directs
      /\ status' = [status EXCEPT ![c] = "live"]
      /\ members' = [members EXCEPT ![c] = {u}] /\ owners' = [owners EXCEPT ![c] = {u}]
      /\ code' = [code EXCEPT ![c] = 1] /\ given' = [given EXCEPT ![c] = {1}]
      /\ UNCHANGED <<key, pair>>
  BY NamesAssumption DEF Create
<1>2. {u} \in SUBSET Users /\ {1} \in SUBSET Nat
  OBVIOUS
<1>3. /\ members' \in [Channels -> SUBSET Users] /\ owners' \in [Channels -> SUBSET Users]
      /\ given' \in [Named -> SUBSET Nat]
  BY <1>1, <1>2 DEF RoomShape
<1>4. RoomShape'
  BY <1>1, <1>3 DEF RoomShape
<1>5. /\ members'[c] = {u} /\ owners'[c] = {u} /\ status'[c] = "live" /\ code'[c] = 1 /\ given'[c] = {1}
      /\ \A e \in Channels \ {c} :
            members'[e] = members[e] /\ owners'[e] = owners[e] /\ status'[e] = status[e]
      /\ \A e \in Named \ {c} : code'[e] = code[e] /\ given'[e] = given[e]
  BY <1>1 DEF RoomShape
<1>6. MarkedIsEmpty' /\ OwnersAreMembers' /\ AbsentIsEmpty'
  BY <1>5 DEF Rooms, MarkedIsEmpty, OwnersAreMembers, AbsentIsEmpty
<1>7. FirstsAgree'
  <2>1. \A d \in Directs : members'[d] = members[d]
    BY <1>1, <1>5 DEF Channels
  <2>2. \A e \in Named : given'[e] \subseteq {code'[e]}
    BY <1>5 DEF Rooms, FirstsAgree
  <2> QED
    BY <1>1, <2>1, <2>2 DEF Rooms, FirstsAgree
<1>8. LinksGiven'
  BY <1>5 DEF Rooms, LinksGiven
<1>9. OneOwns'
  BY <1>1, <1>5 DEF Rooms, OneOwns, Channels
<1> QED
  BY <1>4, <1>5, <1>6, <1>7, <1>8, <1>9 DEF Rooms

LEMMA AddRooms ==
  ASSUME RequestShape, RoomShape, Rooms, NEW r \in Requests, AddMember(r)
  PROVE  RoomShape' /\ Rooms' /\ UNCHANGED <<status, owners>>
<1> DEFINE u == req[r].by
           c == req[r].ch
<1>1. u \in Users /\ c \in Named /\ c \in Channels /\ c \notin Directs
  BY NamesAssumption DEF AddMember, At, RequestShape, Knows, Channels
<1>2. UNCHANGED <<status, owners, key, pair, code, given>>
  BY DEF AddMember
<1>3. CASE UNCHANGED members
  BY <1>2, <1>3, CalmRooms
<1>4. CASE status[c] = "live" /\ members' = [members EXCEPT ![c] = @ \cup {u}]
  <2>1. members[c] \cup {u} \in SUBSET Users
    BY <1>1 DEF RoomShape
  <2>2. members' \in [Channels -> SUBSET Users]
    BY <1>4, <2>1 DEF RoomShape
  <2>3. members'[c] = members[c] \cup {u} /\ \A e \in Channels \ {c} : members'[e] = members[e]
    BY <1>1, <1>4 DEF RoomShape
  <2> HIDE DEF u, c
  <2>4. RoomShape'
    BY <1>2, <2>2 DEF RoomShape
  <2>5. MarkedIsEmpty' /\ AbsentIsEmpty'
    BY <1>2, <1>4, <2>3 DEF Rooms, MarkedIsEmpty, AbsentIsEmpty
  <2>6. FirstsAgree'
    <3>1. \A d \in Directs : members'[d] = members[d]
      BY <1>1, <2>3 DEF Channels
    <3> QED
      BY <1>2, <3>1 DEF Rooms, FirstsAgree
  <2>7. LinksGiven' /\ OwnersAreMembers' /\ OneOwns'
    BY <1>2, <2>3 DEF Rooms, LinksGiven, OwnersAreMembers, OneOwns
  <2> QED
    BY <1>2, <2>4, <2>5, <2>6, <2>7 DEF Rooms
<1> QED
  BY <1>3, <1>4 DEF AddMember

LEMMA LinkRooms ==
  ASSUME RoomShape, Rooms, NEW c \in Named, UNCHANGED <<status, members, owners, key, pair>>,
         \/ /\ UNCHANGED code /\ code[c] # 0
            /\ given' = [given EXCEPT ![c] = @ \cup {code[c]}]
         \/ /\ code' = [code EXCEPT ![c] = IF @ = 0 THEN Fresh(c) ELSE @]
            /\ given' = [given EXCEPT ![c] = @ \cup {code'[c]}]
         \/ /\ code' = [code EXCEPT ![c] = Fresh(c)]
            /\ given' = [given EXCEPT ![c] = {code'[c]}]
  PROVE  RoomShape' /\ Rooms'
<1>1. code[c] \in Nat /\ given[c] \in SUBSET Nat
  BY DEF RoomShape
<1>2. code' \in [Named -> Nat] /\ code'[c] \in Nat \ {0} /\ \A e \in Named \ {c} : code'[e] = code[e]
  BY <1>1 DEF RoomShape, Fresh
<1>3. given[c] \subseteq {code[c]} /\ 0 \notin given[c]
  BY DEF Rooms, FirstsAgree, LinksGiven
<1>4. given'[c] \subseteq {code'[c]}
  <2>1. CASE UNCHANGED code /\ given' = [given EXCEPT ![c] = @ \cup {code[c]}]
    BY <2>1, <1>3 DEF RoomShape
  <2>2. CASE /\ code' = [code EXCEPT ![c] = IF @ = 0 THEN Fresh(c) ELSE @]
             /\ given' = [given EXCEPT ![c] = @ \cup {code'[c]}]
    <3>1. code[c] # 0 => code'[c] = code[c]
      BY <2>2 DEF RoomShape
    <3>2. code[c] = 0 => given[c] = {}
      BY <1>3
    <3>3. given'[c] = given[c] \cup {code'[c]}
      BY <2>2 DEF RoomShape
    <3> QED
      BY <1>3, <3>1, <3>2, <3>3
  <2>3. CASE given' = [given EXCEPT ![c] = {code'[c]}]
    BY <2>3 DEF RoomShape
  <2> QED
    BY <2>1, <2>2, <2>3
<1>5. \A e \in Named \ {c} : given'[e] = given[e]
  BY DEF RoomShape
<1>6. given' \in [Named -> SUBSET Nat]
  <2>1. given[c] \cup {code[c]} \in SUBSET Nat /\ given[c] \cup {code'[c]} \in SUBSET Nat
        /\ {code'[c]} \in SUBSET Nat
    BY <1>1, <1>2
  <2> QED
    BY <2>1 DEF RoomShape
<1>7. RoomShape'
  BY <1>2, <1>6 DEF RoomShape
<1>8. MarkedIsEmpty' /\ OwnersAreMembers' /\ OneOwns' /\ AbsentIsEmpty'
  BY DEF Rooms, MarkedIsEmpty, OwnersAreMembers, OneOwns, AbsentIsEmpty
<1>9. FirstsAgree' /\ LinksGiven'
  BY <1>2, <1>4, <1>5 DEF Rooms, FirstsAgree, LinksGiven
<1> QED
  BY <1>7, <1>8, <1>9 DEF Rooms

LEMMA DirectRooms ==
  ASSUME RequestShape, RoomShape, Rooms, NEW r \in Requests, Direct(r)
  PROVE  /\ RoomShape' /\ Rooms' /\ UNCHANGED owners
         /\ \A e \in Named : status'[e] = status[e]
<1> DEFINE u == req[r].by
           v == req[r].other
<1>1. u \in Users /\ v \in Users /\ At(r, "opening")
  BY DEF Direct, At, RequestShape, Knows
<1>2. CASE UNCHANGED channels
  BY <1>2, CalmRooms DEF Direct, channels
<1>3. ASSUME NEW d \in Directs, status[d] = "absent", ~\E e \in Directs : Has(e, u, v),
             status' = [status EXCEPT ![d] = "live"], members' = [members EXCEPT ![d] = {u, v}],
             key' = key \cup {d}, pair' = [pair EXCEPT ![d] = {u, v}], UNCHANGED <<owners, code, given>>
      PROVE  /\ RoomShape' /\ Rooms' /\ \A e \in Named : status'[e] = status[e]
  <2>1. d \in Channels /\ d \notin Named
    BY NamesAssumption DEF Channels
  <2>2. {u, v} \in SUBSET Users /\ {u, v} # {}
    BY <1>1
  <2>3. members' \in [Channels -> SUBSET Users] /\ pair' \in [Directs -> SUBSET Users]
    BY ONLY <1>3, <2>2, RoomShape DEF RoomShape
  <2>4. /\ members'[d] = {u, v} /\ pair'[d] = {u, v} /\ status'[d] = "live"
        /\ \A e \in Channels \ {d} : members'[e] = members[e] /\ status'[e] = status[e]
        /\ \A e \in Directs \ {d} : pair'[e] = pair[e]
    BY <1>3, <2>1 DEF RoomShape
  <2>5. \A e \in key : e # d => pair[e] # {u, v}
    BY <1>3 DEF Has, RoomShape
  <2> HIDE DEF u, v
  <2>6. RoomShape'
    BY <1>3, <2>3 DEF RoomShape
  <2>7. MarkedIsEmpty' /\ AbsentIsEmpty'
    BY <2>2, <2>4 DEF Rooms, MarkedIsEmpty, AbsentIsEmpty
  <2>8. FirstsAgree'
    <3>1. \A e \in Directs : members'[e] \subseteq pair'[e]
      BY <2>4 DEF Rooms, FirstsAgree, Channels
    <3>2. \A e, f \in key' : pair'[e] = pair'[f] => e = f
      BY <1>3, <2>4, <2>5 DEF Rooms, FirstsAgree, RoomShape
    <3> QED
      BY <1>3, <3>1, <3>2 DEF Rooms, FirstsAgree
  <2>9. OwnersAreMembers'
    <3>1. owners[d] = {}
      BY DEF Rooms, OneOwns
    <3> QED
      BY <1>3, <2>4, <3>1 DEF Rooms, OwnersAreMembers
  <2>10. LinksGiven' /\ OneOwns'
    BY <1>3 DEF Rooms, LinksGiven, OneOwns
  <2> QED
    BY <2>1, <2>4, <2>6, <2>7, <2>8, <2>9, <2>10 DEF Rooms, Channels
<1>4. \/ UNCHANGED channels
      \/ \E d \in Directs :
           /\ status[d] = "absent" /\ ~\E e \in Directs : Has(e, u, v)
           /\ status' = [status EXCEPT ![d] = "live"] /\ members' = [members EXCEPT ![d] = {u, v}]
           /\ key' = key \cup {d} /\ pair' = [pair EXCEPT ![d] = {u, v}] /\ UNCHANGED <<owners, code>>
  BY DEF Direct
<1>5. UNCHANGED given
  BY DEF Direct
<1> HIDE DEF u, v
<1> QED
  BY <1>2, <1>3, <1>4, <1>5 DEF channels
-----------------------------------------------------------------------------
(* The requests of Members.                                                *)

PromotersStay == \A n \in Nodes : promoting[n] # None => promoting'[n] = promoting[n]

LEMMA StillExcused ==
  ASSUME \A r \in Requests : Keeps(r), PromotersStay, ownerless \subseteq ownerless',
         NEW c \in Named, c \in Excused
  PROVE  c \in Excused'
<1>1. CASE c \in Ensuring
  <2>1. PICK r \in Requests : At(r, "ensuring") /\ req[r].ch = c
    BY <1>1 DEF Ensuring
  <2>2. req'[r].at = "ensuring" /\ req'[r].ch = c
    BY <2>1 DEF Keeps
  <2> QED
    BY <2>2 DEF Excused, Leaving, Ensuring, At
<1>2. CASE \E n \in Nodes : promoting[n] = c
  <2>1. PICK n \in Nodes : promoting[n] = c
    BY <1>2
  <2>2. promoting'[n] = c
    BY <2>1, NamesAssumption DEF PromotersStay, Channels
  <2> QED
    BY <2>2 DEF Excused, Leaving
<1>3. CASE c \in ownerless
  BY <1>3 DEF Excused
<1> QED
  BY <1>1, <1>2, <1>3 DEF Excused, Leaving

LEMMA CalmOwned ==
  ASSUME Owned, UNCHANGED <<status, owners>>, \A r \in Requests : Keeps(r), PromotersStay,
         ownerless \subseteq ownerless'
  PROVE  Owned'
  BY StillExcused DEF Owned

LEMMA BeginsSafely ==
  ASSUME RequestShape, RoomShape, Rooms, Owned, NEW r \in Requests, RequestBegins(r), UNCHANGED promoting
  PROVE  RequestShape' /\ RoomShape' /\ Rooms' /\ Owned' /\ UNCHANGED accounts
<1> USE DEF channels, people, sockets, history
<1>0. PromotersStay
  BY DEF PromotersStay
<1>1. PICK u \in Users :
        \/ ReadChannels(r, u)
        \/ \E c \in Channels : Create(r, u, c) \/ Follow(r, u, c) \/ Leave(r, u, c)
                               \/ AskLink(r, u, c) \/ ResetLink(r, u, c)
        \/ \E v \in Users : SendAsk(r, u, v) \/ Respond(r, u, v) \/ Remove(r, u, v) \/ OpenDirect(r, u, v)
  BY DEF RequestBegins
<1>2. CASE \/ ReadChannels(r, u)
           \/ \E c \in Channels : Follow(r, u, c) \/ Leave(r, u, c)
           \/ \E v \in Users : SendAsk(r, u, v) \/ Respond(r, u, v) \/ Remove(r, u, v) \/ OpenDirect(r, u, v)
  <2>1. Calm /\ UNCHANGED accounts
    BY <1>2, CalmBegins
  <2> QED
    BY <1>0, <2>1, CalmRooms, CalmOwned DEF Calm
<1>3. ASSUME NEW c \in Channels, Create(r, u, c)
      PROVE  RequestShape' /\ RoomShape' /\ Rooms' /\ Owned' /\ UNCHANGED accounts
  <2>1. Begin(r, u, "routing", c) /\ UNCHANGED <<accounts, ownerless>>
    BY <1>3 DEF Create
  <2>2. RequestShape' /\ Others(r) /\ ~At(r, "ensuring")
    BY <2>1, Begun DEF At, Steps
  <2>3. \A q \in Requests : Keeps(q)
    BY <2>2, KeptBy
  <2>4. RoomShape' /\ Rooms' /\ owners'[c] # {}
        /\ \A e \in Channels \ {c} : status'[e] = status[e] /\ owners'[e] = owners[e]
    BY <1>3, CreateRooms
  <2>5. Owned'
    <3> SUFFICES ASSUME NEW e \in Named, status'[e] = "live", owners'[e] = {} PROVE e \in Excused'
      BY DEF Owned
    <3>1. e \in Excused
      BY <2>4 DEF Owned, Channels
    <3> QED
      BY <1>0, <2>1, <2>3, <3>1, StillExcused
  <2> QED
    BY <2>1, <2>2, <2>4, <2>5
<1>4. ASSUME NEW c \in Channels, AskLink(r, u, c) \/ ResetLink(r, u, c)
      PROVE  RequestShape' /\ RoomShape' /\ Rooms' /\ Owned' /\ UNCHANGED accounts
  <2>1. /\ (End(r) /\ req[r] = NoRequest) \/ Begin(r, u, "coding", c)
        /\ c \in Named /\ UNCHANGED <<status, members, owners, key, pair, accounts, ownerless>>
    BY <1>4 DEF AskLink, ResetLink
  <2>2. RequestShape' /\ Others(r) /\ ~At(r, "ensuring")
    BY <2>1, Begun, Ended DEF At, Steps, NoRequest
  <2>3. RoomShape' /\ Rooms'
    <3>1. CASE UNCHANGED <<code, given>>
      BY <2>1, <3>1, CalmRooms
    <3>2. CASE ~UNCHANGED <<code, given>>
      BY <1>4, <2>1, <3>2, LinkRooms DEF AskLink, ResetLink
    <3> QED
      BY <3>1, <3>2
  <2> QED
    BY <1>0, <2>1, <2>2, <2>3, KeptBy, CalmOwned
<1> QED
  BY <1>1, <1>2, <1>3, <1>4

LEMMA GoesOnSafely ==
  ASSUME RequestShape, RoomShape, Rooms, Owned, NEW r \in Requests, RequestGoesOn(r), UNCHANGED promoting
  PROVE  RequestShape' /\ RoomShape' /\ Rooms' /\ Owned' /\ UNCHANGED accounts
<1> USE DEF channels, people, sockets, history
<1>0. PromotersStay
  BY DEF PromotersStay
<1>1. CASE Place(r) \/ Mark(r) \/ Subscribe(r) \/ Unsubscribe(r) \/ Forget(r) \/ InsertAsk(r)
           \/ SubscribeBoth(r) \/ SetChannels(r)
  <2>1. Calm /\ UNCHANGED accounts
    BY <1>1, CalmGoesOn
  <2> QED
    BY <1>0, <2>1, CalmRooms, CalmOwned DEF Calm
<1>2. CASE AddMember(r)
  <2>1. ~At(r, "ensuring") /\ UNCHANGED <<accounts, ownerless>>
        /\ (End(r) \/ Go(r, "placing") \/ Go(r, "routing"))
    BY <1>2 DEF AddMember, At
  <2>2. RequestShape' /\ Others(r)
    BY <2>1, Gone, Ended DEF Steps
  <2> QED
    BY <1>0, <1>2, <2>1, <2>2, AddRooms, KeptBy, CalmOwned
<1>3. CASE GiveInviteCode(r)
  <2>1. ~At(r, "ensuring") /\ End(r) /\ req[r].ch \in Named
    BY <1>3 DEF GiveInviteCode, At, RequestShape, Knows
  <2>2. RequestShape' /\ Others(r)
    BY <2>1, Ended
  <2>3. RoomShape' /\ Rooms'
    BY <1>3, <2>1, LinkRooms DEF GiveInviteCode
  <2>4. UNCHANGED <<status, owners, accounts, ownerless>>
    BY <1>3 DEF GiveInviteCode
  <2> QED
    BY <1>0, <2>1, <2>2, <2>3, <2>4, KeptBy, CalmOwned
<1>4. CASE Direct(r)
  <2>1. PICK d \in Directs : req' = [req EXCEPT ![r].at = "routingBoth", ![r].ch = d]
    BY <1>4 DEF Direct
  <2>2. RequestShape' /\ Others(r) /\ ~At(r, "ensuring")
    <3> DEFINE q == [at |-> "routingBoth", by |-> req[r].by, other |-> req[r].other, ch |-> d,
                     list |-> req[r].list]
    <3>1. req[r] \in Request
      BY DEF RequestShape
    <3>2. q \in Request /\ Knows(q)
      BY <3>1 DEF Request, Knows, Steps, Channels
    <3>3. req' = [req EXCEPT ![r] = q]
      BY <2>1, ArrivesAs
    <3>4. ~At(r, "ensuring")
      BY <1>4 DEF Direct, At
    <3> HIDE DEF q
    <3> QED
      BY <3>2, <3>3, <3>4, Replaced
  <2>3. RoomShape' /\ Rooms' /\ UNCHANGED owners /\ \A e \in Named : status'[e] = status[e]
    BY <1>4, DirectRooms
  <2>4. UNCHANGED <<accounts, ownerless>>
    BY <1>4 DEF Direct
  <2>5. \A q \in Requests : Keeps(q)
    BY <2>2, KeptBy
  <2>6. Owned'
    BY <1>0, <2>3, <2>4, <2>5, StillExcused DEF Owned
  <2> QED
    BY <2>2, <2>3, <2>4, <2>6
<1>5. CASE LeaveWrite(r)
  <2> DEFINE u == req[r].by
             c == req[r].ch
  <2>1. u \in Users /\ c \in Named /\ c \in Channels
    BY <1>5 DEF LeaveWrite, At, RequestShape, Knows, Channels
  <2>2. ~At(r, "ensuring") /\ UNCHANGED <<accounts, ownerless, pair, code, given>>
    BY <1>5 DEF LeaveWrite, At
  <2>3. CASE u \notin members[c]
    <3>1. End(r) /\ UNCHANGED <<status, members, owners, key>>
      BY <1>5, <2>3 DEF LeaveWrite
    <3>2. RequestShape' /\ Others(r)
      BY <3>1, Ended
    <3> QED
      BY <1>0, <2>2, <3>1, <3>2, KeptBy, CalmRooms, CalmOwned
  <2>4. CASE u \in members[c]
    <3> DEFINE step == IF status'[c] = "marked" THEN "unrouting" ELSE "ensuring"
    <3>1. TakeOut(u, c) /\ Go(r, step)
      BY <1>5, <2>4 DEF LeaveWrite
    <3>2. RequestShape' /\ Others(r) /\ req'[r].at = step /\ req'[r].ch = c
      <4>1. step \in Steps /\ step \notin {"joining", "leaving", "coding", "opening"}
        BY DEF Steps
      <4> HIDE DEF step
      <4> QED
        BY <2>1, <3>1, <4>1, Gone
    <3>3. /\ RoomShape' /\ Rooms'
          /\ \A e \in Channels \ {c} : status'[e] = status[e] /\ owners'[e] = owners[e]
      BY <2>1, <2>2, <2>4, <3>1, TakenOut
    <3>4. \A q \in Requests : Keeps(q)
      BY <2>2, <3>2, KeptBy
    <3>5. Owned'
      <4> SUFFICES ASSUME NEW e \in Named, status'[e] = "live", owners'[e] = {} PROVE e \in Excused'
        BY DEF Owned
      <4>1. CASE e = c
        BY <3>2, <4>1 DEF Excused, Leaving, Ensuring, At
      <4>2. CASE e # c
        <5>1. e \in Excused
          BY <3>3, <4>2 DEF Owned, Channels
        <5> QED
          BY <1>0, <2>2, <3>4, <5>1, StillExcused
      <4> QED
        BY <4>1, <4>2
    <3> QED
      BY <2>2, <3>2, <3>3, <3>5
  <2> QED
    BY <2>3, <2>4
<1>6. CASE EnsureOwner(r)
  <2> DEFINE c == req[r].ch
  <2>1. c \in Channels /\ Promote(c) /\ Go(r, "unrouting")
        /\ UNCHANGED <<status, members, key, pair, code, given, accounts, ownerless>>
    BY <1>6 DEF EnsureOwner, At, RequestShape, Knows
  <2>2. RequestShape' /\ Others(r)
    BY <2>1, Gone DEF Steps
  <2>3. /\ RoomShape' /\ Rooms' /\ \A e \in Channels \ {c} : owners'[e] = owners[e]
        /\ c \in Named /\ status[c] = "live" => owners'[c] # {}
    BY <2>1, Promoted
  <2>4. Owned'
    <3> SUFFICES ASSUME NEW e \in Named, status'[e] = "live", owners'[e] = {} PROVE e \in Excused'
      BY DEF Owned
    <3>1. e # c /\ e \in Excused
      BY <2>1, <2>3 DEF Owned, Channels
    <3>2. CASE e \in Ensuring
      <4>1. PICK q \in Requests : At(q, "ensuring") /\ req[q].ch = e
        BY <3>2 DEF Ensuring
      <4>2. req'[q] = req[q]
        BY <2>2, <3>1, <4>1 DEF Others
      <4> QED
        BY <4>1, <4>2 DEF Excused, Leaving, Ensuring, At
    <3>3. CASE e \notin Ensuring
      BY <2>1, <3>1, <3>3 DEF Excused, Leaving
    <3> QED
      BY <3>2, <3>3
  <2> QED
    BY <2>1, <2>2, <2>3, <2>4
<1> QED
  BY <1>1, <1>2, <1>3, <1>4, <1>5, <1>6 DEF RequestGoesOn

LEMMA AbortsSafely ==
  ASSUME RequestShape, RoomShape, Rooms, Owned, NEW r \in Requests, Abort(r), UNCHANGED promoting
  PROVE  RequestShape' /\ RoomShape' /\ Rooms' /\ Owned' /\ UNCHANGED accounts
<1> USE DEF channels, people, sockets, history
<1>1. UNCHANGED <<status, members, owners, key, pair, code, given, accounts>> /\ End(r)
  BY DEF Abort
<1>2. RequestShape' /\ Others(r)
  BY <1>1, Ended
<1>3. RoomShape' /\ Rooms'
  BY <1>1, CalmRooms
<1>4. ownerless \subseteq ownerless' /\ (At(r, "ensuring") => req[r].ch \in ownerless')
  BY DEF Abort
<1>5. \A e \in Named : e \in Excused => e \in Excused'
  <2> SUFFICES ASSUME NEW e \in Named, e \in Excused PROVE e \in Excused'
    OBVIOUS
  <2>1. CASE e \in Ensuring
    <3>1. PICK q \in Requests : At(q, "ensuring") /\ req[q].ch = e
      BY <2>1 DEF Ensuring
    <3>2. CASE q = r
      BY <1>4, <3>1, <3>2 DEF Excused
    <3>3. CASE q # r
      BY <1>2, <3>1, <3>3 DEF Others, Excused, Leaving, Ensuring, At
    <3> QED
      BY <3>2, <3>3
  <2>2. CASE e \notin Ensuring
    BY <1>4, <2>2 DEF Excused, Leaving
  <2> QED
    BY <2>1, <2>2
<1> QED
  BY <1>1, <1>2, <1>3, <1>5 DEF Owned

LEMMA MembersSafely ==
  ASSUME RequestShape, RoomShape, Rooms, Owned, MNext, UNCHANGED promoting
  PROVE  RequestShape' /\ RoomShape' /\ Rooms' /\ Owned' /\ UNCHANGED accounts
<1>1. ASSUME NEW u \in Users, HangUp(u)
      PROVE  RequestShape' /\ RoomShape' /\ Rooms' /\ Owned' /\ UNCHANGED accounts
  <2>1. UNCHANGED <<status, members, owners, key, pair, code, given, accounts, req, ownerless>>
    BY <1>1 DEF HangUp, channels, people, history
  <2>2. RequestShape' /\ (\A r \in Requests : Keeps(r)) /\ PromotersStay
    BY <2>1 DEF RequestShape, Keeps, At, PromotersStay
  <2> QED
    BY <2>1, <2>2, CalmRooms, CalmOwned
<1> QED
  BY <1>1, BeginsSafely, GoesOnSafely, AbortsSafely DEF MNext
-----------------------------------------------------------------------------
(* The other steps: rooms.                                                 *)

RoomsHold == RequestShape /\ RoomShape /\ Rooms /\ Owned /\ PromotingLeaves

\* The steps that touch no room and no route, and of the requests at most one.
LEMMA WritersHold ==
  ASSUME RoomsHold, NEW r \in Requests,
         (\E u \in Users : Login(r, u)) \/ Admit(r)
         \/ (\E u \in Users, c \in Channels : Send(r, u, c))
         \/ (\E u, v \in Users : Forward(r, u, v)) \/ Store(r)
  PROVE  RoomsHold' /\ accounts' = accounts
<1> USE DEF channels, people, sockets, history, evars
<1>0. UNCHANGED <<status, members, owners, key, pair, code, given, ownerless, promoting, stage, accounts>>
  BY DEF Login, Admit, Send, Forward, Store
<1>1. UNCHANGED <<status, members, owners, key, pair, code, given, ownerless, promoting, stage, accounts>>
      /\ ~At(r, "ensuring")
  <2>1. req[r] = NoRequest => ~At(r, "ensuring")
    BY DEF At, NoRequest
  <2>2. req[r] = NoRequest \/ At(r, "admitting") \/ At(r, "sending")
    BY DEF Login, Send, Forward, Begin, BeginWith, Admit, Store
  <2>3. At(r, "admitting") \/ At(r, "sending") => ~At(r, "ensuring")
    BY DEF At
  <2> QED
    BY <1>0, <2>1, <2>2, <2>3
<1>2. RequestShape' /\ Others(r)
  <2>1. CASE Admit(r) \/ Store(r)
    BY <2>1, Ended DEF RoomsHold, Admit, Store
  <2>2. ASSUME NEW u \in Users, NEW c \in Channels, Send(r, u, c) PROVE RequestShape' /\ Others(r)
    BY <2>2, Begun DEF RoomsHold, Send, Steps
  <2>3. ASSUME NEW u \in Users, Login(r, u) PROVE RequestShape' /\ Others(r)
    <3> DEFINE q == [NoRequest EXCEPT !.at = "admitting", !.by = u]
    <3>1. q = [at |-> "admitting", by |-> u, other |-> None, ch |-> None, list |-> {}]
      <4>1. [NoRequest EXCEPT !.at = "admitting"]
              = [at |-> "admitting", by |-> None, other |-> None, ch |-> None, list |-> {}]
        BY DEF NoRequest
      <4>2. [[at |-> "admitting", by |-> None, other |-> None, ch |-> None, list |-> {}] EXCEPT !.by = u]
              = [at |-> "admitting", by |-> u, other |-> None, ch |-> None, list |-> {}]
        OBVIOUS
      <4> QED
        BY <4>1, <4>2, Zenon
    <3>2. q \in Request /\ Knows(q)
      BY <3>1 DEF Request, Knows, Steps
    <3>3. req' = [req EXCEPT ![r] = q]
      BY <2>3 DEF Login
    <3> HIDE DEF q
    <3> QED
      BY <3>2, <3>3, Replaced DEF RoomsHold
  <2>4. ASSUME NEW u \in Users, NEW v \in Users, Forward(r, u, v) PROVE RequestShape' /\ Others(r)
    BY <2>4, BegunWith DEF RoomsHold, Forward, Steps
  <2> QED
    BY <2>1, <2>2, <2>3, <2>4
<1>3. (\A q \in Requests : Keeps(q)) /\ PromotersStay
  BY <1>1, <1>2, KeptBy DEF PromotersStay
<1>4. RoomShape' /\ Rooms' /\ Owned'
  BY <1>1, <1>3, CalmRooms, CalmOwned DEF RoomsHold
<1>5. PromotingLeaves'
  BY <1>1 DEF RoomsHold, PromotingLeaves, In
<1> QED
  BY <1>1, <1>2, <1>4, <1>5 DEF RoomsHold

\* A step of an erasure that leaves rooms and requests alone.
LEMMA AloneHold ==
  ASSUME RoomsHold, UNCHANGED <<status, members, owners, key, pair, code, given, req>>,
         ownerless \subseteq ownerless', PromotersStay, PromotingLeaves'
  PROVE  RoomsHold'
<1>1. RequestShape' /\ \A q \in Requests : Keeps(q)
  BY DEF RoomsHold, RequestShape, Keeps, At
<1> QED
  BY <1>1, CalmRooms, CalmOwned DEF RoomsHold

LEMMA StepsHold ==
  ASSUME RoomsHold, EraseShape, NEW n \in Nodes,
         \/ \E u \in Users : Delete(n, u) \/ Claim(n, u)
         \/ Revoke(n) \/ ListChannels(n) \/ EraseFriends(n) \/ EraseReads(n)
         \/ Rename(n) \/ Finish(n) \/ RenameAgain(n)
  PROVE  RoomsHold'
<1> USE DEF channels, people, sockets, history, mvars
<1>1. UNCHANGED <<status, members, owners, key, pair, code, given, req, ownerless>>
  BY DEF Delete, Claim, Revoke, ListChannels, EraseFriends, EraseReads, Rename, Finish, RenameAgain
<1>2. \/ promoting' = promoting
      \/ promoting[n] = None /\ promoting' = [promoting EXCEPT ![n] = None]
  BY DEF RoomsHold, PromotingLeaves, In, Delete, Claim, Revoke, ListChannels, EraseFriends,
         EraseReads, Rename, Finish, RenameAgain, Stop
<1>3. promoting' = promoting
  BY <1>2 DEF EraseShape
<1>4. /\ \E s \in Stages : stage' = [stage EXCEPT ![n] = s]
      /\ In(n, "leave") => promoting[n] = None
  BY DEF Delete, Claim, Take, Revoke, ListChannels, EraseFriends, EraseReads, Rename, Finish,
         RenameAgain, Stop, To, In, Stages
<1>5. PromotingLeaves' /\ PromotersStay
  BY <1>3, <1>4 DEF RoomsHold, PromotingLeaves, PromotersStay, In, EraseShape
<1> QED
  BY <1>1, <1>5, AloneHold

LEMMA LeavesHold ==
  ASSUME RoomsHold, EraseShape, NEW n \in Nodes, NEW c \in Channels, LeaveOne(n, c),
         victim[n] \in Users
  PROVE  RoomsHold'
<1> USE DEF channels, people, sockets, history
<1> DEFINE u == victim[n]
<1>1. /\ UNCHANGED <<pair, code, given, req, ownerless, stage>>
      /\ In(n, "leave") /\ promoting[n] = None
  BY DEF LeaveOne
<1>2. RequestShape' /\ \A q \in Requests : Keeps(q)
  BY <1>1 DEF RoomsHold, RequestShape, Keeps, At
<1>3. CASE u \notin members[c]
  <2>1. UNCHANGED <<status, members, owners, key, promoting>>
    BY <1>3 DEF LeaveOne
  <2>2. PromotersStay /\ PromotingLeaves'
    BY <1>1, <2>1 DEF RoomsHold, PromotersStay, PromotingLeaves, In
  <2> QED
    BY <1>1, <2>1, <2>2, AloneHold
<1>4. CASE u \in members[c]
  <2>1. /\ TakeOut(u, c)
        /\ promoting' = [promoting EXCEPT ![n] = IF status'[c] = "marked" THEN None ELSE c]
    BY <1>4 DEF LeaveOne
  <2>2. /\ RoomShape' /\ Rooms'
        /\ \A e \in Channels \ {c} : status'[e] = status[e] /\ owners'[e] = owners[e]
    BY <1>1, <1>4, <2>1, TakenOut DEF RoomsHold
  <2>3. PromotersStay
    BY <1>1, <2>1 DEF PromotersStay, EraseShape
  <2>4. PromotingLeaves'
    BY <1>1, <2>1 DEF RoomsHold, PromotingLeaves, In, EraseShape
  <2>5. Owned'
    <3> SUFFICES ASSUME NEW e \in Named, status'[e] = "live", owners'[e] = {} PROVE e \in Excused'
      BY DEF Owned
    <3>1. CASE e = c
      <4>1. promoting'[n] = c
        BY <2>1, <3>1 DEF EraseShape
      <4> QED
        BY <3>1, <4>1 DEF Excused, Leaving
    <3>2. CASE e # c
      <4>1. e \in Excused
        BY <2>2, <3>2 DEF RoomsHold, Owned, Channels
      <4> QED
        BY <1>1, <1>2, <2>3, <4>1, StillExcused
    <3> QED
      BY <3>1, <3>2
  <2> QED
    BY <1>2, <2>2, <2>4, <2>5 DEF RoomsHold
<1> QED
  BY <1>3, <1>4

LEMMA PromotesHold ==
  ASSUME RoomsHold, EraseShape, NEW n \in Nodes, PromoteOne(n)
  PROVE  RoomsHold'
<1> USE DEF channels, people, sockets, history
<1> DEFINE c == promoting[n]
<1>1. /\ c \in Channels /\ Promote(c) /\ promoting' = [promoting EXCEPT ![n] = None]
      /\ UNCHANGED <<status, members, key, pair, code, given, req, ownerless, stage>>
  BY DEF PromoteOne, EraseShape
<1>2. RequestShape'
  BY <1>1 DEF RoomsHold, RequestShape
<1>3. /\ RoomShape' /\ Rooms' /\ \A e \in Channels \ {c} : owners'[e] = owners[e]
      /\ c \in Named /\ status[c] = "live" => owners'[c] # {}
  BY <1>1, Promoted DEF RoomsHold
<1>4. PromotingLeaves'
  BY <1>1 DEF RoomsHold, PromotingLeaves, In, EraseShape
<1>5. Owned'
  <2> SUFFICES ASSUME NEW e \in Named, status'[e] = "live", owners'[e] = {} PROVE e \in Excused'
    BY DEF Owned
  <2>1. e # c /\ e \in Excused
    BY <1>1, <1>3 DEF RoomsHold, Owned, Channels
  <2>2. CASE \E m \in Nodes : promoting[m] = e
    <3>1. PICK m \in Nodes : promoting[m] = e
      BY <2>2
    <3>2. promoting'[m] = e
      BY <1>1, <2>1, <3>1 DEF EraseShape
    <3> QED
      BY <3>2 DEF Excused, Leaving
  <2>3. CASE ~\E m \in Nodes : promoting[m] = e
    BY <1>1, <2>1, <2>3 DEF Excused, Leaving, Ensuring, At
  <2> QED
    BY <2>2, <2>3
<1> QED
  BY <1>2, <1>3, <1>4, <1>5 DEF RoomsHold

LEMMA FailsHold ==
  ASSUME RoomsHold, EraseShape, NEW n \in Nodes, EraserFails(n)
  PROVE  RoomsHold'
<1> USE DEF channels, people, sockets, history
<1>1. /\ UNCHANGED <<status, members, owners, key, pair, code, given, req>>
      /\ ownerless' = ownerless \cup ({promoting[n]} \ {None})
      /\ promoting' = [promoting EXCEPT ![n] = None] /\ stage' = [stage EXCEPT ![n] = "idle"]
  BY DEF EraserFails, Stop, To
<1>2. RequestShape' /\ RoomShape' /\ Rooms'
  BY <1>1, CalmRooms DEF RoomsHold, RequestShape
<1>3. PromotingLeaves'
  BY <1>1 DEF RoomsHold, PromotingLeaves, In, EraseShape
<1>4. Owned'
  <2> SUFFICES ASSUME NEW e \in Named, status'[e] = "live", owners'[e] = {} PROVE e \in Excused'
    BY DEF Owned
  <2>1. e \in Excused /\ e # None
    BY <1>1, NamesAssumption DEF RoomsHold, Owned, Channels
  <2>2. CASE \E m \in Nodes : promoting[m] = e
    <3>1. PICK m \in Nodes : promoting[m] = e
      BY <2>2
    <3>2. m = n => e \in ownerless'
      BY <1>1, <2>1, <3>1
    <3>3. m # n => promoting'[m] = e
      BY <1>1, <3>1 DEF EraseShape
    <3> QED
      BY <3>2, <3>3 DEF Excused, Leaving
  <2>3. CASE ~\E m \in Nodes : promoting[m] = e
    BY <1>1, <2>1, <2>3 DEF Excused, Leaving, Ensuring, At
  <2> QED
    BY <2>2, <2>3
<1> QED
  BY <1>2, <1>3, <1>4 DEF RoomsHold

-----------------------------------------------------------------------------
(* The other steps: the erasures.                                          *)

LEMMA CalmErasing ==
  ASSUME EraseShape, Erasing, UNCHANGED <<name, holder, held, stage, victim, todo, promoting, signed>>,
         accounts' \subseteq accounts
  PROVE  EraseShape' /\ Erasing'
  BY DEF EraseShape, Erasing, In

LEMMA TakeErasing ==
  ASSUME EraseShape, Erasing, NEW n \in Nodes, NEW u \in Users, Delete(n, u) \/ Claim(n, u)
  PROVE  EraseShape' /\ Erasing'
<1> USE DEF channels, people, sockets, history, mvars
<1>1. /\ In(n, "idle") /\ holder' = [holder EXCEPT ![u] = n] /\ held' = held \cup {u}
      /\ victim' = [victim EXCEPT ![n] = u] /\ stage' = [stage EXCEPT ![n] = "revoke"]
      /\ UNCHANGED <<name, signed, todo, promoting>>
  BY DEF Delete, Claim, Take, To
<1>2. accounts' \subseteq accounts /\ u \notin accounts'
  BY DEF Delete, Claim, Erasing
<1>3. EraseShape'
  BY <1>1, <1>2 DEF EraseShape, Stages
<1>4. Erasing'
  <2>1. \A v \in Users : holder'[v] # None \/ name'[v] = "tomb" => v \notin accounts'
    BY <1>1, <1>2 DEF EraseShape, Erasing
  <2>2. \A m \in Nodes : ~In(m, "idle")' => victim'[m] \in Users /\ victim'[m] \notin accounts'
    BY <1>1, <1>2 DEF EraseShape, Erasing, In
  <2> QED
    BY <2>1, <2>2 DEF Erasing
<1> QED
  BY <1>3, <1>4

LEMMA StepErasing ==
  ASSUME EraseShape, Erasing, NEW n \in Nodes,
         \/ Revoke(n) \/ ListChannels(n) \/ (\E c \in Channels : LeaveOne(n, c)) \/ PromoteOne(n)
         \/ EraseFriends(n) \/ EraseReads(n) \/ Rename(n)
  PROVE  EraseShape' /\ Erasing'
<1> USE DEF channels, people, sockets, history, mvars
<1>1. /\ ~In(n, "idle") \/ promoting[n] # None
      /\ UNCHANGED <<name, holder, held, victim, accounts>>
      /\ \/ UNCHANGED stage
         \/ \E s \in Stages \ {"idle"} : stage' = [stage EXCEPT ![n] = s] /\ ~In(n, "idle")
  BY DEF Revoke, ListChannels, LeaveOne, PromoteOne, EraseFriends, EraseReads, Rename, In, To, Stages
<1>2. stage' \in [Nodes -> Stages] /\ \A m \in Nodes : ~In(m, "idle")' => ~In(m, "idle")
  BY <1>1 DEF EraseShape, In
<1>3. signed' \in [Users -> SUBSET {"own", "tomb"}]
  <2>1. CASE UNCHANGED signed
    BY <2>1 DEF EraseShape
  <2>2. CASE Rename(n)
    <3>1. (IF signed[victim[n]] = {} THEN {} ELSE {"tomb"}) \in SUBSET {"own", "tomb"}
      OBVIOUS
    <3> QED
      BY <2>2, <3>1 DEF Rename, Renamed, EraseShape
  <2> QED
    BY <2>1, <2>2 DEF Revoke, ListChannels, LeaveOne, PromoteOne, EraseFriends, EraseReads
<1>4. todo' \in [Nodes -> SUBSET Channels]
  <2>1. CASE UNCHANGED todo
    BY <2>1 DEF EraseShape
  <2>2. CASE ListChannels(n)
    <3>1. Of(victim[n]) \in SUBSET Channels
      BY DEF Of
    <3> QED
      BY <2>2, <3>1 DEF ListChannels, EraseShape
  <2>3. ASSUME NEW c \in Channels, LeaveOne(n, c) PROVE todo' \in [Nodes -> SUBSET Channels]
    <3>1. todo[n] \ {c} \in SUBSET Channels
      BY DEF EraseShape
    <3> QED
      BY <2>3, <3>1 DEF LeaveOne, EraseShape
  <2> QED
    BY <2>1, <2>2, <2>3 DEF Revoke, PromoteOne, EraseFriends, EraseReads, Rename
<1>5. promoting' \in [Nodes -> Channels \cup {None}]
  BY DEF EraseShape, Revoke, ListChannels, LeaveOne, PromoteOne, EraseFriends, EraseReads, Rename
<1>6. EraseShape'
  BY <1>1, <1>2, <1>3, <1>4, <1>5 DEF EraseShape
<1> QED
  BY <1>1, <1>2, <1>6 DEF Erasing

LEMMA StopErasing ==
  ASSUME EraseShape, Erasing, NEW n \in Nodes, Finish(n) \/ RenameAgain(n) \/ EraserFails(n)
  PROVE  EraseShape' /\ Erasing'
<1> USE DEF channels, people, sockets, history, mvars
<1> DEFINE u == victim[n]
<1>1. u \in Users /\ u \notin accounts /\ accounts' = accounts
  BY DEF Erasing, Finish, RenameAgain, EraserFails, In
<1>2. \/ UNCHANGED <<name, holder, held>>
      \/ /\ name' = [name EXCEPT ![u] = "tomb"]
         /\ holder' = [holder EXCEPT ![u] = None] /\ held' = held \ {u}
  BY DEF Finish, RenameAgain, EraserFails
<1>3. \/ /\ stage' = [stage EXCEPT ![n] = "again"] /\ UNCHANGED <<victim, todo, promoting>> /\ ~In(n, "idle")
      \/ /\ stage' = [stage EXCEPT ![n] = "idle"] /\ victim' = [victim EXCEPT ![n] = None]
         /\ todo' = [todo EXCEPT ![n] = {}] /\ promoting' = [promoting EXCEPT ![n] = None]
  BY DEF Finish, RenameAgain, EraserFails, Stop, To, In
<1>4. signed' \in [Users -> SUBSET {"own", "tomb"}]
  <2>1. CASE UNCHANGED signed
    BY <2>1 DEF EraseShape
  <2>2. CASE RenameAgain(n)
    <3>1. (IF signed[u] = {} THEN {} ELSE {"tomb"}) \in SUBSET {"own", "tomb"}
      OBVIOUS
    <3> QED
      BY <2>2, <3>1 DEF RenameAgain, Renamed, EraseShape
  <2> QED
    BY <2>1, <2>2 DEF Finish, EraserFails
<1> HIDE DEF u
<1>5. name' \in [Users -> {"own", "tomb"}] /\ holder' \in [Users -> Nodes \cup {None}] /\ held' \in SUBSET Users
  BY <1>2 DEF EraseShape
<1>6. /\ stage' \in [Nodes -> Stages] /\ victim' \in [Nodes -> Users \cup {None}]
      /\ promoting' \in [Nodes -> Channels \cup {None}]
  BY <1>3 DEF EraseShape, Stages
<1>7. todo' \in [Nodes -> SUBSET Channels]
  <2>1. {} \in SUBSET Channels
    OBVIOUS
  <2> QED
    BY ONLY <1>3, <2>1, EraseShape DEF EraseShape
<1>8. EraseShape'
  BY <1>1, <1>4, <1>5, <1>6, <1>7 DEF EraseShape
<1>9. \A v \in Users : holder'[v] # None \/ name'[v] = "tomb" => v \notin accounts'
  BY <1>1, <1>2 DEF EraseShape, Erasing
<1>10. \A m \in Nodes : ~In(m, "idle")' => ~In(m, "idle") /\ victim'[m] = victim[m]
  BY <1>3 DEF EraseShape, In
<1> QED
  BY <1>1, <1>8, <1>9, <1>10 DEF Erasing
-----------------------------------------------------------------------------
(* What was taken.                                                         *)

LEMMA BroughtAreOut ==
  ASSUME EraseShape, Erasing, NEW S \in SUBSET (Stages \ {"idle"}), NEW u \in Brought(S)
  PROVE  u \in Users \ accounts
  BY DEF Brought, Erasing, In, EraseShape

LEMMA LateNoted ==
  ASSUME NoteLate, NEW u \in Users \ accounts
  PROVE  /\ late \subseteq late'
         /\ u \notin sessions /\ u \in sessions' => <<u, "session">> \in late'
         /\ (\E c \in Channels : u \notin members[c] /\ u \in members'[c]) => <<u, "member">> \in late'
         /\ ~(Asked(u)' \subseteq Asked(u)) => <<u, "friend">> \in late'
         /\ ~(Reads(u)' \subseteq Reads(u)) => <<u, "read">> \in late'
<1>1. late \subseteq late'
  BY DEF NoteLate
<1>2. u \notin sessions /\ u \in sessions' => <<u, "session">> \in late'
  BY DEF NoteLate, Kinds
<1>3. (\E c \in Channels : u \notin members[c] /\ u \in members'[c]) => <<u, "member">> \in late'
  BY DEF NoteLate, Kinds
<1>4. ~(Asked(u)' \subseteq Asked(u)) => <<u, "friend">> \in late'
  BY DEF NoteLate, Kinds
<1>5. ~(Reads(u)' \subseteq Reads(u)) => <<u, "read">> \in late'
  BY DEF NoteLate, Kinds
<1> QED
  BY <1>1, <1>2, <1>3, <1>4, <1>5

LEMMA Later ==
  ASSUME EraseShape, Erasing, TakenStays, NoteLate, UNCHANGED <<name, stage, victim, todo>>
  PROVE  TakenStays'
<1>1. \A S : Brought(S)' = Brought(S)
  BY DEF Brought
<1>2. /\ AfterRevoke \in SUBSET (Stages \ {"idle"}) /\ AfterLeave \in SUBSET (Stages \ {"idle"})
      /\ AfterReads \in SUBSET (Stages \ {"idle"})
  BY DEF AfterRevoke, AfterLeave, AfterReads, Stages
<1>3. late \subseteq late'
  BY DEF NoteLate
<1>4. ASSUME NEW u \in Brought(AfterRevoke), u \in sessions' PROVE <<u, "session">> \in late'
  <2>1. u \in Users \ accounts
    BY <1>2, BroughtAreOut
  <2> QED
    BY <1>3, <1>4, <2>1, LateNoted DEF TakenStays
<1>5. ASSUME NEW u \in Brought(AfterLeave), Of(u)' # {} PROVE <<u, "member">> \in late'
  <2>1. u \in Users \ accounts
    BY <1>2, BroughtAreOut
  <2>2. PICK c \in Channels : u \in members'[c]
    BY <1>5 DEF Of
  <2>3. CASE u \in members[c]
    BY <1>3, <2>3 DEF TakenStays, Of
  <2>4. CASE u \notin members[c]
    BY <2>1, <2>2, <2>4, LateNoted
  <2> QED
    BY <2>3, <2>4
<1>6. ASSUME NEW n \in Nodes, In(n, "leave"), ~(Of(victim[n])' \subseteq todo[n])
      PROVE  <<victim[n], "member">> \in late'
  <2>1. victim[n] \in Users \ accounts
    BY <1>6 DEF Erasing, In
  <2>2. PICK c \in Channels : victim[n] \in members'[c] /\ c \notin todo[n]
    BY <1>6 DEF Of
  <2>3. CASE victim[n] \in members[c]
    BY <1>3, <1>6, <2>2, <2>3 DEF TakenStays, Of
  <2>4. CASE victim[n] \notin members[c]
    BY <2>1, <2>2, <2>4, LateNoted
  <2> QED
    BY <2>3, <2>4
<1>7. ASSUME NEW u \in Brought(AfterLeave), Asked(u)' # {} PROVE <<u, "friend">> \in late'
  <2>1. u \in Users \ accounts
    BY <1>2, BroughtAreOut
  <2>2. CASE Asked(u)' \subseteq Asked(u)
    BY <1>3, <1>7, <2>2 DEF TakenStays
  <2> QED
    BY <2>1, <2>2, LateNoted
<1>8. ASSUME NEW u \in Brought(AfterReads), Reads(u)' # {} PROVE <<u, "read">> \in late'
  <2>1. u \in Users \ accounts
    BY <1>2, BroughtAreOut
  <2>2. CASE Reads(u)' \subseteq Reads(u)
    BY <1>3, <1>8, <2>2 DEF TakenStays
  <2> QED
    BY <2>1, <2>2, LateNoted
<1>9. \A n \in Nodes : In(n, "leave")' => In(n, "leave")
  BY DEF In
<1> QED
  BY <1>1, <1>4, <1>5, <1>6, <1>7, <1>8, <1>9 DEF TakenStays

\* A step that writes nothing of the four kinds, and takes from an account what it
\* brings it past.
LEMMA Shrinks ==
  ASSUME TakenStays, sessions' \subseteq sessions, asks' \subseteq asks, reads' \subseteq reads,
         \A c \in Channels : members'[c] \subseteq members[c],
         late \subseteq late',
         \A u \in Brought(AfterRevoke)' : u \in Brought(AfterRevoke) \/ u \notin sessions',
         \A u \in Brought(AfterLeave)' :
            \/ u \in Brought(AfterLeave)
            \/ Asked(u)' = {} /\ (Of(u)' = {} \/ <<u, "member">> \in late),
         \A u \in Brought(AfterReads)' : u \in Brought(AfterReads) \/ Reads(u)' = {},
         \A n \in Nodes : In(n, "leave")' =>
            \/ Of(victim[n])' \subseteq todo'[n]
            \/ In(n, "leave") /\ victim'[n] = victim[n] /\ Of(victim[n])' \cap todo[n] \subseteq todo'[n]
  PROVE  TakenStays'
<1>1. \A u \in Brought(AfterRevoke)' : u \in sessions' => <<u, "session">> \in late'
  BY DEF TakenStays
<1>2. \A u : Of(u)' \subseteq Of(u)
  BY DEF Of
<1>3. \A u : Asked(u)' \subseteq Asked(u) /\ Reads(u)' \subseteq Reads(u)
  BY DEF Asked, Reads
<1>4. ASSUME NEW u \in Brought(AfterLeave)', Of(u)' # {} PROVE <<u, "member">> \in late'
  <2>1. Of(u) # {}
    BY <1>2, <1>4
  <2> QED
    BY <1>4, <2>1 DEF TakenStays
<1>5. ASSUME NEW u \in Brought(AfterLeave)', Asked(u)' # {} PROVE <<u, "friend">> \in late'
  <2>1. Asked(u) # {} /\ u \in Brought(AfterLeave)
    BY <1>3, <1>5
  <2> QED
    BY <2>1 DEF TakenStays
<1>6. ASSUME NEW u \in Brought(AfterReads)', Reads(u)' # {} PROVE <<u, "read">> \in late'
  <2>1. Reads(u) # {} /\ u \in Brought(AfterReads)
    BY <1>3, <1>6
  <2> QED
    BY <2>1 DEF TakenStays
<1>7. ASSUME NEW n \in Nodes, In(n, "leave")', ~(Of(victim[n])' \subseteq todo'[n])
      PROVE  <<victim'[n], "member">> \in late'
  <2>1. In(n, "leave") /\ victim'[n] = victim[n] /\ Of(victim[n])' \cap todo[n] \subseteq todo'[n]
    BY <1>7
  <2>2. PICK c \in Channels : victim'[n] \in members'[c] /\ c \notin todo'[n]
    BY <1>7 DEF Of
  <2>3. c \in Of(victim[n]) /\ c \notin todo[n]
    BY <2>1, <2>2 DEF Of
  <2> QED
    BY <2>1, <2>3 DEF TakenStays
<1> QED
  BY <1>1, <1>4, <1>5, <1>6, <1>7 DEF TakenStays

\* A step that brings no account further: of the erasures, one begins or ends.
LEMMA GoesNoFurther ==
  ASSUME TakenStays, UNCHANGED <<sessions, asks, reads, members>>, late \subseteq late',
         EraseShape, NEW n \in Nodes,
         \/ UNCHANGED <<name, stage, victim, todo>>
         \/ /\ UNCHANGED <<name, todo>> /\ stage[n] = "idle"
            /\ stage' = [stage EXCEPT ![n] = "revoke"]
            /\ \E u \in Users : victim' = [victim EXCEPT ![n] = u]
         \/ /\ UNCHANGED <<name, victim, todo>> /\ stage[n] = "rename"
            /\ stage' = [stage EXCEPT ![n] = "finish"]
         \/ /\ UNCHANGED <<victim, todo>> /\ stage[n] = "finish"
            /\ name' = [name EXCEPT ![victim[n]] = "tomb"]
            /\ stage' = [stage EXCEPT ![n] = "again"]
         \/ /\ UNCHANGED name
            /\ stage' = [stage EXCEPT ![n] = "idle"] /\ victim' = [victim EXCEPT ![n] = None]
            /\ todo' = [todo EXCEPT ![n] = {}]
  PROVE  TakenStays'
<1>1. \A S \in {AfterRevoke, AfterLeave, AfterReads} : \A u \in Brought(S)' : u \in Brought(S)
  <2> SUFFICES ASSUME NEW S \in {AfterRevoke, AfterLeave, AfterReads}, NEW u \in Brought(S)'
               PROVE  u \in Brought(S)
    OBVIOUS
  <2>1. "idle" \notin S /\ "revoke" \notin S /\ "finish" \in S /\ "rename" \in AfterReads
        /\ "rename" \in AfterLeave /\ "rename" \in AfterRevoke
    BY DEF AfterRevoke, AfterLeave, AfterReads, Stages
  <2>2. u \in Users
    BY DEF Brought
  <2>3. CASE name[u] = "tomb"
    BY <2>2, <2>3 DEF Brought
  <2>4. CASE name'[u] = "tomb" /\ name[u] # "tomb"
    <3>1. u = victim[n] /\ stage[n] = "finish"
      BY <2>2, <2>4 DEF EraseShape
    <3> QED
      BY <2>1, <2>2, <3>1 DEF Brought
  <2>5. CASE name'[u] # "tomb"
    <3>1. PICK m \in Nodes : victim'[m] = u /\ stage'[m] \in S
      BY <2>5 DEF Brought
    <3>2. CASE m = n
      <4>1. victim[m] = u /\ stage[m] \in S
        BY <2>1, <3>1, <3>2 DEF EraseShape
      <4> QED
        BY <2>2, <4>1 DEF Brought
    <3>3. CASE m # n
      <4>1. victim[m] = u /\ stage[m] \in S
        BY <3>1, <3>3 DEF EraseShape
      <4> QED
        BY <2>2, <4>1 DEF Brought
    <3> QED
      BY <3>2, <3>3
  <2> QED
    BY <2>3, <2>4, <2>5
<1>2. \A m \in Nodes : In(m, "leave")' => In(m, "leave") /\ victim'[m] = victim[m] /\ todo'[m] = todo[m]
  BY DEF In, EraseShape
<1> QED
  BY <1>1, <1>2, Shrinks

LEMMA EndsTake ==
  ASSUME EraseShape, TakenStays, NEW n \in Nodes,
         \/ \E u \in Users : Delete(n, u) \/ Claim(n, u)
         \/ PromoteOne(n) \/ Rename(n) \/ Finish(n) \/ RenameAgain(n) \/ EraserFails(n)
  PROVE  TakenStays'
<1> USE DEF channels, people, sockets, history, mvars
<1>1. UNCHANGED <<sessions, asks, reads, members>> /\ late \subseteq late'
  BY DEF Delete, Claim, PromoteOne, Rename, Finish, RenameAgain, EraserFails
<1>2. CASE \E u \in Users : Delete(n, u) \/ Claim(n, u)
  BY <1>1, <1>2, GoesNoFurther DEF Delete, Claim, Take, In, To
<1>3. CASE PromoteOne(n)
  <2>1. UNCHANGED <<name, stage, victim, todo>>
    BY <1>3 DEF PromoteOne
  <2> QED
    BY <1>1, <2>1, GoesNoFurther
<1>4. CASE Rename(n)
  BY <1>1, <1>4, GoesNoFurther DEF Rename, In, To
<1>5. CASE Finish(n) /\ holder[victim[n]] = n
  BY <1>1, <1>5, GoesNoFurther DEF Finish, In, To
<1>6. CASE (Finish(n) /\ holder[victim[n]] # n) \/ RenameAgain(n) \/ EraserFails(n)
  BY <1>1, <1>6, GoesNoFurther DEF Finish, RenameAgain, EraserFails, Stop, To
<1> QED
  BY <1>2, <1>3, <1>4, <1>5, <1>6

LEMMA BringsTake ==
  ASSUME EraseShape, Erasing, TakenStays, RoomShape, NEW n \in Nodes,
         \/ Revoke(n) \/ ListChannels(n) \/ EraseFriends(n) \/ EraseReads(n)
         \/ \E c \in Channels : LeaveOne(n, c)
  PROVE  TakenStays'
<1> USE DEF channels, people, sockets, history, mvars
<1> DEFINE u == victim[n]
<1>1. /\ UNCHANGED <<name, victim, late>> /\ u \in Users
      /\ \A m \in Nodes \ {n} : stage'[m] = stage[m] /\ todo'[m] = todo[m]
  BY DEF Revoke, ListChannels, EraseFriends, EraseReads, LeaveOne, To, In, Erasing, EraseShape
<1> HIDE DEF u
<1>2. \A S \in {AfterRevoke, AfterLeave, AfterReads} : \A v \in Brought(S)' :
        v \in Brought(S) \/ (v = victim[n] /\ stage'[n] \in S)
  BY <1>1 DEF Brought
<1>3. CASE Revoke(n)
  <2>1. /\ stage[n] = "revoke" /\ stage'[n] = "list" /\ sessions' = sessions \ {victim[n]}
        /\ UNCHANGED <<members, asks, reads, todo>>
    BY <1>3 DEF Revoke, To, In, EraseShape
  <2>2. \A v \in Brought(AfterRevoke)' : v \in Brought(AfterRevoke) \/ v \notin sessions'
    BY <1>2, <2>1
  <2>3. /\ \A v \in Brought(AfterLeave)' : v \in Brought(AfterLeave)
        /\ \A v \in Brought(AfterReads)' : v \in Brought(AfterReads)
    BY <1>2, <2>1 DEF AfterLeave, AfterReads
  <2>4. \A m \in Nodes : In(m, "leave")' => In(m, "leave") /\ victim'[m] = victim[m] /\ todo'[m] = todo[m]
    BY <1>1, <2>1 DEF In
  <2> QED
    BY <1>1, <2>1, <2>2, <2>3, <2>4, Shrinks
<1>4. CASE ListChannels(n)
  <2>1. /\ stage[n] = "list" /\ stage'[n] = "leave" /\ todo'[n] = Of(victim[n])
        /\ UNCHANGED <<members, asks, reads, sessions>>
    BY <1>4 DEF ListChannels, To, In, EraseShape
  <2>2. /\ \A v \in Brought(AfterRevoke)' : v \in Brought(AfterRevoke)
        /\ \A v \in Brought(AfterLeave)' : v \in Brought(AfterLeave)
        /\ \A v \in Brought(AfterReads)' : v \in Brought(AfterReads)
    BY <1>1, <1>2, <2>1 DEF AfterRevoke, AfterLeave, AfterReads, Stages, Brought
  <2>3. \A m \in Nodes : In(m, "leave")' =>
          \/ Of(victim[m])' \subseteq todo'[m]
          \/ In(m, "leave") /\ victim'[m] = victim[m] /\ todo'[m] = todo[m]
    <3>1. Of(victim[n])' \subseteq todo'[n]
      BY <1>1, <2>1 DEF Of
    <3> QED
      BY <1>1, <3>1 DEF In
  <2> QED
    BY <1>1, <2>1, <2>2, <2>3, Shrinks
<1>5. CASE EraseFriends(n)
  <2>1. /\ stage[n] = "leave" /\ stage'[n] = "reads" /\ todo[n] = {} /\ asks' = asks \ Asked(victim[n])
        /\ UNCHANGED <<members, reads, sessions, todo>>
    BY <1>5 DEF EraseFriends, To, In, EraseShape
  <2>2. Of(victim[n]) = {} \/ <<victim[n], "member">> \in late
    BY <2>1 DEF TakenStays, In
  <2>3. \A v \in {victim[n]} : Asked(v)' = {} /\ (Of(v)' = {} \/ <<v, "member">> \in late)
    BY <2>1, <2>2 DEF Asked, Of
  <2>4. /\ \A v \in Brought(AfterRevoke)' : v \in Brought(AfterRevoke)
        /\ \A v \in Brought(AfterReads)' : v \in Brought(AfterReads)
    BY <1>1, <1>2, <2>1 DEF AfterRevoke, AfterReads, Stages, Brought
  <2>5. \A m \in Nodes : In(m, "leave")' => In(m, "leave") /\ victim'[m] = victim[m] /\ todo'[m] = todo[m]
    BY <1>1, <2>1 DEF In
  <2>6. asks' \subseteq asks
    BY <2>1
  <2> QED
    BY <1>1, <1>2, <2>1, <2>3, <2>4, <2>5, <2>6, Shrinks
<1>6. CASE EraseReads(n)
  <2>1. /\ stage[n] = "reads" /\ stage'[n] = "rename" /\ reads' = reads \ Reads(victim[n])
        /\ UNCHANGED <<members, asks, sessions, todo>>
    BY <1>6 DEF EraseReads, To, In, EraseShape
  <2>2. \A v \in {victim[n]} : Reads(v)' = {}
    BY <2>1 DEF Reads
  <2>3. /\ \A v \in Brought(AfterRevoke)' : v \in Brought(AfterRevoke)
        /\ \A v \in Brought(AfterLeave)' : v \in Brought(AfterLeave)
    BY <1>1, <1>2, <2>1 DEF AfterRevoke, AfterLeave, Stages, Brought
  <2>4. \A m \in Nodes : In(m, "leave")' => In(m, "leave") /\ victim'[m] = victim[m] /\ todo'[m] = todo[m]
    BY <1>1, <2>1 DEF In
  <2>5. reads' \subseteq reads
    BY <2>1
  <2> QED
    BY <1>1, <1>2, <2>1, <2>2, <2>3, <2>4, <2>5, Shrinks
<1>7. ASSUME NEW c \in Channels, LeaveOne(n, c) PROVE TakenStays'
  <2>1. /\ stage[n] = "leave" /\ stage' = stage /\ todo'[n] = todo[n] \ {c}
        /\ UNCHANGED <<asks, reads, sessions>>
        /\ \/ members' = members /\ victim[n] \notin members[c]
           \/ members' = [members EXCEPT ![c] = @ \ {victim[n]}]
    BY <1>7 DEF LeaveOne, TakeOut, In, EraseShape
  <2>2. victim[n] \notin members'[c] /\ \A e \in Channels : members'[e] \subseteq members[e]
    BY <2>1 DEF RoomShape
  <2>3. /\ \A v \in Brought(AfterRevoke)' : v \in Brought(AfterRevoke)
        /\ \A v \in Brought(AfterLeave)' : v \in Brought(AfterLeave)
        /\ \A v \in Brought(AfterReads)' : v \in Brought(AfterReads)
    BY <1>1, <2>1 DEF Brought
  <2>4. Of(victim[n])' \cap todo[n] \subseteq todo'[n]
    BY <1>1, <2>1, <2>2 DEF Of
  <2>5. \A m \in Nodes : In(m, "leave")' =>
          In(m, "leave") /\ victim'[m] = victim[m] /\ Of(victim[m])' \cap todo[m] \subseteq todo'[m]
    BY <1>1, <2>1, <2>4 DEF In
  <2> QED
    BY <1>1, <2>1, <2>2, <2>3, <2>5, Shrinks
<1> QED
  BY <1>3, <1>4, <1>5, <1>6, <1>7

-----------------------------------------------------------------------------
(* Whose words.                                                            *)

LEMMA WordsStay ==
  ASSUME NobodyElsesWords, late \subseteq late',
         \A u \in Users : name'[u] = "tomb" /\ "own" \in signed'[u] =>
            \/ <<u, "message">> \in late'
            \/ \E n \in Nodes : victim'[n] = u /\ stage'[n] = "again"
            \/ /\ name[u] = "tomb" /\ "own" \in signed[u]
               /\ \A n \in Nodes : victim[n] = u /\ stage[n] = "again"
                                      => victim'[n] = u /\ stage'[n] = "again"
  PROVE  NobodyElsesWords'
  BY DEF NobodyElsesWords, In

LEMMA RequestsWords ==
  ASSUME EraseShape, NobodyElsesWords, NEW r \in Requests,
         (\E u \in Users : Login(r, u)) \/ Admit(r)
         \/ (\E u \in Users, c \in Channels : Send(r, u, c))
         \/ (\E u, v \in Users : Forward(r, u, v)) \/ Store(r)
  PROVE  NobodyElsesWords'
<1> USE DEF channels, people, sockets, history, mvars, evars
<1>1. UNCHANGED <<name, stage, victim>> /\ late \subseteq late'
  BY DEF NoteLate, Login, Admit, Send, Forward, Store
<1>2. CASE Store(r)
  <2> DEFINE v == Author(r)
  <2>1. /\ signed' = [signed EXCEPT ![v] = @ \cup {"own"}]
        /\ name[v] = "tomb" => <<v, "message">> \in late'
    BY <1>2 DEF Store
  <2> HIDE DEF v
  <2> QED
    BY <1>1, <2>1, WordsStay DEF EraseShape
<1>3. CASE ~Store(r)
  <2>1. signed' = signed
    BY <1>3 DEF Login, Admit, Send, Forward
  <2> QED
    BY <1>1, <2>1, WordsStay
<1> QED
  BY <1>2, <1>3

LEMMA StepsWords ==
  ASSUME EraseShape, Erasing, NobodyElsesWords, NEW n \in Nodes,
         \/ \E u \in Users : Delete(n, u) \/ Claim(n, u)
         \/ Revoke(n) \/ ListChannels(n) \/ (\E c \in Channels : LeaveOne(n, c)) \/ PromoteOne(n)
         \/ EraseFriends(n) \/ EraseReads(n) \/ Rename(n) \/ Finish(n) \/ RenameAgain(n)
         \/ EraserFails(n)
  PROVE  NobodyElsesWords'
<1> USE DEF channels, people, sockets, history, mvars
<1> DEFINE u == victim[n]
<1>1. CASE PromoteOne(n) \/ \E c \in Channels : LeaveOne(n, c)
  <2>1. UNCHANGED <<name, signed, stage, victim, late>>
    BY <1>1 DEF PromoteOne, LeaveOne
  <2> QED
    BY <2>1, WordsStay
<1>2. CASE \/ \E v \in Users : Delete(n, v) \/ Claim(n, v)
           \/ Revoke(n) \/ ListChannels(n) \/ EraseFriends(n) \/ EraseReads(n) \/ Rename(n)
           \/ Finish(n)
  <2>1. /\ stage[n] # "again" /\ late' = late
        /\ \A m \in Nodes \ {n} : stage'[m] = stage[m] /\ victim'[m] = victim[m]
    BY <1>2 DEF Delete, Claim, Take, Revoke, ListChannels, EraseFriends, EraseReads, Rename, Finish,
                In, To, Stop, EraseShape
  <2>2. \A m \in Nodes : stage[m] = "again" => stage'[m] = "again" /\ victim'[m] = victim[m]
    BY <2>1
  <2>3. \A v \in Users : "own" \in signed'[v] => "own" \in signed[v]
    <3>1. CASE Rename(n)
      BY <3>1 DEF Rename, Renamed, EraseShape
    <3>2. CASE ~Rename(n)
      BY <1>2, <3>2 DEF Delete, Claim, Revoke, ListChannels, EraseFriends, EraseReads, Finish
    <3> QED
      BY <3>1, <3>2
  <2>4. \A v \in Users : name'[v] = "tomb" =>
          name[v] = "tomb" \/ (victim'[n] = v /\ stage'[n] = "again")
    <3>1. CASE Finish(n) /\ holder[u] = n
      <4>1. /\ name' = [name EXCEPT ![u] = "tomb"] /\ victim' = victim
            /\ stage' = [stage EXCEPT ![n] = "again"]
        BY <3>1 DEF Finish, To
      <4> HIDE DEF u
      <4>2. \A v \in Users : name'[v] = "tomb" => name[v] = "tomb" \/ v = u
        BY <4>1 DEF EraseShape
      <4> QED
        BY <4>1, <4>2 DEF u, EraseShape
    <3>2. CASE ~(Finish(n) /\ holder[u] = n)
      <4>1. name' = name
        BY <1>2, <3>2 DEF Delete, Claim, Revoke, ListChannels, EraseFriends, EraseReads, Rename, Finish
      <4> QED
        BY <4>1
    <3> QED
      BY <3>1, <3>2
  <2> QED
    BY <2>1, <2>2, <2>3, <2>4, WordsStay
<1>3. CASE RenameAgain(n)
  <2>1. /\ name' = name /\ late' = late
        /\ signed' = [signed EXCEPT ![u] = IF @ = {} THEN {} ELSE {"tomb"}]
        /\ \A m \in Nodes \ {n} : stage'[m] = stage[m] /\ victim'[m] = victim[m]
    BY <1>3 DEF RenameAgain, Renamed, Stop, To, EraseShape
  <2>2. \A v \in Users : "own" \in signed'[v] => "own" \in signed[v] /\ v # u
    BY <2>1 DEF EraseShape
  <2>3. \A v \in Users \ {u} : \A m \in Nodes :
          victim[m] = v /\ stage[m] = "again" => victim'[m] = v /\ stage'[m] = "again"
    BY <2>1
  <2> QED
    BY <2>1, <2>2, <2>3, WordsStay
<1>4. CASE EraserFails(n)
  <2>1. /\ UNCHANGED <<name, signed>> /\ late \subseteq late'
        /\ stage[n] = "again" => <<u, "message">> \in late'
        /\ \A m \in Nodes \ {n} : stage'[m] = stage[m] /\ victim'[m] = victim[m]
    BY <1>4 DEF EraserFails, Stop, To, In, EraseShape
  <2> QED
    BY <2>1, WordsStay
<1> QED
  BY <1>1, <1>2, <1>3, <1>4

-----------------------------------------------------------------------------
(* The invariant.                                                          *)

LEMMA InitIInv == Init => IInv
<1> SUFFICES ASSUME Init PROVE IInv
  OBVIOUS
<1>0. MInit
  BY DEF Init
<1>1. \A c \in Channels : status[c] = "live" => \E u \in members[c] : owners[c] = {u}
  BY <1>0 DEF MInit
<1>2. \A c \in Channels : status[c] # "live" => owners[c] = {}
  BY <1>0 DEF MInit
<1>3. RoomShape
  <2>1. \A c \in Named : (IF code[c] = 0 THEN {} ELSE {code[c]}) \in SUBSET Nat
    BY <1>0 DEF MInit
  <2>2. given \in [Named -> SUBSET Nat]
    BY <1>0, <2>1 DEF MInit
  <2>3. pair \in [Directs -> SUBSET Users]
    <3>1. {} \in SUBSET Users
      OBVIOUS
    <3> QED
      BY ONLY <1>0, <3>1 DEF MInit
  <2> QED
    BY <1>0, <2>2, <2>3 DEF RoomShape, MInit
<1>4. EraseShape
  <2>1. todo \in [Nodes -> SUBSET Channels]
    <3>1. {} \in SUBSET Channels /\ todo = [n \in Nodes |-> {}]
      BY DEF Init
    <3> QED
      BY ONLY <3>1
  <2>2. signed \in [Users -> SUBSET {"own", "tomb"}]
    <3>1. {"own"} \in SUBSET {"own", "tomb"} /\ signed = [u \in Users |-> {"own"}]
      BY DEF Init
    <3> QED
      BY ONLY <3>1
  <2> QED
    BY <1>0, <2>1, <2>2 DEF Init, EraseShape, MInit, Stages
<1>5. RequestShape
  BY <1>0 DEF MInit, RequestShape, NoRequest, Request, Knows
<1>6. Rooms
  <2>1. MarkedIsEmpty
    BY <1>0 DEF MInit, MarkedIsEmpty
  <2>2. FirstsAgree
    BY <1>0, NamesAssumption DEF MInit, FirstsAgree, Channels
  <2>3. LinksGiven
    BY <1>0 DEF MInit, LinksGiven
  <2>4. OwnersAreMembers
    BY <1>1, <1>2, <1>3 DEF OwnersAreMembers, RoomShape
  <2>5. OneOwns
    <3>1. \A c \in Channels : \A u, v \in owners[c] : u = v
      BY <1>1, <1>2
    <3>2. \A c \in Directs : owners[c] = {}
      BY <1>0, <1>2 DEF MInit, Channels
    <3> QED
      BY <3>1, <3>2 DEF OneOwns
  <2>6. AbsentIsEmpty
    BY <1>0 DEF MInit, AbsentIsEmpty
  <2> QED
    BY <2>1, <2>2, <2>3, <2>4, <2>5, <2>6 DEF Rooms
<1>7. Owned
  BY <1>1 DEF Owned, Channels
<1>8. PromotingLeaves /\ Erasing /\ NobodyElsesWords
  BY DEF Init, PromotingLeaves, Erasing, NobodyElsesWords, In
<1>9. TakenStays
  <2>1. \A S : "idle" \notin S => Brought(S) = {}
    BY DEF Init, Brought
  <2> QED
    BY <2>1 DEF Init, TakenStays, AfterRevoke, AfterLeave, AfterReads, In
<1> QED
  BY <1>3, <1>4, <1>5, <1>6, <1>7, <1>8, <1>9 DEF IInv, Shape

LEMMA NextIInv == IInv /\ [Next]_vars => IInv'
<1> SUFFICES ASSUME IInv, [Next]_vars PROVE IInv'
  OBVIOUS
<1>0. RoomsHold /\ EraseShape /\ Erasing /\ TakenStays /\ NobodyElsesWords
  BY DEF IInv, Shape, RoomsHold
<1>1. SUFFICES RoomsHold' /\ EraseShape' /\ Erasing' /\ TakenStays' /\ NobodyElsesWords'
  BY DEF IInv, Shape, RoomsHold
<1>2. ASSUME MembersStep
      PROVE  RoomsHold' /\ EraseShape' /\ Erasing' /\ TakenStays' /\ NobodyElsesWords'
  <2>1. MNext /\ NoteLate /\ UNCHANGED <<name, signed, holder, held, stage, victim, todo, promoting>>
    BY <1>2 DEF MembersStep, evars
  <2>2. RequestShape' /\ RoomShape' /\ Rooms' /\ Owned' /\ UNCHANGED accounts
    BY <1>0, <2>1, MembersSafely DEF RoomsHold
  <2>3. PromotingLeaves'
    BY <1>0, <2>1 DEF RoomsHold, PromotingLeaves, In
  <2>4. EraseShape' /\ Erasing'
    BY <1>0, <2>1, <2>2, CalmErasing
  <2>5. TakenStays'
    BY <1>0, <2>1, Later
  <2>6. NobodyElsesWords'
    BY <1>0, <2>1, WordsStay DEF NoteLate
  <2> QED
    BY <2>2, <2>3, <2>4, <2>5, <2>6 DEF RoomsHold
<1>3. ASSUME NEW r \in Requests,
             (\E u \in Users : Login(r, u)) \/ Admit(r)
             \/ (\E u \in Users, c \in Channels : Send(r, u, c))
             \/ (\E u, v \in Users : Forward(r, u, v)) \/ Store(r)
      PROVE  RoomsHold' /\ EraseShape' /\ Erasing' /\ TakenStays' /\ NobodyElsesWords'
  <2>1. RoomsHold' /\ accounts' = accounts
    BY <1>0, <1>3, WritersHold
  <2>2. UNCHANGED <<name, holder, held, stage, victim, todo, promoting>>
    BY <1>3 DEF Login, Admit, Send, Forward, Store, evars
  <2>3. signed' \in [Users -> SUBSET {"own", "tomb"}]
    <3>1. CASE Store(r)
      <4>1. \A u \in Users : signed[u] \cup {"own"} \in SUBSET {"own", "tomb"}
        BY <1>0 DEF EraseShape
      <4> QED
        BY <1>0, <3>1, <4>1 DEF Store, EraseShape
    <3>2. CASE ~Store(r)
      BY <1>0, <1>3, <3>2 DEF Login, Admit, Send, Forward, evars, EraseShape
    <3> QED
      BY <3>1, <3>2
  <2>4. EraseShape'
    BY <1>0, <2>1, <2>2, <2>3 DEF EraseShape
  <2>5. Erasing'
    BY <1>0, <2>1, <2>2 DEF Erasing, In
  <2>6. late \subseteq late' /\ (Admit(r) => NoteLate)
    BY <1>3 DEF Login, Admit, Send, Forward, Store, NoteLate
  <2>7. TakenStays'
    <3>1. CASE Admit(r)
      BY <1>0, <2>2, <2>6, <3>1, Later
    <3>2. CASE ~Admit(r)
      <4>1. UNCHANGED <<sessions, asks, reads, members>>
        BY <1>3, <3>2 DEF Login, Send, Forward, Store, channels, people
      <4>2. \A S : Brought(S)' = Brought(S)
        BY <2>2 DEF Brought
      <4>3. \A n \in Nodes : In(n, "leave")' => In(n, "leave") /\ victim'[n] = victim[n] /\ todo'[n] = todo[n]
        BY <2>2 DEF In
      <4> QED
        BY <1>0, <2>6, <4>1, <4>2, <4>3, Shrinks
    <3> QED
      BY <3>1, <3>2
  <2>8. NobodyElsesWords'
    BY <1>0, <1>3, RequestsWords
  <2> QED
    BY <2>1, <2>4, <2>5, <2>7, <2>8
<1>4. ASSUME (\E u \in Users : LeaseOut(u) \/ Register(u)) \/ UNCHANGED vars
      PROVE  RoomsHold' /\ EraseShape' /\ Erasing' /\ TakenStays' /\ NobodyElsesWords'
  <2>1. /\ UNCHANGED <<status, members, owners, key, pair, code, given, req, ownerless, accounts,
                       sessions, asks, reads, name, signed, holder, stage, victim, todo, promoting, late>>
        /\ held' \subseteq held
    BY <1>4 DEF LeaseOut, Register, vars, mvars, evars, channels, people, history
  <2>2. PromotersStay /\ PromotingLeaves'
    BY <1>0, <2>1 DEF RoomsHold, PromotersStay, PromotingLeaves, In
  <2>3. RoomsHold'
    BY <1>0, <2>1, <2>2, AloneHold
  <2>4. EraseShape' /\ Erasing'
    BY <1>0, <2>1 DEF EraseShape, Erasing, In
  <2>5. \A S : Brought(S)' = Brought(S)
    BY <2>1 DEF Brought
  <2>6. \A n \in Nodes : In(n, "leave")' => In(n, "leave") /\ victim'[n] = victim[n] /\ todo'[n] = todo[n]
    BY <2>1 DEF In
  <2>7. TakenStays'
    BY <1>0, <2>1, <2>5, <2>6, Shrinks
  <2>8. NobodyElsesWords'
    BY <1>0, <2>1, WordsStay
  <2> QED
    BY <2>3, <2>4, <2>7, <2>8
<1>5. ASSUME NEW n \in Nodes, (\E u \in Users : Delete(n, u)) \/ EraseStep(n) \/ EraserFails(n)
      PROVE  RoomsHold' /\ EraseShape' /\ Erasing' /\ TakenStays' /\ NobodyElsesWords'
  <2>1. RoomsHold'
    <3>1. ASSUME NEW c \in Channels, LeaveOne(n, c) PROVE RoomsHold'
      <4>1. victim[n] \in Users
        BY <1>0, <3>1 DEF LeaveOne, Erasing, In
      <4> QED
        BY <1>0, <3>1, <4>1, LeavesHold
    <3> QED
      BY <1>0, <1>5, <3>1, StepsHold, PromotesHold, FailsHold DEF EraseStep
  <2>2. EraseShape' /\ Erasing'
    BY <1>0, <1>5, TakeErasing, StepErasing, StopErasing DEF EraseStep
  <2>3. TakenStays'
    BY <1>0, <1>5, EndsTake, BringsTake DEF EraseStep, RoomsHold
  <2>4. NobodyElsesWords'
    BY <1>0, <1>5, StepsWords DEF EraseStep
  <2> QED
    BY <2>1, <2>2, <2>3, <2>4
<1> QED
  BY <1>2, <1>3, <1>4, <1>5 DEF Next

-----------------------------------------------------------------------------
(* The second invariant: routes, and the types of everything.              *)

\* What a request has been given by the time it takes its next step.
Filled(q) ==
    /\ q.at \in Steps => q.by \in Users
    /\ q.at \in {"asking", "opening", "routingBoth"} => q.other \in Users
    /\ q.at \in Steps \ {"asking", "opening", "sending", "setting", "admitting"} => q.ch \in Channels
FilledAll == \A r \in Requests : Filled(req[r])

\* The types that IInv leaves out: the collections beside the channels, and the sockets.
PeopleShape ==
    /\ asks \in SUBSET [from : Users, to : Users, status : {"pending", "accepted"}]
    /\ reads \in SUBSET (Users \X Channels)
    /\ sessions \in SUBSET Users
    /\ connected \in SUBSET Users
    /\ routed \in SUBSET (connected \X Channels)
    /\ faults \in 0 .. MaxFaults
    /\ taken \in SUBSET Users
    /\ late \in SUBSET (Users \X Kinds)

\* What a request is about to do to the route of u to c.
Joins(q, u, c)  == q.by = u /\ q.ch = c /\ q.at \in {"placing", "marking", "routing"}
Leaves(q, u, c) == q.by = u /\ q.ch = c /\ q.at \in {"ensuring", "unrouting"}
Opens(q, u, c)  == u \in {q.by, q.other} /\ q.ch = c /\ q.at = "routingBoth"
Sets(q, u)      == q.by = u /\ q.at = "setting"

\* A request that is about to route somebody wrote the membership before, and one that
\* is about to take a route away removed it; a list that was read is still right; and
\* a route that does not agree with the membership is in the hands of such a request.
Follows(u, c) ==
    /\ \A r \in Requests :
        /\ Joins(req[r], u, c) => u \in members[c]
        /\ Leaves(req[r], u, c) => u \notin members[c]
        /\ Sets(req[r], u) => (c \in req[r].list <=> u \in members[c])
    /\ u \in connected =>
        /\ <<u, c>> \in routed /\ u \notin members[c] => \E r \in Requests : Leaves(req[r], u, c)
        /\ <<u, c>> \notin routed /\ u \in members[c] =>
              \E r \in Requests : Joins(req[r], u, c) \/ Opens(req[r], u, c)

\* All of it only where no two requests crossed and none died (torn).
RoutesFollow == \A u \in accounts, c \in Channels : <<u, c>> \notin torn => Follows(u, c)

-----------------------------------------------------------------------------
(* What the requests know.                                                 *)

LEMMA FilledKept ==
  ASSUME NEW r \in Requests, FilledAll, Others(r), Filled(req'[r])
  PROVE  FilledAll'
  BY DEF Others, FilledAll, Filled

LEMMA FilledBegins ==
  ASSUME RequestShape, FilledAll, NEW r \in Requests,
         RequestBegins(r) \/ \E u \in Users : \/ Login(r, u) \/ (\E c \in Channels : Send(r, u, c))
                                              \/ \E v \in Users : Forward(r, u, v)
  PROVE  FilledAll'
<1>1. PICK u \in Users :
        \/ ReadChannels(r, u) \/ Login(r, u)
        \/ \E c \in Channels : Create(r, u, c) \/ Follow(r, u, c) \/ Leave(r, u, c)
                               \/ AskLink(r, u, c) \/ ResetLink(r, u, c) \/ Send(r, u, c)
        \/ \E v \in Users : SendAsk(r, u, v) \/ Respond(r, u, v) \/ Remove(r, u, v) \/ OpenDirect(r, u, v)
                           \/ Forward(r, u, v)
  BY DEF RequestBegins
<1>2. Others(r) /\ Filled(req'[r])
  <2>1. CASE ReadChannels(r, u)
    BY <2>1, ReadsAs DEF Filled
  <2>2. CASE Login(r, u)
    BY <2>2, LoginAs DEF Filled
  <2>3. ASSUME NEW c \in Channels,
               \E at \in {"routing", "joining", "leaving", "coding", "sending"} : Begin(r, u, at, c)
        PROVE  Others(r) /\ Filled(req'[r])
    BY <2>3, BeginsAs DEF Filled
  <2>4. ASSUME NEW v \in Users, \E at \in {"asking", "opening", "sending"} : BeginWith(r, u, at, v)
        PROVE  Others(r) /\ Filled(req'[r])
    BY <2>4, BeginsWithAs DEF Filled
  <2>5. CASE End(r)
    BY <2>5, Ended DEF FilledAll, Filled, Steps
  <2> QED
    BY <1>1, <2>1, <2>2, <2>3, <2>4, <2>5
       DEF Create, Follow, Leave, AskLink, ResetLink, Send, SendAsk, Respond, Remove, OpenDirect, Forward
<1> QED
  BY <1>2, FilledKept

LEMMA FilledGoesOn ==
  ASSUME RequestShape, FilledAll, NEW r \in Requests,
         RequestGoesOn(r) \/ Abort(r) \/ Admit(r) \/ Store(r)
  PROVE  FilledAll'
<1>1. Others(r) /\ Filled(req'[r])
  <2>1. CASE End(r)
    BY <2>1, Ended DEF FilledAll, Filled, Steps
  <2>2. ASSUME NEW step \in {"placing", "marking", "routing", "ensuring", "unrouting", "forgetting"},
               Go(r, step), req[r].at \in {"joining", "placing", "marking", "leaving", "ensuring", "unrouting"}
        PROVE  Others(r) /\ Filled(req'[r])
    <3>1. req[r].by \in Users /\ req[r].ch \in Channels
      BY <2>2 DEF FilledAll, Filled, Steps
    <3> QED
      BY <2>2, <3>1, GoesAs DEF Filled
  <2>3. CASE Direct(r)
    <3>1. req[r].by \in Users /\ req[r].other \in Users
      BY <2>3 DEF Direct, At, FilledAll, Filled, Steps
    <3>2. PICK d \in Directs : req' = [req EXCEPT ![r].at = "routingBoth", ![r].ch = d]
      BY <2>3 DEF Direct
    <3>3. Others(r) /\ Filled(req'[r])
      BY <3>1, <3>2, ArrivesAs DEF Filled, Channels
    <3> QED
      BY <3>3
  <2> QED
    BY <2>1, <2>2, <2>3
       DEF RequestGoesOn, AddMember, Place, Mark, Subscribe, LeaveWrite, EnsureOwner, Unsubscribe, Forget,
           GiveInviteCode, InsertAsk, SubscribeBoth, SetChannels, Abort, Admit, Store, At
<1> QED
  BY <1>1, FilledKept

LEMMA FilledOn ==
  ASSUME IInv, FilledAll, [Next]_vars
  PROVE  FilledAll'
<1>0. RequestShape
  BY DEF IInv, Shape
<1>1. CASE UNCHANGED req
  BY <1>1 DEF FilledAll, Filled
<1>2. ASSUME NEW r \in Requests,
             RequestBegins(r) \/ RequestGoesOn(r) \/ Abort(r) \/ Admit(r) \/ Store(r)
             \/ \E u \in Users : \/ Login(r, u) \/ (\E c \in Channels : Send(r, u, c))
                                 \/ \E v \in Users : Forward(r, u, v)
      PROVE  FilledAll'
  BY <1>0, <1>2, FilledBegins, FilledGoesOn DEF FilledAll
<1>3. CASE \/ \E u \in Users : HangUp(u) \/ LeaseOut(u) \/ Register(u)
           \/ \E n \in Nodes : (\E u \in Users : Delete(n, u)) \/ EraseStep(n) \/ EraserFails(n)
           \/ UNCHANGED vars
  <2>1. UNCHANGED req
    BY <1>3 DEF HangUp, LeaseOut, Register, Delete, EraseStep, Claim, Revoke, ListChannels, LeaveOne,
                PromoteOne, EraseFriends, EraseReads, Rename, Finish, RenameAgain, EraserFails, vars, mvars
  <2> QED
    BY <1>1, <2>1
<1> QED
  BY <1>2, <1>3 DEF Next, MembersStep, MNext

-----------------------------------------------------------------------------
(* Routes.                                                                 *)

\* A step that leaves the requests alone, and of the others at most closes sockets.
LEMMA FollowsCalm ==
  ASSUME NEW u, NEW c, Follows(u, c), req' = req, u \in members'[c] <=> u \in members[c],
         u \in connected' => u \in connected /\ (<<u, c>> \in routed' <=> <<u, c>> \in routed)
  PROVE  Follows(u, c)'
  BY DEF Follows, Joins, Leaves, Opens, Sets

\* A step of one request that writes no membership.
LEMMA FollowsOneMoves ==
  ASSUME NEW u, NEW c, Follows(u, c), NEW r \in Requests, Others(r),
         u \in members'[c] <=> u \in members[c],
         Joins(req'[r], u, c) => u \in members[c],
         Leaves(req'[r], u, c) => u \notin members[c],
         Sets(req'[r], u) => (c \in req'[r].list <=> u \in members[c]),
         u \in connected' =>
            \/ <<u, c>> \in routed' <=> u \in members[c]
            \/ /\ u \in connected
               /\ <<u, c>> \in routed' <=> <<u, c>> \in routed
               /\ Leaves(req[r], u, c) => Leaves(req'[r], u, c)
               /\ u \in members[c] /\ (Joins(req[r], u, c) \/ Opens(req[r], u, c)) =>
                     Joins(req'[r], u, c) \/ Opens(req'[r], u, c)
  PROVE  Follows(u, c)'
<1>1. \A q \in Requests \ {r} : req'[q] = req[q]
  BY DEF Others
<1>2. ASSUME NEW q \in Requests
      PROVE  /\ Joins(req'[q], u, c) => u \in members'[c]
             /\ Leaves(req'[q], u, c) => u \notin members'[c]
             /\ Sets(req'[q], u) => (c \in req'[q].list <=> u \in members'[c])
  BY <1>1 DEF Follows
<1>3. ASSUME u \in connected', <<u, c>> \in routed', u \notin members'[c]
      PROVE  \E q \in Requests : Leaves(req'[q], u, c)
  <2>1. PICK q \in Requests : Leaves(req[q], u, c)
    BY <1>3 DEF Follows
  <2> QED
    BY <1>1, <1>3, <2>1
<1>4. ASSUME u \in connected', <<u, c>> \notin routed', u \in members'[c]
      PROVE  \E q \in Requests : Joins(req'[q], u, c) \/ Opens(req'[q], u, c)
  <2>1. PICK q \in Requests : Joins(req[q], u, c) \/ Opens(req[q], u, c)
    BY <1>4 DEF Follows
  <2> QED
    BY <1>1, <1>4, <2>1
<1> QED
  BY <1>2, <1>3, <1>4 DEF Follows, Joins, Leaves, Opens, Sets

\* A step of one request that writes a membership while no other is at it.
LEMMA FollowsOneWrites ==
  ASSUME NEW u, NEW c, NEW r \in Requests, Others(r),
         \A q \in Requests \ {r} : ~Unrouted(q, u, c),
         Leaves(req'[r], u, c) <=> u \notin members'[c],
         Joins(req'[r], u, c) \/ Opens(req'[r], u, c) <=> u \in members'[c],
         ~Sets(req'[r], u)
  PROVE  Follows(u, c)'
<1>1. \A q \in Requests \ {r} : ~Joins(req'[q], u, c) /\ ~Leaves(req'[q], u, c) /\ ~Sets(req'[q], u)
  BY DEF Others, Unrouted, Joins, Leaves, Sets
<1> QED
  BY <1>1 DEF Follows, Joins, Leaves, Opens, Sets

\* Across notes every other request that is at the same membership.
LEMMA NotCrossed ==
  ASSUME NEW r \in Requests, NEW us, NEW c, Across(r, us, c), NEW u \in us, <<u, c>> \notin torn'
  PROVE  \A q \in Requests \ {r} : ~Unrouted(q, u, c)
  BY DEF Across, Crossed

LEMMA FollowsBegins ==
  ASSUME IInv, NEW r \in Requests,
         RequestBegins(r) \/ \E u \in Users : \/ Login(r, u) \/ (\E c \in Channels : Send(r, u, c))
                                              \/ \E v \in Users : Forward(r, u, v),
         NEW v \in Users, NEW e \in Channels, <<v, e>> \notin torn', Follows(v, e)
  PROVE  Follows(v, e)'
<1> USE DEF channels, people, sockets, history
<1>0. RequestShape /\ RoomShape
  BY DEF IInv, Shape
<1>1. PICK u \in Users :
        \/ ReadChannels(r, u) \/ Login(r, u)
        \/ \E c \in Channels : Create(r, u, c) \/ Follow(r, u, c) \/ Leave(r, u, c)
                               \/ AskLink(r, u, c) \/ ResetLink(r, u, c) \/ Send(r, u, c)
        \/ \E w \in Users : SendAsk(r, u, w) \/ Respond(r, u, w) \/ Remove(r, u, w) \/ OpenDirect(r, u, w)
                           \/ Forward(r, u, w)
  BY DEF RequestBegins
<1>2. CASE ReadChannels(r, u)
  <2>1. Others(r) /\ req[r].at = "none" /\ req'[r].at = "setting" /\ req'[r].by = u /\ req'[r].list = Of(u)
    BY <1>0, <1>2, ReadsAs
  <2>2. UNCHANGED <<members, connected, routed>>
    BY <1>2 DEF ReadChannels
  <2> QED
    BY <2>1, <2>2, FollowsOneMoves DEF Joins, Leaves, Opens, Sets, Of
<1>3. ASSUME NEW c \in Channels, Create(r, u, c) PROVE Follows(v, e)'
  <2>1. /\ Others(r) /\ req[r].at = "none"
        /\ req'[r].at = "routing" /\ req'[r].by = u /\ req'[r].other = None /\ req'[r].ch = c
    BY <1>0, <1>3, BeginsAs DEF Create
  <2>2. /\ status[c] = "absent" /\ members' = [members EXCEPT ![c] = {u}] /\ UNCHANGED <<connected, routed>>
        /\ Across(r, {u}, c)
    BY <1>3 DEF Create
  <2>3. CASE v = u /\ e = c
    <3>1. v \in members'[e]
      BY <1>0, <2>2, <2>3 DEF RoomShape
    <3>2. \A q \in Requests \ {r} : ~Unrouted(q, v, e)
      BY <2>2, <2>3, NotCrossed
    <3> QED
      BY <2>1, <2>3, <3>1, <3>2, FollowsOneWrites DEF Joins, Leaves, Opens, Sets
  <2>4. CASE v # u \/ e # c
    <3>1. v \in members'[e] <=> v \in members[e]
      <4>1. members[c] = {}
        BY <2>2 DEF IInv, Rooms, AbsentIsEmpty
      <4> QED
        BY <1>0, <2>2, <2>4, <4>1 DEF RoomShape
    <3> QED
      BY <2>1, <2>2, <2>4, <3>1, FollowsOneMoves DEF Joins, Leaves, Opens, Sets
  <2> QED
    BY <2>3, <2>4
<1>4. ASSUME UNCHANGED <<members, connected, routed>>, Others(r), req[r].at = "none",
             req'[r].at \in {"gone", "joining", "leaving", "coding", "sending", "asking", "opening", "admitting"}
      PROVE  Follows(v, e)'
  BY <1>4, FollowsOneMoves DEF Joins, Leaves, Opens, Sets
<1>5. CASE Login(r, u)
  BY <1>0, <1>4, <1>5, LoginAs DEF Login
<1>6. ASSUME NEW c \in Channels,
             Follow(r, u, c) \/ Leave(r, u, c) \/ AskLink(r, u, c) \/ ResetLink(r, u, c) \/ Send(r, u, c)
      PROVE  Follows(v, e)'
  <2>1. UNCHANGED <<members, connected, routed>>
    BY <1>6 DEF Follow, Leave, AskLink, ResetLink, Send
  <2>2. \/ \E at \in {"joining", "leaving", "coding", "sending"} : Begin(r, u, at, c)
        \/ End(r) /\ req[r] = NoRequest
    BY <1>6 DEF Follow, Leave, AskLink, ResetLink, Send
  <2>3. Others(r) /\ req[r].at = "none" /\ req'[r].at \in {"gone", "joining", "leaving", "coding", "sending"}
    BY <1>0, <2>2, BeginsAs, Ended DEF NoRequest
  <2> QED
    BY <1>4, <2>1, <2>3
<1>7. ASSUME NEW w \in Users,
             \/ SendAsk(r, u, w) \/ Respond(r, u, w) \/ Remove(r, u, w) \/ OpenDirect(r, u, w)
             \/ Forward(r, u, w)
      PROVE  Follows(v, e)'
  <2>1. UNCHANGED <<members, connected, routed>>
    BY <1>7 DEF SendAsk, Respond, Remove, OpenDirect, Forward
  <2>2. \/ \E at \in {"asking", "opening", "sending"} : BeginWith(r, u, at, w)
        \/ End(r) /\ req[r] = NoRequest
    BY <1>7 DEF SendAsk, Respond, Remove, OpenDirect, Forward
  <2>3. Others(r) /\ req[r].at = "none" /\ req'[r].at \in {"gone", "asking", "opening", "sending"}
    BY <1>0, <2>2, BeginsWithAs, Ended DEF NoRequest
  <2> QED
    BY <1>4, <2>1, <2>3
<1> QED
  BY <1>1, <1>2, <1>3, <1>5, <1>6, <1>7

LEMMA FollowsJoins ==
  ASSUME IInv, NEW r \in Requests, AddMember(r) \/ Place(r) \/ Mark(r) \/ Subscribe(r),
         FilledAll,
         NEW v \in Users, NEW e \in Channels, <<v, e>> \notin torn', Follows(v, e)
  PROVE  Follows(v, e)'
<1> USE DEF channels, people, sockets, history
<1> DEFINE u == req[r].by
           c == req[r].ch
<1>0. RequestShape /\ RoomShape
  BY DEF IInv, Shape
<1>1. req[r].at \in {"joining", "placing", "marking", "routing"} /\ u \in Users /\ c \in Channels
  BY DEF AddMember, Place, Mark, Subscribe, At, FilledAll, Filled, Steps
<1>2. CASE AddMember(r) /\ status[c] = "live" /\ u \notin members[c]
  <2>1. /\ members' = [members EXCEPT ![c] = @ \cup {u}] /\ Go(r, "placing") /\ Across(r, {u}, c)
        /\ UNCHANGED <<connected, routed>>
    BY <1>2 DEF AddMember
  <2>2. Others(r) /\ req'[r].at = "placing" /\ req'[r].by = u /\ req'[r].ch = c
    BY <1>0, <2>1, GoesAs
  <2>3. CASE v = u /\ e = c
    <3>1. v \in members'[e]
      BY <1>0, <2>1, <2>3 DEF RoomShape
    <3>2. \A q \in Requests \ {r} : ~Unrouted(q, v, e)
      BY <2>1, <2>3, NotCrossed
    <3> QED
      BY <2>2, <2>3, <3>1, <3>2, FollowsOneWrites DEF Joins, Leaves, Opens, Sets
  <2>4. CASE v # u \/ e # c
    <3>1. v \in members'[e] <=> v \in members[e]
      BY <1>0, <1>1, <2>1, <2>4 DEF RoomShape
    <3>2. req[r].at = "joining"
      BY <1>2 DEF AddMember, At
    <3> QED
      BY <2>1, <2>2, <2>4, <3>1, <3>2, FollowsOneMoves DEF Joins, Leaves, Opens, Sets
  <2> QED
    BY <2>3, <2>4
<1>3. CASE AddMember(r) /\ ~(status[c] = "live" /\ u \notin members[c])
  <2>1. /\ UNCHANGED <<members, connected, routed>> /\ req[r].at = "joining"
        /\ (Go(r, "routing") /\ u \in members[c]) \/ End(r)
    BY <1>3 DEF AddMember, At
  <2>2. CASE Go(r, "routing") /\ u \in members[c]
    <3>1. Others(r) /\ req'[r].at = "routing" /\ req'[r].by = u /\ req'[r].ch = c
      BY <1>0, <2>2, GoesAs
    <3> QED
      BY <2>1, <2>2, <3>1, FollowsOneMoves DEF Joins, Leaves, Opens, Sets
  <2>3. CASE End(r)
    <3>1. Others(r) /\ req'[r].at = "gone"
      BY <1>0, <2>3, Ended
    <3> QED
      BY <2>1, <3>1, FollowsOneMoves DEF Joins, Leaves, Opens, Sets
  <2> QED
    BY <2>1, <2>2, <2>3
<1>4. CASE Place(r) \/ Mark(r)
  <2>1. PICK step \in {"marking", "routing"} : Go(r, step)
    BY <1>4 DEF Place, Mark
  <2>2. Others(r) /\ req'[r].at = step /\ req'[r].by = u /\ req'[r].other = req[r].other /\ req'[r].ch = c
    BY <1>0, <2>1, GoesAs
  <2>3. UNCHANGED <<members, connected, routed>> /\ req[r].at \in {"placing", "marking"}
    BY <1>4 DEF Place, Mark, At
  <2>4. Joins(req'[r], v, e) <=> Joins(req[r], v, e)
    BY <2>2, <2>3 DEF Joins
  <2> QED
    BY <2>2, <2>3, <2>4, FollowsOneMoves DEF Follows, Leaves, Opens, Sets
<1>5. CASE Subscribe(r)
  <2>1. /\ UNCHANGED <<members, connected>> /\ End(r) /\ req[r].at = "routing"
        /\ routed' = routed \cup {uc \in {<<u, c>>} : uc[1] \in connected}
    BY <1>5 DEF Subscribe, Route, At
  <2>2. Others(r) /\ req'[r].at = "gone"
    BY <1>0, <2>1, Ended
  <2>3. CASE v = u /\ e = c
    <3>1. v \in members[e]
      BY <2>1, <2>3 DEF Follows, Joins
    <3>2. v \in connected => <<v, e>> \in routed'
      BY <2>1, <2>3
    <3> QED
      BY <2>1, <2>2, <3>1, <3>2, FollowsOneMoves DEF Joins, Leaves, Opens, Sets
  <2>4. CASE v # u \/ e # c
    <3>1. <<v, e>> \in routed' <=> <<v, e>> \in routed
      BY <2>1, <2>4
    <3> QED
      BY <2>1, <2>2, <2>4, <3>1, FollowsOneMoves DEF Joins, Leaves, Opens, Sets
  <2> QED
    BY <2>3, <2>4
<1> QED
  BY <1>2, <1>3, <1>4, <1>5

LEMMA FollowsLeaves ==
  ASSUME IInv, NEW r \in Requests, LeaveWrite(r) \/ EnsureOwner(r) \/ Unsubscribe(r) \/ Forget(r),
         FilledAll,
         NEW v \in Users, NEW e \in Channels, <<v, e>> \notin torn', Follows(v, e)
  PROVE  Follows(v, e)'
<1> USE DEF channels, people, sockets, history
<1> DEFINE u == req[r].by
           c == req[r].ch
<1>0. RequestShape /\ RoomShape
  BY DEF IInv, Shape
<1>1. u \in Users /\ c \in Channels
  BY DEF LeaveWrite, EnsureOwner, Unsubscribe, Forget, At, FilledAll, Filled, Steps
<1>2. CASE LeaveWrite(r) /\ u \in members[c]
  <2>1. PICK step \in {"ensuring", "unrouting"} : Go(r, step)
    BY <1>2 DEF LeaveWrite
  <2>2. /\ members' = [members EXCEPT ![c] = @ \ {u}] /\ Across(r, {u}, c) /\ req[r].at = "leaving"
        /\ UNCHANGED <<connected, routed>>
    BY <1>2 DEF LeaveWrite, TakeOut, At
  <2>3. Others(r) /\ req'[r].at = step /\ req'[r].by = u /\ req'[r].ch = c
    BY <1>0, <2>1, GoesAs
  <2>4. CASE v = u /\ e = c
    <3>1. v \notin members'[e]
      BY <1>0, <1>1, <2>2, <2>4 DEF RoomShape
    <3>2. \A q \in Requests \ {r} : ~Unrouted(q, v, e)
      BY <2>2, <2>4, NotCrossed
    <3> QED
      BY <2>3, <2>4, <3>1, <3>2, FollowsOneWrites DEF Joins, Leaves, Opens, Sets
  <2>5. CASE v # u \/ e # c
    <3>1. v \in members'[e] <=> v \in members[e]
      BY <1>0, <1>1, <2>2, <2>5 DEF RoomShape
    <3> QED
      BY <2>2, <2>3, <2>5, <3>1, FollowsOneMoves DEF Joins, Leaves, Opens, Sets
  <2> QED
    BY <2>4, <2>5
<1>3. CASE (LeaveWrite(r) /\ u \notin members[c]) \/ Forget(r)
  <2>1. /\ UNCHANGED <<members, connected, routed>> /\ End(r)
        /\ req[r].at \in {"leaving", "forgetting"}
    BY <1>3 DEF LeaveWrite, Forget, At
  <2>2. Others(r) /\ req'[r].at = "gone"
    BY <1>0, <2>1, Ended
  <2> QED
    BY <2>1, <2>2, FollowsOneMoves DEF Joins, Leaves, Opens, Sets
<1>4. CASE EnsureOwner(r)
  <2>1. UNCHANGED <<members, connected, routed>> /\ Go(r, "unrouting") /\ req[r].at = "ensuring"
    BY <1>4 DEF EnsureOwner, At
  <2>2. Others(r) /\ req'[r].at = "unrouting" /\ req'[r].by = u /\ req'[r].ch = c
    BY <1>0, <2>1, GoesAs
  <2>3. Leaves(req'[r], v, e) <=> Leaves(req[r], v, e)
    BY <2>1, <2>2 DEF Leaves
  <2> QED
    BY <2>1, <2>2, <2>3, FollowsOneMoves DEF Follows, Joins, Opens, Sets
<1>5. CASE Unsubscribe(r)
  <2>1. /\ UNCHANGED <<members, connected>> /\ Go(r, "forgetting") /\ req[r].at = "unrouting"
        /\ routed' = routed \ {<<u, c>>}
    BY <1>5 DEF Unsubscribe, Unroute, At
  <2>2. Others(r) /\ req'[r].at = "forgetting"
    BY <1>0, <2>1, GoesAs
  <2>3. CASE v = u /\ e = c
    <3>1. v \notin members[e] /\ <<v, e>> \notin routed'
      BY <2>1, <2>3 DEF Follows, Leaves
    <3> QED
      BY <2>1, <2>2, <3>1, FollowsOneMoves DEF Joins, Leaves, Opens, Sets
  <2>4. CASE v # u \/ e # c
    <3>1. <<v, e>> \in routed' <=> <<v, e>> \in routed
      BY <2>1, <2>4
    <3> QED
      BY <2>1, <2>2, <2>4, <3>1, FollowsOneMoves DEF Joins, Leaves, Opens, Sets
  <2> QED
    BY <2>3, <2>4
<1> QED
  BY <1>2, <1>3, <1>4, <1>5

LEMMA FollowsDirect ==
  ASSUME IInv, NEW r \in Requests, Direct(r) \/ SubscribeBoth(r),
         FilledAll,
         NEW v \in Users, NEW e \in Channels, <<v, e>> \notin torn', Follows(v, e)
  PROVE  Follows(v, e)'
<1> USE DEF channels, people, sockets, history
<1> DEFINE both == {req[r].by, req[r].other}
<1>0. RequestShape /\ RoomShape
  BY DEF IInv, Shape
<1>1. CASE Direct(r)
  <2>1. PICK d \in Directs :
          /\ req' = [req EXCEPT ![r].at = "routingBoth", ![r].ch = d]
          /\ \/ UNCHANGED members
             \/ status[d] = "absent" /\ members' = [members EXCEPT ![d] = both] /\ Across(r, both, d)
    BY <1>1 DEF Direct
  <2>2. UNCHANGED <<connected, routed>> /\ req[r].at = "opening"
    BY <1>1 DEF Direct, At
  <2>3. /\ Others(r) /\ req'[r].at = "routingBoth" /\ req'[r].by = req[r].by
        /\ req'[r].other = req[r].other /\ req'[r].ch = d
    BY <1>0, <2>1, ArrivesAs
  <2>4. CASE v \in both /\ e = d /\ ~UNCHANGED members
    <3>1. v \in members'[e]
      BY <1>0, <2>1, <2>4 DEF RoomShape, Channels
    <3>2. \A q \in Requests \ {r} : ~Unrouted(q, v, e)
      BY <2>1, <2>4, NotCrossed
    <3> QED
      BY <2>3, <2>4, <3>1, <3>2, FollowsOneWrites DEF Joins, Leaves, Opens, Sets
  <2>5. CASE ~(v \in both /\ e = d /\ ~UNCHANGED members)
    <3>1. v \in members'[e] <=> v \in members[e]
      <4>1. status[d] = "absent" => members[d] = {}
        BY DEF IInv, Rooms, AbsentIsEmpty, Channels
      <4> HIDE DEF both
      <4> QED
        BY <1>0, <2>1, <2>5, <4>1 DEF RoomShape
    <3> QED
      BY <2>2, <2>3, <3>1, FollowsOneMoves DEF Joins, Leaves, Opens, Sets
  <2> QED
    BY <2>4, <2>5
<1>2. CASE SubscribeBoth(r)
  <2> DEFINE c == req[r].ch
  <2>1. /\ UNCHANGED <<members, connected>> /\ End(r) /\ req[r].at = "routingBoth"
        /\ routed' = routed \cup {uc \in (both \cap members[c]) \X {c} : uc[1] \in connected}
    BY <1>2 DEF SubscribeBoth, Route, At
  <2>2. Others(r) /\ req'[r].at = "gone"
    BY <1>0, <2>1, Ended
  <2>3. CASE v \in both /\ e = c /\ v \in members[e]
    <3>1. v \in connected => <<v, e>> \in routed'
      BY <2>1, <2>3
    <3> QED
      BY <2>1, <2>2, <2>3, <3>1, FollowsOneMoves DEF Joins, Leaves, Opens, Sets
  <2>4. CASE ~(v \in both /\ e = c /\ v \in members[e])
    <3>1. <<v, e>> \in routed' <=> <<v, e>> \in routed
      <4> HIDE DEF both
      <4> QED
        BY <2>1, <2>4
    <3> QED
      BY <2>1, <2>2, <2>4, <3>1, FollowsOneMoves DEF Joins, Leaves, Opens, Sets
  <2> QED
    BY <2>3, <2>4
<1> QED
  BY <1>1, <1>2

LEMMA FollowsRest ==
  ASSUME IInv, NEW r \in Requests,
         GiveInviteCode(r) \/ InsertAsk(r) \/ SetChannels(r) \/ Abort(r) \/ Admit(r) \/ Store(r),
         NEW v \in Users, NEW e \in Channels, <<v, e>> \notin torn', Follows(v, e)
  PROVE  Follows(v, e)'
<1> USE DEF channels, people, sockets, history
<1>0. RequestShape
  BY DEF IInv, Shape
<1>1. Others(r) /\ req'[r].at = "gone" /\ UNCHANGED members
  BY <1>0, Ended DEF GiveInviteCode, InsertAsk, SetChannels, Abort, Admit, Store
<1>2. CASE GiveInviteCode(r) \/ InsertAsk(r) \/ Admit(r) \/ Store(r)
  <2>1. UNCHANGED <<connected, routed>> /\ req[r].at \in {"coding", "asking", "admitting", "sending"}
    BY <1>2 DEF GiveInviteCode, InsertAsk, Admit, Store, At
  <2> QED
    BY <1>1, <2>1, FollowsOneMoves DEF Joins, Leaves, Opens, Sets
<1>3. CASE SetChannels(r)
  <2> DEFINE u == req[r].by
  <2>1. /\ req[r].at = "setting" /\ connected' = connected \cup {u}
        /\ routed' = {uc \in routed : uc[1] # u} \cup ({u} \X req[r].list)
    BY <1>3 DEF SetChannels, At
  <2>2. CASE v = u
    <3>1. e \in req[r].list <=> v \in members[e]
      BY <2>1, <2>2 DEF Follows, Sets
    <3>2. <<v, e>> \in routed' <=> v \in members[e]
      BY <2>1, <2>2, <3>1
    <3> QED
      BY <1>1, <3>2, FollowsOneMoves DEF Joins, Leaves, Opens, Sets
  <2>3. CASE v # u
    <3>1. (v \in connected' <=> v \in connected) /\ (<<v, e>> \in routed' <=> <<v, e>> \in routed)
      BY <2>1, <2>3
    <3> QED
      BY <1>1, <2>1, <3>1, FollowsOneMoves DEF Joins, Leaves, Opens, Sets
  <2> QED
    BY <2>2, <2>3
<1>4. CASE Abort(r)
  <2>1. /\ UNCHANGED <<connected, routed>>
        /\ torn' = torn \cup {<<w, req[r].ch>> :
                              w \in {x \in Users : req[r].ch # None /\ Unrouted(r, x, req[r].ch)}}
    BY <1>4 DEF Abort
  <2>2. ~(req[r].ch = e /\ Unrouted(r, v, e))
    BY <2>1, NamesAssumption
  <2>3. ~Leaves(req[r], v, e) /\ ~Joins(req[r], v, e) /\ ~Opens(req[r], v, e)
    BY <2>2 DEF Unrouted, Leaves, Joins, Opens
  <2> QED
    BY <1>1, <2>1, <2>3, FollowsOneMoves DEF Joins, Leaves, Opens, Sets
<1> QED
  BY <1>2, <1>3, <1>4

\* An erasure touches only who is out of accounts.
LEMMA FollowsErases ==
  ASSUME IInv, NEW n \in Nodes,
         (\E u \in Users : Delete(n, u)) \/ EraseStep(n) \/ EraserFails(n),
         NEW v \in accounts, NEW e \in Channels, Follows(v, e)
  PROVE  Follows(v, e)'
<1> USE DEF channels, people, sockets, history, mvars
<1>0. RoomShape /\ Erasing
  BY DEF IInv, Shape
<1>1. req' = req
  BY DEF Delete, EraseStep, Claim, Revoke, ListChannels, LeaveOne, PromoteOne, EraseFriends, EraseReads,
         Rename, Finish, RenameAgain, EraserFails
<1>2. v \in members'[e] <=> v \in members[e]
  <2>1. ASSUME NEW c \in Channels, LeaveOne(n, c) PROVE v \in members'[e] <=> v \in members[e]
    <3>1. victim[n] # v
      BY <1>0, <2>1 DEF LeaveOne, Erasing, In
    <3>2. UNCHANGED members \/ members' = [members EXCEPT ![c] = @ \ {victim[n]}]
      BY <2>1 DEF LeaveOne, TakeOut
    <3> QED
      BY <1>0, <3>1, <3>2 DEF RoomShape
  <2>2. CASE ~\E c \in Channels : LeaveOne(n, c)
    <3>1. UNCHANGED members
      BY <2>2 DEF Delete, EraseStep, Claim, Revoke, ListChannels, PromoteOne, EraseFriends, EraseReads,
                  Rename, Finish, RenameAgain, EraserFails
    <3> QED
      BY <3>1
  <2> QED
    BY <2>1, <2>2
<1>3. v \in connected' => v \in connected /\ (<<v, e>> \in routed' <=> <<v, e>> \in routed)
  <2>1. CASE Revoke(n)
    <3>1. victim[n] # v
      BY <1>0, <2>1 DEF Revoke, Erasing, In
    <3> QED
      BY <2>1, <3>1 DEF Revoke
  <2>2. CASE ~Revoke(n)
    <3>1. UNCHANGED <<connected, routed>>
      BY <2>2 DEF Delete, EraseStep, Claim, ListChannels, LeaveOne, PromoteOne, EraseFriends, EraseReads,
                  Rename, Finish, RenameAgain, EraserFails
    <3> QED
      BY <3>1
  <2> QED
    BY <2>1, <2>2
<1> QED
  BY <1>1, <1>2, <1>3, FollowsCalm

LEMMA RoutesFollowOn ==
  ASSUME IInv, FilledAll, RoutesFollow, [Next]_vars
  PROVE  RoutesFollow'
<1> USE DEF channels, people, sockets, history, mvars
<1> SUFFICES ASSUME NEW v \in accounts', NEW e \in Channels, <<v, e>> \notin torn'
             PROVE  Follows(v, e)'
  BY DEF RoutesFollow
<1>0. accounts \in SUBSET Users
  BY DEF IInv, Shape, EraseShape
<1>1. ASSUME NEW r \in Requests,
             RequestBegins(r) \/ RequestGoesOn(r) \/ Abort(r) \/ Admit(r) \/ Store(r)
             \/ \E u \in Users : \/ Login(r, u) \/ (\E c \in Channels : Send(r, u, c))
                                 \/ \E w \in Users : Forward(r, u, w)
      PROVE  Follows(v, e)'
  <2>1. accounts' = accounts /\ torn \subseteq torn'
    <3>1. CASE RequestBegins(r)
      BY <3>1 DEF RequestBegins, ReadChannels, Create, Follow, Leave, AskLink, ResetLink, SendAsk, Respond,
                  Remove, OpenDirect, Across
    <3>2. CASE AddMember(r) \/ Place(r) \/ Mark(r) \/ Subscribe(r)
      BY <3>2 DEF AddMember, Place, Mark, Subscribe, Across
    <3>3. CASE LeaveWrite(r) \/ EnsureOwner(r) \/ Unsubscribe(r) \/ Forget(r)
      BY <3>3 DEF LeaveWrite, EnsureOwner, Unsubscribe, Forget, Across
    <3>4. CASE GiveInviteCode(r) \/ InsertAsk(r) \/ Direct(r) \/ SubscribeBoth(r) \/ SetChannels(r)
      BY <3>4 DEF GiveInviteCode, InsertAsk, Direct, SubscribeBoth, SetChannels, Across
    <3>5. CASE \/ Abort(r) \/ Admit(r) \/ Store(r)
               \/ \E u \in Users : \/ Login(r, u) \/ (\E c \in Channels : Send(r, u, c))
                                   \/ \E w \in Users : Forward(r, u, w)
      BY <3>5 DEF Abort, Admit, Store, Login, Send, Forward
    <3> QED
      BY <1>1, <3>1, <3>2, <3>3, <3>4, <3>5 DEF RequestGoesOn
  <2>2. v \in Users /\ Follows(v, e)
    BY <1>0, <2>1 DEF RoutesFollow
  <2> QED
    BY <1>1, <2>2, FollowsBegins, FollowsJoins, FollowsLeaves, FollowsDirect, FollowsRest
       DEF RequestGoesOn
<1>2. ASSUME NEW n \in Nodes, (\E u \in Users : Delete(n, u)) \/ EraseStep(n) \/ EraserFails(n)
      PROVE  Follows(v, e)'
  <2>1. accounts' \subseteq accounts /\ torn' = torn
    BY <1>2 DEF Delete, EraseStep, Claim, Revoke, ListChannels, LeaveOne, PromoteOne, EraseFriends,
                EraseReads, Rename, Finish, RenameAgain, EraserFails
  <2> QED
    BY <1>2, <2>1, FollowsErases DEF RoutesFollow
<1>3. ASSUME UNCHANGED <<members, accounts, req, torn>>,
             v \in connected' => v \in connected /\ (<<v, e>> \in routed' <=> <<v, e>> \in routed)
      PROVE  Follows(v, e)'
  BY <1>3, FollowsCalm DEF RoutesFollow
<1>4. ASSUME NEW u \in Users, HangUp(u) PROVE Follows(v, e)'
  BY <1>3, <1>4 DEF HangUp
<1>5. CASE (\E u \in Users : LeaseOut(u) \/ Register(u)) \/ UNCHANGED vars
  BY <1>3, <1>5 DEF LeaseOut, Register, vars
<1> QED
  BY <1>1, <1>2, <1>4, <1>5 DEF Next, MembersStep, MNext

-----------------------------------------------------------------------------
(* The types of the rest.                                                  *)

Collections == <<asks, reads, sessions, connected, routed, faults, taken>>

LEMMA PeopleCalm ==
  ASSUME PeopleShape, UNCHANGED Collections, late' \subseteq late \cup (Users \X Kinds)
  PROVE  PeopleShape'
  BY DEF PeopleShape, Collections

LEMMA NotedLate == NoteLate => late' \subseteq late \cup (Users \X Kinds)
  BY DEF NoteLate

LEMMA PeopleBegins ==
  ASSUME PeopleShape, NEW r \in Requests, RequestBegins(r), NoteLate, UNCHANGED taken
  PROVE  PeopleShape'
<1> USE DEF channels, people, sockets, history
<1>0. late' \subseteq late \cup (Users \X Kinds)
  BY NotedLate
<1>1. CASE \E u, v \in Users : Respond(r, u, v) \/ Remove(r, u, v)
  <2>1. PICK u \in Users, v \in Users : Respond(r, u, v) \/ Remove(r, u, v)
    BY <1>1
  <2>2. Ask(v, u, "accepted") \in [from : Users, to : Users, status : {"pending", "accepted"}]
    BY DEF Ask
  <2>3. asks' \subseteq asks \cup {Ask(v, u, "accepted")}
    BY <2>1 DEF Respond, Remove
  <2>4. UNCHANGED <<reads, sessions, connected, routed, faults, taken>>
    BY <2>1 DEF Respond, Remove
  <2> QED
    BY <1>0, <2>2, <2>3, <2>4 DEF PeopleShape
<1>2. CASE ~\E u, v \in Users : Respond(r, u, v) \/ Remove(r, u, v)
  <2>1. UNCHANGED <<asks, reads, sessions, connected, routed, faults>>
    BY <1>2 DEF RequestBegins, ReadChannels, Create, Follow, Leave, AskLink, ResetLink, SendAsk, OpenDirect
  <2> QED
    BY <1>0, <2>1, PeopleCalm DEF Collections
<1> QED
  BY <1>1, <1>2

LEMMA PeopleGoesOn ==
  ASSUME PeopleShape, RequestShape, FilledAll, NEW r \in Requests,
         RequestGoesOn(r) \/ Abort(r), NoteLate, UNCHANGED taken
  PROVE  PeopleShape'
<1> USE DEF channels, people, sockets, history
<1> DEFINE u == req[r].by
           c == req[r].ch
<1>0. late' \subseteq late \cup (Users \X Kinds)
  BY NotedLate
<1>1. CASE Mark(r) \/ Forget(r)
  <2>1. u \in Users /\ c \in Channels
    BY <1>1 DEF Mark, Forget, At, FilledAll, Filled, Steps
  <2>2. reads' \subseteq reads \cup {<<u, c>>}
    BY <1>1 DEF Mark, Forget
  <2>3. UNCHANGED <<asks, sessions, connected, routed, faults>>
    BY <1>1 DEF Mark, Forget
  <2> HIDE DEF u, c
  <2> QED
    BY <1>0, <2>1, <2>2, <2>3 DEF PeopleShape
<1>2. CASE Subscribe(r) \/ SubscribeBoth(r) \/ Unsubscribe(r)
  <2>1. c \in Channels
    BY <1>2 DEF Subscribe, SubscribeBoth, Unsubscribe, At, FilledAll, Filled, Steps
  <2>2. routed' \subseteq routed \cup (connected \X {c})
    BY <1>2 DEF Subscribe, SubscribeBoth, Unsubscribe, Route, Unroute
  <2>3. UNCHANGED <<asks, reads, sessions, connected, faults>>
    BY <1>2 DEF Subscribe, SubscribeBoth, Unsubscribe
  <2> HIDE DEF u, c
  <2> QED
    BY <1>0, <2>1, <2>2, <2>3 DEF PeopleShape
<1>3. CASE InsertAsk(r)
  <2>1. u \in Users /\ req[r].other \in Users
    BY <1>3 DEF InsertAsk, At, FilledAll, Filled, Steps
  <2>2. Ask(u, req[r].other, "pending") \in [from : Users, to : Users, status : {"pending", "accepted"}]
    BY <2>1 DEF Ask
  <2>3. asks' = asks \cup {Ask(u, req[r].other, "pending")}
        /\ UNCHANGED <<reads, sessions, connected, routed, faults>>
    BY <1>3 DEF InsertAsk
  <2> QED
    BY <1>0, <2>2, <2>3 DEF PeopleShape
<1>4. CASE SetChannels(r)
  <2>1. u \in Users /\ req[r].list \in SUBSET Channels
    BY <1>4 DEF SetChannels, At, FilledAll, Filled, Steps, RequestShape, Request
  <2>2. /\ connected' = connected \cup {u}
        /\ routed' \subseteq routed \cup ({u} \X req[r].list)
        /\ UNCHANGED <<asks, reads, sessions, faults>>
    BY <1>4 DEF SetChannels
  <2> HIDE DEF u
  <2> QED
    BY <1>0, <2>1, <2>2 DEF PeopleShape
<1>5. CASE Abort(r)
  <2>1. /\ faults < MaxFaults /\ faults' = faults + 1
        /\ UNCHANGED <<asks, reads, sessions, connected, routed>>
    BY <1>5 DEF Abort
  <2>2. faults' \in 0 .. MaxFaults
    BY <2>1, BoundsAssumption DEF PeopleShape
  <2> QED
    BY <1>0, <2>1, <2>2 DEF PeopleShape
<1>6. CASE AddMember(r) \/ Place(r) \/ LeaveWrite(r) \/ EnsureOwner(r) \/ GiveInviteCode(r) \/ Direct(r)
  <2>1. UNCHANGED <<asks, reads, sessions, connected, routed, faults>>
    BY <1>6 DEF AddMember, Place, LeaveWrite, EnsureOwner, GiveInviteCode, Direct
  <2> QED
    BY <1>0, <2>1, PeopleCalm DEF Collections
<1> QED
  BY <1>1, <1>2, <1>3, <1>4, <1>5, <1>6 DEF RequestGoesOn

LEMMA PeopleOthers ==
  ASSUME PeopleShape, IInv, FilledAll,
         \/ \E r \in Requests : \/ Admit(r) \/ Store(r)
                               \/ \E u \in Users : \/ Login(r, u) \/ (\E c \in Channels : Send(r, u, c))
                                                   \/ \E v \in Users : Forward(r, u, v)
         \/ \E n \in Nodes : (\E u \in Users : Delete(n, u)) \/ EraseStep(n) \/ EraserFails(n)
         \/ \E u \in Users : (HangUp(u) /\ NoteLate /\ UNCHANGED taken) \/ LeaseOut(u) \/ Register(u)
         \/ UNCHANGED vars
  PROVE  PeopleShape'
<1> USE DEF channels, people, sockets, history, mvars, evars
<1>0. RequestShape /\ EraseShape /\ Erasing
  BY DEF IInv, Shape
<1>1. ASSUME NEW r \in Requests, Admit(r) PROVE PeopleShape'
  <2>1. req[r].by \in Users
    BY <1>1 DEF Admit, At, FilledAll, Filled, Steps
  <2>2. /\ sessions' = sessions \cup {req[r].by}
        /\ UNCHANGED <<asks, reads, connected, routed, faults, taken>>
    BY <1>1 DEF Admit
  <2>3. late' \subseteq late \cup (Users \X Kinds)
    BY <1>1, NotedLate DEF Admit
  <2> QED
    BY <2>1, <2>2, <2>3 DEF PeopleShape
<1>2. ASSUME NEW r \in Requests, Store(r) PROVE PeopleShape'
  <2>1. Author(r) \in Users
    BY <1>0, <1>2 DEF Store, Author, At, FilledAll, Filled, Steps, RequestShape, Request
  <2>2. late' \subseteq late \cup {<<Author(r), "message">>} /\ UNCHANGED Collections
    BY <1>2 DEF Store, Collections
  <2>3. <<Author(r), "message">> \in Users \X Kinds
    BY <2>1 DEF Kinds
  <2> QED
    BY <2>2, <2>3, PeopleCalm
<1>3. ASSUME NEW n \in Nodes, EraserFails(n) PROVE PeopleShape'
  <2>1. <<victim[n], "message">> \in Users \X Kinds
    BY <1>0, <1>3 DEF EraserFails, Erasing, Kinds
  <2>2. /\ faults < MaxFaults /\ faults' = faults + 1
        /\ UNCHANGED <<asks, reads, sessions, connected, routed, taken>>
        /\ late' \subseteq late \cup {<<victim[n], "message">>}
    BY <1>3 DEF EraserFails
  <2>3. faults' \in 0 .. MaxFaults
    BY <2>2, BoundsAssumption DEF PeopleShape
  <2> QED
    BY <2>1, <2>2, <2>3 DEF PeopleShape
<1>4. ASSUME NEW n \in Nodes, Revoke(n) \/ EraseFriends(n) \/ EraseReads(n) PROVE PeopleShape'
  <2>1. /\ asks' \subseteq asks /\ reads' \subseteq reads /\ sessions' \subseteq sessions
        /\ UNCHANGED <<faults, taken, late>>
        /\ \/ UNCHANGED <<connected, routed>>
           \/ /\ connected' = connected \ {victim[n]}
              /\ routed' = {uc \in routed : uc[1] # victim[n]}
    BY <1>4 DEF Revoke, EraseFriends, EraseReads
  <2>2. connected' \in SUBSET Users /\ routed' \in SUBSET (connected' \X Channels)
    BY <2>1 DEF PeopleShape
  <2> QED
    BY <2>1, <2>2 DEF PeopleShape
<1>5. ASSUME NEW u \in Users, HangUp(u), NoteLate, UNCHANGED taken PROVE PeopleShape'
  <2>1. /\ UNCHANGED <<asks, reads, sessions, faults>>
        /\ connected' = connected \ {u} /\ routed' = {uc \in routed : uc[1] # u}
    BY <1>5 DEF HangUp
  <2>2. late' \subseteq late \cup (Users \X Kinds)
    BY <1>5, NotedLate
  <2> QED
    BY <1>5, <2>1, <2>2 DEF PeopleShape
<1>6. ASSUME NEW u \in Users, LeaseOut(u) \/ Register(u) PROVE PeopleShape'
  <2>1. /\ UNCHANGED <<asks, reads, sessions, connected, routed, late>>
        /\ taken' \subseteq taken \cup {u}
        /\ faults' = faults \/ (faults < MaxFaults /\ faults' = faults + 1)
    BY <1>6 DEF LeaseOut, Register
  <2>2. faults' \in 0 .. MaxFaults
    BY <2>1, BoundsAssumption DEF PeopleShape
  <2> QED
    BY <2>1, <2>2 DEF PeopleShape
<1>7. CASE \/ \E r \in Requests, u \in Users : Login(r, u) \/ (\E c \in Channels : Send(r, u, c)) \/ \E v \in Users : Forward(r, u, v)
           \/ \E n \in Nodes, u \in Users : Delete(n, u) \/ Claim(n, u)
           \/ \E n \in Nodes : \/ ListChannels(n) \/ (\E c \in Channels : LeaveOne(n, c)) \/ PromoteOne(n)
                             \/ Rename(n) \/ Finish(n) \/ RenameAgain(n)
           \/ UNCHANGED vars
  <2>1. UNCHANGED Collections /\ late' = late
    BY <1>7 DEF Collections, Login, Send, Forward, Delete, Claim, ListChannels, LeaveOne, PromoteOne, Rename, Finish,
                RenameAgain, vars
  <2> QED
    BY <2>1, PeopleCalm
<1> QED
  BY <1>1, <1>2, <1>3, <1>4, <1>5, <1>6, <1>7 DEF EraseStep

LEMMA PeopleOn ==
  ASSUME PeopleShape, IInv, FilledAll, [Next]_vars
  PROVE  PeopleShape'
<1>0. RequestShape
  BY DEF IInv, Shape
<1>1. CASE MembersStep
  <2>1. MNext /\ NoteLate /\ UNCHANGED taken
    BY <1>1 DEF MembersStep, evars
  <2> QED
    BY <1>0, <2>1, PeopleBegins, PeopleGoesOn, PeopleOthers DEF MNext
<1> QED
  BY <1>1, PeopleOthers DEF Next

-----------------------------------------------------------------------------
(* The second invariant holds.                                             *)

RoutesInv == IInv /\ FilledAll /\ PeopleShape /\ RoutesFollow

LEMMA InitRoutesInv == Init => RoutesInv
<1> SUFFICES ASSUME Init PROVE RoutesInv
  OBVIOUS
<1>0. MInit
  BY DEF Init
<1>1. IInv
  BY InitIInv
<1>2. FilledAll
  BY <1>0 DEF MInit, NoRequest, FilledAll, Filled, Steps
<1>3. PeopleShape
  <2>1. asks \in SUBSET [from : Users, to : Users, status : {"pending", "accepted"}]
    <3>1. PICK met \in SUBSET {uv \in Users \X Users : uv[1] # uv[2]} :
            asks = {[from |-> uv[1], to |-> uv[2], status |-> "accepted"] : uv \in met}
      BY <1>0 DEF MInit
    <3> QED
      BY <3>1
  <2>2. routed \in SUBSET (connected \X Channels)
    BY <1>0 DEF MInit
  <2> QED
    BY <1>0, <2>1, <2>2, BoundsAssumption DEF Init, MInit, PeopleShape
<1>4. RoutesFollow
  <2>1. \A r \in Requests : req[r].at = "none"
    BY <1>0 DEF MInit, NoRequest
  <2>2. \A u \in Users, c \in Channels : <<u, c>> \in routed <=> u \in members[c]
    BY <1>0 DEF MInit, Of
  <2>3. accounts = Users
    BY <1>0 DEF MInit
  <2> QED
    BY <2>1, <2>2, <2>3 DEF RoutesFollow, Follows, Joins, Leaves, Opens, Sets
<1> QED
  BY <1>1, <1>2, <1>3, <1>4 DEF RoutesInv

-----------------------------------------------------------------------------
(* The theorems.                                                           *)

\* The invariant holds in every behaviour.
THEOREM ErasureInvariant == Spec => []IInv
<1>1. Init => IInv
  BY InitIInv
<1>2. IInv /\ [Next]_vars => IInv'
  BY NextIInv
<1> QED
  BY <1>1, <1>2, PTL DEF Spec

\* An emptied channel is marked and stays empty, and nothing else is marked: joining
\* (AddMember) and leaving (Leave) may overlap in any way.
THEOREM ErasureMarkedIsEmpty == Spec => []MarkedIsEmpty
<1>1. IInv => MarkedIsEmpty
  BY DEF IInv, Rooms
<1> QED
  BY <1>1, ErasureInvariant, PTL

\* Two who ask first get one link and one conversation (giveInviteCode, Direct).
THEOREM ErasureFirstsAgree == Spec => []FirstsAgree
<1>1. IInv => FirstsAgree
  BY DEF IInv, Rooms
<1> QED
  BY <1>1, ErasureInvariant, PTL

\* A named channel has exactly one owner, unless somebody is between the two writes
\* of Leave or died there (ensureOwner); a conversation has none.
THEOREM ErasureOneOwner == Spec => []OneOwner
<1>1. IInv => OneOwner
  <2> SUFFICES ASSUME IInv PROVE OneOwner
    OBVIOUS
  <2>1. \A c \in Named : Cardinality(owners[c]) <= 1
    <3> SUFFICES ASSUME NEW c \in Named PROVE Cardinality(owners[c]) <= 1
      OBVIOUS
    <3>1. CASE owners[c] = {}
      BY <3>1, FS_EmptySet
    <3>2. CASE owners[c] # {}
      <4>1. PICK u \in owners[c] : TRUE
        BY <3>2
      <4>2. owners[c] = {u}
        BY <4>1 DEF IInv, Rooms, OneOwns, Channels
      <4>3. Cardinality({u}) = 1
        BY FS_Singleton
      <4> QED
        BY <4>2, <4>3
    <3> QED
      BY <3>1, <3>2
  <2>2. \A d \in Directs : owners[d] = {}
    BY DEF IInv, Rooms, OneOwns
  <2>3. \A c \in Named : status[c] = "live" /\ owners[c] = {} => c \in Leaving \cup ownerless
    BY DEF IInv, Owned, Excused
  <2> QED
    BY <2>1, <2>2, <2>3 DEF OneOwner, OneOwnerBut
<1> QED
  BY <1>1, ErasureInvariant, PTL

\* Of an account whose name was freed there is nothing but what a request wrote after
\* the mark (eraseAccount), however often the erasure was cut short or taken over.
THEOREM ErasureOnlyLateRemains == Spec => []OnlyLateRemains
<1>1. IInv => OnlyLateRemains
  <2> SUFFICES ASSUME IInv, NEW u \in Users, name[u] = "tomb"
               PROVE  /\ u \in sessions => <<u, "session">> \in late
                      /\ Of(u) # {} => <<u, "member">> \in late
                      /\ Asked(u) # {} => <<u, "friend">> \in late
                      /\ Reads(u) # {} => <<u, "read">> \in late
    BY DEF OnlyLateRemains
  <2>1. u \in Brought(AfterRevoke) /\ u \in Brought(AfterLeave) /\ u \in Brought(AfterReads)
    BY DEF Brought
  <2> QED
    BY <2>1 DEF IInv, TakenStays
<1> QED
  BY <1>1, ErasureInvariant, PTL

\* Nobody who registers a freed name is shown as the author of the messages of its
\* former owner: renameAuthor before and after finishErasure.
THEOREM ErasureNobodyElsesWords == Spec => []NobodyElsesWords
<1>1. IInv => NobodyElsesWords
  BY DEF IInv
<1> QED
  BY <1>1, ErasureInvariant, PTL

\* So does the second one, which rests on the first.
THEOREM ErasureRoutesInv == Spec => []RoutesInv
<1>1. Init => RoutesInv
  BY InitRoutesInv
<1>2. RoutesInv /\ [Next]_vars => RoutesInv'
  BY NextIInv, FilledOn, PeopleOn, RoutesFollowOn DEF RoutesInv
<1> QED
  BY <1>1, <1>2, PTL DEF Spec

\* Unless two requests crossed on one membership or one was cut short, the sockets of
\* whoever has an account hear exactly the channels they are in: the order of write and
\* Subscribe or Unsubscribe in the handlers, and of reading the channels and setting
\* them (handleWS, recoverFromGap).
THEOREM ErasureRoutedIsMember == Spec => []RoutedIsMember
<1>1. RoutesInv => RoutedIsMember
  <2> SUFFICES ASSUME RoutesInv, NEW u \in connected \cap accounts, NEW c \in Channels,
                      <<u, c>> \notin torn, \A r \in Requests : ~Unrouted(r, u, c)
               PROVE  <<u, c>> \in routed <=> u \in members[c]
    BY DEF RoutedIsMember
  <2>1. Follows(u, c)
    BY DEF RoutesInv, RoutesFollow
  <2>2. \A r \in Requests : ~Joins(req[r], u, c) /\ ~Leaves(req[r], u, c) /\ ~Opens(req[r], u, c)
    BY DEF Unrouted, Joins, Leaves, Opens
  <2> QED
    BY <2>1, <2>2 DEF Follows
<1> QED
  BY <1>1, ErasureRoutesInv, PTL

\* Type correctness of Members and Erasure together.
THEOREM ErasureTypes == Spec => []TypeOK
<1>1. RoutesInv => TypeOK
  BY DEF RoutesInv, IInv, Shape, RoomShape, EraseShape, RequestShape, PeopleShape, Rooms, OwnersAreMembers,
         TypeOK, MTypeOK
<1> QED
  BY <1>1, ErasureRoutesInv, PTL
=============================================================================
