----------------------------- MODULE BusProofs -----------------------------
(***************************************************************************)
(* Proofs about the module Bus, for any sockets, channels, permanent       *)
(* topics and any number of lost connections and failed publishes: a frame *)
(* that passed by a socket is followed by a resync, and Settled keeps its  *)
(* word until the connection is lost for the first time.                   *)
(***************************************************************************)
EXTENDS Bus, FiniteSetTheorems, TLAPS

-----------------------------------------------------------------------------
(* The inductive invariant.                                                *)

\* What the commands s, in their order, will do.
OnAhead(s, t) == \E i \in 1 .. Len(s) : s[i].on /\ t \in s[i].topics
OffLast(s, t) ==
    \E i \in 1 .. Len(s) :
        /\ ~s[i].on /\ t \in s[i].topics
        /\ \A j \in 1 .. Len(s) : j > i => ~(s[j].on /\ t \in s[j].topics)
\* A new connection's command, which subscribes T as well.
Again(s, T) ==
    \E i \in 1 .. Len(s) : s[i].on /\ SessionTopic \in s[i].topics /\ T \subseteq s[i].topics
Never(s, t) == \A i \in 1 .. Len(s) : t \in s[i].topics => s[i].on

OffsAreChannels == \A t \in Permanent : Never(commands, t)

LinkLess == link # "up" => commands = <<>> /\ subscribed = {}

\* A channel the library does not subscribe again is not subscribed, once the
\* commands under way have been executed.
Forgotten ==
    \A t \in Channels \ recorded :
        t \in subscribed \/ OnAhead(commands, t) => OffLast(commands, t)

\* The permanent topics are subscribed, or about to be together.
PermanentHeard == link # "up" \/ Permanent \subseteq subscribed \/ Again(commands, Permanent)

\* The channels of a covered socket stay subscribed while the connection lasts, and
\* come back with the next one: nothing under way takes them out.
CoveredHeard ==
    \A c \in covered : \A t \in Reads[c] :
        /\ notes[t] = "none" /\ t \in recorded
        /\ Never(commands, t)
        /\ link # "up" \/ t \in subscribed \/ Again(commands, {t})

Ahead == OffsAreChannels /\ LinkLess /\ Forgotten /\ PermanentHeard /\ CoveredHeard

IInv == TypeOK /\ Ahead /\ LossIsFollowed

LEMMA PermanentTopics == Permanent \subseteq Topics /\ SessionTopic \in Topics
  BY SessionTopicAssumption DEF Topics

-----------------------------------------------------------------------------
(* Commands.                                                               *)

LEMMA TailIn ==
  ASSUME NEW S, NEW s \in Seq(S), s # <<>>
  PROVE  /\ Tail(s) \in Seq(S) /\ Head(s) = s[1] /\ s[1] \in S /\ Len(s) >= 1
         /\ \A i \in 1 .. Len(Tail(s)) : i + 1 \in 1 .. Len(s) /\ Tail(s)[i] = s[i + 1]
         /\ \A i \in 1 .. Len(s) : i # 1 => i - 1 \in 1 .. Len(Tail(s)) /\ Tail(s)[i - 1] = s[i]
  OBVIOUS

LEMMA AppendIn ==
  ASSUME NEW S, NEW s \in Seq(S), NEW x \in S
  PROVE  /\ Append(s, x) \in Seq(S)
         /\ Len(s) + 1 \in 1 .. Len(Append(s, x)) /\ Append(s, x)[Len(s) + 1] = x
         /\ \A i \in 1 .. Len(s) : i \in 1 .. Len(Append(s, x)) /\ Append(s, x)[i] = s[i]
         /\ \A i \in 1 .. Len(Append(s, x)) :
               i \in 1 .. Len(s) \/ (i = Len(s) + 1 /\ Append(s, x)[i] = x)
  OBVIOUS

\* What a written command adds, if it names a topic.
With(s, k) == IF k.topics = {} THEN s ELSE Append(s, k)
Listen(T) == [on |-> TRUE, topics |-> T]
Leave(T)  == [on |-> FALSE, topics |-> T]

LEMMA WithIn ==
  ASSUME NEW s \in Seq(Command), NEW k \in Command
  PROVE  /\ With(s, k) \in Seq(Command)
         /\ Len(With(s, k)) >= Len(s)
         /\ \A i \in 1 .. Len(s) : With(s, k)[i] = s[i]
         /\ \A i \in 1 .. Len(With(s, k)) : i > Len(s) => With(s, k)[i] = k
         /\ k.topics # {} => Len(With(s, k)) > Len(s)
         /\ Len(With(s, k)) <= Len(s) + 1
  BY AppendIn DEF With

LEMMA ApplyIsWith ==
  ASSUME TypeOK, ApplyWatches, link = "up"
  PROVE  commands' = With(With(commands, Listen(Noted("on"))), Leave(Noted("off")))
<1>1. \A s \in Seq(Command), T \in SUBSET Topics :
        /\ s \o Write(TRUE, T) = With(s, Listen(T))
        /\ s \o Write(FALSE, T) = With(s, Leave(T))
  <2> SUFFICES ASSUME NEW s \in Seq(Command), NEW T \in SUBSET Topics
               PROVE  /\ s \o Write(TRUE, T) = With(s, Listen(T))
                      /\ s \o Write(FALSE, T) = With(s, Leave(T))
    OBVIOUS
  <2>1. CASE T = {}
    BY <2>1 DEF Write, With, Listen, Leave
  <2>2. CASE T # {}
    <3>1. Listen(T) \in Command /\ Leave(T) \in Command
      BY DEF Listen, Leave, Command
    <3>2. With(s, Listen(T)) = Append(s, Listen(T)) /\ With(s, Leave(T)) = Append(s, Leave(T))
      BY <2>2 DEF With, Listen, Leave
    <3>3. Write(TRUE, T) = <<Listen(T)>> /\ Write(FALSE, T) = <<Leave(T)>>
      BY <2>2 DEF Write, Listen, Leave
    <3>4. \A k \in Command : s \o <<k>> = Append(s, k)
      OBVIOUS
    <3> QED
      BY <3>1, <3>2, <3>3, <3>4
  <2> QED
    BY <2>1, <2>2
<1>2. Noted("on") \in SUBSET Topics /\ Noted("off") \in SUBSET Topics /\ commands \in Seq(Command)
  BY DEF Noted, Topics, TypeOK
<1>3. With(commands, Listen(Noted("on"))) \in Seq(Command)
  BY <1>2, WithIn DEF Listen, Command
<1> QED
  BY <1>1, <1>2, <1>3 DEF ApplyWatches

-----------------------------------------------------------------------------
(* Types.                                                                  *)

LEMMA CountsAreNumbers == ASSUME TypeOK, NEW T \in SUBSET Channels PROVE Count(T) \in Nat /\ Off \in Nat
<1>1. Cardinality(T) \in Nat
  BY FiniteAssumption, FS_Subset, FS_CardinalityType
<1>2. unconfirmed \in Nat
  BY DEF TypeOK
<1> QED
  BY <1>1, <1>2 DEF Count, Off

LEMMA ReleaseTypes ==
  ASSUME TypeOK, NEW callers \in SUBSET Sockets, NEW count \in Nat, Release(callers, count)
  PROVE  held' \cup released' \in SUBSET Sockets /\ unconfirmed' \in Nat
  BY DEF TypeOK, Release

LEMMA NotesTypes ==
  ASSUME TypeOK, NEW T \in SUBSET Channels, NEW on \in {"on", "off"}, Note(T, on)
  PROVE  notes' \in [Channels -> {"none", "on", "off"}] /\ wake' \in BOOLEAN
  BY DEF TypeOK, Note

LEMMA ReplyTopics == \A r \in Reply : r.topics \in SUBSET Topics
  BY DEF Reply, ResyncTold, Confirmed

LEMMA RepliesShrink ==
  ASSUME NEW s \in Seq(Reply), s # <<>>, NEW T \in SUBSET Topics
  PROVE  <<Confirmed(T)>> \o Tail(s) \in Seq(Reply)
<1>1. Confirmed(T) \in Reply
  BY DEF Reply
<1>2. Tail(s) \in Seq(Reply)
  OBVIOUS
<1> HIDE DEF Reply
<1> QED
  BY <1>1, <1>2

LEMMA RepliesCut ==
  ASSUME NEW k \in 0 .. Len(replies), replies \in Seq(Reply), NEW T \in SUBSET Topics
  PROVE  Received(k, T) \in Seq(Reply)
<1>1. SubSeq(replies, 1, k) \in Seq(Reply)
  OBVIOUS
<1>2. Confirmed(T) \in Reply
  BY DEF Reply
<1> QED
  BY <1>1, <1>2 DEF Received

LEMMA SocketTypes ==
  ASSUME TypeOK, NEW c \in Sockets,
         Connect(c) \/ Settled(c) \/ SettledReturns(c) \/ SettledTimesOut(c) \/ Disconnect(c)
  PROVE  TypeOK'
<1> USE DEF asked, run, redis, telling, history
<1>1. CASE Connect(c)
  <2>1. notes' \in [Channels -> {"none", "on", "off"}] /\ wake' \in BOOLEAN
    BY <1>1, NotesTypes, ReadsAssumption DEF Connect
  <2> QED
    BY <1>1, <2>1 DEF TypeOK, Connect
<1>2. CASE Settled(c)
  BY <1>2 DEF TypeOK, Settled
<1>3. CASE SettledReturns(c) \/ SettledTimesOut(c)
  BY <1>3 DEF TypeOK, SettledReturns, SettledTimesOut, Open, Heard
<1>4. CASE Disconnect(c)
  <2>1. notes' \in [Channels -> {"none", "on", "off"}] /\ wake' \in BOOLEAN
    BY <1>4, NotesTypes, ReadsAssumption DEF Disconnect
  <2> QED
    BY <1>4, <2>1 DEF TypeOK, Disconnect
<1> QED
  BY <1>1, <1>2, <1>3, <1>4

LEMMA ApplyTypes == ASSUME TypeOK, ApplyWatches PROVE TypeOK'
<1> USE DEF asked, run, redis, telling, history
<1>1. Noted("on") \in SUBSET Channels /\ Noted("off") \in SUBSET Channels
  BY DEF Noted
<1>2. commands' \in Seq(Command)
  <2>1. Listen(Noted("on")) \in Command /\ Leave(Noted("off")) \in Command
    BY <1>1 DEF Topics, Listen, Leave, Command
  <2>2. With(commands, Listen(Noted("on"))) \in Seq(Command)
    BY <2>1, WithIn DEF TypeOK
  <2>3. With(With(commands, Listen(Noted("on"))), Leave(Noted("off"))) \in Seq(Command)
    BY <2>1, <2>2, WithIn
  <2>4. CASE link = "up"
    BY <2>3, <2>4, ApplyIsWith
  <2> QED
    BY <2>4 DEF ApplyWatches, TypeOK
<1>3. held' \cup released' \in SUBSET Sockets /\ unconfirmed' \in Nat
  <2>1. held \cup waiters \in SUBSET Sockets
    BY DEF TypeOK
  <2> QED
    BY <1>1, <2>1, CountsAreNumbers, ReleaseTypes DEF ApplyWatches
<1>4. recorded' \in SUBSET Channels
  BY <1>1 DEF ApplyWatches, Record, TypeOK
<1> QED
  BY <1>2, <1>3, <1>4 DEF TypeOK, ApplyWatches

LEMMA ReplyTypes ==
  ASSUME TypeOK, (\E t \in Topics : ConfirmedOne(t)) \/ DispatchResync \/ Resync
  PROVE  TypeOK'
<1> USE DEF asked, run, redis, telling, history
<1>1. ASSUME NEW t \in Topics, ConfirmedOne(t) PROVE TypeOK'
  <2>1. Head(replies) \in Reply /\ replies \in Seq(Reply) /\ replies # <<>>
    BY <1>1, TailIn DEF TypeOK, ConfirmedOne
  <2>2. Head(replies).topics \ {t} \in SUBSET Topics
    BY <2>1, ReplyTopics
  <2>3. replies' \in Seq(Reply)
    <3>1. Tail(replies) \in Seq(Reply)
      BY <2>1
    <3>2. <<Confirmed(Head(replies).topics \ {t})>> \o Tail(replies) \in Seq(Reply)
      BY <2>1, <2>2, RepliesShrink
    <3> QED
      BY <1>1, <3>1, <3>2 DEF ConfirmedOne
  <2>4. held' \cup released' \in SUBSET Sockets /\ unconfirmed' \in Nat
    <3>1. held \in SUBSET Sockets
      BY DEF TypeOK
    <3>2. Off \in Nat
      BY CountsAreNumbers
    <3> QED
      BY <1>1, <3>1, <3>2, ReleaseTypes DEF ConfirmedOne
  <2>5. gaps' \in Nat
    BY <1>1 DEF ConfirmedOne, Gap, TypeOK
  <2> QED
    BY <1>1, <2>3, <2>4, <2>5 DEF TypeOK, ConfirmedOne
<1>2. CASE DispatchResync
  <2>1. replies' \in Seq(Reply)
    BY <1>2, TailIn DEF DispatchResync, TypeOK
  <2> QED
    BY <1>2, <2>1 DEF TypeOK, DispatchResync
<1>3. CASE Resync
  BY <1>3 DEF TypeOK, Resync
<1> QED
  BY <1>1, <1>2, <1>3

LEMMA PublishTypes ==
  ASSUME TypeOK,
         (\E t \in Channels : PublishFails(t) \/ PassesBy(t))
         \/ AnnounceIfLost \/ (\E ok \in BOOLEAN : AnnounceEnds(ok))
  PROVE  TypeOK'
<1> USE DEF asked, run, redis, telling, history
<1>1. ASSUME NEW t \in Channels, PublishFails(t) PROVE TypeOK'
  BY <1>1, BoundsAssumption DEF TypeOK, PublishFails
<1>2. ASSUME NEW t \in Channels, PassesBy(t) PROVE TypeOK'
  BY <1>2 DEF TypeOK, PassesBy
<1>3. CASE AnnounceIfLost
  <2>1. lost' \in BOOLEAN
    BY <1>3 DEF AnnounceIfLost
  <2>2. announcing' \in Nat
    BY <1>3 DEF TypeOK, AnnounceIfLost
  <2> QED
    BY <1>3, <2>1, <2>2 DEF TypeOK, AnnounceIfLost
<1>4. ASSUME NEW ok \in BOOLEAN, AnnounceEnds(ok) PROVE TypeOK'
  <2>1. replies' \in Seq(Reply)
    <3>1. ResyncTold \in Reply
      BY DEF Reply
    <3> QED
      BY <1>4, <3>1, AppendIn DEF AnnounceEnds, TypeOK
  <2>2. announcing' \in Nat
    BY <1>4 DEF AnnounceEnds, TypeOK
  <2>3. failures' \in 0 .. MaxFailures
    BY <1>4, BoundsAssumption DEF AnnounceEnds, TypeOK
  <2>4. lost' \in BOOLEAN
    BY <1>4 DEF AnnounceEnds, TypeOK
  <2> QED
    BY <1>4, <2>1, <2>2, <2>3, <2>4 DEF TypeOK, AnnounceEnds
<1> QED
  BY <1>1, <1>2, <1>3, <1>4

LEMMA RedisTypes == ASSUME TypeOK, Redis \/ Break PROVE TypeOK'
<1> USE DEF asked, run, redis, telling, history
<1>1. CASE Execute
  <2>1. Tail(commands) \in Seq(Command) /\ Head(commands) \in Command
    BY <1>1, TailIn DEF TypeOK, Execute
  <2>2. Head(commands).topics \in SUBSET Topics
    BY <2>1 DEF Command
  <2>3. replies' \in Seq(Reply)
    <3>1. Confirmed(Head(commands).topics) \in Reply
      BY <2>2 DEF Reply
    <3> QED
      BY <1>1, <3>1, AppendIn DEF Execute, TypeOK
  <2>4. subscribed' \in SUBSET Topics
    BY <1>1, <2>2 DEF Execute, TypeOK
  <2> QED
    BY <1>1, <2>1, <2>3, <2>4 DEF TypeOK, Execute, Heard
<1>2. CASE Noticed
  BY <1>2 DEF TypeOK, Noticed
<1>3. CASE Reconnect
  <2>1. [on |-> TRUE, topics |-> recorded \cup Permanent] \in Command
    BY DEF TypeOK, Topics, Command
  <2> QED
    BY <1>3, <2>1 DEF TypeOK, Reconnect
<1>4. CASE Break
  <2>0. PICK k \in 0 .. Len(replies) :
           \E T \in SUBSET (IF k < Len(replies) THEN replies[k + 1].topics ELSE {}) :
              replies' = Received(k, T)
    BY <1>4 DEF Break
  <2>1. PICK T \in SUBSET (IF k < Len(replies) THEN replies[k + 1].topics ELSE {}) :
           replies' = Received(k, T)
    BY <2>0
  <2>2. T \in SUBSET Topics
    <3>1. CASE k < Len(replies)
      <4>1. replies[k + 1] \in Reply
        BY <3>1 DEF TypeOK
      <4> QED
        BY <3>1, <4>1, ReplyTopics
    <3> QED
      BY <3>1
  <2>3. replies' \in Seq(Reply)
    BY <2>1, <2>2, RepliesCut DEF TypeOK
  <2>4. breaks' \in 0 .. MaxBreaks
    BY <1>4, BoundsAssumption DEF Break, TypeOK
  <2> QED
    BY <1>4, <2>3, <2>4 DEF TypeOK, Break
<1> QED
  BY <1>1, <1>2, <1>3, <1>4 DEF Redis

-----------------------------------------------------------------------------
(* What is subscribed, and what will be.                                   *)

LEMMA CoveredRead ==
  ASSUME TypeOK, NEW c \in covered, NEW t \in Reads[c]
  PROVE  c \in Sockets /\ c \in Readers(t) /\ t \in Channels
  BY ReadsAssumption DEF TypeOK, Readers, InHub

\* A socket newly covered: what it reads is subscribed for good.
LEMMA HeardIsCovered ==
  ASSUME NEW S \in SUBSET Sockets, NEW now, NEW s, NEW c \in Heard(S, now, s), NEW t \in Reads[c]
  PROVE  t \in Channels /\ notes[t] = "none" /\ t \in now /\ Never(s, t)
  BY ReadsAssumption DEF Heard, Never

LEMMA NotForgotten ==
  ASSUME NEW s, NEW t, Never(s, t)
  PROVE  ~OffLast(s, t)
  BY DEF OffLast, Never

LEMMA SocketAhead ==
  ASSUME TypeOK, Ahead, NEW c \in Sockets,
         Connect(c) \/ Settled(c) \/ SettledReturns(c) \/ SettledTimesOut(c) \/ Disconnect(c)
  PROVE  Ahead'
<1> USE DEF asked, run, redis, telling, history
<1>1. UNCHANGED <<recorded, redis>>
  BY DEF Connect, Settled, SettledReturns, SettledTimesOut, Open, Disconnect
<1>2. (OffsAreChannels /\ LinkLess /\ Forgotten /\ PermanentHeard)'
  BY <1>1 DEF Ahead, OffsAreChannels, LinkLess, Forgotten, PermanentHeard, Again, OnAhead, OffLast, Never
<1>3. ASSUME NEW d \in covered', NEW t \in Reads[d]
      PROVE  /\ notes'[t] = "none" /\ t \in recorded
             /\ Never(commands, t)
             /\ link # "up" \/ t \in subscribed \/ Again(commands, {t})
  <2>1. CASE d \in covered
    <3>1. t \in Channels /\ d \in Readers(t)
      BY <2>1, <1>3, CoveredRead
    <3>2. notes[t] = "none" /\ t \in recorded /\ Never(commands, t)
          /\ (link # "up" \/ t \in subscribed \/ Again(commands, {t}))
      BY <2>1, <1>3 DEF Ahead, CoveredHeard
    <3>3. notes'[t] = "none"
      <4>1. CASE Connect(c)
        BY <3>1, <3>2, <4>1 DEF Connect, Note
      <4>2. CASE Disconnect(c)
        BY <1>3, <2>1, <3>1, <3>2, <4>2 DEF Disconnect, Note
      <4>3. CASE Settled(c) \/ SettledReturns(c) \/ SettledTimesOut(c)
        BY <3>2, <4>3 DEF Settled, SettledReturns, SettledTimesOut, Open
      <4> QED
        BY <4>1, <4>2, <4>3
    <3> QED
      BY <3>2, <3>3
  <2>2. CASE d \notin covered
    <3>1. d \in Heard({c}, subscribed, commands) /\ notes' = notes
      BY <2>2, <1>3 DEF Connect, Settled, SettledReturns, SettledTimesOut, Open, Disconnect
    <3>2. t \in Channels /\ notes[t] = "none" /\ t \in subscribed /\ Never(commands, t)
      BY <3>1, <1>3, HeardIsCovered
    <3>3. t \in recorded
      BY <3>2, NotForgotten DEF Ahead, Forgotten
    <3> QED
      BY <3>1, <3>2, <3>3
  <2> QED
    BY <2>1, <2>2
<1>4. CoveredHeard'
  BY <1>1, <1>3 DEF CoveredHeard, Never, Again
<1> QED
  BY <1>2, <1>4 DEF Ahead

\* The commands Run has written are in front of the two it adds.
LEMMA ApplyWrites ==
  ASSUME TypeOK, ApplyWatches, link = "up"
  PROVE  /\ \A i \in 1 .. Len(commands) : i \in 1 .. Len(commands') /\ commands'[i] = commands[i]
         /\ \A i \in 1 .. Len(commands') :
              \/ i \in 1 .. Len(commands)
              \/ i > Len(commands) /\ commands'[i] = [on |-> TRUE, topics |-> Noted("on")]
              \/ i > Len(commands) /\ commands'[i] = [on |-> FALSE, topics |-> Noted("off")]
         /\ Noted("off") # {} =>
              /\ Len(commands') > Len(commands)
              /\ commands'[Len(commands')] = [on |-> FALSE, topics |-> Noted("off")]
<1> DEFINE w == With(commands, Listen(Noted("on")))
<1>1. commands \in Seq(Command) /\ Listen(Noted("on")) \in Command /\ Leave(Noted("off")) \in Command
  BY DEF Noted, Topics, TypeOK, Listen, Leave, Command
<1>2. /\ w \in Seq(Command) /\ Len(w) >= Len(commands)
      /\ \A i \in 1 .. Len(commands) : w[i] = commands[i]
      /\ \A i \in 1 .. Len(w) : i > Len(commands) => w[i] = Listen(Noted("on"))
  BY <1>1, WithIn
<1>3. commands' = With(w, Leave(Noted("off")))
  BY ApplyIsWith
<1> HIDE DEF w
<1>4. /\ commands' \in Seq(Command) /\ Len(commands') >= Len(w)
      /\ \A i \in 1 .. Len(w) : commands'[i] = w[i]
      /\ \A i \in 1 .. Len(commands') : i > Len(w) => commands'[i] = Leave(Noted("off"))
      /\ Leave(Noted("off")).topics # {} => Len(commands') > Len(w)
  <2> DEFINE k == Leave(Noted("off"))
  <2>1. w \in Seq(Command) /\ k \in Command
    BY <1>1, <1>2
  <2> HIDE DEF k
  <2>2. /\ With(w, k) \in Seq(Command) /\ Len(With(w, k)) >= Len(w)
        /\ \A i \in 1 .. Len(w) : With(w, k)[i] = w[i]
        /\ \A i \in 1 .. Len(With(w, k)) : i > Len(w) => With(w, k)[i] = k
        /\ k.topics # {} => Len(With(w, k)) > Len(w)
    BY ONLY <2>1, WithIn
  <2> QED
    BY <1>3, <2>2 DEF k
<1>5. Len(w) \in Nat /\ Len(commands) \in Nat /\ Len(commands') \in Nat
  BY <1>1, <1>2, <1>4
<1>6. \A i \in 1 .. Len(commands) : i \in 1 .. Len(commands') /\ commands'[i] = commands[i]
  BY <1>2, <1>4, <1>5
<1>7. \A i \in 1 .. Len(commands') :
         \/ i \in 1 .. Len(commands)
         \/ i > Len(commands) /\ commands'[i] = Listen(Noted("on"))
         \/ i > Len(commands) /\ commands'[i] = Leave(Noted("off"))
  BY <1>2, <1>4, <1>5
<1>8. Noted("off") # {} =>
        Len(commands') > Len(commands) /\ commands'[Len(commands')] = Leave(Noted("off"))
  <2> SUFFICES ASSUME Noted("off") # {}
               PROVE  Len(commands') > Len(commands) /\ commands'[Len(commands')] = Leave(Noted("off"))
    OBVIOUS
  <2>1. Len(commands') > Len(w)
    BY <1>4 DEF Leave
  <2> QED
    BY <1>2, <1>4, <1>5, <2>1
<1> QED
  BY <1>6, <1>7, <1>8 DEF Listen, Leave

LEMMA ApplyAhead == ASSUME TypeOK, Ahead, ApplyWatches PROVE Ahead'
<1> USE DEF asked, run, redis, telling, history
<1>1. UNCHANGED <<link, subscribed, covered>> /\ recorded' = (recorded \cup Noted("on")) \ Noted("off")
      /\ notes' = [t \in Channels |-> "none"] /\ (link # "up" => commands' = commands)
  BY DEF ApplyWatches, Record
<1>2. commands \in Seq(Command) /\ commands' \in Seq(Command)
  BY ApplyTypes DEF TypeOK
<1>3. \A t \in Topics : Never(commands, t) /\ t \notin Noted("off") => Never(commands', t)
  <2>1. CASE link = "up"
    BY <2>1, ApplyWrites DEF Never
  <2> QED
    BY <2>1, <1>1 DEF Never
<1>4. \A T : Again(commands, T) => Again(commands', T)
  <2>1. CASE link = "up"
    BY <2>1, ApplyWrites DEF Again
  <2> QED
    BY <2>1, <1>1 DEF Again
<1>5. OffsAreChannels'
  BY <1>3, ApartAssumption, PermanentTopics DEF Ahead, OffsAreChannels, Noted
<1>6. LinkLess'
  BY <1>1 DEF Ahead, LinkLess
<1>7. PermanentHeard'
  BY <1>1, <1>4 DEF Ahead, PermanentHeard
<1>8. ASSUME NEW t \in Channels, t \notin recorded', t \in subscribed \/ OnAhead(commands', t)
      PROVE  OffLast(commands', t)
  <2>1. link = "up"
    BY <1>1, <1>8 DEF Ahead, LinkLess, OnAhead
  <2>2. t \notin Noted("on") \/ t \in Noted("off")
    BY <1>1, <1>8
  <2>3. t \notin Noted("on")
    BY <2>2 DEF Noted
  <2>4. CASE t \in Noted("off")
    <3>1. Len(commands') \in 1 .. Len(commands')
      BY <1>2, <2>1, <2>4, ApplyWrites
    <3> QED
      BY <1>2, <2>1, <2>4, <3>1, ApplyWrites DEF OffLast
  <2>5. CASE t \notin Noted("off")
    <3>1. t \notin recorded
      BY <1>1, <1>8, <2>3, <2>5
    <3>2. OnAhead(commands', t) => OnAhead(commands, t)
      BY <2>1, <2>3, ApplyWrites DEF OnAhead
    <3>3. OffLast(commands, t)
      BY <1>8, <3>1, <3>2 DEF Ahead, Forgotten
    <3>4. PICK i \in 1 .. Len(commands) :
            /\ ~commands[i].on /\ t \in commands[i].topics
            /\ \A j \in 1 .. Len(commands) : j > i => ~(commands[j].on /\ t \in commands[j].topics)
      BY <3>3 DEF OffLast
    <3>5. i \in 1 .. Len(commands') /\ ~commands'[i].on /\ t \in commands'[i].topics
      BY <2>1, <3>4, ApplyWrites
    <3>6. \A j \in 1 .. Len(commands') : j > i => ~(commands'[j].on /\ t \in commands'[j].topics)
      BY <2>1, <2>3, <3>4, ApplyWrites
    <3> QED
      BY <3>5, <3>6 DEF OffLast
  <2> QED
    BY <2>4, <2>5
<1>9. Forgotten'
  BY <1>1, <1>8 DEF Forgotten
<1>10. ASSUME NEW c \in covered, NEW t \in Reads[c]
       PROVE  /\ notes'[t] = "none" /\ t \in recorded' /\ Never(commands', t)
              /\ link # "up" \/ t \in subscribed \/ Again(commands', {t})
  <2>1. t \in Channels
    BY CoveredRead
  <2>2. /\ notes[t] = "none" /\ t \in recorded /\ Never(commands, t)
        /\ link # "up" \/ t \in subscribed \/ Again(commands, {t})
    BY DEF Ahead, CoveredHeard
  <2>3. t \notin Noted("off")
    BY <2>2 DEF Noted
  <2> QED
    BY <1>1, <1>3, <1>4, <2>1, <2>2, <2>3 DEF Topics
<1>11. CoveredHeard'
  BY <1>1, <1>10 DEF CoveredHeard
<1> QED
  BY <1>5, <1>6, <1>7, <1>9, <1>11 DEF Ahead

\* What Execute takes from the front.
LEMMA Executed ==
  ASSUME TypeOK, Execute
  PROVE  /\ Len(commands) >= 1 /\ 1 \in 1 .. Len(commands) /\ Head(commands) = commands[1]
         /\ commands[1].on \in BOOLEAN /\ commands[1].topics \in SUBSET Topics
         /\ \A i \in 1 .. Len(commands') : i + 1 \in 1 .. Len(commands) /\ commands'[i] = commands[i + 1]
         /\ \A i \in 1 .. Len(commands) :
               i # 1 => i - 1 \in 1 .. Len(commands') /\ commands'[i - 1] = commands[i]
<1>1. commands \in Seq(Command) /\ commands # <<>> /\ commands' = Tail(commands)
  BY DEF TypeOK, Execute
<1> HIDE DEF Command
<1>2. commands[1] \in Command /\ Len(commands) >= 1 /\ Len(commands) \in Nat
  BY <1>1, TailIn
<1> QED
  BY <1>1, <1>2, TailIn DEF Command

LEMMA ExecuteAhead == ASSUME TypeOK, Ahead, Execute PROVE Ahead'
<1> USE DEF asked, run, redis, telling, history
<1>1. UNCHANGED <<link, recorded, notes>>
  BY DEF Execute
<1>2. subscribed' = IF commands[1].on THEN subscribed \cup commands[1].topics
                    ELSE subscribed \ commands[1].topics
  BY Executed DEF Execute
<1>3. \A t : Never(commands, t) => Never(commands', t)
  <2> SUFFICES ASSUME NEW t, Never(commands, t), NEW i \in 1 .. Len(commands'), t \in commands'[i].topics
               PROVE  commands'[i].on
    BY DEF Never
  <2>1. i + 1 \in 1 .. Len(commands) /\ commands'[i] = commands[i + 1]
    BY Executed
  <2> QED
    BY <2>1 DEF Never
<1>4. \A T : Again(commands, T) => Again(commands', T) \/ (commands[1].on /\ T \subseteq commands[1].topics)
  <2> SUFFICES ASSUME NEW T, NEW i \in 1 .. Len(commands), commands[i].on,
                      SessionTopic \in commands[i].topics, T \subseteq commands[i].topics
               PROVE  Again(commands', T) \/ (commands[1].on /\ T \subseteq commands[1].topics)
    BY DEF Again
  <2>1. CASE i = 1
    BY <2>1
  <2>2. CASE i # 1
    BY <2>2, Executed DEF Again
  <2> QED
    BY <2>1, <2>2
<1>5. OffsAreChannels'
  BY <1>3 DEF Ahead, OffsAreChannels
<1>6. link = "up"
  BY DEF Ahead, LinkLess, Execute
<1>7. LinkLess'
  BY <1>1, <1>6 DEF LinkLess
<1>8. PermanentHeard'
  <2>1. CASE Permanent \subseteq subscribed
    <3>1. \A t \in Permanent : t \in commands[1].topics => commands[1].on
      BY Executed DEF Ahead, OffsAreChannels, Never
    <3> QED
      BY <2>1, <3>1, <1>2 DEF PermanentHeard
  <2>2. CASE Again(commands, Permanent)
    BY <2>2, <1>2, <1>4 DEF PermanentHeard
  <2> QED
    BY <1>6, <2>1, <2>2 DEF Ahead, PermanentHeard
<1>9. \A t \in Channels \ recorded : t \in subscribed' \/ OnAhead(commands', t) => OffLast(commands', t)
  <2> SUFFICES ASSUME NEW t \in Channels \ recorded, t \in subscribed' \/ OnAhead(commands', t)
               PROVE  OffLast(commands', t)
    OBVIOUS
  <2>1. t \in subscribed \/ OnAhead(commands, t)
    <3>1. CASE OnAhead(commands', t)
      BY <3>1, Executed DEF OnAhead
    <3>2. CASE t \in subscribed'
      BY <3>2, <1>2, Executed DEF OnAhead
    <3> QED
      BY <3>1, <3>2
  <2>2. PICK i \in 1 .. Len(commands) :
          /\ ~commands[i].on /\ t \in commands[i].topics
          /\ \A j \in 1 .. Len(commands) : j > i => ~(commands[j].on /\ t \in commands[j].topics)
    BY <2>1 DEF Ahead, Forgotten, OffLast
  <2>3. i # 1
    <3>1. SUFFICES ASSUME i = 1 PROVE FALSE
      OBVIOUS
    <3>2. t \notin subscribed'
      BY <2>2, <3>1, <1>2
    <3>3. ~OnAhead(commands', t)
      BY <2>2, <3>1, Executed DEF OnAhead
    <3> QED
      BY <3>2, <3>3
  <2>4. i - 1 \in 1 .. Len(commands') /\ commands'[i - 1] = commands[i]
    BY <2>3, Executed
  <2>5. \A j \in 1 .. Len(commands') : j > i - 1 => ~(commands'[j].on /\ t \in commands'[j].topics)
    <3> SUFFICES ASSUME NEW j \in 1 .. Len(commands'), j > i - 1
                 PROVE  ~(commands'[j].on /\ t \in commands'[j].topics)
      OBVIOUS
    <3>1. j + 1 \in 1 .. Len(commands) /\ commands'[j] = commands[j + 1]
      BY Executed
    <3>2. j + 1 > i
      OBVIOUS
    <3> QED
      BY <3>1, <3>2, <2>2
  <2> QED
    BY <2>2, <2>4, <2>5 DEF OffLast
<1>10. Forgotten'
  BY <1>1, <1>9 DEF Forgotten
<1>11. ASSUME NEW c \in covered', NEW t \in Reads[c]
       PROVE  /\ notes[t] = "none" /\ t \in recorded /\ Never(commands', t)
              /\ t \in subscribed' \/ Again(commands', {t})
  <2>1. CASE c \in covered
    <3>1. /\ notes[t] = "none" /\ t \in recorded /\ Never(commands, t)
          /\ t \in subscribed \/ Again(commands, {t})
      BY <1>6, <2>1 DEF Ahead, CoveredHeard
    <3>2. t \in commands[1].topics => commands[1].on
      BY <3>1, Executed DEF Never
    <3> QED
      BY <1>2, <1>3, <1>4, <3>1, <3>2
  <2>2. CASE c \notin covered
    <3>1. c \in Heard({d \in Sockets : stage[d] = "open"}, subscribed', commands')
      BY <2>2, <1>11 DEF Execute
    <3>2. {d \in Sockets : stage[d] = "open"} \in SUBSET Sockets
      OBVIOUS
    <3>3. t \in Channels /\ notes[t] = "none" /\ t \in subscribed' /\ Never(commands', t)
      BY <3>1, <3>2, <1>11, HeardIsCovered
    <3>4. t \in recorded
      BY <3>3, <1>9, NotForgotten
    <3> QED
      BY <3>3, <3>4
  <2> QED
    BY <2>1, <2>2
<1>12. CoveredHeard'
  BY <1>1, <1>11 DEF CoveredHeard
<1> QED
  BY <1>5, <1>7, <1>8, <1>10, <1>12 DEF Ahead

LEMMA LinkAhead == ASSUME TypeOK, Ahead, Break \/ Noticed \/ Reconnect PROVE Ahead'
<1> USE DEF asked, run, redis, telling, history
<1>1. UNCHANGED <<notes, recorded, covered>>
  BY DEF Break, Noticed, Reconnect
<1>2. CASE Break \/ Noticed
  <2>1. link' # "up" /\ commands' = <<>> /\ subscribed' = {}
    BY <1>2 DEF Break, Noticed, Ahead, LinkLess
  <2>2. \A t : Never(commands', t) /\ ~OnAhead(commands', t)
    BY <2>1 DEF Never, OnAhead
  <2> QED
    BY <1>1, <2>1, <2>2 DEF Ahead, OffsAreChannels, LinkLess, Forgotten, PermanentHeard, CoveredHeard
<1>3. CASE Reconnect
  <2> DEFINE k == [on |-> TRUE, topics |-> recorded \cup Permanent]
  <2>1. commands' = <<k>> /\ link' = "up" /\ subscribed' = {}
    BY <1>3 DEF Reconnect, Ahead, LinkLess
  <2>2. Len(commands') = 1 /\ commands'[1] = k /\ 1 \in 1 .. Len(commands')
    BY <2>1
  <2>3. \A i \in 1 .. Len(commands') : commands'[i].on /\ commands'[i].topics = recorded \cup Permanent
    BY <2>2
  <2>4. \A t : Never(commands', t)
    BY <2>3 DEF Never
  <2>5. \A T : T \subseteq recorded \cup Permanent => Again(commands', T)
    BY <2>2, <2>3, SessionTopicAssumption DEF Again
  <2>6. OffsAreChannels' /\ LinkLess' /\ PermanentHeard'
    BY <2>1, <2>4, <2>5 DEF OffsAreChannels, LinkLess, PermanentHeard
  <2>7. Forgotten'
    BY <1>1, <2>1, <2>3, ApartAssumption DEF Forgotten, OnAhead
  <2>8. CoveredHeard'
    <3> SUFFICES ASSUME NEW c \in covered, NEW t \in Reads[c]
                 PROVE  /\ notes[t] = "none" /\ t \in recorded
                        /\ Never(commands', t) /\ Again(commands', {t})
      BY <1>1 DEF CoveredHeard
    <3>1. notes[t] = "none" /\ t \in recorded
      BY DEF Ahead, CoveredHeard
    <3>2. Again(commands', {t})
      BY <2>5, <3>1
    <3> QED
      BY <2>4, <3>1, <3>2
  <2> QED
    BY <2>6, <2>7, <2>8 DEF Ahead
<1> QED
  BY <1>2, <1>3

LEMMA OtherAhead ==
  ASSUME TypeOK, Ahead, UNCHANGED <<notes, recorded, link, commands, subscribed, covered>>
  PROVE  Ahead'
  BY DEF Ahead, OffsAreChannels, LinkLess, Forgotten, PermanentHeard, CoveredHeard,
         Never, Again, OnAhead, OffLast

-----------------------------------------------------------------------------
(* The resync.                                                             *)

\* What a reply tells of a loss.
Tells(r) == r = ResyncTold \/ SessionTopic \in r.topics
Asks(k)  == SessionTopic \in k.topics

LEMMA Coming ==
  /\ ResyncComing <=>
       \/ link # "up" \/ gaps > 0 \/ lost \/ announcing > 0
       \/ \E i \in 1 .. Len(commands) : Asks(commands[i])
       \/ \E i \in 1 .. Len(replies) : Tells(replies[i])
  /\ ResyncComing' <=>
       \/ link' # "up" \/ gaps' > 0 \/ lost' \/ announcing' > 0
       \/ \E i \in 1 .. Len(commands') : Asks(commands'[i])
       \/ \E i \in 1 .. Len(replies') : Tells(replies'[i])
  BY DEF ResyncComing, Asks, Tells

\* A connection that does not hear a covered socket's channel, or a permanent topic,
\* is down or subscribes everything again.
LEMMA Renewed ==
  ASSUME NEW T, link # "up" \/ Again(commands, T)
  PROVE  link # "up" \/ \E i \in 1 .. Len(commands) : Asks(commands[i])
  BY DEF Again, Asks

LEMMA QuietFollowed ==
  ASSUME LossIsFollowed, missed' \subseteq missed, link' = link, gaps' = gaps, lost' = lost,
         announcing' = announcing, commands' = commands, replies' = replies
  PROVE  LossIsFollowed'
  BY DEF LossIsFollowed, ResyncComing

LEMMA ApplyFollowed == ASSUME TypeOK, LossIsFollowed, ApplyWatches PROVE LossIsFollowed'
<1> USE DEF telling, history
<1>1. UNCHANGED <<missed, link, gaps, lost, announcing, replies>>
  BY DEF ApplyWatches
<1>2. (\E i \in 1 .. Len(commands) : Asks(commands[i])) =>
      \/ link # "up"
      \/ \E i \in 1 .. Len(commands') : Asks(commands'[i])
  BY ApplyWrites
<1> QED
  BY <1>1, <1>2, Coming DEF LossIsFollowed

LEMMA RepliesFollowed ==
  ASSUME TypeOK, LossIsFollowed, (\E t \in Topics : ConfirmedOne(t)) \/ DispatchResync \/ Resync
  PROVE  LossIsFollowed'
<1> USE DEF asked, run, redis, telling, history
<1>0. gaps \in Nat /\ replies \in Seq(Reply)
  BY DEF TypeOK
<1>1. ASSUME NEW t \in Topics, ConfirmedOne(t) PROVE LossIsFollowed'
  <2> DEFINE rest == Head(replies).topics \ {t}
  <2>1. UNCHANGED <<missed, link, lost, announcing, commands>>
    BY <1>1 DEF ConfirmedOne
  <2>2. replies # <<>> /\ t \in Head(replies).topics /\ Tail(replies) \in Seq(Reply)
        /\ replies' = IF rest = {} THEN Tail(replies) ELSE <<Confirmed(rest)>> \o Tail(replies)
    BY <1>0, <1>1 DEF ConfirmedOne
  <2>3. gaps' > 0 \/ (gaps' = gaps /\ t # SessionTopic)
    BY <1>0, <1>1 DEF ConfirmedOne, Gap
  <2>4. ASSUME NEW i \in 1 .. Len(replies), Tells(replies[i]), t # SessionTopic
        PROVE  \E j \in 1 .. Len(replies') : Tells(replies'[j])
    <3>1. CASE rest = {}
      <4>1. replies' = Tail(replies)
        BY <2>2, <3>1
      <4>2. i # 1
        BY <1>0, <2>2, <2>4, <3>1, TailIn DEF Tells, ResyncTold
      <4> HIDE DEF Reply, rest
      <4>3. i - 1 \in 1 .. Len(Tail(replies)) /\ Tail(replies)[i - 1] = replies[i]
        BY <1>0, <2>2, <4>2, TailIn
      <4> QED
        BY <2>4, <4>1, <4>3
    <3>2. CASE rest # {}
      <4>1. replies' = <<Confirmed(rest)>> \o Tail(replies)
        BY <2>2, <3>2
      <4>2. Confirmed(rest) \in Reply
        <5>1. Head(replies) \in Reply
          BY <1>0, <2>2, TailIn
        <5>2. rest \in SUBSET Topics
          BY <5>1, ReplyTopics
        <5> QED
          BY <5>2 DEF Reply
      <4>3. CASE i = 1
        <5>1. SessionTopic \in rest
          BY <1>0, <2>2, <2>4, <4>3, TailIn DEF Tells, ResyncTold
        <5>2. Tells(Confirmed(rest))
          BY <5>1 DEF Tells, Confirmed
        <5> HIDE DEF Reply, rest, Confirmed
        <5>3. 1 \in 1 .. Len(replies') /\ replies'[1] = Confirmed(rest)
          BY <2>2, <4>1, <4>2
        <5> QED
          BY <5>2, <5>3
      <4>4. CASE i # 1
        <5>1. i - 1 \in 1 .. Len(Tail(replies)) /\ Tail(replies)[i - 1] = replies[i]
          BY <1>0, <2>2, <4>4, TailIn
        <5> HIDE DEF Reply, rest, Confirmed
        <5>2. i \in 1 .. Len(replies') /\ replies'[i] = Tail(replies)[i - 1]
          BY <1>0, <2>2, <4>1, <4>2, <4>4, <5>1
        <5> QED
          BY <2>4, <5>1, <5>2
      <4> QED
        BY <4>3, <4>4
    <3> QED
      BY <3>1, <3>2
  <2> QED
    BY <2>1, <2>3, <2>4, Coming DEF LossIsFollowed
<1>2. CASE DispatchResync
  <2>1. gaps' > 0
    BY <1>0, <1>2 DEF DispatchResync
  <2> QED
    BY <2>1 DEF LossIsFollowed, ResyncComing
<1>3. CASE Resync
  BY <1>3 DEF Resync, LossIsFollowed
<1> QED
  BY <1>1, <1>2, <1>3

LEMMA PublishFollowed ==
  ASSUME TypeOK, Ahead, LossIsFollowed,
         (\E t \in Channels : PublishFails(t) \/ PassesBy(t))
         \/ AnnounceIfLost \/ (\E ok \in BOOLEAN : AnnounceEnds(ok))
  PROVE  LossIsFollowed'
<1> USE DEF asked, run, redis, telling, history
<1>1. ASSUME NEW t \in Channels, PublishFails(t) PROVE LossIsFollowed'
  BY <1>1 DEF PublishFails, LossIsFollowed, ResyncComing
<1>2. ASSUME NEW t \in Channels, PassesBy(t) PROVE LossIsFollowed'
  <2>1. UNCHANGED <<link, commands, replies, gaps, lost, announcing>>
    BY <1>2 DEF PassesBy
  <2>2. CASE missed # {}
    BY <2>1, <2>2 DEF LossIsFollowed, ResyncComing
  <2>3. ASSUME NEW c \in covered, t \in Reads[c] PROVE ResyncComing'
    <3>1. t \notin subscribed
      BY <1>2 DEF PassesBy
    <3>2. link # "up" \/ Again(commands, {t})
      BY <2>3, <3>1 DEF Ahead, CoveredHeard
    <3> QED
      BY <2>1, <3>2, Renewed, Coming
  <2>4. missed' = missed \cup {c \in covered : t \in Reads[c]}
    BY <1>2 DEF PassesBy
  <2> QED
    BY <2>2, <2>3, <2>4 DEF LossIsFollowed
<1>3. CASE AnnounceIfLost
  <2>1. announcing' > 0
    BY <1>3 DEF AnnounceIfLost, TypeOK
  <2> QED
    BY <2>1 DEF LossIsFollowed, ResyncComing
<1>4. ASSUME NEW ok \in BOOLEAN, AnnounceEnds(ok) PROVE LossIsFollowed'
  <2>1. CASE ~ok
    BY <1>4, <2>1 DEF AnnounceEnds, LossIsFollowed, ResyncComing
  <2>2. CASE ok /\ Permanent \subseteq subscribed
    <3>1. replies' = Append(replies, ResyncTold) /\ replies \in Seq(Reply)
      BY <1>4, <2>2 DEF AnnounceEnds, TypeOK
    <3>2. Len(replies) + 1 \in 1 .. Len(replies') /\ replies'[Len(replies) + 1] = ResyncTold
      BY <3>1, AppendIn DEF Reply
    <3> QED
      BY <3>2, Coming DEF LossIsFollowed, Tells
  <2>3. CASE ~(Permanent \subseteq subscribed)
    <3>1. link # "up" \/ \E i \in 1 .. Len(commands) : Asks(commands[i])
      BY <2>3, Renewed DEF Ahead, PermanentHeard
    <3>2. UNCHANGED <<link, commands>>
      BY <1>4 DEF AnnounceEnds
    <3> QED
      BY <3>1, <3>2, Coming DEF LossIsFollowed
  <2> QED
    BY <2>1, <2>2, <2>3
<1> QED
  BY <1>1, <1>2, <1>3, <1>4

LEMMA RedisFollowed ==
  ASSUME TypeOK, Ahead, LossIsFollowed, Redis \/ Break PROVE LossIsFollowed'
<1> USE DEF asked, run, redis, telling, history
<1>1. CASE Execute
  <2>1. UNCHANGED <<link, gaps, lost, announcing, missed>>
    BY <1>1 DEF Execute
  <2>2. \A i \in 1 .. Len(replies) : i \in 1 .. Len(replies') /\ replies'[i] = replies[i]
    <3>1. replies \in Seq(Reply) /\ Confirmed(commands[1].topics) \in Reply
      BY <1>1, Executed DEF TypeOK, Reply
    <3>2. replies' = replies \/ replies' = Append(replies, Confirmed(commands[1].topics))
      BY <1>1, Executed DEF Execute
    <3> QED
      BY <3>1, <3>2, AppendIn
  <2>3. ASSUME NEW i \in 1 .. Len(commands), Asks(commands[i])
        PROVE  \/ \E j \in 1 .. Len(commands') : Asks(commands'[j])
               \/ \E j \in 1 .. Len(replies') : Tells(replies'[j])
    <3>1. CASE i # 1
      BY <1>1, <2>3, <3>1, Executed
    <3>2. CASE i = 1
      <4>1. commands[1].on
        BY <2>3, <3>2, PermanentTopics, SessionTopicAssumption DEF Ahead, OffsAreChannels, Never, Asks
      <4>2. replies' = Append(replies, Confirmed(commands[1].topics))
        BY <1>1, <4>1, Executed DEF Execute
      <4>3. replies \in Seq(Reply) /\ Confirmed(commands[1].topics) \in Reply
        BY <1>1, Executed DEF TypeOK, Reply
      <4>4. Tells(Confirmed(commands[1].topics))
        BY <2>3, <3>2 DEF Asks, Tells, Confirmed
      <4> QED
        BY <4>2, <4>3, <4>4, AppendIn
    <3> QED
      BY <3>1, <3>2
  <2> QED
    BY <2>1, <2>2, <2>3, Coming DEF LossIsFollowed
<1>2. CASE Noticed \/ Break
  BY <1>2 DEF Noticed, Break, LossIsFollowed, ResyncComing
<1>3. CASE Reconnect
  <2>1. commands' = <<[on |-> TRUE, topics |-> recorded \cup Permanent]>>
    BY <1>3 DEF Reconnect
  <2>2. 1 \in 1 .. Len(commands') /\ SessionTopic \in commands'[1].topics
    BY <2>1, SessionTopicAssumption
  <2> QED
    BY <2>2, Coming DEF LossIsFollowed, Asks
<1> QED
  BY <1>1, <1>2, <1>3 DEF Redis

-----------------------------------------------------------------------------
(* Together.                                                               *)

LEMMA InitIInv == Init => IInv
<1> SUFFICES ASSUME Init PROVE IInv
  OBVIOUS
<1>1. TypeOK
  <2>1. lost \in BOOLEAN /\ wake \in BOOLEAN
    BY DEF Init
  <2>2. commands \in Seq(Command) /\ replies \in Seq(Reply)
    BY DEF Init
  <2>3. breaks \in 0 .. MaxBreaks /\ failures \in 0 .. MaxFailures
    BY BoundsAssumption DEF Init
  <2>4. missed \subseteq covered /\ covered \subseteq {c \in Sockets : stage[c] = "open"}
    BY DEF Init
  <2> QED
    BY <2>1, <2>2, <2>3, <2>4 DEF Init, TypeOK, Topics
<1>2. Ahead
  BY ApartAssumption
  DEF Init, Ahead, OffsAreChannels, LinkLess, Forgotten, PermanentHeard, CoveredHeard, Never, OnAhead
<1> QED
  BY <1>1, <1>2 DEF Init, IInv, LossIsFollowed

LEMMA NextIInv == IInv /\ [Next]_vars => IInv'
<1> SUFFICES ASSUME TypeOK, Ahead, LossIsFollowed, [Next]_vars
             PROVE  TypeOK' /\ Ahead' /\ LossIsFollowed'
  BY DEF IInv
<1> USE DEF asked, run, redis, telling, history
<1>1. ASSUME NEW c \in Sockets,
             Connect(c) \/ Settled(c) \/ SettledReturns(c) \/ SettledTimesOut(c) \/ Disconnect(c)
      PROVE  TypeOK' /\ Ahead' /\ LossIsFollowed'
  <2>1. /\ missed' \subseteq missed
        /\ UNCHANGED <<link, gaps, lost, announcing, commands, replies>>
    BY <1>1 DEF Connect, Settled, SettledReturns, SettledTimesOut, Open, Disconnect
  <2> QED
    BY <1>1, <2>1, SocketTypes, SocketAhead, QuietFollowed
<1>2. CASE ApplyWatches
  BY <1>2, ApplyTypes, ApplyAhead, ApplyFollowed
<1>3. CASE (\E t \in Topics : ConfirmedOne(t)) \/ DispatchResync \/ Resync
  <2>1. UNCHANGED <<notes, recorded, link, commands, subscribed, covered>>
    BY <1>3 DEF ConfirmedOne, DispatchResync, Resync
  <2> QED
    BY <1>3, <2>1, ReplyTypes, OtherAhead, RepliesFollowed
<1>4. CASE (\E t \in Channels : PublishFails(t) \/ PassesBy(t))
           \/ AnnounceIfLost \/ (\E ok \in BOOLEAN : AnnounceEnds(ok))
  <2>1. UNCHANGED <<notes, recorded, link, commands, subscribed, covered>>
    BY <1>4 DEF PublishFails, PassesBy, AnnounceIfLost, AnnounceEnds
  <2> QED
    BY <1>4, <2>1, PublishTypes, OtherAhead, PublishFollowed
<1>5. CASE Redis \/ Break
  <2>1. Ahead'
    BY <1>5, ExecuteAhead, LinkAhead DEF Redis
  <2> QED
    BY <1>5, <2>1, RedisTypes, RedisFollowed
<1>6. CASE UNCHANGED vars
  <2>1. TypeOK'
    BY <1>6 DEF vars, TypeOK
  <2>2. Ahead' /\ LossIsFollowed'
    BY <1>6, OtherAhead, QuietFollowed DEF vars
  <2> QED
    BY <2>1, <2>2
<1> QED
  BY <1>1, <1>2, <1>3, <1>4, <1>5, <1>6 DEF Next, Run, Announce

\* The invariant, for every size.
THEOREM BusInvariant == Spec => []IInv
  BY InitIInv, NextIInv, PTL DEF Spec

\* The types, among them that a confirmation never counts below zero.
THEOREM BusTypes == Spec => []TypeOK
  BY BusInvariant, PTL DEF IInv

\* Run, announceIfLost and recoverFromGap let no loss go untold: whichever way a frame
\* was lost, a resync is still to come.
THEOREM BusLossIsFollowed == Spec => []LossIsFollowed
  BY BusInvariant, PTL DEF IInv

-----------------------------------------------------------------------------
(* Settled, until the connection is lost for the first time.               *)

\* The confirmations to come, in their order: those of the replies r, then those the
\* commands k will have.
Owed(r, k, i, t) ==
    \/ i \in 1 .. Len(r) /\ t \in r[i].topics
    \/ i - Len(r) \in 1 .. Len(k) /\ k[i - Len(r)].on /\ t \in k[i - Len(r)].topics
Out(r, k) == {p \in Nat \X Topics : Owed(r, k, p[1], p[2])}

\* The channel t will be subscribed once the commands s have been executed.
Ends(s, now, t) ==
    \/ t \in now /\ Never(s, t)
    \/ \E i \in 1 .. Len(s) :
          /\ s[i].on /\ t \in s[i].topics
          /\ \A j \in 1 .. Len(s) : j > i /\ t \in s[j].topics => s[j].on

\* Run has heard of nobody who has not called Settled.
Known == \A c \in held \cup waiters : stage[c] # "new"

\* What a socket in the hub reads is noted, or will be subscribed; what a caller reads
\* who is held has been written.
Heading ==
    \A c \in InHub : \A t \in Reads[c] :
        /\ notes[t] # "off"
        /\ notes[t] = "on" \/ Ends(commands, subscribed, t)
        /\ c \in held => notes[t] = "none"

\* No confirmation is to come that is not counted.
Counted ==
    /\ IsFiniteSet(Out(replies, commands))
    /\ Cardinality(Out(replies, commands)) <= unconfirmed

First == link = "up" /\ Heading /\ Counted
FirstInv == Known /\ (breaks = 0 => First)

-----------------------------------------------------------------------------
(* What is to come.                                                        *)

LEMMA Reading ==
  ASSUME NEW c \in InHub, NEW t \in Reads[c]
  PROVE  c \in Sockets /\ c \in Readers(t) /\ t \in Channels /\ t \in Topics
  BY ReadsAssumption DEF Readers, InHub, Topics

\* Confirmations that each stand for another one, of the same topic, in A, are not more.
LEMMA NoMore ==
  ASSUME NEW A, IsFiniteSet(A), NEW r, NEW k, NEW h \in [Nat -> Nat],
         \A p \in Out(r, k) : <<h[p[1]], p[2]>> \in A,
         \A p, q \in Out(r, k) : h[p[1]] = h[q[1]] => p[1] = q[1]
  PROVE  IsFiniteSet(Out(r, k)) /\ Cardinality(Out(r, k)) <= Cardinality(A)
<1> DEFINE B == Out(r, k)
           g == [p \in B |-> <<h[p[1]], p[2]>>]
<1>1. g \in [B -> A]
  OBVIOUS
<1>2. ASSUME NEW p \in B, NEW q \in B, g[p] = g[q] PROVE p = q
  <2>1. p \in Nat \X Topics /\ q \in Nat \X Topics
    BY DEF Out
  <2>2. h[p[1]] = h[q[1]] /\ p[2] = q[2]
    BY <1>2
  <2>3. p[1] = q[1]
    BY <2>2
  <2> QED
    BY <2>1, <2>2, <2>3
<1>3. g \in Injection(B, A)
  BY <1>1, <1>2 DEF Injection, IsInjective
<1> QED
  BY <1>3, FS_Injection

LEMMA Fewer ==
  ASSUME NEW A, IsFiniteSet(A), NEW r, NEW k, Out(r, k) \subseteq A
  PROVE  IsFiniteSet(Out(r, k)) /\ Cardinality(Out(r, k)) <= Cardinality(A)
  BY FS_Subset

\* When nothing is to come, no subscription is under way.
LEMMA NothingOwed ==
  ASSUME NEW r \in Seq(Reply), NEW k \in Seq(Command), NEW now, NEW t \in Topics,
         IsFiniteSet(Out(r, k)), Cardinality(Out(r, k)) <= 0, Ends(k, now, t)
  PROVE  t \in now
<1>1. Out(r, k) = {}
  <2>1. Cardinality(Out(r, k)) \in Nat
    BY FS_CardinalityType
  <2>2. Cardinality(Out(r, k)) = 0
    BY <2>1
  <2> QED
    BY <2>2, FS_EmptySet
<1>2. ASSUME NEW i \in 1 .. Len(k), k[i].on, t \in k[i].topics PROVE FALSE
  <2>1. Len(r) \in Nat /\ Len(k) \in Nat
    OBVIOUS
  <2>2. i + Len(r) \in Nat /\ (i + Len(r)) - Len(r) = i
    BY <2>1
  <2>3. <<i + Len(r), t>> \in Out(r, k)
    BY <1>2, <2>2 DEF Out, Owed
  <2> QED
    BY <1>1, <2>3
<1> QED
  BY <1>2 DEF Ends

-----------------------------------------------------------------------------
(* The sockets.                                                            *)

LEMMA SocketKnown ==
  ASSUME TypeOK, Known, NEW c \in Sockets,
         Connect(c) \/ Settled(c) \/ SettledReturns(c) \/ SettledTimesOut(c) \/ Disconnect(c)
  PROVE  Known'
<1> USE DEF asked, run, redis, telling, history
<1>1. \A d \in Sockets : d # c => stage'[d] = stage[d]
  BY DEF TypeOK, Connect, Settled, SettledReturns, SettledTimesOut, Open, Disconnect
<1>2. stage'[c] # "new"
  BY DEF TypeOK, Connect, Settled, SettledReturns, SettledTimesOut, Open, Disconnect
<1>3. held' \cup waiters' \subseteq held \cup waiters \cup {c} /\ held \cup waiters \subseteq Sockets
  BY DEF TypeOK, Connect, Settled, SettledReturns, SettledTimesOut, Open, Disconnect
<1> QED
  BY <1>1, <1>2, <1>3 DEF Known

LEMMA SocketHeading ==
  ASSUME TypeOK, Known, Heading, NEW c \in Sockets,
         Connect(c) \/ Settled(c) \/ SettledReturns(c) \/ SettledTimesOut(c) \/ Disconnect(c)
  PROVE  Heading'
<1> USE DEF asked, run, redis, telling, history
<1>1. UNCHANGED <<commands, subscribed, held>>
  BY DEF Connect, Settled, SettledReturns, SettledTimesOut, Open, Disconnect
<1> SUFFICES ASSUME NEW d \in InHub', NEW t \in Reads[d]
             PROVE  /\ notes'[t] # "off"
                    /\ notes'[t] = "on" \/ Ends(commands, subscribed, t)
                    /\ d \in held => notes'[t] = "none"
  BY <1>1 DEF Heading
<1>2. d \in Sockets /\ t \in Channels
  BY ReadsAssumption DEF InHub
<1>3. CASE Connect(c)
  <2>1. notes' = [s \in Channels |-> IF s \in {x \in Reads[c] : Readers(x) = {}} THEN "on" ELSE notes[s]]
    BY <1>3 DEF Connect, Note
  <2>2. CASE t \in Reads[c] /\ Readers(t) = {}
    <3>1. d = c
      BY <1>2, <1>3, <2>2 DEF Connect, InHub, Readers, TypeOK
    <3>2. c \notin held
      BY <1>3 DEF Connect, Known
    <3> QED
      BY <1>2, <2>1, <2>2, <3>1, <3>2
  <2>3. CASE ~(t \in Reads[c] /\ Readers(t) = {})
    <3>1. notes'[t] = notes[t]
      BY <1>2, <2>1, <2>3
    <3>2. PICK e \in InHub : t \in Reads[e]
      BY <1>2, <1>3, <2>3 DEF Connect, InHub, Readers, TypeOK
    <3>3. notes[t] # "off" /\ (notes[t] = "on" \/ Ends(commands, subscribed, t))
      BY <3>2 DEF Heading
    <3>4. d \in held => d \in InHub
      BY <1>2, <1>3 DEF Connect, Known, InHub, TypeOK
    <3>5. d \in held => notes[t] = "none"
      BY <3>4 DEF Heading
    <3> QED
      BY <3>1, <3>3, <3>5
  <2> QED
    BY <2>2, <2>3
<1>4. CASE Settled(c) \/ SettledReturns(c) \/ SettledTimesOut(c)
  <2>1. notes' = notes
    BY <1>4 DEF Settled, SettledReturns, SettledTimesOut, Open
  <2>2. d \in InHub
    BY <1>2, <1>4 DEF Settled, SettledReturns, SettledTimesOut, Open, InHub, TypeOK
  <2> QED
    BY <2>1, <2>2 DEF Heading
<1>5. CASE Disconnect(c)
  <2>1. d # c /\ d \in InHub
    BY <1>2, <1>5 DEF Disconnect, InHub, TypeOK
  <2>2. Readers(t) # {c}
    BY <2>1, Reading
  <2>3. notes'[t] = notes[t]
    BY <1>2, <1>5, <2>2 DEF Disconnect, Note
  <2> QED
    BY <2>1, <2>3 DEF Heading
<1> QED
  BY <1>3, <1>4, <1>5

-----------------------------------------------------------------------------
(* Run.                                                                    *)

LEMMA ApplyListens ==
  ASSUME TypeOK, ApplyWatches, link = "up"
  PROVE  /\ \A i \in 1 .. Len(commands') :
              i > Len(commands) /\ commands'[i].on =>
                 i = Len(commands) + 1 /\ commands'[i] = Listen(Noted("on"))
         /\ Noted("on") # {} =>
              /\ Len(commands) + 1 \in 1 .. Len(commands')
              /\ commands'[Len(commands) + 1] = Listen(Noted("on"))
<1> DEFINE w == With(commands, Listen(Noted("on")))
<1>1. commands \in Seq(Command) /\ Listen(Noted("on")) \in Command /\ Leave(Noted("off")) \in Command
  BY DEF Noted, Topics, TypeOK, Listen, Leave, Command
<1>2. /\ w \in Seq(Command) /\ Len(w) >= Len(commands) /\ Len(w) <= Len(commands) + 1
      /\ \A i \in 1 .. Len(w) : i > Len(commands) => w[i] = Listen(Noted("on"))
      /\ Listen(Noted("on")).topics # {} => Len(w) > Len(commands)
  BY <1>1, WithIn
<1>3. commands' = With(w, Leave(Noted("off")))
  BY ApplyIsWith
<1> HIDE DEF w
<1>4. /\ commands' \in Seq(Command) /\ Len(commands') >= Len(w)
      /\ \A i \in 1 .. Len(w) : commands'[i] = w[i]
      /\ \A i \in 1 .. Len(commands') : i > Len(w) => commands'[i] = Leave(Noted("off"))
  <2> DEFINE k == Leave(Noted("off"))
  <2>1. w \in Seq(Command) /\ k \in Command
    BY <1>1, <1>2
  <2> HIDE DEF k
  <2>2. /\ With(w, k) \in Seq(Command) /\ Len(With(w, k)) >= Len(w)
        /\ \A i \in 1 .. Len(w) : With(w, k)[i] = w[i]
        /\ \A i \in 1 .. Len(With(w, k)) : i > Len(w) => With(w, k)[i] = k
    BY ONLY <2>1, WithIn
  <2> QED
    BY <1>3, <2>2 DEF k
<1>5. Len(w) \in Nat /\ Len(commands) \in Nat /\ Len(commands') \in Nat
  BY <1>1, <1>2, <1>4
<1>6. Listen(Noted("on")).topics = Noted("on") /\ ~Leave(Noted("off")).on
  BY DEF Listen, Leave
<1> QED
  BY <1>2, <1>4, <1>5, <1>6

LEMMA ApplyHeading == ASSUME TypeOK, Heading, link = "up", ApplyWatches PROVE Heading'
<1> USE DEF asked, run, redis, telling, history
<1>1. /\ subscribed' = subscribed /\ InHub' = InHub
      /\ notes' = [t \in Channels |-> "none"]
  BY DEF ApplyWatches, InHub
<1> SUFFICES ASSUME NEW c \in InHub, NEW t \in Reads[c] PROVE Ends(commands', subscribed, t) /\ t \in Channels
  BY <1>1 DEF Heading
<1>2. t \in Channels /\ notes[t] # "off" /\ (notes[t] = "on" \/ Ends(commands, subscribed, t))
  BY Reading DEF Heading
<1>3. t \notin Noted("off")
  BY <1>2 DEF Noted
<1>4. /\ \A i \in 1 .. Len(commands) : i \in 1 .. Len(commands') /\ commands'[i] = commands[i]
      /\ \A i \in 1 .. Len(commands') :
            i \in 1 .. Len(commands) \/ (t \in commands'[i].topics => commands'[i].on)
  BY <1>3, ApplyWrites
<1>5. CASE notes[t] = "on"
  <2>1. t \in Noted("on")
    BY <1>2, <1>5 DEF Noted
  <2>2. PICK i \in 1 .. Len(commands') : i > Len(commands) /\ commands'[i] = Listen(Noted("on"))
    BY <2>1, ApplyListens
  <2>3. \A j \in 1 .. Len(commands') : j > i => j \notin 1 .. Len(commands)
    BY <2>2
  <2> QED
    BY <1>2, <1>4, <2>1, <2>2, <2>3 DEF Ends, Listen
<1>6. CASE Ends(commands, subscribed, t)
  <2>1. CASE t \in subscribed /\ Never(commands, t)
    BY <1>2, <1>4, <2>1 DEF Ends, Never
  <2>2. CASE \E i \in 1 .. Len(commands) :
                /\ commands[i].on /\ t \in commands[i].topics
                /\ \A j \in 1 .. Len(commands) : j > i /\ t \in commands[j].topics => commands[j].on
    BY <1>2, <1>4, <2>2 DEF Ends
  <2> QED
    BY <1>6, <2>1, <2>2 DEF Ends
<1> QED
  BY <1>2, <1>5, <1>6

LEMMA ApplyCounted == ASSUME TypeOK, Counted, link = "up", ApplyWatches PROVE Counted'
<1> DEFINE On == Noted("on")
           old == Out(replies, commands)
           new == {p \in Nat \X Topics : p[1] = Len(replies) + Len(commands) + 1 /\ p[2] \in On}
<1>0. Len(replies) \in Nat /\ Len(commands) \in Nat /\ Len(commands') \in Nat
      /\ On \in SUBSET Channels /\ replies' = replies
  <2>1. replies \in Seq(Reply) /\ commands \in Seq(Command) /\ commands' \in Seq(Command)
    BY ApplyTypes DEF TypeOK
  <2>2. replies' = replies /\ On \in SUBSET Channels
    BY DEF ApplyWatches, Noted
  <2> HIDE DEF On
  <2> QED
    BY <2>1, <2>2
<1>1. IsFiniteSet(On) /\ Cardinality(On) \in Nat
  BY <1>0, FiniteAssumption, FS_Subset, FS_CardinalityType
<1>2. IsFiniteSet(new) /\ Cardinality(new) <= Cardinality(On)
  <2> DEFINE g == [p \in new |-> p[2]]
  <2>1. g \in Injection(new, On)
    BY DEF Injection, IsInjective
  <2> HIDE DEF g, new, On
  <2> QED
    BY <1>1, <2>1, FS_Injection
<1>3. Out(replies', commands') \subseteq old \cup new
  <2> SUFFICES ASSUME NEW i \in Nat, NEW t \in Topics, Owed(replies, commands', i, t)
               PROVE  Owed(replies, commands, i, t) \/ (i = Len(replies) + Len(commands) + 1 /\ t \in On)
    BY <1>0 DEF Out
  <2>1. CASE i - Len(replies) \in 1 .. Len(commands') /\ commands'[i - Len(replies)].on
             /\ t \in commands'[i - Len(replies)].topics
    <3>1. CASE i - Len(replies) \in 1 .. Len(commands)
      BY <2>1, <3>1, ApplyWrites DEF Owed
    <3>2. CASE i - Len(replies) \notin 1 .. Len(commands)
      <4>1. i - Len(replies) = Len(commands) + 1 /\ commands'[i - Len(replies)] = Listen(On)
        BY <2>1, <3>2, ApplyWrites, ApplyListens
      <4> QED
        BY <1>0, <2>1, <4>1 DEF Listen
    <3> QED
      BY <3>1, <3>2
  <2> QED
    BY <2>1 DEF Owed
<1>4. IsFiniteSet(old) /\ Cardinality(old) <= unconfirmed /\ unconfirmed \in Nat /\ Cardinality(old) \in Nat
  BY FS_CardinalityType DEF Counted, TypeOK
<1>5. IsFiniteSet(old \cup new) /\ Cardinality(old \cup new) <= unconfirmed + Cardinality(On)
  <2>1. Cardinality(old \cap new) \in Nat /\ Cardinality(new) \in Nat /\ IsFiniteSet(old \cup new)
        /\ Cardinality(old \cup new) = Cardinality(old) + Cardinality(new) - Cardinality(old \cap new)
    <3> HIDE DEF old, new
    <3>1. IsFiniteSet(old \cap new)
      <4>1. old \cap new \in SUBSET old
        OBVIOUS
      <4> QED
        BY <1>4, <4>1, FS_Subset
    <3> QED
      BY <1>2, <1>4, <3>1, FS_Union, FS_CardinalityType
  <2> HIDE DEF old, new, On
  <2> QED
    BY <1>1, <1>2, <1>4, <2>1
<1>6. unconfirmed' = unconfirmed + Cardinality(On)
  BY DEF ApplyWatches, Release, Count
<1> HIDE DEF old, new, On
<1>7. IsFiniteSet(Out(replies', commands')) /\ Cardinality(Out(replies', commands')) <= Cardinality(old \cup new)
  BY <1>3, <1>5, Fewer
<1>8. Cardinality(Out(replies', commands')) \in Nat /\ Cardinality(old \cup new) \in Nat
  BY <1>5, <1>7, FS_CardinalityType
<1> QED
  BY <1>1, <1>4, <1>5, <1>6, <1>7, <1>8 DEF Counted
\* The replies without the first.
LEMMA TailOwed ==
  ASSUME TypeOK, replies # <<>>, NEW i \in Nat, NEW t, Owed(Tail(replies), commands, i, t)
  PROVE  i + 1 # 1 /\ Owed(replies, commands, i + 1, t)
<1>1. /\ replies \in Seq(Reply) /\ Tail(replies) \in Seq(Reply)
      /\ Len(Tail(replies)) = Len(replies) - 1 /\ Len(replies) \in Nat /\ Len(commands) \in Nat
      /\ \A j \in 1 .. Len(Tail(replies)) : j + 1 \in 1 .. Len(replies) /\ Tail(replies)[j] = replies[j + 1]
  BY TailIn DEF TypeOK
<1>2. CASE i \in 1 .. Len(Tail(replies)) /\ t \in Tail(replies)[i].topics
  BY <1>1, <1>2 DEF Owed
<1>3. CASE /\ i - Len(Tail(replies)) \in 1 .. Len(commands)
           /\ commands[i - Len(Tail(replies))].on
           /\ t \in commands[i - Len(Tail(replies))].topics
  <2>1. i - Len(Tail(replies)) = (i + 1) - Len(replies)
    BY <1>1
  <2>2. i # 0
    BY <1>1, <1>3
  <2> QED
    BY <1>3, <2>1, <2>2 DEF Owed
<1> QED
  BY <1>2, <1>3 DEF Owed

LEMMA TailFewer ==
  ASSUME TypeOK, replies # <<>>, NEW A, IsFiniteSet(A),
         \A p \in Out(replies, commands) : p[1] # 1 => p \in A
  PROVE  /\ IsFiniteSet(Out(Tail(replies), commands))
         /\ Cardinality(Out(Tail(replies), commands)) <= Cardinality(A)
<1> DEFINE h == [i \in Nat |-> i + 1]
<1>1. h \in [Nat -> Nat] /\ \A i \in Nat : h[i] = i + 1
  OBVIOUS
<1>2. ASSUME NEW p \in Out(Tail(replies), commands) PROVE <<h[p[1]], p[2]>> \in A
  <2>1. p[1] \in Nat /\ p[2] \in Topics /\ Owed(Tail(replies), commands, p[1], p[2])
    BY DEF Out
  <2>2. p[1] + 1 # 1 /\ Owed(replies, commands, p[1] + 1, p[2]) /\ p[1] + 1 \in Nat
    BY <2>1, TailOwed
  <2>3. <<p[1] + 1, p[2]>> \in Out(replies, commands)
    BY <2>1, <2>2 DEF Out
  <2> QED
    BY <1>1, <2>1, <2>2, <2>3
<1>3. ASSUME NEW p \in Out(Tail(replies), commands), NEW q \in Out(Tail(replies), commands), h[p[1]] = h[q[1]]
      PROVE  p[1] = q[1]
  BY <1>1, <1>3 DEF Out
<1> HIDE DEF h
<1> QED
  BY <1>1, <1>2, <1>3, NoMore

LEMMA HeadReplaced ==
  ASSUME NEW S, NEW s \in Seq(S), s # <<>>, NEW x \in S
  PROVE  /\ Len(<<x>> \o Tail(s)) = Len(s) /\ (<<x>> \o Tail(s))[1] = x
         /\ \A i \in 1 .. Len(s) : i # 1 => (<<x>> \o Tail(s))[i] = s[i]
  OBVIOUS

LEMMA ConfirmedCounted ==
  ASSUME TypeOK, Counted, NEW t \in Topics, ConfirmedOne(t)
  PROVE  Counted'
<1> DEFINE rest == Head(replies).topics \ {t}
           old == Out(replies, commands)
           A == old \ {<<1, t>>}
<1>1. /\ replies \in Seq(Reply) /\ replies # <<>> /\ Head(replies) = replies[1] /\ 1 \in 1 .. Len(replies)
      /\ t \in replies[1].topics /\ commands' = commands
      /\ replies' = IF rest = {} THEN Tail(replies) ELSE <<Confirmed(rest)>> \o Tail(replies)
  BY TailIn DEF ConfirmedOne, TypeOK
<1>2. unconfirmed' = Off
  BY DEF ConfirmedOne, Release
<1>3. <<1, t>> \in old
  BY <1>1 DEF Out, Owed
<1>4. IsFiniteSet(A) /\ Cardinality(A) \in Nat /\ Cardinality(A) = Cardinality(old) - 1
      /\ Cardinality(old) \in Nat
  <2> HIDE DEF old
  <2>1. IsFiniteSet(old)
    BY DEF Counted, old
  <2> QED
    BY <1>3, <2>1, FS_RemoveElement, FS_CardinalityType
<1>5. Cardinality(A) <= unconfirmed'
  BY <1>2, <1>4 DEF Counted, TypeOK, Off
<1>6. IsFiniteSet(Out(replies', commands')) /\ Cardinality(Out(replies', commands')) <= Cardinality(A)
  <2>1. CASE rest = {}
    <3>1. replies' = Tail(replies) /\ replies[1].topics = {t}
      BY <1>1, <2>1
    <3>2. \A p \in old : p[1] # 1 => p \in A
      OBVIOUS
    <3> HIDE DEF A
    <3> QED
      BY <1>1, <1>4, <3>1, <3>2, TailFewer
  <2>2. CASE rest # {}
    <3>1. replies' = <<Confirmed(rest)>> \o Tail(replies)
      BY <1>1, <2>2
    <3>2. Confirmed(rest) \in Reply
      <4>1. rest \in SUBSET Topics
        BY <1>1, ReplyTopics
      <4> QED
        BY <4>1 DEF Reply
    <3> HIDE DEF Reply, rest
    <3>3. /\ Len(replies') = Len(replies) /\ replies'[1] = Confirmed(rest)
          /\ \A i \in 1 .. Len(replies) : i # 1 => replies'[i] = replies[i]
      BY <1>1, <3>1, <3>2, HeadReplaced
    <3>4. Out(replies', commands) \subseteq A
      <4> SUFFICES ASSUME NEW i \in Nat, NEW u \in Topics, Owed(replies', commands, i, u)
                   PROVE  Owed(replies, commands, i, u) /\ ~(i = 1 /\ u = t)
        BY DEF Out
      <4>1. CASE i = 1
        <5>1. ~(i - Len(replies) \in 1 .. Len(commands))
          BY <1>1, <4>1
        <5>2. u \in rest
          BY <3>3, <4>1, <5>1 DEF Owed, Confirmed
        <5> QED
          BY <1>1, <4>1, <5>2 DEF Owed, rest
      <4>2. CASE i # 1
        BY <3>3, <4>2 DEF Owed
      <4> QED
        BY <4>1, <4>2
    <3> HIDE DEF A
    <3> QED
      BY <1>1, <1>4, <3>4, Fewer
  <2> QED
    BY <2>1, <2>2
<1> HIDE DEF A
<1>7. Cardinality(Out(replies', commands')) \in Nat /\ unconfirmed' \in Nat
  BY <1>2, <1>6, FS_CardinalityType, CountsAreNumbers
<1> QED
  BY <1>4, <1>5, <1>6, <1>7 DEF Counted

LEMMA DispatchCounted == ASSUME TypeOK, Counted, DispatchResync PROVE Counted'
<1> USE DEF run
<1>1. replies # <<>> /\ replies' = Tail(replies) /\ UNCHANGED <<commands, unconfirmed>>
  BY DEF DispatchResync
<1>2. IsFiniteSet(Out(replies, commands)) /\ Cardinality(Out(replies, commands)) \in Nat
      /\ Cardinality(Out(replies, commands)) <= unconfirmed /\ unconfirmed \in Nat
  BY FS_CardinalityType DEF Counted, TypeOK
<1>3. IsFiniteSet(Out(Tail(replies), commands))
      /\ Cardinality(Out(Tail(replies), commands)) <= Cardinality(Out(replies, commands))
  BY <1>1, <1>2, TailFewer
<1>4. Cardinality(Out(Tail(replies), commands)) \in Nat
  BY <1>3, FS_CardinalityType
<1> QED
  BY <1>1, <1>2, <1>3, <1>4 DEF Counted

\* A resync among the replies confirms nothing.
LEMMA ToldCounted ==
  ASSUME TypeOK, Counted, replies' = Append(replies, ResyncTold), UNCHANGED <<commands, unconfirmed>>
  PROVE  Counted'
<1> DEFINE h == [i \in Nat |-> IF i > Len(replies) THEN i - 1 ELSE i]
           old == Out(replies, commands)
<1>1. /\ Len(replies) \in Nat /\ Len(replies') = Len(replies) + 1 /\ Len(commands) \in Nat
      /\ replies'[Len(replies) + 1].topics = {}
      /\ \A i \in 1 .. Len(replies) : replies'[i] = replies[i]
  BY DEF TypeOK, ResyncTold
<1>2. IsFiniteSet(old) /\ Cardinality(old) \in Nat /\ Cardinality(old) <= unconfirmed /\ unconfirmed \in Nat
  BY FS_CardinalityType DEF Counted, TypeOK
<1>3. h \in [Nat -> Nat]
      /\ \A i \in Nat : (i > Len(replies) => h[i] = i - 1) /\ (i <= Len(replies) => h[i] = i)
  BY <1>1
<1> HIDE DEF h
<1>4. ASSUME NEW i \in Nat, NEW t, Owed(replies', commands, i, t)
      PROVE  i # Len(replies) + 1 /\ Owed(replies, commands, h[i], t)
  <2>1. i # Len(replies) + 1
    BY <1>1, <1>4 DEF Owed
  <2>2. CASE i <= Len(replies)
    <3>1. h[i] = i /\ ~(i - Len(replies') \in 1 .. Len(commands))
      BY <1>1, <1>3, <2>2
    <3> QED
      BY <1>1, <1>4, <2>2, <3>1 DEF Owed
  <2>3. CASE i > Len(replies) + 1
    <3>0. i > Len(replies)
      BY <1>1, <2>3
    <3>1. h[i] = i - 1
      BY <1>3, <3>0
    <3>2. i - Len(replies') = (i - 1) - Len(replies) /\ ~(i \in 1 .. Len(replies'))
      BY <1>1, <2>3
    <3> QED
      BY <1>4, <3>1, <3>2 DEF Owed
  <2> QED
    BY <1>1, <2>1, <2>2, <2>3
<1>5. \A p \in Out(replies', commands) : <<h[p[1]], p[2]>> \in old /\ p[1] \in Nat /\ p[1] # Len(replies) + 1
  BY <1>3, <1>4 DEF Out
<1>6. \A p, q \in Out(replies', commands) : h[p[1]] = h[q[1]] => p[1] = q[1]
  <2> SUFFICES ASSUME NEW i \in Nat, NEW j \in Nat, i # Len(replies) + 1, j # Len(replies) + 1, h[i] = h[j]
               PROVE  i = j
    BY <1>5
  <2>1. /\ (i > Len(replies) => h[i] = i - 1) /\ (i <= Len(replies) => h[i] = i)
        /\ (j > Len(replies) => h[j] = j - 1) /\ (j <= Len(replies) => h[j] = j)
    BY <1>3
  <2> QED
    BY <1>1, <2>1
<1> HIDE DEF old
<1>7. IsFiniteSet(Out(replies', commands)) /\ Cardinality(Out(replies', commands)) <= Cardinality(old)
  BY <1>2, <1>3, <1>5, <1>6, NoMore
<1>8. Cardinality(Out(replies', commands)) \in Nat
  BY <1>7, FS_CardinalityType
<1> QED
  BY <1>2, <1>7, <1>8 DEF Counted

-----------------------------------------------------------------------------
(* Redis executes a command.                                               *)

LEMMA ExecuteCounted == ASSUME TypeOK, Counted, Execute PROVE Counted'
<1> USE DEF run
<1> DEFINE h == [i \in Nat |-> IF i > Len(replies) THEN i + 1 ELSE i]
           old == Out(replies, commands)
<1>1. /\ Len(replies) \in Nat /\ Len(commands) \in Nat /\ Len(commands') = Len(commands) - 1
      /\ replies \in Seq(Reply) /\ 1 \in 1 .. Len(commands) /\ commands[1].on \in BOOLEAN
      /\ \A j \in 1 .. Len(commands') : j + 1 \in 1 .. Len(commands) /\ commands'[j] = commands[j + 1]
  <2>1. commands \in Seq(Command) /\ replies \in Seq(Reply) /\ commands # <<>> /\ commands' = Tail(commands)
    BY DEF TypeOK, Execute
  <2> HIDE DEF Command, Reply
  <2>2. Len(replies) \in Nat /\ Len(commands) \in Nat /\ Len(commands') = Len(commands) - 1
    BY <2>1
  <2> QED
    BY <2>1, <2>2, Executed
<1>2. IsFiniteSet(old) /\ Cardinality(old) \in Nat /\ Cardinality(old) <= unconfirmed /\ unconfirmed \in Nat
      /\ unconfirmed' = unconfirmed
  BY FS_CardinalityType DEF Counted, TypeOK, Execute
<1>3. IsFiniteSet(Out(replies', commands')) /\ Cardinality(Out(replies', commands')) <= Cardinality(old)
  <2>1. CASE commands[1].on
    <3>1. /\ Len(replies') = Len(replies) + 1
          /\ replies'[Len(replies) + 1].topics = commands[1].topics
          /\ \A i \in 1 .. Len(replies) : replies'[i] = replies[i]
      <4>1. replies' = Append(replies, Confirmed(commands[1].topics))
        BY <2>1, Executed DEF Execute
      <4>2. Confirmed(commands[1].topics).topics = commands[1].topics
        BY DEF Confirmed
      <4> HIDE DEF Reply, Confirmed
      <4> QED
        BY <1>1, <4>1, <4>2
    <3>2. Out(replies', commands') \subseteq old
      <4> SUFFICES ASSUME NEW i \in Nat, NEW t, Owed(replies', commands', i, t)
                   PROVE  Owed(replies, commands, i, t)
        BY DEF Out
      <4>1. CASE i \in 1 .. Len(replies)
        BY <1>1, <3>1, <4>1 DEF Owed
      <4>2. CASE i = Len(replies) + 1
        <5>1. i - Len(replies') = 0 /\ i - Len(replies) = 1
          BY <1>1, <3>1, <4>2
        <5>2. t \in commands[1].topics
          BY <3>1, <4>2, <5>1 DEF Owed
        <5> QED
          BY <1>1, <2>1, <5>1, <5>2 DEF Owed
      <4>3. CASE i > Len(replies) + 1
        <5>1. ~(i \in 1 .. Len(replies')) /\ (i - Len(replies')) + 1 = i - Len(replies)
          BY <1>1, <3>1, <4>3
        <5>2. i - Len(replies') \in 1 .. Len(commands') /\ commands'[i - Len(replies')].on
              /\ t \in commands'[i - Len(replies')].topics
          BY <5>1 DEF Owed
        <5> QED
          BY <1>1, <5>1, <5>2 DEF Owed
      <4>4. i # 0
        BY <1>1, <3>1 DEF Owed
      <4> QED
        BY <1>1, <4>1, <4>2, <4>3, <4>4
    <3> HIDE DEF old
    <3> QED
      BY <1>2, <3>2, Fewer
  <2>2. CASE ~commands[1].on
    <3>1. replies' = replies
      BY <2>2, Executed DEF Execute
    <3>2. h \in [Nat -> Nat]
          /\ \A i \in Nat : (i > Len(replies) => h[i] = i + 1) /\ (i <= Len(replies) => h[i] = i)
      BY <1>1
    <3> HIDE DEF h
    <3>3. ASSUME NEW i \in Nat, NEW t, Owed(replies, commands', i, t)
          PROVE  Owed(replies, commands, h[i], t)
      <4>1. CASE i <= Len(replies)
        <5>1. h[i] = i /\ ~(i - Len(replies) \in 1 .. Len(commands'))
          BY <1>1, <3>2, <4>1
        <5> QED
          BY <3>3, <5>1 DEF Owed
      <4>2. CASE i > Len(replies)
        <5>0. h[i] = i + 1
          BY <3>2, <4>2
        <5>1. h[i] - Len(replies) = (i - Len(replies)) + 1 /\ ~(i \in 1 .. Len(replies))
          BY <1>1, <4>2, <5>0
        <5>2. i - Len(replies) \in 1 .. Len(commands') /\ commands'[i - Len(replies)].on
              /\ t \in commands'[i - Len(replies)].topics
          BY <3>3, <5>1 DEF Owed
        <5> QED
          BY <1>1, <5>1, <5>2 DEF Owed
      <4> QED
        BY <1>1, <4>1, <4>2
    <3>4. \A p \in Out(replies, commands') : <<h[p[1]], p[2]>> \in old
      BY <3>2, <3>3 DEF Out
    <3>5. \A p, q \in Out(replies, commands') : h[p[1]] = h[q[1]] => p[1] = q[1]
      <4> SUFFICES ASSUME NEW i \in Nat, NEW j \in Nat, h[i] = h[j] PROVE i = j
        BY DEF Out
      <4>1. /\ (i > Len(replies) => h[i] = i + 1) /\ (i <= Len(replies) => h[i] = i)
            /\ (j > Len(replies) => h[j] = j + 1) /\ (j <= Len(replies) => h[j] = j)
        BY <3>2
      <4> QED
        BY <1>1, <4>1
    <3> HIDE DEF old
    <3> QED
      BY <1>2, <3>1, <3>2, <3>4, <3>5, NoMore
  <2> QED
    BY <1>1, <2>1, <2>2
<1> HIDE DEF old
<1>4. Cardinality(Out(replies', commands')) \in Nat
  BY <1>3, FS_CardinalityType
<1> QED
  BY <1>2, <1>3, <1>4 DEF Counted

LEMMA ExecuteEnds ==
  ASSUME TypeOK, Execute, NEW t, Ends(commands, subscribed, t)
  PROVE  Ends(commands', subscribed', t)
<1>1. /\ Len(commands) \in Nat /\ 1 \in 1 .. Len(commands) /\ commands[1].on \in BOOLEAN
      /\ \A i \in 1 .. Len(commands') : i + 1 \in 1 .. Len(commands) /\ commands'[i] = commands[i + 1]
      /\ \A i \in 1 .. Len(commands) :
            i # 1 => i - 1 \in 1 .. Len(commands') /\ commands'[i - 1] = commands[i]
  BY Executed DEF TypeOK
<1>2. subscribed' = IF commands[1].on THEN subscribed \cup commands[1].topics
                    ELSE subscribed \ commands[1].topics
  BY Executed DEF Execute
<1>3. CASE t \in subscribed /\ Never(commands, t)
  <2>1. t \in subscribed'
    BY <1>1, <1>2, <1>3 DEF Never
  <2>2. Never(commands', t)
    BY <1>1, <1>3 DEF Never
  <2> QED
    BY <2>1, <2>2 DEF Ends
<1>4. ASSUME NEW i \in 1 .. Len(commands), commands[i].on, t \in commands[i].topics,
             \A j \in 1 .. Len(commands) : j > i /\ t \in commands[j].topics => commands[j].on
      PROVE  Ends(commands', subscribed', t)
  <2>1. CASE i = 1
    <3>1. t \in subscribed'
      BY <1>2, <1>4, <2>1
    <3>2. \A j \in 1 .. Len(commands') : j + 1 > i
      BY <2>1
    <3>3. Never(commands', t)
      BY <1>1, <1>4, <3>2 DEF Never
    <3> QED
      BY <3>1, <3>3 DEF Ends
  <2>2. CASE i # 1
    <3>1. i - 1 \in 1 .. Len(commands') /\ commands'[i - 1] = commands[i]
      BY <1>1, <2>2
    <3>2. \A j \in 1 .. Len(commands') : j > i - 1 => j + 1 > i
      BY <1>1
    <3> QED
      BY <1>1, <1>4, <3>1, <3>2 DEF Ends
  <2> QED
    BY <2>1, <2>2
<1> QED
  BY <1>3, <1>4 DEF Ends

-----------------------------------------------------------------------------
(* Together.                                                               *)

LEMMA InitFirst == Init => FirstInv
<1> SUFFICES ASSUME Init PROVE FirstInv
  OBVIOUS
<1>1. Out(<<>>, <<>>) = {}
  BY DEF Out, Owed
<1>2. Counted
  <2>1. replies = <<>> /\ commands = <<>> /\ unconfirmed = 0
    BY DEF Init
  <2> QED
    BY <1>1, <2>1, FS_EmptySet DEF Counted
<1>3. InHub = {}
  BY DEF Init, InHub
<1> QED
  BY <1>2, <1>3 DEF Init, FirstInv, First, Known, Heading

\* Nothing that Heading speaks of has moved.
LEMMA SameHeading ==
  ASSUME Heading, UNCHANGED <<stage, notes, commands, subscribed>>, held' \subseteq held
  PROVE  Heading'
  BY DEF Heading, InHub

LEMMA SameCounted ==
  ASSUME Counted, UNCHANGED <<replies, commands, unconfirmed>> PROVE Counted'
  BY DEF Counted

LEMMA NextFirst == TypeOK /\ FirstInv /\ [Next]_vars => FirstInv'
<1> SUFFICES ASSUME TypeOK, FirstInv, [Next]_vars PROVE Known' /\ (breaks' = 0 => First')
  BY DEF FirstInv
<1> USE DEF asked, run, redis, telling, history
<1>0. Known /\ breaks \in Nat /\ (breaks = 0 => link = "up" /\ Heading /\ Counted)
  BY DEF FirstInv, First, TypeOK
<1>1. ASSUME NEW c \in Sockets,
             Connect(c) \/ Settled(c) \/ SettledReturns(c) \/ SettledTimesOut(c) \/ Disconnect(c)
      PROVE  Known' /\ (breaks' = 0 => First')
  <2>1. UNCHANGED <<link, breaks, replies, commands, unconfirmed>>
    BY <1>1 DEF Connect, Settled, SettledReturns, SettledTimesOut, Open, Disconnect
  <2> QED
    BY <1>0, <1>1, <2>1, SocketKnown, SocketHeading, SameCounted DEF First
<1>2. CASE ApplyWatches
  <2>1. UNCHANGED <<link, breaks, stage>> /\ held' \cup waiters' \subseteq held \cup waiters
    BY <1>2 DEF ApplyWatches, Release
  <2> QED
    BY <1>0, <1>2, <2>1, ApplyHeading, ApplyCounted DEF First, Known
<1>3. ASSUME NEW t \in Topics, ConfirmedOne(t) PROVE Known' /\ (breaks' = 0 => First')
  <2>1. UNCHANGED <<link, breaks, stage, notes, waiters, commands, subscribed>> /\ held' \subseteq held
    BY <1>3 DEF ConfirmedOne, Release
  <2> QED
    BY <1>0, <1>3, <2>1, SameHeading, ConfirmedCounted DEF First, Known
<1>4. CASE DispatchResync \/ Resync
  <2>1. UNCHANGED <<link, breaks, stage, notes, waiters, held, commands, subscribed>>
    BY <1>4 DEF DispatchResync, Resync
  <2>2. Counted => Counted'
    <3>1. CASE Resync
      BY <3>1, SameCounted DEF Resync
    <3> QED
      BY <1>4, <3>1, DispatchCounted
  <2> QED
    BY <1>0, <2>1, <2>2, SameHeading DEF First, Known
<1>5. CASE (\E t \in Channels : PublishFails(t) \/ PassesBy(t))
           \/ AnnounceIfLost \/ (\E ok \in BOOLEAN : AnnounceEnds(ok))
  <2>1. UNCHANGED <<link, breaks, stage, notes, waiters, held, commands, subscribed, unconfirmed>>
        /\ (replies' = replies \/ replies' = Append(replies, ResyncTold))
    BY <1>5 DEF PublishFails, PassesBy, AnnounceIfLost, AnnounceEnds
  <2>2. Counted => Counted'
    BY <2>1, SameCounted, ToldCounted
  <2> QED
    BY <1>0, <2>1, <2>2, SameHeading DEF First, Known
<1>6. CASE Execute
  <2>1. UNCHANGED <<link, breaks, stage, notes, waiters, held>>
    BY <1>6 DEF Execute
  <2>2. Heading => Heading'
    <3>1. InHub' = InHub
      BY <2>1 DEF InHub
    <3> QED
      BY <1>6, <2>1, <3>1, ExecuteEnds DEF Heading
  <2> QED
    BY <1>0, <1>6, <2>1, <2>2, ExecuteCounted DEF First, Known
<1>7. CASE Break \/ Noticed \/ Reconnect
  <2>1. breaks' # 0 /\ UNCHANGED <<stage, waiters, held>>
    BY <1>0, <1>7 DEF Break, Noticed, Reconnect
  <2> QED
    BY <1>0, <2>1 DEF Known
<1>8. CASE UNCHANGED vars
  <2>1. UNCHANGED <<link, breaks, stage, notes, waiters, held, commands, subscribed, unconfirmed, replies>>
    BY <1>8 DEF vars
  <2> QED
    BY <1>0, <2>1, SameHeading, SameCounted DEF First, Known
<1> QED
  BY <1>1, <1>2, <1>3, <1>4, <1>5, <1>6, <1>7, <1>8 DEF Next, Run, Announce, Redis

\* Who is let go has been waited for: nothing is to come, and what it reads is subscribed.
LEMMA LetGo ==
  ASSUME TypeOK, TypeOK', FirstInv, FirstInv', [Next]_vars,
         NEW c \in released' \ released, stage[c] = "waiting", breaks = 0
  PROVE  Reads[c] \subseteq subscribed
<1> USE DEF asked, run, redis, telling, history
<1>1. ApplyWatches \/ \E t \in Topics : ConfirmedOne(t)
  BY DEF Next, Run, Announce, Redis, Connect, Settled, SettledReturns, SettledTimesOut, Open, Disconnect,
         DispatchResync, Resync, PublishFails, PassesBy, AnnounceIfLost, AnnounceEnds, Execute, Noticed,
         Reconnect, Break, vars
<1>2. /\ UNCHANGED <<stage, subscribed, breaks>> /\ unconfirmed' = 0
      /\ c \in held \/ notes' = [t \in Channels |-> "none"]
      /\ c \in held => notes' = notes \/ notes' = [t \in Channels |-> "none"]
  BY <1>1 DEF ApplyWatches, ConfirmedOne, Release
<1>3. c \in InHub /\ InHub' = InHub
  BY <1>2 DEF InHub, TypeOK
<1>4. First /\ First'
  BY <1>2 DEF FirstInv
<1> SUFFICES ASSUME NEW t \in Reads[c] PROVE t \in subscribed
  OBVIOUS
<1>5. t \in Topics /\ t \in Channels
  BY <1>3, Reading
<1>6. notes'[t] # "on"
  BY <1>2, <1>3, <1>4, <1>5 DEF First, Heading
<1>7. Ends(commands', subscribed', t)
  BY <1>3, <1>4, <1>6 DEF First, Heading
<1>8. IsFiniteSet(Out(replies', commands')) /\ Cardinality(Out(replies', commands')) <= 0
        /\ replies' \in Seq(Reply) /\ commands' \in Seq(Command)
  BY <1>2, <1>4 DEF First, Counted, TypeOK
<1>9. t \in subscribed'
  BY <1>5, <1>7, <1>8, NothingOwed
<1> QED
  BY <1>2, <1>9

\* Settled keeps its word until the first loss: a socket whose Settled returns, before the
\* connection was ever lost, has every channel it reads subscribed.
THEOREM BusSettledAtFirst == Spec => SettledAtFirst
<1>1. TypeOK /\ TypeOK' /\ FirstInv /\ FirstInv' /\ [Next]_vars =>
        [\A c \in released' \ released :
            stage[c] = "waiting" /\ breaks = 0 => Reads[c] \subseteq subscribed]_vars
  BY LetGo
<1>2. Spec => []TypeOK
  BY BusTypes
<1>3. Init => FirstInv
  BY InitFirst
<1>4. TypeOK /\ FirstInv /\ [Next]_vars => FirstInv'
  BY NextFirst
<1> QED
  BY <1>1, <1>2, <1>3, <1>4, PTL DEF Spec, SettledAtFirst
=============================================================================
