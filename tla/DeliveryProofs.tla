--------------------------- MODULE DeliveryProofs ---------------------------
(***************************************************************************)
(* Proofs about the module Delivery, for any tabs, messages, retries,      *)
(* pages and faults: a message is stored once, whoever is told of one is   *)
(* told of a stored one, and a read position only moves forward; what a    *)
(* tab shows has no hole, and in the end nothing is missing, for the tabs  *)
(* of which the code promises that; and all of it is a Log.                *)
(***************************************************************************)
EXTENDS Delivery, FiniteSetTheorems, TLAPS

USE DEF messages

\* What the arithmetic and the sequences need of the types.
Shape ==
    /\ lastSeq \in Nat \ {0}
    /\ stored \in [Msgs -> SUBSET Nat]
    /\ at \in [Requests -> {"none", "numbering", "inserting", "resolving",
                            "publishing", "marking", "answering", "done"}]
    /\ num \in [Requests -> Nat]
    /\ entry \in [Msgs -> {"unsent", "sending", "failed", "delivered"}]
    /\ list \in [Clients -> SUBSET Nat]
    /\ inbox \in [Clients -> Seq(Nat)]
    /\ fetches = [c \in Clients |-> fetches[c]]
    /\ read \in [Clients -> Nat]

\* What has been handed out is not above last_seq.
HandedOut ==
    /\ \A r \in Requests : num[r] <= lastSeq
    /\ \A m \in Msgs : \A n \in stored[m] : n <= lastSeq

\* The number an insert is about to use is nobody else's.
InsertsFresh ==
    \A r \in Requests : at[r] = "inserting" =>
        /\ \A m \in Msgs : num[r] \notin stored[m]
        /\ \A q \in Requests : at[q] = "inserting" /\ q # r => num[q] # num[r]

\* A message has one number at most, and a number one message.
OneNumber ==
    /\ \A m \in Msgs : \A i, j \in stored[m] : i = j
    /\ \A m, k \in Msgs : m # k => stored[m] \cap stored[k] = {}

\* A request goes on to the screens only with the number its message is stored under.
GoOnStored ==
    \A r \in Requests :
        /\ at[r] = "resolving" => stored[r[1]] # {}
        /\ at[r] \in {"publishing", "marking", "answering"} => num[r] \in stored[r[1]]

ReadsCapped == \A c \in Clients : read[c] <= lastSeq

Numbered == HandedOut /\ InsertsFresh /\ OneNumber /\ GoOnStored

IInv == Shape /\ Numbered /\ ToldIsStored /\ ReadsCapped

LEMMA HistoryNumbers == Shape => History \subseteq Nat
  BY DEF Shape, History, First

LEMMA Grows ==
  ASSUME NEW S, NEW f \in [S -> SUBSET Nat], NEW x \in S, NEW n \in Nat
  PROVE  [f EXCEPT ![x] = @ \cup {n}] \in [S -> SUBSET Nat]
<1>1. f[x] \cup {n} \in SUBSET Nat
  OBVIOUS
<1> QED
  BY <1>1

LEMMA RequestMsgs == \A r \in Requests : r[1] \in Msgs
  BY DEF Requests

-----------------------------------------------------------------------------
(* Inboxes.                                                                *)

LEMMA AppendIn ==
  ASSUME NEW s \in Seq(Nat), NEW x \in Nat, NEW i \in 1 .. Len(Append(s, x))
  PROVE  Append(s, x)[i] = x \/ (i \in 1 .. Len(s) /\ Append(s, x)[i] = s[i])
  OBVIOUS

LEMMA TailIn ==
  ASSUME NEW s \in Seq(Nat), s # <<>>, NEW i \in 1 .. Len(Tail(s))
  PROVE  i + 1 \in 1 .. Len(s) /\ Tail(s)[i] = s[i + 1]
  OBVIOUS

-----------------------------------------------------------------------------
(* Types.                                                                  *)

LEMMA RequestShape ==
  ASSUME Shape, Numbered, NEW r \in Requests, RequestStep(r) \/ RequestFails(r) \/ Crash(r)
  PROVE  Shape'
<1>0. r[1] \in Msgs /\ Author[r[1]] \in Clients
  BY RequestMsgs, AuthorAssumption
<1>1. CASE TakeNumber(r)
  BY <1>1 DEF TakeNumber, Goto, Shape, tab, line
<1>2. CASE Insert(r) \/ RequestFails(r)
  <2>1. stored' = stored \/ stored' = [stored EXCEPT ![r[1]] = @ \cup {num[r]}]
    BY <1>2 DEF Insert, RequestFails, Store
  <2>2. stored' \in [Msgs -> SUBSET Nat]
    <3>1. stored \in [Msgs -> SUBSET Nat] /\ num[r] \in Nat
      BY DEF Shape
    <3> QED
      BY ONLY <1>0, <2>1, <3>1, Grows
  <2>3. \E place \in {"publishing", "resolving", "done"} : at' = [at EXCEPT ![r] = place]
    BY <1>2 DEF Insert, RequestFails, Goto
  <2>4. lastSeq' \in Nat \ {0} /\ UNCHANGED <<num, entry, tab, line, read>>
    BY <1>2 DEF Insert, RequestFails, Shape
  <2> QED
    BY <2>2, <2>3, <2>4 DEF Shape, tab, line
<1>3. CASE Resolve(r)
  <2>1. (CHOOSE n \in stored[r[1]] : TRUE) \in stored[r[1]]
    BY <1>3 DEF Resolve, At, Numbered, GoOnStored
  <2>2. (CHOOSE n \in stored[r[1]] : TRUE) \in Nat
    BY <1>0, <2>1 DEF Shape
  <2> QED
    BY <1>3, <2>2 DEF Resolve, Goto, Shape, tab, line
<1>4. CASE \E missing \in SUBSET {c \in Clients : socket[c] # "down"} : Announce(r, missing)
  <2>1. num[r] \in Nat
    BY DEF Shape
  <2>2. inbox' \in [Clients -> Seq(Nat)]
    BY <1>4, <2>1 DEF Announce, Shape
  <2> QED
    BY <1>4, <2>2 DEF Announce, Goto, Shape, tab
<1>5. CASE MarkOwn(r)
  <2>1. read' = read \/ Mark(Author[r[1]], num[r])
    BY <1>5 DEF MarkOwn
  <2>2. read' \in [Clients -> Nat]
    BY <1>0, <2>1 DEF Mark, Shape
  <2> QED
    BY <1>5, <2>2 DEF MarkOwn, Goto, Shape, tab, line
<1>6. CASE Answered(r)
  <2>1. entry' = entry \/ entry' = [entry EXCEPT ![r[1]] = "delivered"]
    BY <1>6 DEF Answered
  <2>2. list' = list \/ list' = [list EXCEPT ![Author[r[1]]] = @ \cup {num[r]}]
    BY <1>6 DEF Answered
  <2>3. list' \in [Clients -> SUBSET Nat]
    <3>1. list \in [Clients -> SUBSET Nat] /\ num[r] \in Nat
      BY DEF Shape
    <3> QED
      BY ONLY <1>0, <2>2, <3>1, Grows
  <2> QED
    BY <1>6, <2>1, <2>3 DEF Answered, Goto, Shape, line
<1>7. CASE Crash(r)
  BY <1>7 DEF Crash, Goto, Shape, tab
<1> QED
  BY <1>1, <1>2, <1>3, <1>4, <1>5, <1>6, <1>7 DEF RequestStep

LEMMA AuthorShape ==
  ASSUME Shape, NEW m \in Msgs, Write(m) \/ Retry(m) \/ SendFails(m)
  PROVE  Shape'
<1>1. CASE Write(m) \/ Retry(m)
  BY <1>1 DEF Write, Retry, Post, Goto, Shape, tab, line
<1>2. CASE SendFails(m)
  BY <1>2 DEF SendFails, Shape, server, tab, line
<1> QED
  BY <1>1, <1>2

LEMMA ClientShape ==
  ASSUME Shape, ToldIsStored, NEW c \in Clients,
         TabStep(c) \/ SocketStep(c) \/ Close(c) \/ (\E n \in Numbers : MarkRead(c, n))
  PROVE  Shape'
<1>1. CASE Receive(c)
  <2>1. inbox[c] \in Seq(Nat) /\ inbox[c] # <<>>
    BY <1>1 DEF Receive, Shape
  <2>2. Head(inbox[c]) \in Nat /\ Tail(inbox[c]) \in Seq(Nat)
    BY <2>1
  <2>3. inbox' \in [Clients -> Seq(Nat)]
    BY <1>1, <2>2 DEF Receive, Shape
  <2>4. list' \in [Clients -> SUBSET Nat]
    <3>1. list' = list \/ list' = [list EXCEPT ![c] = @ \cup {Head(inbox[c])}]
      BY <1>1 DEF Receive
    <3> QED
      <4>1. list \in [Clients -> SUBSET Nat] /\ c \in Clients
        BY DEF Shape
      <4> QED
        BY ONLY <2>2, <3>1, <4>1, Grows
  <2>5. fetches' = [d \in Clients |-> fetches'[d]]
    BY <1>1 DEF Receive, StartCatchUp, Shape
  <2> QED
    BY <1>1, <2>3, <2>4, <2>5 DEF Receive, Shape, server
<1>2. CASE \E f \in fetches[c] : FetchPage(c, f)
  <2>1. fetches' = [d \in Clients |-> fetches'[d]]
    BY <1>2 DEF FetchPage, Shape
  <2> QED
    BY <1>2, <2>1 DEF FetchPage, Shape, server, line
<1>3. CASE \E f \in fetches[c] : FetchEnds(c, f)
  <2>1. PICK f \in fetches[c] : FetchEnds(c, f)
    BY <1>3
  <2>2. f.found \subseteq Nat
    BY HistoryNumbers DEF ToldIsStored
  <2>3. list' \in [Clients -> SUBSET Nat]
    BY <2>1, <2>2 DEF FetchEnds, Shape
  <2>4. fetches' = [d \in Clients |-> fetches'[d]]
    BY <2>1 DEF FetchEnds, Shape
  <2> QED
    BY <2>1, <2>3, <2>4 DEF FetchEnds, Shape, server, line
<1>4. CASE \E n \in Numbers : MarkRead(c, n)
  BY <1>4 DEF MarkRead, Mark, Capped, Numbers, First, Shape, server, tab, line
<1>5. CASE Close(c)
  BY <1>5 DEF Close, Shape, server, tab
<1>6. CASE Join(c)
  BY <1>6 DEF Join, Shape, server, tab
<1>7. CASE Ready(c)
  BY <1>7 DEF Ready, Shape, server, tab, CatchUpFrame
<1>8. CASE Resync(c)
  BY <1>8 DEF Resync, Shape, server, tab, CatchUpFrame
<1> QED
  BY <1>1, <1>2, <1>3, <1>4, <1>5, <1>6, <1>7, <1>8 DEF TabStep, SocketStep

-----------------------------------------------------------------------------
(* Numbers.                                                                *)

\* Whoever only leaves a place in deliverMessage, for one that says nothing new.
LEMMA QuietNumbers ==
  ASSUME Numbered, UNCHANGED <<lastSeq, stored, num>>,
         \A q \in Requests : \/ at'[q] = at[q]
                             \/ at'[q] \notin {"inserting", "resolving", "publishing", "marking", "answering"}
                             \/ /\ at[q] \in {"publishing", "marking"}
                                /\ at'[q] \in {"marking", "answering"}
  PROVE  Numbered'
  BY DEF Numbered, HandedOut, InsertsFresh, OneNumber, GoOnStored

LEMMA RequestNumbers ==
  ASSUME Shape, Numbered, NEW r \in Requests, RequestStep(r) \/ RequestFails(r) \/ Crash(r)
  PROVE  Numbered'
<1>0. r[1] \in Msgs
  BY RequestMsgs
<1>1. CASE TakeNumber(r)
  <2>1. /\ lastSeq' = lastSeq + 1 /\ num' = [num EXCEPT ![r] = lastSeq + 1]
        /\ at' = [at EXCEPT ![r] = "inserting"] /\ stored' = stored
        /\ lastSeq \in Nat
    BY <1>1 DEF TakeNumber, Goto, Shape
  <2>2. HandedOut'
    BY <2>1 DEF Shape, Numbered, HandedOut
  <2>3. InsertsFresh'
    BY <2>1 DEF Shape, Numbered, HandedOut, InsertsFresh
  <2>4. OneNumber' /\ GoOnStored'
    BY <2>1 DEF Shape, Numbered, OneNumber, GoOnStored
  <2> QED
    BY <2>2, <2>3, <2>4 DEF Numbered
<1>2. CASE Insert(r) \/ RequestFails(r)
  <2>0. num' = num
    BY <1>2 DEF Insert, RequestFails
  <2>1. CASE /\ at' = [at EXCEPT ![r] = "publishing"] \/ at' = [at EXCEPT ![r] = "done"]
             /\ at[r] = "inserting" /\ stored[r[1]] = {} /\ lastSeq' = lastSeq
             /\ stored' = [stored EXCEPT ![r[1]] = @ \cup {num[r]}]
    <3>1. at[r] = "inserting" /\ UNCHANGED <<lastSeq, num>>
      BY <2>0, <2>1
    <3>2. stored'[r[1]] = {num[r]} /\ \A m \in Msgs \ {r[1]} : stored'[m] = stored[m]
      BY <1>0, <2>1 DEF Shape
    <3>3. HandedOut' /\ OneNumber'
      <4>1. \A m \in Msgs : num[r] \notin stored[m]
        BY <3>1 DEF Numbered, InsertsFresh
      <4>2. HandedOut'
        BY <1>0, <3>1, <3>2 DEF Numbered, HandedOut
      <4>3. \A m \in Msgs : \A i, j \in stored'[m] : i = j
        BY <3>2 DEF Numbered, OneNumber
      <4>4. \A m, k \in Msgs : m # k => stored'[m] \cap stored'[k] = {}
        BY <3>2, <4>1 DEF Numbered, OneNumber
      <4> QED
        BY <4>2, <4>3, <4>4 DEF OneNumber
    <3>4. InsertsFresh'
      BY <1>0, <2>1, <3>1, <3>2 DEF Shape, Numbered, InsertsFresh
    <3>5. GoOnStored'
      BY <1>0, <2>1, <3>1, <3>2, RequestMsgs DEF Shape, Numbered, GoOnStored
    <3> QED
      BY <3>3, <3>4, <3>5 DEF Numbered
  <2>2. CASE at' = [at EXCEPT ![r] = "resolving"] /\ stored[r[1]] # {} /\ UNCHANGED <<lastSeq, stored>>
    <3>1. UNCHANGED <<lastSeq, num>>
      BY <2>0, <2>2
    <3> QED
      <4>1. HandedOut' /\ OneNumber'
        BY <2>2, <3>1 DEF Numbered, HandedOut, OneNumber
      <4>2. InsertsFresh' /\ GoOnStored'
        BY <2>2, <3>1 DEF Shape, Numbered, InsertsFresh, GoOnStored
      <4> QED
        BY <4>1, <4>2 DEF Numbered
  <2>3. CASE /\ at' = [at EXCEPT ![r] = "done"] /\ stored' = stored
             /\ lastSeq' = lastSeq \/ lastSeq' = lastSeq + 1
    <3>1. HandedOut'
      <4>1. lastSeq \in Nat /\ lastSeq' \in Nat /\ lastSeq <= lastSeq'
        BY <2>3 DEF Shape
      <4>2. \A q \in Requests : num[q] \in Nat
        BY DEF Shape
      <4>3. \A m \in Msgs : \A n \in stored[m] : n \in Nat
        BY DEF Shape
      <4> QED
        BY <2>0, <2>3, <4>1, <4>2, <4>3 DEF Numbered, HandedOut
    <3>2. InsertsFresh' /\ OneNumber' /\ GoOnStored'
      BY <2>0, <2>3 DEF Shape, Numbered, InsertsFresh, OneNumber, GoOnStored
    <3> QED
      BY <3>1, <3>2 DEF Numbered
  <2> QED
    BY <1>2, <2>1, <2>2, <2>3 DEF Insert, RequestFails, Store, At, Goto, Repeat
<1>3. CASE Resolve(r)
  <2> DEFINE n == CHOOSE n \in stored[r[1]] : TRUE
  <2>1. n \in stored[r[1]] /\ at[r] = "resolving"
    BY <1>3 DEF Resolve, At, Numbered, GoOnStored
  <2>2. /\ num' = [num EXCEPT ![r] = n] /\ at' = [at EXCEPT ![r] = "answering"]
        /\ UNCHANGED <<lastSeq, stored>>
    BY <1>3 DEF Resolve, Goto
  <2> HIDE DEF n
  <2>3. HandedOut' /\ InsertsFresh'
    BY <1>0, <2>1, <2>2 DEF Shape, Numbered, HandedOut, InsertsFresh
  <2>4. OneNumber' /\ GoOnStored'
    BY <2>1, <2>2 DEF Shape, Numbered, OneNumber, GoOnStored
  <2> QED
    BY <2>3, <2>4 DEF Numbered
<1>4. CASE \E missing \in SUBSET {c \in Clients : socket[c] # "down"} : Announce(r, missing)
  BY <1>4, QuietNumbers DEF Announce, At, Goto, Shape
<1>5. CASE MarkOwn(r)
  BY <1>5, QuietNumbers DEF MarkOwn, At, Goto, Shape
<1>6. CASE Answered(r)
  BY <1>6, QuietNumbers DEF Answered, Goto, Shape
<1>7. CASE Crash(r)
  BY <1>7, QuietNumbers DEF Crash, Goto, Shape
<1> QED
  BY <1>1, <1>2, <1>3, <1>4, <1>5, <1>6, <1>7 DEF RequestStep

LEMMA AuthorNumbers ==
  ASSUME Shape, Numbered, NEW m \in Msgs, Write(m) \/ Retry(m) \/ SendFails(m)
  PROVE  Numbered'
  BY QuietNumbers DEF Write, Retry, SendFails, Post, Goto, Shape, server

LEMMA ClientNumbers ==
  ASSUME Numbered, NEW c \in Clients,
         TabStep(c) \/ SocketStep(c) \/ Close(c) \/ (\E n \in Numbers : MarkRead(c, n))
  PROVE  Numbered'
<1>1. UNCHANGED server
  BY DEF TabStep, SocketStep, Close, MarkRead, Receive, FetchPage, FetchEnds, Join, Ready, Resync
<1> QED
  BY <1>1, QuietNumbers DEF server

-----------------------------------------------------------------------------
(* What the tabs are told.                                                 *)

Screens == \A c \in Clients : list[c] \subseteq History /\ \A f \in fetches[c] : f.found \subseteq History
Inboxes == \A c \in Clients : \A i \in 1 .. Len(inbox[c]) : inbox[c][i] \in History \cup {CatchUpFrame}
Bubbles == \A m \in Msgs : entry[m] = "delivered" => stored[m] # {} /\ stored[m] \subseteq list[Author[m]]

LEMMA ToldParts == ToldIsStored <=> Screens /\ Inboxes /\ Bubbles
<1>1. \A c \in Clients : list[c] \cup (UNION {f.found : f \in fetches[c]}) \subseteq History
          <=> list[c] \subseteq History /\ \A f \in fetches[c] : f.found \subseteq History
  OBVIOUS
<1> QED
  BY <1>1 DEF ToldIsStored, Screens, Inboxes, Bubbles

LEMMA ToldAfter == (Screens /\ Inboxes /\ Bubbles)' => ToldIsStored'
<1>1. \A c \in Clients : (list[c] \cup (UNION {f.found : f \in fetches[c]}) \subseteq History
          <=> list[c] \subseteq History /\ \A f \in fetches[c] : f.found \subseteq History)'
  OBVIOUS
<1> QED
  BY <1>1 DEF ToldIsStored, Screens, Inboxes, Bubbles

LEMMA QuietTold ==
  ASSUME ToldIsStored, UNCHANGED <<stored, list, fetches, inbox>>,
         \A m \in Msgs : entry'[m] = "delivered" => entry[m] = "delivered"
  PROVE  ToldIsStored'
<1>1. History' = History
  BY DEF History
<1>2. Screens' /\ Inboxes'
  BY <1>1, ToldParts DEF Screens, Inboxes
<1>3. Bubbles'
  BY ToldParts DEF Bubbles
<1> QED
  BY <1>2, <1>3, ToldAfter

\* One more frame for some tabs, of a stored message or to catch up.
LEMMA MoreFrames ==
  ASSUME Shape, Inboxes, History' = History, NEW S, NEW n \in Nat, n \in History \cup {CatchUpFrame},
         inbox' = [c \in Clients |-> IF c \in S THEN Append(inbox[c], n) ELSE inbox[c]]
  PROVE  Inboxes'
<1> SUFFICES ASSUME NEW c \in Clients, NEW i \in 1 .. Len(inbox'[c])
             PROVE  inbox'[c][i] \in History \cup {CatchUpFrame}
  BY DEF Inboxes
<1>1. inbox[c] \in Seq(Nat) /\ \A j \in 1 .. Len(inbox[c]) : inbox[c][j] \in History \cup {CatchUpFrame}
  BY DEF Shape, Inboxes
<1>2. CASE c \in S
  <2>1. inbox'[c] = Append(inbox[c], n)
    BY <1>2
  <2> QED
    BY <1>1, <2>1, AppendIn
<1>3. CASE c \notin S
  BY <1>1, <1>3
<1> QED
  BY <1>2, <1>3

LEMMA RequestTold ==
  ASSUME Shape, Numbered, ToldIsStored, NEW r \in Requests, RequestStep(r) \/ RequestFails(r) \/ Crash(r)
  PROVE  ToldIsStored'
<1>0. r[1] \in Msgs /\ Author[r[1]] \in Clients /\ num[r] \in Nat
  BY RequestMsgs, AuthorAssumption DEF Shape
<1>1. CASE TakeNumber(r) \/ Resolve(r) \/ MarkOwn(r) \/ Crash(r)
  BY <1>1, QuietTold DEF TakeNumber, Resolve, MarkOwn, Crash, tab, line
<1>2. CASE Insert(r) \/ RequestFails(r)
  <2>1. CASE stored[r[1]] = {} /\ stored' = [stored EXCEPT ![r[1]] = @ \cup {num[r]}]
    <3>1. UNCHANGED <<entry, list, fetches, inbox>>
      BY <1>2 DEF Insert, RequestFails, tab, line
    <3>2. \A m \in Msgs \ {r[1]} : stored'[m] = stored[m]
      BY <2>1 DEF Shape
    <3>3. \A m \in Msgs : stored[m] \subseteq stored'[m]
      BY <1>0, <2>1 DEF Shape
    <3>4. History \subseteq History'
      BY <3>3 DEF History
    <3>5. Screens' /\ Inboxes'
      BY <3>1, <3>4, ToldParts DEF Screens, Inboxes
    <3>6. Bubbles'
      BY <2>1, <3>1, <3>2, ToldParts DEF Bubbles
    <3> QED
      BY <3>5, <3>6, ToldAfter
  <2>2. CASE stored' = stored
    BY <1>2, <2>2, QuietTold DEF Insert, RequestFails, tab, line
  <2> QED
    BY <1>2, <2>1, <2>2 DEF Insert, RequestFails, Store, Repeat
<1>3. CASE \E missing \in SUBSET {c \in Clients : socket[c] # "down"} : Announce(r, missing)
  <2>1. PICK missing : Announce(r, missing)
    BY <1>3
  <2>2. UNCHANGED <<stored, entry, list, fetches>> /\ at[r] = "publishing"
    BY <2>1 DEF Announce, At, tab
  <2>3. History' = History
    BY <2>2 DEF History
  <2>4. num[r] \in History
    BY <1>0, <2>2 DEF Numbered, GoOnStored, History
  <2>5. inbox' = [c \in Clients |-> IF c \in {d \in Clients : ~(socket[d] = "down" \/ d \in missing)}
                                    THEN Append(inbox[c], num[r]) ELSE inbox[c]]
    BY <2>1 DEF Announce
  <2>6. Inboxes'
    BY <1>0, <2>3, <2>4, <2>5, ToldParts, MoreFrames
  <2>7. Screens' /\ Bubbles'
    BY <2>2, <2>3, ToldParts DEF Screens, Bubbles
  <2> QED
    BY <2>6, <2>7, ToldAfter
<1>4. CASE Answered(r)
  <2>1. CASE UNCHANGED <<entry, list>>
    BY <1>4, <2>1, QuietTold DEF Answered, line
  <2>2. CASE /\ entry' = [entry EXCEPT ![r[1]] = "delivered"]
             /\ list' = [list EXCEPT ![Author[r[1]]] = @ \cup {num[r]}]
    <3>1. UNCHANGED <<stored, inbox, fetches>> /\ num[r] \in stored[r[1]]
      BY <1>4 DEF Answered, At, line, Numbered, GoOnStored
    <3>2. History' = History /\ num[r] \in History
      BY <1>0, <3>1 DEF History
    <3>3. stored[r[1]] = {num[r]}
      BY <1>0, <3>1 DEF Numbered, OneNumber
    <3>4. /\ \A c \in Clients : list[c] \subseteq list'[c] /\ list'[c] \subseteq list[c] \cup {num[r]}
          /\ num[r] \in list'[Author[r[1]]]
      BY <1>0, <2>2 DEF Shape
    <3>5. Screens' /\ Inboxes'
      BY <3>1, <3>2, <3>4, ToldParts DEF Screens, Inboxes
    <3>6. Bubbles'
      <4>1. \A m \in Msgs \ {r[1]} : entry'[m] = entry[m]
        BY <2>2 DEF Shape
      <4>2. \A m \in Msgs \ {r[1]} : Bubbles /\ Author[m] \in Clients
        BY ToldParts, AuthorAssumption
      <4>3. \A m \in Msgs \ {r[1]} : entry'[m] = "delivered" =>
                stored'[m] # {} /\ stored'[m] \subseteq list'[Author[m]]
        BY <3>1, <3>4, <4>1, <4>2 DEF Bubbles
      <4>4. stored'[r[1]] # {} /\ stored'[r[1]] \subseteq list'[Author[r[1]]]
        BY <3>1, <3>3, <3>4
      <4> QED
        BY <4>3, <4>4 DEF Bubbles
    <3> QED
      BY <3>5, <3>6, ToldAfter
  <2> QED
    BY <1>4, <2>1, <2>2 DEF Answered
<1> QED
  BY <1>1, <1>2, <1>3, <1>4 DEF RequestStep

LEMMA AuthorTold ==
  ASSUME Shape, ToldIsStored, NEW m \in Msgs, Write(m) \/ Retry(m) \/ SendFails(m)
  PROVE  ToldIsStored'
  BY QuietTold DEF Write, Retry, SendFails, Post, Shape, server, tab, line

LEMMA ClientTold ==
  ASSUME Shape, ToldIsStored, NEW c \in Clients,
         TabStep(c) \/ SocketStep(c) \/ Close(c) \/ (\E n \in Numbers : MarkRead(c, n))
  PROVE  ToldIsStored'
<1>0. UNCHANGED <<stored, entry>> /\ History' = History
  BY DEF TabStep, SocketStep, Close, MarkRead, Receive, FetchPage, FetchEnds, Join, Ready, Resync,
         server, History
<1>1. CASE Receive(c)
  <2>1. inbox[c] \in Seq(Nat) /\ inbox[c] # <<>> /\ inbox' = [inbox EXCEPT ![c] = Tail(@)]
    BY <1>1 DEF Receive, Shape
  <2>2. \A i \in 1 .. Len(inbox[c]) : inbox[c][i] \in History \cup {CatchUpFrame}
    BY ToldParts DEF Inboxes
  <2>3. Head(inbox[c]) \in History \cup {CatchUpFrame}
    BY <2>1, <2>2
  <2>4. \A i \in 1 .. Len(Tail(inbox[c])) : Tail(inbox[c])[i] \in History \cup {CatchUpFrame}
    BY <2>1, <2>2, TailIn
  <2>5. Inboxes'
    BY <1>0, <2>1, <2>4, ToldParts DEF Inboxes, Shape
  <2>6. \/ UNCHANGED <<list, fetches>>
        \/ list' = [list EXCEPT ![c] = @ \cup {Head(inbox[c])}]
           /\ Head(inbox[c]) # CatchUpFrame /\ UNCHANGED fetches
        \/ StartCatchUp(c) /\ UNCHANGED list
    BY <1>1 DEF Receive
  <2>7. Screens' /\ \A d \in Clients : list[d] \subseteq list'[d]
    <3>1. CASE UNCHANGED <<list, fetches>>
      BY <1>0, <3>1, ToldParts DEF Screens
    <3>2. CASE list' = [list EXCEPT ![c] = @ \cup {Head(inbox[c])}]
               /\ Head(inbox[c]) # CatchUpFrame /\ UNCHANGED fetches
      BY <1>0, <2>3, <3>2, ToldParts DEF Screens, Shape
    <3>3. CASE StartCatchUp(c) /\ UNCHANGED list
      <4>1. \A d \in Clients : \A f \in fetches'[d] : f \in fetches[d] \/ f.found = {}
        BY <3>3 DEF StartCatchUp, Shape
      <4> QED
        BY <1>0, <3>3, <4>1, ToldParts DEF Screens
    <3> QED
      BY <2>6, <3>1, <3>2, <3>3
  <2>8. Bubbles'
    BY <1>0, <2>7, ToldParts, AuthorAssumption DEF Bubbles
  <2> QED
    BY <2>5, <2>7, <2>8, ToldAfter
<1>2. CASE \E f \in fetches[c] : FetchPage(c, f)
  <2>1. PICK f \in fetches[c] : FetchPage(c, f)
    BY <1>2
  <2>2. UNCHANGED <<list, inbox>>
    BY <2>1 DEF FetchPage, line
  <2>3. PageAfter(f.after) \subseteq History
    BY DEF PageAfter, After
  <2> DEFINE full == Cardinality(PageAfter(f.after)) = Page
             next == [after |-> IF full THEN Largest(PageAfter(f.after)) ELSE f.after,
                      found |-> f.found \cup PageAfter(f.after),
                      full  |-> full]
  <2>4. fetches' = [fetches EXCEPT ![c] = (@ \ {f}) \cup {next}]
    BY <2>1 DEF FetchPage
  <2>5. next.found = f.found \cup PageAfter(f.after)
    OBVIOUS
  <2> HIDE DEF next
  <2>6. \A d \in Clients : \A g \in fetches'[d] :
            g \in fetches[d] \/ g.found = f.found \cup PageAfter(f.after)
    BY <2>4, <2>5 DEF Shape
  <2>7. Screens'
    BY <1>0, <2>2, <2>3, <2>6, ToldParts DEF Screens
  <2>8. Inboxes' /\ Bubbles'
    BY <1>0, <2>2, ToldParts DEF Inboxes, Bubbles
  <2> QED
    BY <2>7, <2>8, ToldAfter
<1>3. CASE \E f \in fetches[c] : FetchEnds(c, f)
  <2>1. PICK f \in fetches[c] : FetchEnds(c, f)
    BY <1>3
  <2>2. UNCHANGED inbox /\ \A d \in Clients : fetches'[d] \subseteq fetches[d]
    BY <2>1 DEF FetchEnds, line, Shape
  <2>3. f.found \subseteq History
    BY ToldParts DEF Screens
  <2>4. \A d \in Clients : /\ list[d] \subseteq list'[d]
                           /\ \A n \in list'[d] : n \in list[d] \/ n \in f.found
    BY <2>1 DEF FetchEnds, Shape
  <2>5. Screens'
    BY <1>0, <2>2, <2>3, <2>4, ToldParts DEF Screens
  <2>6. Inboxes' /\ Bubbles'
    BY <1>0, <2>2, <2>4, ToldParts, AuthorAssumption DEF Inboxes, Bubbles
  <2> QED
    BY <2>5, <2>6, ToldAfter
<1>4. CASE Join(c) \/ (\E n \in Numbers : MarkRead(c, n))
  BY <1>0, <1>4, QuietTold DEF Join, MarkRead, tab, line
<1>5. CASE Close(c) \/ Ready(c) \/ Resync(c)
  <2>1. UNCHANGED <<list, fetches>>
    BY <1>5 DEF Close, Ready, Resync, tab
  <2>2. Screens' /\ Bubbles'
    BY <1>0, <2>1, ToldParts DEF Screens, Bubbles
  <2>3. CASE Ready(c) \/ Resync(c)
    <3>1. inbox' = [d \in Clients |-> IF d \in {c} THEN Append(inbox[d], CatchUpFrame) ELSE inbox[d]]
      BY <2>3 DEF Ready, Resync, Shape
    <3>2. Inboxes'
      BY <1>0, <3>1, ToldParts, MoreFrames DEF CatchUpFrame
    <3> QED
      BY <2>2, <3>2, ToldAfter
  <2>4. CASE Close(c)
    <3>1. \A d \in Clients : inbox'[d] = IF d = c THEN <<>> ELSE inbox[d]
      BY <2>4 DEF Close, Shape
    <3>2. Inboxes'
      BY <1>0, <3>1, ToldParts DEF Inboxes
    <3> QED
      BY <2>2, <3>2, ToldAfter
  <2> QED
    BY <1>5, <2>3, <2>4
<1> QED
  BY <1>1, <1>2, <1>3, <1>4, <1>5 DEF TabStep, SocketStep

-----------------------------------------------------------------------------
(* Read positions.                                                         *)

LEMMA ReadsStep ==
  ASSUME Shape, Numbered, ReadsCapped, [Next]_vars
  PROVE  ReadsCapped' /\ \A c \in Clients : read[c] <= read'[c] /\ read'[c] <= lastSeq'
<1>1. lastSeq \in Nat /\ lastSeq' \in Nat /\ lastSeq <= lastSeq'
  <2>1. ASSUME NEW r \in Requests, RequestStep(r) \/ RequestFails(r) \/ Crash(r)
        PROVE  lastSeq' = lastSeq \/ lastSeq' = lastSeq + 1
    BY <2>1 DEF RequestStep, RequestFails, TakeNumber, Insert, Resolve, Announce, MarkOwn, Answered, Crash
  <2>2. ASSUME NEW m \in Msgs, Write(m) \/ Retry(m) \/ SendFails(m)
        PROVE  lastSeq' = lastSeq
    BY <2>2 DEF Write, Retry, Post, SendFails, server
  <2>3. ASSUME NEW c \in Clients,
               TabStep(c) \/ SocketStep(c) \/ Close(c) \/ (\E n \in Numbers : MarkRead(c, n))
        PROVE  lastSeq' = lastSeq
    BY <2>3 DEF TabStep, SocketStep, Receive, FetchPage, FetchEnds, Join, Ready, Resync, Close,
                MarkRead, server
  <2>4. lastSeq' = lastSeq \/ lastSeq' = lastSeq + 1
    BY <2>1, <2>2, <2>3 DEF Next, vars, server
  <2> QED
    BY <2>4 DEF Shape
<1>2. \/ read' = read
      \/ \E c \in Clients, n \in Nat : Mark(c, n) /\ n <= lastSeq
  <2>1. ASSUME NEW r \in Requests, MarkOwn(r)
        PROVE  read' = read \/ \E c \in Clients, n \in Nat : Mark(c, n) /\ n <= lastSeq
    BY <2>1, RequestMsgs, AuthorAssumption DEF MarkOwn, Shape, Numbered, HandedOut
  <2>2. ASSUME NEW c \in Clients, NEW n \in Numbers, MarkRead(c, n)
        PROVE  \E d \in Clients, k \in Nat : Mark(d, k) /\ k <= lastSeq
    <3>1. Capped(n) \in Nat /\ Capped(n) <= lastSeq
      BY <1>1 DEF Capped, Numbers, First
    <3> QED
      BY <2>2, <3>1 DEF MarkRead
  <2> QED
    BY <2>1, <2>2
    DEF Next, RequestStep, RequestFails, TabStep, SocketStep, TakeNumber, Insert, Resolve, Announce, Answered,
        Crash, Write, Retry, Post, SendFails, Receive, FetchPage, FetchEnds, Join, Ready, Resync,
        Close, vars
<1>3. CASE read' = read
  <2>1. \A c \in Clients : read'[c] = read[c] /\ read[c] \in Nat /\ read[c] <= lastSeq
    BY <1>3 DEF ReadsCapped, Shape
  <2> QED
    BY <1>1, <2>1 DEF ReadsCapped
<1>4. ASSUME NEW c \in Clients, NEW n \in Nat, Mark(c, n), n <= lastSeq
      PROVE  ReadsCapped' /\ \A d \in Clients : read[d] <= read'[d] /\ read'[d] <= lastSeq'
  <2>1. \A d \in Clients : /\ read[d] \in Nat /\ read'[d] \in Nat
                           /\ read[d] <= read'[d] /\ read'[d] <= lastSeq
    BY <1>1, <1>4 DEF ReadsCapped, Shape, Mark
  <2> QED
    BY <1>1, <2>1 DEF ReadsCapped
<1> QED
  BY <1>2, <1>3, <1>4

-----------------------------------------------------------------------------
(* The theorems.                                                           *)

LEMMA InitIInv == Init => IInv
<1> SUFFICES ASSUME Init PROVE IInv
  OBVIOUS
<1>1. Shape
  BY DEF Init, Shape, First, NoNumber
<1>2. Numbered
  BY DEF Init, Numbered, HandedOut, InsertsFresh, OneNumber, GoOnStored, First, NoNumber
<1>3. Screens /\ Inboxes /\ Bubbles
  BY DEF Init, Screens, Inboxes, Bubbles, History
<1>4. ReadsCapped
  BY DEF Init, ReadsCapped, First
<1> QED
  BY <1>1, <1>2, <1>3, <1>4, ToldParts DEF IInv

LEMMA NextIInv == IInv /\ [Next]_vars => IInv'
<1> SUFFICES ASSUME IInv, [Next]_vars PROVE IInv'
  OBVIOUS
<1>1. Shape /\ Numbered /\ ToldIsStored /\ ReadsCapped
  BY DEF IInv
<1>2. ReadsCapped'
  BY <1>1, ReadsStep
<1>3. CASE UNCHANGED vars
  <2>1. Shape' /\ Numbered'
    BY <1>1, <1>3, QuietNumbers DEF vars, server, tab, line, Shape
  <2>2. ToldIsStored'
    BY <1>1, <1>3, QuietTold DEF vars, server, tab, line
  <2> QED
    BY <1>2, <2>1, <2>2 DEF IInv
<1>4. ASSUME NEW r \in Requests, RequestStep(r) \/ RequestFails(r) \/ Crash(r) PROVE IInv'
  BY <1>1, <1>2, <1>4, RequestShape, RequestNumbers, RequestTold DEF IInv
<1>5. ASSUME NEW m \in Msgs, Write(m) \/ Retry(m) \/ SendFails(m) PROVE IInv'
  BY <1>1, <1>2, <1>5, AuthorShape, AuthorNumbers, AuthorTold DEF IInv
<1>6. ASSUME NEW c \in Clients,
             TabStep(c) \/ SocketStep(c) \/ Close(c) \/ (\E n \in Numbers : MarkRead(c, n))
      PROVE  IInv'
  BY <1>1, <1>2, <1>6, ClientShape, ClientNumbers, ClientTold DEF IInv
<1> QED
  BY <1>3, <1>4, <1>5, <1>6 DEF Next

\* The invariant, for every size.
THEOREM DeliveryInvariant == Spec => []IInv
  BY InitIInv, NextIInv, PTL DEF Spec

LEMMA OneNumberOnce == Shape /\ OneNumber => StoredOnce
<1> SUFFICES ASSUME Shape, OneNumber, NEW m \in Msgs PROVE Cardinality(stored[m]) <= 1
  BY DEF StoredOnce, OneNumber
<1>1. CASE stored[m] = {}
  BY <1>1, FS_EmptySet
<1>2. CASE stored[m] # {}
  <2>1. PICK n \in stored[m] : stored[m] = {n}
    BY <1>2 DEF OneNumber
  <2> QED
    BY <2>1, FS_Singleton
<1> QED
  BY <1>1, <1>2

\* Two requests with the same client_msg_id store one message, and two messages never
\* share a number.
THEOREM DeliveryStoresOnce == Spec => []StoredOnce
<1>1. IInv => StoredOnce
  BY OneNumberOnce DEF IInv, Numbered
<1> QED
  BY <1>1, DeliveryInvariant, PTL

\* Persist first, then broadcast.
THEOREM DeliveryToldIsStored == Spec => []ToldIsStored
  BY DeliveryInvariant, PTL DEF IInv

\* mark takes the greater of two positions, whoever asks and however late.
THEOREM DeliveryReadMovesForward == Spec => ReadMovesForward
<1>1. IInv /\ [Next]_vars => [\A c \in Clients : read[c] <= read'[c] /\ read'[c] <= lastSeq']_vars
  BY ReadsStep DEF IInv
<1> QED
  BY <1>1, DeliveryInvariant, PTL DEF Spec, ReadMovesForward
-----------------------------------------------------------------------------
(* What all tabs have in common, beyond IInv.                              *)

\* A message is tried so far and no further.
Unsent ==
    /\ tries \in [Msgs -> Nat] /\ \A m \in Msgs : tries[m] <= MaxTries[m]
    /\ \A m \in Msgs : \A t \in 1 .. MaxTries[m] : t > tries[m] => at[<<m, t>>] = "none"

Sockets ==
    /\ socket \in [Clients -> {"down", "joining", "up"}]
    /\ owed \in SUBSET Clients

\* Number 1 is older than all that is written.
AfterFirst ==
    /\ \A m \in Msgs : \A n \in stored[m] : First < n
    /\ \A r \in Requests : at[r] = "inserting" => First < num[r]

\* A catch-up starts after a message of the channel and goes on after one.
Catching ==
    \A c \in Clients :
        /\ First \in list[c]
        /\ \A f \in fetches[c] :
            /\ f \in [after : Nat, found : SUBSET Nat, full : BOOLEAN]
            /\ f.after \in History

\* What is noted of the numbers is noted of stored ones.
Noted == untold \cup late \subseteq History

Follows == Unsent /\ Sockets /\ AfterFirst /\ Catching /\ Noted

\* What a step does to the requests.
LEMMA RequestMoves ==
  ASSUME Shape, NEW r \in Requests, RequestStep(r) \/ RequestFails(r) \/ Crash(r)
  PROVE  /\ at[r] # "none" /\ tries' = tries
         /\ \E place \in {"inserting", "resolving", "publishing", "marking", "answering", "done"} :
               /\ at' = [at EXCEPT ![r] = place]
               /\ place = "inserting" <=> TakeNumber(r)
               /\ place = "publishing" => Insert(r) /\ at[r] = "inserting"
         /\ ~TakeNumber(r) => \/ lastSeq' = lastSeq
                              \/ lastSeq' = lastSeq + 1 /\ at[r] = "numbering" /\ at' = [at EXCEPT ![r] = "done"]
<1>1. CASE TakeNumber(r)
  BY <1>1 DEF TakeNumber, At, Goto
<1>2. CASE Insert(r)
  BY <1>2 DEF Insert, At, Goto, TakeNumber
<1>3. CASE Resolve(r)
  BY <1>3 DEF Resolve, At, Goto, TakeNumber
<1>4. CASE \E missing \in SUBSET {c \in Clients : socket[c] # "down"} : Announce(r, missing)
  BY <1>4 DEF Announce, At, Goto, TakeNumber
<1>5. CASE MarkOwn(r)
  BY <1>5 DEF MarkOwn, At, Goto, TakeNumber
<1>6. CASE Answered(r)
  BY <1>6 DEF Answered, At, Goto, TakeNumber
<1>7. CASE Crash(r)
  BY <1>7 DEF Crash, At, Goto, TakeNumber
<1>8. CASE RequestFails(r)
  BY <1>8 DEF RequestFails, At, Goto, TakeNumber, Shape
<1> QED
  BY <1>1, <1>2, <1>3, <1>4, <1>5, <1>6, <1>7, <1>8 DEF RequestStep

LEMMA ClientMoves ==
  ASSUME NEW c \in Clients,
         TabStep(c) \/ SocketStep(c) \/ Close(c) \/ (\E n \in Numbers : MarkRead(c, n))
  PROVE  UNCHANGED <<server, entry, tries>> /\ History' = History
  BY DEF TabStep, SocketStep, Close, MarkRead, Receive, FetchPage, FetchEnds, Join, Ready, Resync,
         server, History

LEMMA AuthorMoves ==
  ASSUME Shape, Unsent, NEW m \in Msgs, Write(m) \/ Retry(m) \/ SendFails(m)
  PROVE  /\ UNCHANGED <<lastSeq, messages, num, tab, line, read>> /\ History' = History
         /\ \/ UNCHANGED <<at, tries>>
            \/ /\ tries[m] + 1 \in 1 .. MaxTries[m] /\ <<m, tries[m] + 1>> \in Requests
               /\ at[<<m, tries[m] + 1>>] = "none"
               /\ at' = [at EXCEPT ![<<m, tries[m] + 1>>] = "numbering"]
               /\ tries' = [tries EXCEPT ![m] = @ + 1]
<1>1. UNCHANGED <<lastSeq, messages, num, tab, line, read>> /\ History' = History
  BY DEF Write, Retry, SendFails, Post, server, History
<1>2. CASE SendFails(m)
  BY <1>1, <1>2 DEF SendFails, server
<1>3. CASE Post(m)
  <2>1. tries[m] \in Nat /\ MaxTries[m] \in Nat /\ tries[m] < MaxTries[m]
    BY <1>3, BoundsAssumption DEF Post, Unsent
  <2>2. tries[m] + 1 \in 1 .. MaxTries[m] /\ tries[m] + 1 > tries[m]
    BY <2>1
  <2>3. <<m, tries[m] + 1>> \in Requests
    BY <2>2 DEF Requests
  <2>4. at[<<m, tries[m] + 1>>] = "none"
    BY <2>2 DEF Unsent
  <2> QED
    BY <1>1, <1>3, <2>2, <2>3, <2>4 DEF Post, Goto
<1> QED
  BY <1>2, <1>3 DEF Write, Retry

LEMMA UnsentStep ==
  ASSUME Shape, Unsent, [Next]_vars
  PROVE  Unsent'
<1>1. ASSUME NEW r \in Requests, RequestStep(r) \/ RequestFails(r) \/ Crash(r) PROVE Unsent'
  <2>1. \A m \in Msgs : \A t \in 1 .. MaxTries[m] : <<m, t>> \in Requests
    BY DEF Requests
  <2>2. \A q \in Requests : at[q] = "none" => at'[q] = "none"
    BY <1>1, RequestMoves DEF Shape
  <2>3. tries' = tries
    BY <1>1, RequestMoves
  <2> QED
    BY <2>1, <2>2, <2>3 DEF Unsent
<1>2. ASSUME NEW m \in Msgs, Write(m) \/ Retry(m) \/ SendFails(m) PROVE Unsent'
  <2>1. CASE UNCHANGED <<at, tries>>
    BY <2>1 DEF Unsent
  <2>2. CASE /\ tries[m] + 1 \in 1 .. MaxTries[m] /\ <<m, tries[m] + 1>> \in Requests
             /\ at' = [at EXCEPT ![<<m, tries[m] + 1>>] = "numbering"]
             /\ tries' = [tries EXCEPT ![m] = @ + 1]
    <3>1. tries' \in [Msgs -> Nat] /\ \A k \in Msgs : tries'[k] <= MaxTries[k]
      BY <2>2 DEF Unsent
    <3>2. ASSUME NEW k \in Msgs, NEW t \in 1 .. MaxTries[k], t > tries'[k]
          PROVE  at'[<<k, t>>] = "none"
      <4>1. tries'[k] = (IF k = m THEN tries[k] + 1 ELSE tries[k]) /\ tries[k] \in Nat
        BY <2>2 DEF Unsent
      <4>2. t > tries[k] /\ <<k, t>> # <<m, tries[m] + 1>>
        BY <3>2, <4>1
      <4>3. <<k, t>> \in Requests
        BY DEF Requests
      <4> QED
        BY <2>2, <4>2, <4>3 DEF Unsent, Shape
    <3> QED
      BY <3>1, <3>2 DEF Unsent
  <2> QED
    BY <1>2, <2>1, <2>2, AuthorMoves
<1>3. ASSUME NEW c \in Clients,
             TabStep(c) \/ SocketStep(c) \/ Close(c) \/ (\E n \in Numbers : MarkRead(c, n))
      PROVE  Unsent'
  BY <1>3, ClientMoves DEF Unsent, server
<1>4. CASE UNCHANGED vars
  BY <1>4 DEF vars, server, Unsent
<1> QED
  BY <1>1, <1>2, <1>3, <1>4 DEF Next

LEMMA SocketsStep ==
  ASSUME Shape, Sockets, [Next]_vars
  PROVE  Sockets'
<1>1. ASSUME NEW r \in Requests, RequestStep(r) \/ RequestFails(r) \/ Crash(r) PROVE Sockets'
  BY <1>1 DEF RequestStep, RequestFails, TakeNumber, Insert, Resolve, Announce, MarkOwn, Answered, Crash, Sockets, line
<1>2. ASSUME NEW m \in Msgs, Write(m) \/ Retry(m) \/ SendFails(m) PROVE Sockets'
  BY <1>2 DEF Write, Retry, SendFails, Post, Sockets, line
<1>3. ASSUME NEW c \in Clients,
             TabStep(c) \/ SocketStep(c) \/ Close(c) \/ (\E n \in Numbers : MarkRead(c, n))
      PROVE  Sockets'
  BY <1>3 DEF TabStep, SocketStep, Receive, FetchPage, FetchEnds, Join, Ready, Resync, Close,
              MarkRead, Sockets, line
<1>4. CASE UNCHANGED vars
  BY <1>4 DEF vars, line, Sockets
<1> QED
  BY <1>1, <1>2, <1>3, <1>4 DEF Next

LEMMA AfterFirstStep ==
  ASSUME Shape, Unsent, AfterFirst, [Next]_vars
  PROVE  AfterFirst'
<1>1. ASSUME NEW r \in Requests, RequestStep(r) \/ RequestFails(r) \/ Crash(r) PROVE AfterFirst'
  <2>0. r[1] \in Msgs /\ lastSeq \in Nat \ {0}
    BY RequestMsgs DEF Shape
  <2>1. CASE TakeNumber(r)
    BY <2>0, <2>1 DEF TakeNumber, Goto, AfterFirst, Shape, First
  <2>2. CASE Insert(r) \/ RequestFails(r)
    <3>1. num' = num /\ \A q \in Requests : at'[q] = "inserting" => at[q] = "inserting"
      BY <2>2 DEF Insert, RequestFails, Goto, Shape
    <3>2. \/ stored' = stored
          \/ at[r] = "inserting" /\ stored' = [stored EXCEPT ![r[1]] = @ \cup {num[r]}]
      BY <2>2 DEF Insert, RequestFails, Store, At
    <3>3. at[r] = "inserting" => First < num[r]
      BY DEF AfterFirst
    <3> QED
      <4>1. \A m \in Msgs : \A n \in stored'[m] : n \in stored[m] \/ (at[r] = "inserting" /\ n = num[r])
        <5>1. CASE stored' = stored
          BY <5>1
        <5>2. CASE at[r] = "inserting" /\ stored' = [stored EXCEPT ![r[1]] = @ \cup {num[r]}]
          BY <5>2 DEF Shape
        <5> QED
          BY <3>2, <5>1, <5>2
      <4>2. \A m \in Msgs : \A n \in stored'[m] : First < n
        BY <3>3, <4>1 DEF AfterFirst
      <4> QED
        BY <3>1, <4>2 DEF AfterFirst
  <2>3. CASE Resolve(r)
    BY <2>3 DEF Resolve, At, Goto, AfterFirst, Shape
  <2>4. CASE ~TakeNumber(r) /\ ~Insert(r) /\ ~RequestFails(r) /\ ~Resolve(r)
    <3>1. UNCHANGED <<stored, num>>
      BY <1>1, <2>4 DEF RequestStep, Announce, MarkOwn, Answered, Crash
    <3>2. \A q \in Requests : at'[q] = "inserting" => at[q] = "inserting"
      BY <1>1, <2>4, RequestMoves DEF Shape
    <3> QED
      BY <3>1, <3>2 DEF AfterFirst
  <2> QED
    BY <2>1, <2>2, <2>3, <2>4
<1>2. ASSUME NEW m \in Msgs, Write(m) \/ Retry(m) \/ SendFails(m) PROVE AfterFirst'
  BY <1>2, AuthorMoves DEF AfterFirst, Shape
<1>3. ASSUME NEW c \in Clients,
             TabStep(c) \/ SocketStep(c) \/ Close(c) \/ (\E n \in Numbers : MarkRead(c, n))
      PROVE  AfterFirst'
  BY <1>3, ClientMoves DEF AfterFirst, server
<1>4. CASE UNCHANGED vars
  BY <1>4 DEF vars, server, AfterFirst
<1> QED
  BY <1>1, <1>2, <1>3, <1>4 DEF Next

-----------------------------------------------------------------------------
(* Sets of numbers, without induction: the numbers not above some member   *)
(* of a bounded set are an interval, as they are as many as one.           *)

LEMMA LargestIs ==
  ASSUME NEW S \in SUBSET Nat, S # {}, NEW b \in Nat, \A k \in S : k <= b
  PROVE  Largest(S) \in S /\ \A k \in S : k <= Largest(S)
<1> DEFINE U == {i \in 0 .. b : \E k \in S : i <= k}
           size == Cardinality(U)
<1>1. IsFiniteSet(U) /\ size \in Nat
  <2>1. IsFiniteSet(0 .. b)
    BY FS_Interval
  <2> QED
    BY <2>1, FS_Subset, FS_CardinalityType
<1>2. \A i \in U : i < size
  <2> TAKE i \in U
  <2>1. 0 .. i \in SUBSET U
    OBVIOUS
  <2>2. Cardinality(0 .. i) = i + 1
    BY FS_Interval
  <2>3. Cardinality(0 .. i) <= size
    BY <1>1, <2>1, FS_Subset
  <2> QED
    BY <1>1, <2>2, <2>3
<1>3. S \subseteq U
  OBVIOUS
<1> HIDE DEF size
<1>4. size - 1 \in Nat
  <2>1. PICK k \in S : TRUE
    OBVIOUS
  <2>2. k \in Nat /\ k < size
    BY <1>2, <1>3, <2>1
  <2> QED
    BY <1>1, <2>2
<1>5. U = 0 .. (size - 1)
  <2>1. U \in SUBSET (0 .. (size - 1))
    BY <1>1, <1>2
  <2>2. IsFiniteSet(0 .. (size - 1)) /\ Cardinality(0 .. (size - 1)) = size
    BY <1>1, <1>4, size - 1 \in Int, FS_Interval
  <2> QED
    BY <1>1, <2>1, <2>2, FS_Subset DEF size
<1>6. PICK n \in S : size - 1 <= n
  BY <1>4, <1>5
<1>7. \A k \in S : k <= n
  <2> TAKE k \in S
  <2>1. k < size /\ k \in Nat /\ n \in Nat
    BY <1>2, <1>3
  <2> QED
    BY <1>1, <1>6, <2>1
<1> QED
  BY <1>7 DEF Largest

LEMMA SmallestIs ==
  ASSUME NEW S \in SUBSET Nat, S # {}
  PROVE  \E n \in S : \A k \in S : n <= k
<1>1. PICK b \in S : TRUE
  OBVIOUS
<1> DEFINE T == {i \in 0 .. b : b - i \in S}
<1>2. T \in SUBSET Nat /\ 0 \in T /\ \A i \in T : i <= b
  BY <1>1
<1>3. Largest(T) \in T /\ \A i \in T : i <= Largest(T)
  BY <1>1, <1>2, LargestIs
<1> DEFINE top == Largest(T)
           n == b - top
<1>4. n \in S /\ n <= b /\ n \in Nat /\ b \in Nat /\ top \in Nat
  BY <1>1, <1>3
<1> HIDE DEF top
<1>5. ASSUME NEW k \in S PROVE n <= k
  <2>1. CASE k <= b
    <3>1. b - k \in T
      BY <1>1, <2>1
    <3>2. b - k <= top
      BY <1>3, <3>1 DEF top
    <3> QED
      BY <1>4, <2>1, <3>2
  <2>2. CASE b < k
    BY <1>4, <2>2
  <2> QED
    BY <2>1, <2>2
<1> QED
  BY <1>4, <1>5

LEMMA RequestsFinite == IsFiniteSet(Msgs) => IsFiniteSet(Requests)
<1> SUFFICES ASSUME IsFiniteSet(Msgs) PROVE IsFiniteSet(Requests)
  OBVIOUS
<1> DEFINE f == [m \in Msgs |-> {m} \X (1..MaxTries[m])]
           T == {{m} \X (1..MaxTries[m]) : m \in Msgs}
<1>1. f \in Surjection(Msgs, T)
  BY DEF Surjection
<1>2. IsFiniteSet(T)
  BY <1>1, FS_Surjection
<1>3. \A m \in Msgs : IsFiniteSet({m} \X (1..MaxTries[m]))
  <2> TAKE m \in Msgs
  <2>1. MaxTries[m] \in Int
    BY BoundsAssumption
  <2>2. IsFiniteSet(1 .. MaxTries[m])
    BY <2>1, FS_Interval
  <2>3. IsFiniteSet({m})
    BY FS_Singleton
  <2> QED
    BY <2>2, <2>3, FS_Product
<1> QED
  BY <1>2, <1>3, FS_UNION DEF Requests

-----------------------------------------------------------------------------
(* The history, and what a tab asks of it.                                 *)

LEMMA HistoryIs ==
  ASSUME Shape, Numbered, AfterFirst
  PROVE  /\ History \in SUBSET Nat /\ IsFiniteSet(History)
         /\ \A k \in History : First <= k /\ k <= lastSeq
<1>1. \A k \in History : k \in Nat /\ First <= k /\ k <= lastSeq
  BY DEF History, Shape, Numbered, HandedOut, AfterFirst, First
<1>2. lastSeq \in Int /\ 0 \in Int
  BY DEF Shape
<1>3. IsFiniteSet(0 .. lastSeq)
  BY <1>2, FS_Interval
<1>4. History \in SUBSET (0 .. lastSeq)
  BY <1>1, <1>2
<1>5. IsFiniteSet(History)
  BY <1>3, <1>4, FS_Subset
<1> QED
  BY <1>1, <1>5

LEMMA NewestIs ==
  ASSUME Shape, Numbered, ToldIsStored, AfterFirst, NEW c \in Clients, First \in list[c]
  PROVE  /\ Newest(c) \in list[c] /\ \A k \in list[c] : k <= Newest(c)
         /\ Newest(c) \in History
<1>1. list[c] \subseteq History
  BY ToldParts DEF Screens
<1>2. lastSeq \in Nat
  BY DEF Shape
<1>3. list[c] \in SUBSET Nat /\ \A k \in list[c] : k <= lastSeq
  BY <1>1, HistoryIs
<1>4. Newest(c) = Largest(list[c])
  BY DEF Newest, Largest
<1>5. Newest(c) \in list[c] /\ \A k \in list[c] : k <= Newest(c)
  BY <1>2, <1>3, <1>4, LargestIs
<1> QED
  BY <1>1, <1>5

\* The first messages after a number, none left out between them; all of them, if
\* the page is not full.
LEMMA PageIs ==
  ASSUME History \in SUBSET Nat, IsFiniteSet(History), NEW n \in Nat
  PROVE  /\ PageAfter(n) \subseteq After(n) /\ After(n) \subseteq History
         /\ \A k \in After(n), p \in PageAfter(n) : k <= p => k \in PageAfter(n)
         /\ Cardinality(PageAfter(n)) # Page => PageAfter(n) = After(n)
<1> DEFINE Below(k) == {j \in After(n) : j < k}
<1>1. /\ PageAfter(n) \subseteq After(n) /\ After(n) \subseteq History
      /\ After(n) \in SUBSET Nat /\ IsFiniteSet(After(n)) /\ Page \in Nat
  <2>1. After(n) \in SUBSET History
    BY DEF After
  <2> QED
    BY <2>1, FS_Subset, BoundsAssumption DEF PageAfter
<1>2. \A k : IsFiniteSet(Below(k)) /\ Cardinality(Below(k)) \in Nat
  <2> TAKE k
  <2>1. Below(k) \in SUBSET After(n)
    OBVIOUS
  <2>2. IsFiniteSet(Below(k))
    BY <1>1, <2>1, FS_Subset
  <2> QED
    BY <2>2, FS_CardinalityType
<1>3. \A k \in After(n) : k \in PageAfter(n) <=> Cardinality(Below(k)) < Page
  BY DEF PageAfter
<1>4. ASSUME NEW k \in After(n), NEW p \in PageAfter(n), k <= p
      PROVE  k \in PageAfter(n)
  <2>1. p \in After(n) /\ Below(k) \in SUBSET Below(p)
    BY <1>1, <1>4
  <2>2. Cardinality(Below(k)) <= Cardinality(Below(p))
    BY <1>2, <2>1, FS_Subset
  <2>3. Cardinality(Below(p)) < Page
    BY <1>3, <2>1
  <2>4. Cardinality(Below(k)) < Page
    BY <1>1, <1>2, <2>2, <2>3
  <2> QED
    BY <1>3, <2>4
<1>5. ASSUME PageAfter(n) # After(n)
      PROVE  Cardinality(PageAfter(n)) = Page
  <2>1. PICK k \in After(n) \ PageAfter(n) : \A j \in After(n) \ PageAfter(n) : k <= j
    <3>1. After(n) \ PageAfter(n) \in SUBSET Nat /\ After(n) \ PageAfter(n) # {}
      BY <1>1, <1>5
    <3> QED
      BY <3>1, SmallestIs
  <2>2. PageAfter(n) = Below(k)
    <3>1. \A j \in Below(k) : j \in PageAfter(n)
      BY <1>1, <2>1
    <3>2. \A j \in PageAfter(n) : j \in After(n) /\ j < k
      BY <1>1, <1>4, <2>1
    <3> QED
      BY <3>1, <3>2
  <2>3. Cardinality(Below(k)) >= Page
    <3>1. ~(Cardinality(Below(k)) < Page)
      BY <1>3, <2>1
    <3>2. Cardinality(Below(k)) \in Nat
      BY <1>2
    <3> QED
      BY <1>1, <3>1, <3>2
  <2>4. Cardinality(PageAfter(n)) <= Page
    <3>1. CASE PageAfter(n) = {}
      BY <1>1, <3>1, FS_EmptySet
    <3>2. CASE PageAfter(n) # {}
      <4>1. PageAfter(n) \in SUBSET Nat /\ k \in Nat /\ \A j \in PageAfter(n) : j <= k
        BY <1>1, <2>1, <2>2
      <4> DEFINE last == Largest(PageAfter(n))
      <4>2. last \in PageAfter(n) /\ \A j \in PageAfter(n) : j <= last
        BY <3>2, <4>1, LargestIs
      <4> HIDE DEF last
      <4>3. PageAfter(n) = Below(last) \cup {last}
        <5>1. \A j \in PageAfter(n) : j \in Below(last) \cup {last}
          BY <1>1, <4>1, <4>2
        <5>2. \A j \in Below(last) : j \in PageAfter(n)
          BY <1>1, <1>4, <4>2
        <5> QED
          BY <4>2, <5>1, <5>2
      <4>4. last \notin Below(last)
        BY <1>1, <4>2
      <4>5. Cardinality(PageAfter(n)) = Cardinality(Below(last)) + 1
        BY <1>2, <4>3, <4>4, FS_AddElement
      <4>6. Cardinality(Below(last)) < Page
        BY <1>1, <1>3, <4>2
      <4> QED
        BY <1>1, <1>2, <4>5, <4>6
    <3> QED
      BY <3>1, <3>2
  <2> QED
    BY <1>1, <1>2, <2>2, <2>3, <2>4
<1> QED
  BY <1>1, <1>4, <1>5

LEMMA FullPageIs ==
  ASSUME Shape, Numbered, AfterFirst, NEW n \in Nat, Cardinality(PageAfter(n)) = Page
  PROVE  /\ Largest(PageAfter(n)) \in PageAfter(n)
         /\ \A k \in PageAfter(n) : k <= Largest(PageAfter(n))
<1>1. PageAfter(n) \subseteq History
  BY HistoryIs, PageIs
<1>2. PageAfter(n) \in SUBSET Nat /\ \A k \in PageAfter(n) : k <= lastSeq
  BY <1>1, HistoryIs
<1>3. PageAfter(n) # {}
  BY BoundsAssumption, FS_EmptySet
<1>4. lastSeq \in Nat
  BY DEF Shape
<1> QED
  BY <1>2, <1>3, <1>4, LargestIs

\* The insert of deliverMessage that is applied, whatever it reports.
Stores(r) ==
    /\ at[r] = "inserting" /\ Store(r)
    /\ \/ at' = [at EXCEPT ![r] = "publishing"] /\ untold' = untold
       \/ at' = [at EXCEPT ![r] = "done"] /\ untold' = untold \cup {num[r]}
    /\ UNCHANGED <<lastSeq, num, entry, tries, tab, line, read>>

LEMMA StoredStep ==
  ASSUME Shape, Unsent, [Next]_vars
  PROVE  UNCHANGED messages \/ \E r \in Requests : Stores(r)
<1>1. ASSUME NEW r \in Requests, RequestStep(r) \/ RequestFails(r) \/ Crash(r) PROVE UNCHANGED messages \/ Stores(r)
  BY <1>1 DEF RequestStep, RequestFails, TakeNumber, Insert, Resolve, Announce, MarkOwn, Answered, Crash, Stores, At, Goto
<1>2. ASSUME NEW m \in Msgs, Write(m) \/ Retry(m) \/ SendFails(m) PROVE UNCHANGED messages
  BY <1>2, AuthorMoves
<1>3. ASSUME NEW c \in Clients,
             TabStep(c) \/ SocketStep(c) \/ Close(c) \/ (\E n \in Numbers : MarkRead(c, n))
      PROVE  UNCHANGED messages
  BY <1>3, ClientMoves DEF server
<1>4. CASE UNCHANGED vars
  BY <1>4 DEF vars, server
<1> QED
  BY <1>1, <1>2, <1>3, <1>4 DEF Next

LEMMA OneMore ==
  ASSUME Shape, Numbered, AfterFirst, NEW r \in Requests, Stores(r)
  PROVE  /\ History' = History \cup {num[r]} /\ num[r] \notin History /\ num[r] \in Nat
         /\ \A c \in Clients : Own(c) \subseteq Own(c)'
<1>1. r[1] \in Msgs
  BY RequestMsgs
<1>2. /\ \A m \in Msgs : stored[m] \subseteq stored'[m] /\ stored'[m] \subseteq stored[m] \cup {num[r]}
      /\ num[r] \in stored'[r[1]]
  BY <1>1 DEF Stores, Store, Shape
<1>3. History' = History \cup {num[r]}
  BY <1>1, <1>2 DEF History
<1>4. num[r] \notin History /\ num[r] \in Nat
  BY DEF Stores, History, Numbered, InsertsFresh, AfterFirst, Shape, First
<1>5. \A c \in Clients : Own(c) \subseteq Own(c)'
  BY <1>2 DEF Own
<1> QED
  BY <1>3, <1>4, <1>5

LEMMA HistoryGrows ==
  ASSUME Shape, Numbered, Unsent, AfterFirst, [Next]_vars
  PROVE  History \subseteq History'
<1>1. CASE UNCHANGED messages
  BY <1>1 DEF History
<1> QED
  BY <1>1, StoredStep, OneMore

LEMMA NotedStep ==
  ASSUME Shape, Numbered, Unsent, AfterFirst, Noted, [Next]_vars
  PROVE  Noted'
<1>1. CASE UNCHANGED messages
  BY <1>1 DEF Noted, History
<1>2. ASSUME NEW r \in Requests, Stores(r) PROVE Noted'
  <2>1. History' = History \cup {num[r]}
    BY <1>2, OneMore
  <2>2. untold' \subseteq untold \cup {num[r]} /\ late' \subseteq late \cup {num[r]}
    BY <1>2 DEF Stores, Store
  <2> QED
    BY <2>1, <2>2 DEF Noted
<1> QED
  BY <1>1, <1>2, StoredStep

-----------------------------------------------------------------------------
(* Catch-ups.                                                              *)

\* What a tab does to its catch-ups and to the numbers it shows.
LEMMA ReceiveIs ==
  ASSUME Shape, NEW c \in Clients, Receive(c)
  PROVE  /\ inbox[c] \in Seq(Nat) /\ inbox[c] # <<>> /\ inbox' = [inbox EXCEPT ![c] = Tail(@)]
         /\ UNCHANGED <<server, entry, tries, socket, owed, read>>
         /\ \/ /\ Head(inbox[c]) = CatchUpFrame \/ (~Known(c, Head(inbox[c])) /\ Skips(c, Head(inbox[c])))
               /\ list' = list
               /\ fetches'[c] = fetches[c] \cup {[after |-> Newest(c), found |-> {}, full |-> TRUE]}
            \/ /\ Head(inbox[c]) # CatchUpFrame /\ Known(c, Head(inbox[c]))
               /\ list' = list /\ fetches'[c] = fetches[c]
            \/ /\ Head(inbox[c]) # CatchUpFrame /\ ~Known(c, Head(inbox[c])) /\ ~Skips(c, Head(inbox[c]))
               /\ list'[c] = list[c] \cup {Head(inbox[c])} /\ fetches'[c] = fetches[c]
         /\ \A d \in Clients \ {c} : list'[d] = list[d] /\ fetches'[d] = fetches[d]
<1>1. inbox[c] \in Seq(Nat) /\ inbox[c] # <<>> /\ inbox' = [inbox EXCEPT ![c] = Tail(@)]
      /\ UNCHANGED <<server, entry, tries, socket, owed, read>>
  BY DEF Receive, Shape
<1>2. c \in DOMAIN list /\ c \in DOMAIN fetches
  BY DEF Shape
<1>3. list = [d \in Clients |-> list[d]] /\ fetches = [d \in Clients |-> fetches[d]]
  BY DEF Shape
<1>4. ASSUME NEW f, fetches' = [fetches EXCEPT ![c] = @ \cup {f}]
      PROVE  fetches'[c] = fetches[c] \cup {f} /\ \A d \in Clients \ {c} : fetches'[d] = fetches[d]
  BY <1>2, <1>4
<1>5. ASSUME NEW n, list' = [list EXCEPT ![c] = @ \cup {n}]
      PROVE  list'[c] = list[c] \cup {n} /\ \A d \in Clients \ {c} : list'[d] = list[d]
  BY <1>2, <1>5
<1>6. \/ /\ Head(inbox[c]) = CatchUpFrame \/ (~Known(c, Head(inbox[c])) /\ Skips(c, Head(inbox[c])))
         /\ StartCatchUp(c) /\ UNCHANGED list
      \/ /\ Head(inbox[c]) # CatchUpFrame /\ Known(c, Head(inbox[c]))
         /\ UNCHANGED <<list, fetches>>
      \/ /\ Head(inbox[c]) # CatchUpFrame /\ ~Known(c, Head(inbox[c])) /\ ~Skips(c, Head(inbox[c]))
         /\ list' = [list EXCEPT ![c] = @ \cup {Head(inbox[c])}]
         /\ UNCHANGED fetches
  BY DEF Receive
<1> DEFINE new == [after |-> Newest(c), found |-> {}, full |-> TRUE]
           n == Head(inbox[c])
<1>7. StartCatchUp(c) =>
        fetches'[c] = fetches[c] \cup {new} /\ \A d \in Clients \ {c} : fetches'[d] = fetches[d]
  <2> SUFFICES ASSUME StartCatchUp(c)
               PROVE  fetches'[c] = fetches[c] \cup {new} /\ \A d \in Clients \ {c} : fetches'[d] = fetches[d]
    OBVIOUS
  <2>1. fetches' = [fetches EXCEPT ![c] = @ \cup {new}]
    BY DEF StartCatchUp
  <2> HIDE DEF new
  <2> QED
    BY <1>4, <2>1
<1>8. list' = [list EXCEPT ![c] = @ \cup {n}] =>
        list'[c] = list[c] \cup {n} /\ \A d \in Clients \ {c} : list'[d] = list[d]
  BY <1>5
<1> HIDE DEF new, n
<1>9. \/ /\ n = CatchUpFrame \/ (~Known(c, n) /\ Skips(c, n))
         /\ StartCatchUp(c) /\ UNCHANGED list
      \/ n # CatchUpFrame /\ Known(c, n) /\ UNCHANGED <<list, fetches>>
      \/ /\ n # CatchUpFrame /\ ~Known(c, n) /\ ~Skips(c, n)
         /\ list' = [list EXCEPT ![c] = @ \cup {n}] /\ UNCHANGED fetches
  BY <1>6 DEF n
<1>10. \A d \in Clients \ {c} : list'[d] = list[d]
  BY <1>8, <1>9
<1>11. \A d \in Clients \ {c} : fetches'[d] = fetches[d]
  BY <1>7, <1>9
<1>12. \/ /\ n = CatchUpFrame \/ (~Known(c, n) /\ Skips(c, n))
          /\ list' = list /\ fetches'[c] = fetches[c] \cup {new}
       \/ n # CatchUpFrame /\ Known(c, n) /\ list' = list /\ fetches'[c] = fetches[c]
       \/ /\ n # CatchUpFrame /\ ~Known(c, n) /\ ~Skips(c, n)
          /\ list'[c] = list[c] \cup {n} /\ fetches'[c] = fetches[c]
  BY <1>7, <1>8, <1>9
<1> QED
  BY <1>1, <1>10, <1>11, <1>12 DEF new, n

LEMMA FetchPageIs ==
  ASSUME Shape, Numbered, AfterFirst, Catching, NEW c \in Clients, NEW f \in fetches[c], FetchPage(c, f)
  PROVE  /\ f.full /\ UNCHANGED <<server, entry, tries, list, line, read>>
         /\ \A d \in Clients \ {c} : fetches'[d] = fetches[d]
         /\ \E g \in [after : Nat, found : SUBSET Nat, full : BOOLEAN] :
               /\ fetches'[c] = (fetches[c] \ {f}) \cup {g}
               /\ g.after \in History /\ g.found = f.found \cup PageAfter(f.after)
               /\ g.full \/ g.after = f.after
               /\ g.full => /\ g.after \in PageAfter(f.after)
                            /\ \A k \in PageAfter(f.after) : k <= g.after
               /\ ~g.full => PageAfter(f.after) = After(f.after)
<1> DEFINE page == PageAfter(f.after)
           full == Cardinality(page) = Page
           g == [after |-> IF full THEN Largest(page) ELSE f.after, found |-> f.found \cup page, full |-> full]
<1>1. f.full /\ UNCHANGED <<server, entry, tries, list, line, read>>
      /\ fetches' = [fetches EXCEPT ![c] = (@ \ {f}) \cup {g}]
  BY DEF FetchPage
<1>2. f.after \in Nat /\ f.after \in History /\ f.found \in SUBSET Nat
  BY DEF Catching
<1>3. page \subseteq History /\ page \in SUBSET Nat /\ (~full => page = After(f.after))
  BY <1>2, HistoryIs, PageIs
<1>4. full => Largest(page) \in page /\ \A k \in page : k <= Largest(page)
  BY <1>2, FullPageIs
<1> HIDE DEF page
<1>5. g \in [after : Nat, found : SUBSET Nat, full : BOOLEAN]
  BY <1>2, <1>3, <1>4
<1>6. /\ g.after \in History /\ g.found = f.found \cup page
      /\ g.full \/ g.after = f.after
      /\ g.full => g.after \in page /\ \A k \in page : k <= g.after
      /\ ~g.full => page = After(f.after)
  BY <1>2, <1>3, <1>4
<1> HIDE DEF g
<1>7. fetches'[c] = (fetches[c] \ {f}) \cup {g} /\ \A d \in Clients \ {c} : fetches'[d] = fetches[d]
  BY <1>1 DEF Shape
<1> QED
  BY <1>1, <1>5, <1>6, <1>7 DEF page

LEMMA FetchEndsIs ==
  ASSUME Shape, NEW c \in Clients, NEW f \in fetches[c], FetchEnds(c, f)
  PROVE  /\ UNCHANGED <<server, entry, tries, line, read>>
         /\ list'[c] = list[c] \cup {n \in f.found : ~Known(c, n)}
         /\ fetches'[c] = fetches[c] \ {f}
         /\ \A d \in Clients \ {c} : list'[d] = list[d] /\ fetches'[d] = fetches[d]
<1>1. c \in DOMAIN list /\ c \in DOMAIN fetches
  BY DEF Shape
<1> QED
  BY <1>1 DEF FetchEnds, Shape

LEMMA OthersKeep ==
  ASSUME Shape, Unsent, [Next]_vars,
         ~\E c \in Clients : Receive(c) \/ \E f \in fetches[c] : FetchPage(c, f) \/ FetchEnds(c, f)
  PROVE  fetches' = fetches /\ \A c \in Clients : list[c] \subseteq list'[c] /\ (c \in Readers => list'[c] = list[c])
<1>1. ASSUME NEW r \in Requests, RequestStep(r) \/ RequestFails(r) \/ Crash(r)
      PROVE  fetches' = fetches /\ (list' = list \/ \E n : list' = [list EXCEPT ![Author[r[1]]] = @ \cup {n}])
  BY <1>1 DEF RequestStep, RequestFails, TakeNumber, Insert, Resolve, Announce, MarkOwn, Answered, Crash, tab
<1>2. ASSUME NEW r \in Requests, RequestStep(r) \/ RequestFails(r) \/ Crash(r)
      PROVE  \A c \in Clients : list[c] \subseteq list'[c] /\ (c \in Readers => list'[c] = list[c])
  <2>1. r[1] \in Msgs /\ Author[r[1]] \notin Readers
    BY RequestMsgs DEF Readers
  <2>2. CASE list' = list
    BY <2>2
  <2>3. ASSUME NEW n, list' = [list EXCEPT ![Author[r[1]]] = @ \cup {n}]
        PROVE  \A c \in Clients : list[c] \subseteq list'[c] /\ (c \in Readers => list'[c] = list[c])
    BY <2>1, <2>3 DEF Shape
  <2> QED
    BY <1>1, <1>2, <2>2, <2>3
<1>3. ASSUME NEW m \in Msgs, Write(m) \/ Retry(m) \/ SendFails(m) PROVE UNCHANGED tab
  BY <1>3, AuthorMoves
<1>4. ASSUME NEW c \in Clients, SocketStep(c) \/ Close(c) \/ (\E n \in Numbers : MarkRead(c, n))
      PROVE  UNCHANGED tab
  BY <1>4 DEF SocketStep, Join, Ready, Resync, Close, MarkRead
<1>5. CASE UNCHANGED vars
  BY <1>5 DEF vars, tab
<1> QED
  BY <1>1, <1>2, <1>3, <1>4, <1>5 DEF Next, TabStep, tab

LEMMA CatchingStep ==
  ASSUME Shape, Numbered, ToldIsStored, Unsent, AfterFirst, Catching, [Next]_vars
  PROVE  Catching'
<1> USE DEF Catching
<1>1. History \subseteq History'
  BY HistoryGrows
<1>2. ASSUME NEW c \in Clients, Receive(c) PROVE Catching'
  <2> DEFINE new == [after |-> Newest(c), found |-> {}, full |-> TRUE]
  <2>1. new \in [after : Nat, found : SUBSET Nat, full : BOOLEAN] /\ new.after \in History
    BY NewestIs, HistoryIs
  <2>2. \A d \in Clients : list[d] \subseteq list'[d]
    BY <1>2, ReceiveIs
  <2>3. \A d \in Clients : \A f \in fetches'[d] : f \in fetches[d] \/ f = new
    BY <1>2, ReceiveIs
  <2> HIDE DEF new
  <2>4. \A d \in Clients : \A f \in fetches'[d] :
           f \in [after : Nat, found : SUBSET Nat, full : BOOLEAN] /\ f.after \in History
    BY <2>1, <2>3
  <2> QED
    BY <1>1, <2>2, <2>4
<1>3. ASSUME NEW c \in Clients, NEW f \in fetches[c], FetchPage(c, f) PROVE Catching'
  <2>1. \A d \in Clients : \A g \in fetches'[d] :
           \/ g \in fetches[d]
           \/ g \in [after : Nat, found : SUBSET Nat, full : BOOLEAN] /\ g.after \in History
    BY <1>3, FetchPageIs
  <2>2. list' = list
    BY <1>3 DEF FetchPage
  <2> QED
    BY <1>1, <2>1, <2>2
<1>4. ASSUME NEW c \in Clients, NEW f \in fetches[c], FetchEnds(c, f) PROVE Catching'
  <2>1. \A d \in Clients : list[d] \subseteq list'[d] /\ fetches'[d] \subseteq fetches[d]
    BY <1>4, FetchEndsIs
  <2> QED
    BY <1>1, <2>1
<1>5. CASE ~\E c \in Clients : Receive(c) \/ \E f \in fetches[c] : FetchPage(c, f) \/ FetchEnds(c, f)
  BY <1>1, <1>5, OthersKeep
<1> QED
  BY <1>2, <1>3, <1>4, <1>5

\* A tab's list and catch-ups change by its own steps, or as a message of its own
\* is answered.
LEMMA TabChanges ==
  ASSUME Shape, Numbered, Follows, [Next]_vars, NEW c \in Clients
  PROVE  \/ Receive(c) \/ \E f \in fetches[c] : FetchPage(c, f) \/ FetchEnds(c, f)
         \/ fetches'[c] = fetches[c] /\ list[c] \subseteq list'[c] /\ (c \in Readers => list'[c] = list[c])
<1>1. ASSUME NEW d \in Clients \ {c},
             Receive(d) \/ \E f \in fetches[d] : FetchPage(d, f) \/ FetchEnds(d, f)
      PROVE  fetches'[c] = fetches[c] /\ list'[c] = list[c]
  <2>1. CASE Receive(d)
    BY <2>1, ReceiveIs
  <2>2. CASE \E f \in fetches[d] : FetchPage(d, f)
    BY <2>2, FetchPageIs DEF Follows
  <2>3. CASE \E f \in fetches[d] : FetchEnds(d, f)
    BY <2>3, FetchEndsIs
  <2> QED
    BY <1>1, <2>1, <2>2, <2>3
<1> QED
  BY <1>1, OthersKeep DEF Follows

-----------------------------------------------------------------------------
(* A tab that only reads.                                                  *)

\* With every message the set has all before it, except the late ones.
Whole(S) == \A n \in S, k \in History \ late : k < n => k \in S

NoHole(c) ==
    /\ Whole(list[c])
    /\ \A f \in fetches[c] :
        /\ Whole(list[c] \cup f.found)
        /\ \A k \in History \ late : k <= f.after => k \in list[c] \cup f.found

LEMMA ReadersKnow ==
  ASSUME NEW c \in Readers, NEW n
  PROVE  Known(c, n) <=> n \in list[c]
  BY DEF Known, Readers

\* What is stored now is the newest, or late.
LEMMA StoredLast ==
  ASSUME Shape, Numbered, Follows, NEW r \in Requests, Stores(r)
  PROVE  late \subseteq late' /\ (num[r] \in late' \/ \A k \in History : k < num[r])
<1>1. late' = late \cup {n \in {num[r]} : \E k \in History : k > n}
  BY DEF Stores, Store
<1>2. History \subseteq Nat /\ num[r] \in Nat /\ num[r] \notin History
  BY HistoryIs, OneMore DEF Follows
<1>3. CASE \E k \in History : k > num[r]
  BY <1>1, <1>3
<1>4. CASE \A k \in History : ~(k > num[r])
  <2>1. \A k \in History : k < num[r]
    BY <1>2, <1>4
  <2> QED
    BY <1>1, <2>1
<1> QED
  BY <1>3, <1>4

LEMMA NoHoleStep ==
  ASSUME Shape, Numbered, ToldIsStored, Follows, [Next]_vars,
         NEW c \in Readers, NoHole(c)
  PROVE  NoHole(c)'
<1>0. c \in Clients /\ AfterFirst /\ Unsent /\ Catching
  BY DEF Readers, Follows
<1>1. /\ list[c] \subseteq History /\ \A f \in fetches[c] : f.found \subseteq History /\ f.after \in History
      /\ First \in list[c]
  BY <1>0, ToldParts DEF Screens, Catching
<1>2. History \in SUBSET Nat
  BY <1>0, HistoryIs
<1>3. ASSUME NEW r \in Requests, Stores(r) PROVE NoHole(c)'
  <2>1. /\ History' = History \cup {num[r]} /\ num[r] \in Nat /\ late \subseteq late'
        /\ num[r] \in late' \/ \A k \in History : k < num[r]
    BY <1>0, <1>3, OneMore, StoredLast
  <2>2. \A n \in History, k \in History' \ late' : k <= n => k \in History \ late
    BY <1>2, <2>1
  <2>3. UNCHANGED <<list, fetches>>
    BY <1>3 DEF Stores, tab
  <2>4. \A S \in SUBSET History : Whole(S) => \A n \in S, k \in History' \ late' : k < n => k \in S
    <3> TAKE S \in SUBSET History
    <3> HAVE Whole(S)
    <3> TAKE n \in S, k \in History' \ late'
    <3> HAVE k < n
    <3>1. k \in Nat /\ n \in Nat
      BY <1>2, <2>1
    <3>2. k \in History \ late
      BY <2>2, <3>1
    <3> QED
      BY <3>2 DEF Whole
  <2>5. Whole(list[c])'
    BY <1>1, <2>3, <2>4 DEF Whole, NoHole
  <2>6. ASSUME NEW f \in fetches[c]
        PROVE  /\ Whole(list[c] \cup f.found)'
               /\ \A k \in History' \ late' : k <= f.after => k \in list'[c] \cup f.found
    <3>1. list[c] \cup f.found \in SUBSET History /\ Whole(list[c] \cup f.found)
      BY <1>1 DEF NoHole
    <3>2. Whole(list[c] \cup f.found)'
      BY <2>3, <2>4, <3>1 DEF Whole
    <3>3. \A k \in History' \ late' : k <= f.after => k \in History \ late
      BY <1>1, <2>2
    <3> QED
      BY <2>3, <3>2, <3>3 DEF NoHole
  <2> QED
    BY <2>3, <2>5, <2>6 DEF NoHole
<1>4. CASE UNCHANGED messages
  <2>0. History' = History /\ late' = late
    BY <1>4 DEF History
  <2>1. CASE fetches'[c] = fetches[c] /\ list'[c] = list[c]
    BY <2>0, <2>1 DEF NoHole, Whole
  <2>2. CASE Receive(c)
    <3> DEFINE n == Head(inbox[c])
               new == [after |-> Newest(c), found |-> {}, full |-> TRUE]
    <3>1. \/ list'[c] = list[c] /\ fetches'[c] = fetches[c]
          \/ list'[c] = list[c] /\ fetches'[c] = fetches[c] \cup {new}
          \/ list'[c] = list[c] \cup {n} /\ fetches'[c] = fetches[c] /\ n <= Newest(c) + 1 /\ n \in Nat
      <4>1. inbox[c] \in Seq(Nat) /\ inbox[c] # <<>>
        BY <1>0, <2>2, ReceiveIs
      <4>2. n \in Nat
        BY <4>1
      <4>3. Newest(c) \in Nat
        BY <1>0, <1>1, <1>2, NewestIs
      <4> HIDE DEF n
      <4>4. ~Skips(c, n) => n <= Newest(c) + 1
        BY <4>2, <4>3 DEF Skips
      <4> QED
        BY <1>0, <2>2, <4>2, <4>4, ReceiveIs DEF n
    <3>2. Newest(c) \in list[c] /\ Newest(c) \in Nat /\ new.after = Newest(c) /\ new.found = {}
      BY <1>0, <1>1, <1>2, NewestIs
    <3> HIDE DEF n, new
    <3>3. \A k \in History \ late : k <= Newest(c) => k \in list[c]
      <4> TAKE k \in History \ late
      <4>1. k < Newest(c) => k \in list[c]
        BY <3>2 DEF NoHole, Whole
      <4>2. k \in Nat
        BY <1>2
      <4> QED
        BY <3>2, <4>1, <4>2
    <3>4. CASE list'[c] = list[c] /\ fetches'[c] = fetches[c] \cup {new}
      BY <2>0, <3>2, <3>3, <3>4 DEF NoHole, Whole
    <3>5. CASE list'[c] = list[c] \cup {n} /\ fetches'[c] = fetches[c] /\ n <= Newest(c) + 1 /\ n \in Nat
      <4>1. \A k \in History \ late : k < n => k \in list[c]
        <5> TAKE k \in History \ late
        <5> HAVE k < n
        <5>1. k \in Nat
          BY <1>2
        <5>2. k <= Newest(c)
          BY <3>2, <3>5, <5>1
        <5> QED
          BY <3>3, <5>2
      <4> QED
        BY <2>0, <3>5, <4>1 DEF NoHole, Whole
    <3> QED
      BY <2>1, <3>1, <3>4, <3>5
  <2>3. ASSUME NEW f \in fetches[c], FetchPage(c, f) PROVE NoHole(c)'
    <3>1. list' = list
      BY <2>3 DEF FetchPage
    <3>2. PICK g \in [after : Nat, found : SUBSET Nat, full : BOOLEAN] :
             /\ fetches'[c] = (fetches[c] \ {f}) \cup {g}
             /\ g.found = f.found \cup PageAfter(f.after)
             /\ g.full \/ g.after = f.after
             /\ g.full => g.after \in PageAfter(f.after)
      BY <1>0, <2>3, FetchPageIs
    <3>3. /\ f.after \in Nat /\ Whole(list[c] \cup f.found)
          /\ \A k \in History \ late : k <= f.after => k \in list[c] \cup f.found
      BY <1>1, <1>2 DEF NoHole
    <3>4. /\ PageAfter(f.after) \subseteq History
          /\ \A k \in History, p \in PageAfter(f.after) : f.after < k /\ k <= p => k \in PageAfter(f.after)
      BY <1>0, <1>2, <3>3, HistoryIs, PageIs DEF After
    <3>5. ASSUME NEW n \in list[c] \cup g.found, NEW k \in History \ late, k < n
          PROVE  k \in list[c] \cup g.found
      <4>1. CASE n \in list[c] \cup f.found
        BY <3>2, <3>3, <3>5, <4>1 DEF Whole
      <4>2. CASE n \in PageAfter(f.after)
        BY <1>2, <3>2, <3>3, <3>4, <3>5, <4>2
      <4> QED
        BY <3>2, <4>1, <4>2
    <3>6. ASSUME NEW k \in History \ late, k <= g.after PROVE k \in list[c] \cup g.found
      <4>1. CASE g.after = f.after
        BY <3>2, <3>3, <3>6, <4>1
      <4>2. CASE g.after \in PageAfter(f.after)
        BY <1>2, <3>2, <3>4, <3>5, <3>6, <4>2
      <4> QED
        BY <3>2, <4>1, <4>2
    <3> QED
      BY <2>0, <3>1, <3>2, <3>5, <3>6 DEF NoHole, Whole
  <2>4. ASSUME NEW f \in fetches[c], FetchEnds(c, f) PROVE NoHole(c)'
    <3>1. list'[c] = list[c] \cup f.found /\ fetches'[c] = fetches[c] \ {f}
      BY <1>0, <2>4, FetchEndsIs, ReadersKnow
    <3>2. Whole(list[c] \cup f.found)
      BY DEF NoHole
    <3>3. Whole(list[c])'
      BY <2>0, <3>1, <3>2 DEF Whole
    <3>4. ASSUME NEW g \in fetches'[c]
          PROVE  /\ \A n \in list'[c] \cup g.found, k \in History \ late : k < n => k \in list'[c] \cup g.found
                 /\ \A k \in History \ late : k <= g.after => k \in list'[c] \cup g.found
      BY <3>1, <3>2, <3>4 DEF NoHole, Whole
    <3> QED
      BY <2>0, <3>3, <3>4 DEF NoHole, Whole
  <2> QED
    BY <1>0, <2>1, <2>2, <2>3, <2>4, TabChanges
<1> QED
  BY <1>0, <1>3, <1>4, StoredStep

-----------------------------------------------------------------------------
(* Whatever is stored is shown, on its way to the tab, or will be fetched. *)

OnBus(k) == \E r \in Requests : at[r] = "publishing" /\ num[r] = k
InInbox(c, n) == \E i \in 1 .. Len(inbox[c]) : inbox[c][i] = n
Fetches(f, k) == k \in f.found \/ (f.full /\ f.after < k)
OnItsWay(c, k) == k \in list[c] \/ OnBus(k) \/ InInbox(c, k) \/ \E f \in fetches[c] : Fetches(f, k)

\* The tab will ask again for everything after the newest message it shows.
WillCatchUp(c) == socket[c] # "up" \/ c \in owed \/ InInbox(c, CatchUpFrame)
Covered(c) == ~WillCatchUp(c) => \A k \in History \ (Own(c) \cup Excused(c)) : OnItsWay(c, k)

LEMMA AppendKeeps ==
  ASSUME NEW s \in Seq(Nat), NEW x \in Nat, NEW k, k = x \/ \E i \in 1 .. Len(s) : s[i] = k
  PROVE  \E i \in 1 .. Len(Append(s, x)) : Append(s, x)[i] = k
<1>1. Len(Append(s, x)) = Len(s) + 1 /\ Len(s) \in Nat /\ Append(s, x)[Len(s) + 1] = x
  OBVIOUS
<1>2. Len(s) + 1 \in 1 .. Len(Append(s, x))
  BY <1>1
<1>3. \A i \in 1 .. Len(s) : i \in 1 .. Len(Append(s, x)) /\ Append(s, x)[i] = s[i]
  BY <1>1
<1> QED
  BY <1>1, <1>2, <1>3

LEMMA TailKeeps ==
  ASSUME NEW s \in Seq(Nat), s # <<>>, NEW i \in 1 .. Len(s), s[i] # Head(s)
  PROVE  \E j \in 1 .. Len(Tail(s)) : Tail(s)[j] = s[i]
<1>1. i # 1
  OBVIOUS
<1>2. i - 1 \in 1 .. Len(Tail(s)) /\ Tail(s)[i - 1] = s[i]
  BY <1>1
<1> QED
  BY <1>2

LEMMA BusKeeps ==
  ASSUME Shape, Unsent, [Next]_vars,
         ~\E r \in Requests : Crash(r) \/ \E missing : Announce(r, missing)
  PROVE  \A k : OnBus(k) => OnBus(k)'
<1> SUFFICES \A q \in Requests : at[q] = "publishing" => at'[q] = "publishing" /\ num'[q] = num[q]
  BY DEF OnBus
<1>1. ASSUME NEW r \in Requests, RequestStep(r) \/ RequestFails(r)
      PROVE  \A q \in Requests : at[q] = "publishing" => at'[q] = "publishing" /\ num'[q] = num[q]
  <2>1. TakeNumber(r) \/ Insert(r) \/ Resolve(r) \/ MarkOwn(r) \/ Answered(r) \/ RequestFails(r)
    BY <1>1 DEF RequestStep
  <2>2. at[r] # "publishing" /\ \A q \in Requests \ {r} : at'[q] = at[q] /\ num'[q] = num[q]
    BY <2>1 DEF RequestFails, TakeNumber, Insert, Resolve, MarkOwn, Answered, At, Goto, Shape
  <2> QED
    BY <2>2
<1>2. ASSUME NEW m \in Msgs, Write(m) \/ Retry(m) \/ SendFails(m)
      PROVE  \A q \in Requests : at[q] = "publishing" => at'[q] = "publishing" /\ num'[q] = num[q]
  BY <1>2, AuthorMoves DEF Shape
<1>3. ASSUME NEW c \in Clients,
             TabStep(c) \/ SocketStep(c) \/ Close(c) \/ (\E n \in Numbers : MarkRead(c, n))
      PROVE  UNCHANGED <<at, num>>
  BY <1>3, ClientMoves DEF server
<1>4. CASE UNCHANGED vars
  BY <1>4 DEF vars, server
<1> QED
  BY <1>1, <1>2, <1>3, <1>4 DEF Next

\* What a tab hears changes by its own steps and as messages are announced.
LEMMA LineChanges ==
  ASSUME Shape, Unsent, Sockets, [Next]_vars, NEW c \in Clients
  PROVE  \/ \E r \in Requests : Crash(r) \/ \E missing : Announce(r, missing)
         \/ Receive(c) \/ SocketStep(c) \/ Close(c)
         \/ inbox'[c] = inbox[c] /\ socket'[c] = socket[c] /\ (c \in owed' <=> c \in owed)
<1> DEFINE Same == inbox'[c] = inbox[c] /\ socket'[c] = socket[c] /\ (c \in owed' <=> c \in owed)
<1>1. UNCHANGED line => Same
  BY DEF line
<1>2. ASSUME NEW r \in Requests, RequestStep(r) \/ RequestFails(r), ~\E missing : Announce(r, missing)
      PROVE  UNCHANGED line
  BY <1>2 DEF RequestStep, RequestFails, TakeNumber, Insert, Resolve, MarkOwn, Answered
<1>3. ASSUME NEW m \in Msgs, Write(m) \/ Retry(m) \/ SendFails(m) PROVE UNCHANGED line
  BY <1>3, AuthorMoves
<1>4. ASSUME NEW d \in Clients, (\E f \in fetches[d] : FetchPage(d, f) \/ FetchEnds(d, f))
                                \/ (\E n \in Numbers : MarkRead(d, n))
      PROVE  UNCHANGED line
  BY <1>4 DEF FetchPage, FetchEnds, MarkRead
<1>5. ASSUME NEW d \in Clients \ {c}, Receive(d) \/ SocketStep(d) \/ Close(d) PROVE Same
  BY <1>5 DEF Receive, SocketStep, Join, Ready, Resync, Close, Shape, Sockets
<1>6. CASE UNCHANGED vars
  BY <1>1, <1>6 DEF vars, line
<1> QED
  BY <1>1, <1>2, <1>3, <1>4, <1>5, <1>6 DEF Next, TabStep

LEMMA SteadyStep ==
  ASSUME Shape, Numbered, Follows, [Next]_vars,
         NEW c \in Clients, Steady(c), ~WillCatchUp(c)
  PROVE  ~WillCatchUp(c)'
<1>0. Unsent /\ Sockets /\ AfterFirst
  BY DEF Follows
<1>1. c \notin Mobile /\ c \notin Lossy /\ Dying = {} /\ socket[c] = "up" /\ c \notin owed
      /\ \A i \in 1 .. Len(inbox[c]) : inbox[c][i] # CatchUpFrame
  BY DEF Steady, WillCatchUp, InInbox
<1>2. ASSUME NEW r \in Requests, NEW missing, Announce(r, missing) PROVE ~WillCatchUp(c)'
  <2>1. num[r] \in Nat /\ num[r] # CatchUpFrame
    <3>1. r[1] \in Msgs /\ num[r] \in stored[r[1]] /\ num[r] \in Nat
      BY <1>2, RequestMsgs DEF Announce, At, Numbered, GoOnStored, Shape
    <3>2. First < num[r]
      BY <1>0, <3>1 DEF AfterFirst
    <3> QED
      BY <3>1, <3>2 DEF First, CatchUpFrame
  <2>2. socket'[c] = "up" /\ c \notin owed'
    BY <1>1, <1>2 DEF Announce
  <2>3. inbox[c] \in Seq(Nat) /\ (inbox'[c] = inbox[c] \/ inbox'[c] = Append(inbox[c], num[r]))
    BY <1>2 DEF Announce, Shape
  <2>4. \A i \in 1 .. Len(inbox'[c]) : inbox'[c][i] # CatchUpFrame
    BY <1>1, <2>1, <2>3, AppendIn
  <2> QED
    BY <2>2, <2>4 DEF WillCatchUp, InInbox
<1>3. CASE Receive(c)
  <2>1. /\ inbox[c] \in Seq(Nat) /\ inbox[c] # <<>> /\ inbox'[c] = Tail(inbox[c])
        /\ socket' = socket /\ owed' = owed
    BY <1>3, ReceiveIs DEF Shape
  <2>2. \A i \in 1 .. Len(inbox'[c]) : inbox'[c][i] # CatchUpFrame
    BY <1>1, <2>1, TailIn
  <2> QED
    BY <1>1, <2>1, <2>2 DEF WillCatchUp, InInbox
<1>4. CASE inbox'[c] = inbox[c] /\ socket'[c] = socket[c] /\ (c \in owed' <=> c \in owed)
  BY <1>1, <1>4 DEF WillCatchUp, InInbox
<1>5. ~SocketStep(c) /\ ~Close(c) /\ \A r \in Requests : ~Crash(r)
  BY <1>1 DEF SocketStep, Join, Ready, Resync, Close, Crash
<1> QED
  BY <1>0, <1>2, <1>3, <1>4, <1>5, LineChanges

LEMMA CoveredStep ==
  ASSUME Shape, Numbered, ToldIsStored, Follows, [Next]_vars, NEW c \in Clients, Covered(c),
         (c \in Readers /\ NoHole(c)) \/ Steady(c), Steady(c) => ~WillCatchUp(c)
  PROVE  Covered(c)'
<1>0. /\ Unsent /\ Sockets /\ AfterFirst /\ Catching
      /\ First \in list[c] /\ History \in SUBSET Nat /\ \A k \in History : First <= k
  BY HistoryIs DEF Follows, Catching
<1>1. ASSUME NEW r \in Requests, Stores(r) PROVE Covered(c)'
  <2>1. History' = History \cup {num[r]} /\ Own(c) \subseteq Own(c)' /\ Excused(c) \subseteq Excused(c)'
    <3>1. untold \subseteq untold' /\ late \subseteq late'
      BY <1>1 DEF Stores, Store
    <3> QED
      BY <1>0, <1>1, <3>1, OneMore DEF Excused, Steady
  <2>2. WillCatchUp(c)' <=> WillCatchUp(c)
    BY <1>1 DEF Stores, line, WillCatchUp, InInbox
  <2>3. \A k : (OnBus(k) => OnBus(k)') /\ (k = num[r] => OnBus(k)' \/ k \in Excused(c)')
    <3>1. \A k : OnBus(k) => OnBus(k)'
      BY <1>1 DEF Stores, OnBus, Shape
    <3>2. CASE at' = [at EXCEPT ![r] = "publishing"]
      BY <1>1, <3>1, <3>2 DEF Stores, OnBus, Shape
    <3>3. CASE untold' = untold \cup {num[r]}
      BY <3>1, <3>3 DEF Excused
    <3> QED
      BY <1>1, <3>2, <3>3 DEF Stores
  <2>4. \A k : OnItsWay(c, k) => OnItsWay(c, k)'
    BY <1>1, <2>3 DEF Stores, tab, line, OnItsWay, InInbox
  <2>5. \A k : k = num[r] => OnItsWay(c, k)' \/ k \in Excused(c)'
    BY <2>3 DEF OnItsWay
  <2>6. SUFFICES ASSUME ~WillCatchUp(c)', NEW k \in History', k \notin Own(c)', k \notin Excused(c)'
                 PROVE  OnItsWay(c, k)'
    BY DEF Covered
  <2>7. CASE k \in History
    <3>1. OnItsWay(c, k)
      BY <2>1, <2>2, <2>6, <2>7 DEF Covered
    <3> QED
      BY <2>4, <3>1
  <2>8. CASE k = num[r]
    BY <2>5, <2>6, <2>8
  <2> QED
    BY <2>1, <2>7, <2>8
<1>2. ASSUME UNCHANGED messages, NEW r \in Requests, NEW missing, Announce(r, missing) PROVE Covered(c)'
  <2>1. History' = History /\ Own(c)' = Own(c) /\ Excused(c)' = Excused(c)
    BY <1>2 DEF History, Own, Excused, Steady
  <2>2. UNCHANGED <<list, fetches, socket, num>> /\ at' = [at EXCEPT ![r] = "marking"]
        /\ inbox[c] \in Seq(Nat) /\ num[r] \in Nat
    BY <1>2 DEF Announce, Goto, tab, Shape
  <2>3. SUFFICES ASSUME ~WillCatchUp(c)' PROVE \A k \in History \ (Own(c) \cup Excused(c)) : OnItsWay(c, k)'
    BY <2>1 DEF Covered
  <2>4. socket[c] = "up" /\ c \notin missing
    BY <1>2, <2>2, <2>3 DEF WillCatchUp, Announce
  <2>5. inbox'[c] = Append(inbox[c], num[r])
    BY <1>2, <2>4 DEF Announce
  <2>6. \A n : InInbox(c, n) \/ n = num[r] => InInbox(c, n)'
    <3> TAKE n
    <3> SUFFICES ASSUME InInbox(c, n) \/ n = num[r] PROVE InInbox(c, n)'
      OBVIOUS
    <3>1. \E i \in 1 .. Len(Append(inbox[c], num[r])) : Append(inbox[c], num[r])[i] = n
      BY <2>2, AppendKeeps DEF InInbox
    <3> QED
      BY <2>5, <3>1 DEF InInbox
  <2>7. c \notin owed
    BY <1>2, <2>3 DEF Announce, WillCatchUp
  <2>8. ~WillCatchUp(c)
    BY <2>3, <2>4, <2>6, <2>7 DEF WillCatchUp
  <2>9. \A k : OnBus(k) => OnBus(k)' \/ k = num[r]
    BY <2>2 DEF OnBus, Shape
  <2> QED
    BY <2>2, <2>6, <2>8, <2>9 DEF Covered, OnItsWay
<1>3. ASSUME NEW r \in Requests, Crash(r) PROVE Covered(c)'
  <2>1. socket'[c] = "up" => c \in owed'
    BY <1>3 DEF Crash
  <2> QED
    BY <2>1 DEF Covered, WillCatchUp
<1>4. CASE SocketStep(c) \/ Close(c)
  <2>1. CASE Close(c) \/ Join(c)
    <3>1. socket'[c] # "up"
      BY <1>0, <2>1 DEF Close, Join, Sockets
    <3> QED
      BY <3>1 DEF Covered, WillCatchUp
  <2>2. CASE Ready(c) \/ Resync(c)
    <3>1. inbox'[c] = Append(inbox[c], CatchUpFrame) /\ inbox[c] \in Seq(Nat)
      BY <2>2 DEF Ready, Resync, Shape
    <3>2. InInbox(c, CatchUpFrame)'
      <4>1. CatchUpFrame \in Nat
        BY DEF CatchUpFrame
      <4>2. \E i \in 1 .. Len(Append(inbox[c], CatchUpFrame)) :
               Append(inbox[c], CatchUpFrame)[i] = CatchUpFrame
        BY <3>1, <4>1, AppendKeeps
      <4> QED
        BY <3>1, <4>2 DEF InInbox, CatchUpFrame
    <3> QED
      BY <3>2 DEF Covered, WillCatchUp
  <2> QED
    BY <1>4, <2>1, <2>2 DEF SocketStep
<1>5. CASE Receive(c)
  <2> DEFINE n == Head(inbox[c])
             new == [after |-> Newest(c), found |-> {}, full |-> TRUE]
  <2>1. UNCHANGED <<messages, at, num, socket, owed>>
    BY <1>5, ReceiveIs DEF server
  <2>2. History' = History /\ Own(c)' = Own(c) /\ Excused(c)' = Excused(c) /\ \A k : OnBus(k)' <=> OnBus(k)
    BY <2>1 DEF History, Own, Excused, Steady, OnBus
  <2>3. inbox[c] \in Seq(Nat) /\ inbox[c] # <<>> /\ inbox'[c] = Tail(inbox[c])
    BY <1>5, ReceiveIs DEF Shape
  <2>4. n \in Nat
    BY <2>3
  <2>5. \/ /\ n = CatchUpFrame \/ (~Known(c, n) /\ Skips(c, n))
           /\ list'[c] = list[c] /\ fetches'[c] = fetches[c] \cup {new}
        \/ n # CatchUpFrame /\ Known(c, n) /\ list'[c] = list[c] /\ fetches'[c] = fetches[c]
        \/ n # CatchUpFrame /\ list'[c] = list[c] \cup {n} /\ fetches'[c] = fetches[c]
    BY <1>5, ReceiveIs
  <2>6. new.full /\ new.after = Newest(c) /\ Newest(c) \in Nat /\ Newest(c) \in list[c]
    BY <1>0, NewestIs
  <2>7. \A k : InInbox(c, k) => InInbox(c, k)' \/ k = n
    <3> TAKE k
    <3> SUFFICES ASSUME InInbox(c, k), k # n PROVE InInbox(c, k)'
      OBVIOUS
    <3>1. PICK i \in 1 .. Len(inbox[c]) : inbox[c][i] = k
      BY DEF InInbox
    <3>2. \E j \in 1 .. Len(Tail(inbox[c])) : Tail(inbox[c])[j] = k
      BY <2>3, <3>1, TailKeeps
    <3> QED
      BY <2>3, <3>2 DEF InInbox
  <2> HIDE DEF n, new
  <2>8. SUFFICES ASSUME ~WillCatchUp(c)', NEW k \in History, k \notin Own(c), k \notin Excused(c)
               PROVE  OnItsWay(c, k)'
    BY <2>2 DEF Covered
  <2>9. k \in Nat /\ k # CatchUpFrame
    BY <1>0 DEF First, CatchUpFrame
  <2>10. CASE WillCatchUp(c)
    <3>1. n = CatchUpFrame
      BY <2>1, <2>7, <2>8, <2>10 DEF WillCatchUp
    <3>2. new \in fetches'[c] /\ list'[c] = list[c]
      BY <2>5, <3>1
    <3>3. NoHole(c) /\ k \notin late
      BY <2>8, <2>10 DEF Excused
    <3>4. k <= Newest(c) => k \in list[c]
      BY <2>6, <2>9, <3>3 DEF NoHole, Whole
    <3>5. k > Newest(c) => Fetches(new, k)
      BY <2>6 DEF Fetches
    <3> QED
      BY <2>6, <2>9, <3>2, <3>4, <3>5 DEF OnItsWay
  <2>11. CASE ~WillCatchUp(c)
    <3>1. OnItsWay(c, k)
      BY <2>8, <2>11 DEF Covered
    <3>2. list[c] \subseteq list'[c] /\ fetches[c] \subseteq fetches'[c]
      BY <2>5
    <3>3. CASE k = n
      <4>1. CASE Known(c, n)
        BY <2>8, <3>2, <3>3, <4>1 DEF Known, Own, OnItsWay
      <4>2. CASE n \in list'[c]
        BY <3>3, <4>2 DEF OnItsWay
      <4>3. CASE Skips(c, n) /\ fetches'[c] = fetches[c] \cup {new}
        <5>1. Fetches(new, k)
          BY <2>4, <2>6, <3>3, <4>3 DEF Skips, Fetches
        <5> QED
          BY <4>3, <5>1 DEF OnItsWay
      <4> QED
        BY <2>5, <2>9, <3>3, <4>1, <4>2, <4>3
    <3>4. CASE k # n
      BY <2>2, <2>7, <3>1, <3>2, <3>4 DEF OnItsWay
    <3> QED
      BY <3>3, <3>4
  <2> QED
    BY <2>10, <2>11
<1>6. ASSUME NEW f \in fetches[c], FetchPage(c, f) PROVE Covered(c)'
  <2>1. UNCHANGED <<messages, at, num, list, inbox, socket, owed>> /\ f.full
    BY <1>6 DEF FetchPage, server, line
  <2>2. History' = History /\ Own(c)' = Own(c) /\ Excused(c)' = Excused(c) /\ (WillCatchUp(c)' <=> WillCatchUp(c))
        /\ \A k : (OnBus(k)' <=> OnBus(k)) /\ (InInbox(c, k)' <=> InInbox(c, k))
    BY <2>1 DEF History, Own, Excused, Steady, OnBus, WillCatchUp, InInbox
  <2>3. PICK g \in [after : Nat, found : SUBSET Nat, full : BOOLEAN] :
           /\ fetches'[c] = (fetches[c] \ {f}) \cup {g}
           /\ g.found = f.found \cup PageAfter(f.after)
           /\ g.full => g.after \in PageAfter(f.after)
           /\ ~g.full => PageAfter(f.after) = After(f.after)
    BY <1>0, <1>6, FetchPageIs
  <2>4. f.after \in Nat
    BY <1>0 DEF Catching
  <2>5. ASSUME NEW k \in History, Fetches(f, k) PROVE Fetches(g, k)
    <3>1. CASE k \in f.found
      BY <2>3, <3>1 DEF Fetches
    <3>2. CASE f.after < k
      <4>1. k \in After(f.after) /\ k \in Nat
        BY <1>0, <3>2 DEF After
      <4>2. CASE ~g.full
        BY <2>3, <4>1, <4>2 DEF Fetches
      <4>3. CASE g.full /\ k <= g.after
        <5>1. k \in PageAfter(f.after)
          BY <1>0, <2>3, <2>4, <4>1, <4>3, HistoryIs, PageIs
        <5> QED
          BY <2>3, <5>1 DEF Fetches
      <4>4. CASE g.full /\ ~(k <= g.after)
        BY <2>3, <4>1, <4>4 DEF Fetches
      <4> QED
        BY <4>2, <4>3, <4>4
    <3> QED
      BY <2>5, <3>1, <3>2 DEF Fetches
  <2> QED
    BY <2>1, <2>2, <2>3, <2>5 DEF Covered, OnItsWay
<1>7. ASSUME NEW f \in fetches[c], FetchEnds(c, f) PROVE Covered(c)'
  <2>1. UNCHANGED <<messages, at, num, inbox, socket, owed>> /\ ~f.full
    BY <1>7 DEF FetchEnds, server, line
  <2>2. History' = History /\ Own(c)' = Own(c) /\ Excused(c)' = Excused(c) /\ (WillCatchUp(c)' <=> WillCatchUp(c))
        /\ \A k : (OnBus(k)' <=> OnBus(k)) /\ (InInbox(c, k)' <=> InInbox(c, k))
    BY <2>1 DEF History, Own, Excused, Steady, OnBus, WillCatchUp, InInbox
  <2>3. list'[c] = list[c] \cup {n \in f.found : ~Known(c, n)} /\ fetches'[c] = fetches[c] \ {f}
    BY <1>7, FetchEndsIs
  <2>4. \A k \in History \ (Own(c) \cup Excused(c)) : Fetches(f, k) => k \in list'[c]
    BY <2>1, <2>3 DEF Fetches, Known, Own
  <2> QED
    BY <2>2, <2>3, <2>4 DEF Covered, OnItsWay
<1>8. ASSUME UNCHANGED messages, ~Receive(c), ~SocketStep(c), ~Close(c),
             ~\E r \in Requests : Crash(r) \/ \E missing : Announce(r, missing),
             ~\E f \in fetches[c] : FetchPage(c, f) \/ FetchEnds(c, f)
      PROVE  Covered(c)'
  <2>1. History' = History /\ Own(c)' = Own(c) /\ Excused(c)' = Excused(c)
    BY <1>8 DEF History, Own, Excused, Steady
  <2>2. inbox'[c] = inbox[c] /\ socket'[c] = socket[c] /\ (c \in owed' <=> c \in owed)
    BY <1>0, <1>8, LineChanges
  <2>3. fetches'[c] = fetches[c] /\ list[c] \subseteq list'[c]
    BY <1>8, TabChanges
  <2>4. \A k : OnBus(k) => OnBus(k)'
    BY <1>0, <1>8, BusKeeps
  <2> QED
    BY <2>1, <2>2, <2>3, <2>4 DEF Covered, WillCatchUp, OnItsWay, InInbox
<1> QED
  BY <1>0, <1>1, <1>2, <1>3, <1>4, <1>5, <1>6, <1>7, <1>8, StoredStep

-----------------------------------------------------------------------------
(* As many numbers are handed out as requests have come so far.            *)

Handed == {r \in Requests : at[r] \notin {"none", "numbering"}}
EachOne == lastSeq <= First + Cardinality(Handed)

LEMMA HandedIs ==
  ASSUME IsFiniteSet(Requests)
  PROVE  IsFiniteSet(Handed) /\ Cardinality(Handed) \in Nat /\ Cardinality(Handed) <= Cardinality(Requests)
<1>1. Handed \in SUBSET Requests
  BY DEF Handed
<1>2. IsFiniteSet(Handed) /\ Cardinality(Handed) <= Cardinality(Requests)
  BY <1>1, FS_Subset
<1> QED
  BY <1>2, FS_CardinalityType

LEMMA EachOneStep ==
  ASSUME Shape, Unsent, EachOne, [Next]_vars
  PROVE  EachOne'
<1>1. /\ IsFiniteSet(Handed) /\ Cardinality(Handed) \in Nat
      /\ IsFiniteSet(Handed') /\ Cardinality(Handed') \in Nat
  <2>1. IsFiniteSet(Requests)
    BY RequestsFinite, MsgsAssumption
  <2>2. Handed' \in SUBSET Requests
    BY DEF Handed
  <2>3. IsFiniteSet(Handed')
    BY <2>1, <2>2, FS_Subset
  <2> QED
    BY <2>1, <2>3, HandedIs, FS_CardinalityType
<1>2. ASSUME Handed \subseteq Handed', lastSeq' = lastSeq PROVE EachOne'
  <2>1. Handed \in SUBSET Handed'
    BY <1>2
  <2>2. Cardinality(Handed) <= Cardinality(Handed')
    BY <1>1, <2>1, FS_Subset
  <2> QED
    BY <1>1, <1>2, <2>2 DEF EachOne, Shape, First
<1>3. ASSUME NEW r \in Requests, TakeNumber(r) PROVE EachOne'
  <2>1. /\ at[r] = "numbering" /\ at' = [at EXCEPT ![r] = "inserting"] /\ lastSeq' = lastSeq + 1
    BY <1>3 DEF TakeNumber, At, Goto
  <2>2. Handed' = Handed \cup {r} /\ r \notin Handed
    BY <2>1 DEF Handed, Shape
  <2>3. Cardinality(Handed') = Cardinality(Handed) + 1
    BY <1>1, <2>2, FS_AddElement
  <2> QED
    BY <1>1, <2>1, <2>3 DEF EachOne, Shape, First
<1>4. ASSUME NEW r \in Requests, RequestStep(r) \/ RequestFails(r) \/ Crash(r), ~TakeNumber(r) PROVE EachOne'
  <2>1. CASE lastSeq' = lastSeq
    <3>1. Handed \subseteq Handed'
      BY <1>4, RequestMoves DEF Handed, Shape
    <3> QED
      BY <1>2, <2>1, <3>1
  <2>2. CASE lastSeq' = lastSeq + 1 /\ at[r] = "numbering" /\ at' = [at EXCEPT ![r] = "done"]
    <3>1. Handed' = Handed \cup {r} /\ r \notin Handed
      BY <2>2 DEF Handed, Shape
    <3>2. Cardinality(Handed') = Cardinality(Handed) + 1
      BY <1>1, <3>1, FS_AddElement
    <3> QED
      BY <1>1, <2>2, <3>2 DEF EachOne, Shape, First
  <2> QED
    BY <1>4, <2>1, <2>2, RequestMoves
<1>5. ASSUME NEW m \in Msgs, Write(m) \/ Retry(m) \/ SendFails(m) PROVE EachOne'
  <2>1. Handed \subseteq Handed' /\ lastSeq' = lastSeq
    BY <1>5, AuthorMoves DEF Handed, Shape
  <2> QED
    BY <1>2, <2>1
<1>6. ASSUME NEW c \in Clients,
             TabStep(c) \/ SocketStep(c) \/ Close(c) \/ (\E n \in Numbers : MarkRead(c, n))
      PROVE  EachOne'
  <2>1. Handed \subseteq Handed' /\ lastSeq' = lastSeq
    BY <1>6, ClientMoves DEF Handed, server
  <2> QED
    BY <1>2, <2>1
<1>7. CASE UNCHANGED vars
  <2>1. Handed \subseteq Handed' /\ lastSeq' = lastSeq
    BY <1>7 DEF Handed, vars, server
  <2> QED
    BY <1>2, <2>1
<1> QED
  BY <1>3, <1>4, <1>5, <1>6, <1>7 DEF Next

-----------------------------------------------------------------------------
(* The theorems about what the tabs show.                                  *)

Delivered ==
    /\ Follows /\ EachOne
    /\ \A c \in Readers : NoHole(c)
    /\ \A c \in Clients : Steady(c) => ~WillCatchUp(c)
    /\ \A c \in Clients : c \in Readers \/ Steady(c) => Covered(c)

LEMMA InitDelivered == Init => Delivered
<1> SUFFICES ASSUME Init PROVE Delivered
  OBVIOUS
<1>1. History = {First} /\ \A c \in Clients : Own(c) = {}
  BY DEF Init, History, Own
<1>2. Follows
  <2>1. Unsent /\ Sockets
    <3>1. \A m \in Msgs : MaxTries[m] \in Nat /\ \A t \in 1 .. MaxTries[m] : <<m, t>> \in Requests
      BY BoundsAssumption DEF Requests
    <3> QED
      BY <3>1 DEF Init, Unsent, Sockets
  <2>2. AfterFirst /\ Noted
    BY DEF Init, AfterFirst, Noted
  <2>3. Catching
    BY DEF Init, Catching
  <2> QED
    BY <2>1, <2>2, <2>3 DEF Follows
<1>3. EachOne
  <2>1. Handed = {}
    BY DEF Init, Handed
  <2> QED
    BY <2>1, FS_EmptySet DEF Init, EachOne, First
<1>4. \A c \in Clients : NoHole(c) /\ (Steady(c) => ~WillCatchUp(c)) /\ Covered(c)
  BY <1>1 DEF Init, NoHole, Whole, WillCatchUp, InInbox, Covered, OnItsWay, First, Steady
<1> QED
  BY <1>2, <1>3, <1>4 DEF Delivered, Readers

LEMMA NextDelivered == IInv /\ Delivered /\ [Next]_vars => Delivered'
<1> SUFFICES ASSUME IInv, Delivered, [Next]_vars PROVE Delivered'
  OBVIOUS
<1>1. Shape /\ Numbered /\ ToldIsStored /\ Follows /\ EachOne
      /\ Unsent /\ Sockets /\ AfterFirst /\ Catching /\ Noted
  BY DEF IInv, Delivered, Follows
<1>2. Follows' /\ EachOne'
  BY <1>1, UnsentStep, SocketsStep, AfterFirstStep, CatchingStep, NotedStep, EachOneStep DEF Follows
<1>3. ASSUME NEW c \in Readers PROVE NoHole(c)'
  BY <1>1, <1>3, NoHoleStep DEF Delivered
<1>4. ASSUME NEW c \in Clients, Steady(c) PROVE ~WillCatchUp(c)'
  BY <1>1, <1>4, SteadyStep DEF Delivered
<1>5. ASSUME NEW c \in Clients, c \in Readers \/ Steady(c) PROVE Covered(c)'
  BY <1>1, <1>5, CoveredStep DEF Delivered
<1>6. Readers' = Readers /\ \A c \in Clients : Steady(c)' <=> Steady(c)
  BY DEF Readers, Steady
<1> QED
  BY <1>2, <1>3, <1>4, <1>5, <1>6 DEF Delivered

\* What is between the database and each screen, for every size: the step by step
\* reason why nothing is left out.
THEOREM DeliveryShows == Spec => []Delivered
  BY InitDelivered, NextDelivered, DeliveryInvariant, PTL DEF Spec

\* The variables keep their types: no more numbers are handed out than requests come.
THEOREM DeliveryTypes == Spec => []TypeOK
<1>1. IInv /\ Delivered => TypeOK
  <2> SUFFICES ASSUME IInv, Delivered PROVE TypeOK
    OBVIOUS
  <2>1. Shape /\ Numbered /\ ToldIsStored /\ ReadsCapped /\ Unsent /\ Sockets /\ AfterFirst /\ Catching /\ Noted /\ EachOne
    BY DEF IInv, Delivered, Follows
  <2>2. lastSeq \in Nat /\ First <= lastSeq /\ lastSeq <= Top /\ Top \in Nat
    <3>1. IsFiniteSet(Requests)
      BY RequestsFinite, MsgsAssumption
    <3>2. Cardinality(Requests) \in Nat
      BY <3>1, FS_CardinalityType
    <3>3. Cardinality(Handed) \in Nat /\ Cardinality(Handed) <= Cardinality(Requests)
      BY <3>1, HandedIs
    <3> QED
      BY <2>1, <3>2, <3>3 DEF EachOne, Shape, Top, First
  <2>3. \A n \in Nat : First <= n /\ n <= lastSeq => n \in Numbers
    BY <2>2 DEF Numbers, First
  <2>4. lastSeq \in Numbers
    BY <2>2, <2>3
  <2>5. History \subseteq Numbers /\ First \in History
    BY <2>1, <2>3, HistoryIs DEF History
  <2>6. stored \in [Msgs -> SUBSET Numbers] /\ untold \in SUBSET Numbers /\ late \in SUBSET Numbers
    BY <2>1, <2>5 DEF Shape, History, Noted
  <2>7. num \in [Requests -> Numbers \cup {NoNumber}]
    <3>1. ASSUME NEW r \in Requests PROVE num[r] \in Numbers \cup {NoNumber}
      BY <2>1, <2>3 DEF Shape, Numbered, HandedOut, NoNumber, First
    <3> QED
      BY <2>1, <3>1 DEF Shape
  <2>8. list \in [Clients -> SUBSET Numbers]
    BY <2>1, <2>5, ToldParts DEF Screens, Shape
  <2>9. inbox \in [Clients -> Seq(Numbers \cup {CatchUpFrame})]
    <3>1. ASSUME NEW c \in Clients PROVE inbox[c] \in Seq(Numbers \cup {CatchUpFrame})
      <4>1. inbox[c] \in Seq(Nat) /\ \A i \in 1 .. Len(inbox[c]) : inbox[c][i] \in Numbers \cup {CatchUpFrame}
        BY <2>1, <2>5, ToldParts DEF Inboxes, Shape
      <4> QED
        BY <4>1
    <3> QED
      BY <2>1, <3>1 DEF Shape
  <2>10. fetches \in [Clients -> SUBSET Fetch]
    <3>1. ASSUME NEW c \in Clients, NEW f \in fetches[c] PROVE f \in Fetch
      <4>1. f \in [after : Nat, found : SUBSET Nat, full : BOOLEAN] /\ f.after \in Numbers /\ f.found \subseteq Numbers
        BY <2>1, <2>5, ToldParts DEF Catching, Screens
      <4> QED
        BY <4>1 DEF Fetch
    <3> QED
      BY <2>1, <3>1 DEF Shape
  <2>11. read \in [Clients -> 0 .. Top]
    <3>1. ASSUME NEW c \in Clients PROVE read[c] \in 0 .. Top
      BY <2>1, <2>2 DEF ReadsCapped, Shape
    <3> QED
      BY <2>1, <3>1 DEF Shape
  <2>12. \A m \in Msgs : tries[m] \in 0 .. MaxTries[m]
    BY <2>1, BoundsAssumption DEF Unsent
  <2> QED
    BY <2>1, <2>4, <2>6, <2>7, <2>8, <2>9, <2>10, <2>11, <2>12 DEF TypeOK, Shape, Sockets
<1> QED
  BY <1>1, DeliveryInvariant, DeliveryShows, PTL

\* A tab that only reads never shows a message after a hole, whatever the pages,
\* the catch-ups that run at once, the frames that get lost and the requests that
\* fail; only a late message may be a hole.
THEOREM DeliveryReadersShowPrefix == Spec => []ReadersShowPrefix
<1>1. Delivered => ReadersShowPrefix
  BY DEF Delivered, NoHole, Whole, ReadersShowPrefix
<1> QED
  BY <1>1, DeliveryShows, PTL

\* At rest a tab shows all that others have written and that is not excused, if it
\* only reads, however often its socket closes and whatever is lost; or if its socket
\* stays up and no frame for it is ever lost, and then late messages too; or if
\* nobody else writes.
OnlyAuthor(c) == \A m \in Msgs : Author[m] = c
THEOREM DeliveryNothingMissed ==
  Spec => []((\A c \in Clients : c \in Readers \/ Steady(c) \/ OnlyAuthor(c)) => NothingMissed)
<1>1. IInv /\ Delivered => ((\A c \in Clients : c \in Readers \/ Steady(c) \/ OnlyAuthor(c)) => NothingMissed)
  <2> SUFFICES ASSUME IInv, Delivered, NEW c \in Clients, c \in Readers \/ Steady(c) \/ OnlyAuthor(c), AtRest(c),
                      NEW k \in History, k \notin Own(c) \cup Excused(c)
               PROVE  k \in list[c]
    BY DEF NothingMissed
  <2>1. CASE c \in Readers \/ Steady(c)
    <3>1. ~WillCatchUp(c)
      BY DEF AtRest, WillCatchUp, InInbox
    <3>2. OnItsWay(c, k)
      BY <2>1, <3>1 DEF Delivered, Covered
    <3>3. ~OnBus(k) /\ ~InInbox(c, k) /\ fetches[c] = {}
      BY DEF AtRest, OnBus, InInbox
    <3> QED
      BY <3>2, <3>3 DEF OnItsWay
  <2>2. CASE OnlyAuthor(c)
    <3>1. k = First
      BY <2>2 DEF OnlyAuthor, Own, History
    <3> QED
      BY <3>1 DEF Delivered, Follows, Catching
  <2> QED
    BY <2>1, <2>2
<1> QED
  BY <1>1, DeliveryInvariant, DeliveryShows, PTL

-----------------------------------------------------------------------------
(* Delivery implements Log.                                                *)

LEMMA PlacesAre == \A m, n : <<m, n>> \in Places <=> m \in Msgs /\ n \in stored[m]
  BY DEF Places

LEMMA FilledIs == Promise!Filled = History
<1>1. \A e \in Places : e = <<e[1], e[2]>>
  BY DEF Places
<1>2. {e[2] : e \in Places} = UNION {stored[m] : m \in Msgs}
  <2>1. ASSUME NEW e \in Places PROVE e[2] \in UNION {stored[m] : m \in Msgs}
    BY <1>1, PlacesAre
  <2>2. ASSUME NEW m \in Msgs, NEW n \in stored[m] PROVE \E e \in Places : n = e[2]
    <3>1. <<m, n>> \in Places /\ <<m, n>>[2] = n
      BY PlacesAre
    <3> QED
      BY <3>1
  <2> QED
    BY <2>1, <2>2
<1> QED
  BY <1>2 DEF Promise!Filled, Promise!First, History, First

LEMMA PlacesStay == stored' = stored => Places' = Places
  BY DEF Places

LEMMA PlacesGrow ==
  ASSUME Shape, NEW m \in Msgs, NEW n, stored' = [stored EXCEPT ![m] = @ \cup {n}]
  PROVE  Places' = Places \cup {<<m, n>>}
<1>1. \A k \in Msgs : stored'[k] = IF k = m THEN stored[m] \cup {n} ELSE stored[k]
  BY DEF Shape
<1>2. ASSUME NEW e \in Places' PROVE e \in Places \cup {<<m, n>>}
  <2>1. PICK k \in Msgs : e \in {k} \X stored'[k]
    BY <1>2 DEF Places
  <2>2. e[1] = k /\ e[2] \in stored'[k] /\ e = <<e[1], e[2]>>
    BY <2>1
  <2>3. e[2] \in stored[k] \/ (k = m /\ e[2] = n)
    BY <1>1, <2>2
  <2> QED
    BY <2>2, <2>3, PlacesAre
<1>3. ASSUME NEW e \in Places PROVE e \in Places'
  <2>1. PICK k \in Msgs : e \in {k} \X stored[k]
    BY <1>3 DEF Places
  <2>2. stored[k] \subseteq stored'[k]
    BY <1>1
  <2> QED
    BY <2>1, <2>2 DEF Places
<1>4. <<m, n>> \in Places'
  <2>1. n \in stored'[m]
    BY <1>1
  <2>2. <<m, n>> \in {m} \X stored'[m]
    BY <2>1
  <2> QED
    BY <2>2 DEF Places
<1> QED
  BY <1>2, <1>3, <1>4

\* What nobody outside sees.
LEMMA QuietLog ==
  ASSUME UNCHANGED <<lastSeq, stored, list, read>>, Told' = Told
  PROVE  UNCHANGED Promise!vars
  BY PlacesStay DEF Promise!vars

LEMMA MarkReads ==
  ASSUME Shape, UNCHANGED <<lastSeq, stored, list, entry>>,
         NEW c \in Clients, NEW n \in Nat, n <= lastSeq, Mark(c, n)
  PROVE  [Promise!Next]_(Promise!vars)
<1>1. Told' = Told
  BY DEF Told
<1>2. CASE n > read[c]
  <2>1. read[c] \in Nat /\ lastSeq \in Nat
    BY DEF Shape
  <2>2. read[c] < n /\ n \in 1 .. lastSeq
    BY <1>2, <2>1
  <2>3. read' = [read EXCEPT ![c] = n]
    BY <1>2 DEF Mark
  <2>4. Promise!Read(c, n)
    BY <1>1, <2>2, <2>3, PlacesStay DEF Promise!Read
  <2> QED
    BY <2>2, <2>4 DEF Promise!Next
<1>3. CASE ~(n > read[c])
  <2>1. read' = read
    BY <1>3 DEF Mark, Shape
  <2> QED
    BY <1>1, <2>1, QuietLog
<1> QED
  BY <1>2, <1>3

LEMMA ShowsStored ==
  ASSUME UNCHANGED <<lastSeq, stored, entry, read>>,
         NEW c \in Clients, NEW S \in SUBSET History, list' = [list EXCEPT ![c] = @ \cup S]
  PROVE  [Promise!Next]_(Promise!vars)
<1>1. Told' = Told
  BY DEF Told
<1>2. Promise!Show(c, S)
  BY <1>1, FilledIs, PlacesStay DEF Promise!Show
<1> QED
  BY <1>2, FilledIs DEF Promise!Next

LEMMA RequestKeeps ==
  ASSUME Shape, Numbered, AfterFirst, NEW r \in Requests, RequestStep(r) \/ RequestFails(r) \/ Crash(r)
  PROVE  [Promise!Next]_(Promise!vars)
<1>0. r[1] \in Msgs /\ Author[r[1]] \in Clients /\ num[r] \in Nat /\ num[r] <= lastSeq /\ lastSeq \in Nat
  BY RequestMsgs, AuthorAssumption DEF Shape, Numbered, HandedOut
<1>1. CASE TakeNumber(r)
  <2>1. lastSeq' = lastSeq + 1 /\ UNCHANGED <<stored, entry, list, read>>
    BY <1>1 DEF TakeNumber, tab
  <2>2. Promise!HandOut
    BY <2>1, PlacesStay DEF Promise!HandOut, Told
  <2> QED
    BY <2>2 DEF Promise!Next
<1>2. CASE Insert(r) \/ RequestFails(r)
  <2>0. UNCHANGED <<entry, list, read>>
    BY <1>2 DEF Insert, RequestFails, tab
  <2>1. CASE /\ at[r] = "inserting" /\ lastSeq' = lastSeq
             /\ stored[r[1]] = {} /\ stored' = [stored EXCEPT ![r[1]] = @ \cup {num[r]}]
    <3>1. Places' = Places \cup {<<r[1], num[r]>>}
      BY ONLY <1>0, <2>1, PlacesGrow, Shape
    <3>2. \A e \in Places : e[1] # r[1]
      <4>1. \A e \in Places : \E m \in Msgs : e[1] = m /\ e[2] \in stored[m]
        BY DEF Places
      <4> QED
        BY <2>1, <4>1
    <3>3. num[r] \notin History /\ num[r] \in 1 .. lastSeq
      <4>1. First < num[r] /\ \A m \in Msgs : num[r] \notin stored[m]
        BY <2>1 DEF AfterFirst, Numbered, InsertsFresh
      <4> QED
        BY <1>0, <4>1 DEF History, First
    <3>4. Promise!Store(r[1], num[r])
      BY <2>0, <2>1, <3>1, <3>2, <3>3, FilledIs DEF Promise!Store, Told
    <3> QED
      BY <1>0, <3>3, <3>4 DEF Promise!Next
  <2>2. CASE stored' = stored /\ lastSeq' = lastSeq
    BY <2>0, <2>2, QuietLog DEF Told
  <2>3. CASE stored' = stored /\ lastSeq' = lastSeq + 1
    <3>1. Promise!HandOut
      BY <2>0, <2>3, PlacesStay DEF Promise!HandOut, Told
    <3> QED
      BY <3>1 DEF Promise!Next
  <2> QED
    BY <1>2, <2>1, <2>2, <2>3 DEF Insert, RequestFails, Store, At, Repeat
<1>3. CASE MarkOwn(r)
  <2>1. UNCHANGED <<lastSeq, stored, list, entry>> /\ (read' = read \/ Mark(Author[r[1]], num[r]))
    BY <1>3 DEF MarkOwn, tab
  <2>2. CASE read' = read
    BY <2>1, <2>2, QuietLog DEF Told
  <2> QED
    BY <1>0, <2>1, <2>2, MarkReads
<1>4. CASE Answered(r)
  <2> DEFINE m == r[1]
             n == num[r]
  <2>0. at[r] = "answering" /\ UNCHANGED <<lastSeq, stored, read>>
    BY <1>4 DEF Answered, At
  <2>1. CASE /\ entry[m] = "sending" /\ entry' = [entry EXCEPT ![m] = "delivered"]
             /\ list' = [list EXCEPT ![Author[m]] = @ \cup {n}]
    <3>1. n \in stored[m] /\ <<m, n>> \in Places
      BY <1>0, <2>0, PlacesAre DEF Numbered, GoOnStored
    <3>2. n \in 1 .. lastSeq
      BY <1>0, <3>1 DEF AfterFirst, First
    <3>3. Told' = Told \cup {m} /\ m \notin Told
      BY <1>0, <2>1 DEF Told, Shape
    <3>4. Promise!Deliver(m, n)
      BY <2>0, <2>1, <3>1, <3>3, PlacesStay DEF Promise!Deliver
    <3> QED
      BY <1>0, <3>2, <3>4 DEF Promise!Next
  <2>2. CASE entry' = entry /\ list' = list
    BY <2>0, <2>2, QuietLog DEF Told
  <2> QED
    BY <1>4, <2>1, <2>2 DEF Answered
<1>5. CASE \/ Resolve(r) \/ Crash(r)
           \/ \E missing \in SUBSET {c \in Clients : socket[c] # "down"} : Announce(r, missing)
  <2>1. UNCHANGED <<lastSeq, stored, list, read, entry>>
    BY <1>5 DEF Resolve, Crash, Announce, tab
  <2> QED
    BY <2>1, QuietLog DEF Told
<1> QED
  BY <1>1, <1>2, <1>3, <1>4, <1>5 DEF RequestStep

\* Sending and failing touch what is told only of messages that are not delivered.
LEMMA AuthorKeeps ==
  ASSUME Shape, NEW m \in Msgs, Write(m) \/ Retry(m) \/ SendFails(m)
  PROVE  [Promise!Next]_(Promise!vars)
<1>1. /\ UNCHANGED <<lastSeq, stored, list, read>>
      /\ entry[m] \in {"unsent", "sending", "failed"}
      /\ \E s \in {"sending", "failed"} : entry' = [entry EXCEPT ![m] = s]
  BY DEF Write, Retry, Post, SendFails, server, tab
<1>2. Told' = Told
  BY <1>1 DEF Told, Shape
<1> QED
  BY <1>1, <1>2, QuietLog

LEMMA ClientKeeps ==
  ASSUME Shape, ToldIsStored, NEW c \in Clients,
         TabStep(c) \/ SocketStep(c) \/ Close(c) \/ (\E n \in Numbers : MarkRead(c, n))
  PROVE  [Promise!Next]_(Promise!vars)
<1>0. Screens /\ Inboxes
  BY ToldParts
<1>1. CASE Receive(c)
  <2>0. UNCHANGED <<lastSeq, stored, entry, read>>
    BY <1>1 DEF Receive, server
  <2>1. CASE list' = list
    BY <2>0, <2>1, QuietLog DEF Told
  <2>2. CASE /\ Head(inbox[c]) # CatchUpFrame
             /\ list' = [list EXCEPT ![c] = @ \cup {Head(inbox[c])}]
    <3>1. inbox[c] \in Seq(Nat) /\ inbox[c] # <<>>
      BY <1>1 DEF Receive, Shape
    <3>2. 1 \in 1 .. Len(inbox[c]) /\ Head(inbox[c]) = inbox[c][1]
      BY <3>1
    <3>3. {Head(inbox[c])} \in SUBSET History
      BY <1>0, <2>2, <3>2 DEF Inboxes
    <3> QED
      BY <2>0, <2>2, <3>3, ShowsStored
  <2> QED
    BY <1>1, <2>1, <2>2 DEF Receive
<1>2. CASE \E f \in fetches[c] : FetchEnds(c, f)
  <2>1. PICK f \in fetches[c] : FetchEnds(c, f)
    BY <1>2
  <2>2. {n \in f.found : ~Known(c, n)} \in SUBSET History
    BY <1>0 DEF Screens
  <2> QED
    BY <2>1, <2>2, ShowsStored DEF FetchEnds, server
<1>3. CASE \E n \in Numbers : MarkRead(c, n)
  <2>1. PICK n \in Numbers : MarkRead(c, n)
    BY <1>3
  <2>2. Capped(n) \in Nat /\ Capped(n) <= lastSeq
    BY DEF Capped, Numbers, First, Shape
  <2> QED
    BY <2>1, <2>2, MarkReads DEF MarkRead, server, tab
<1>4. CASE (\E f \in fetches[c] : FetchPage(c, f)) \/ SocketStep(c) \/ Close(c)
  <2>1. UNCHANGED <<lastSeq, stored, list, read, entry>>
    BY <1>4 DEF FetchPage, SocketStep, Join, Ready, Resync, Close, server, tab
  <2> QED
    BY <2>1, QuietLog DEF Told
<1> QED
  BY <1>1, <1>2, <1>3, <1>4 DEF TabStep

LEMMA NextKeeps == IInv /\ AfterFirst /\ [Next]_vars => [Promise!Next]_(Promise!vars)
<1> SUFFICES ASSUME IInv, AfterFirst, [Next]_vars PROVE [Promise!Next]_(Promise!vars)
  OBVIOUS
<1>1. Shape /\ Numbered /\ ToldIsStored
  BY DEF IInv
<1>2. CASE UNCHANGED vars
  BY <1>2, QuietLog DEF vars, server, tab, Told
<1>3. ASSUME NEW r \in Requests, RequestStep(r) \/ RequestFails(r) \/ Crash(r) PROVE [Promise!Next]_(Promise!vars)
  BY <1>1, <1>3, RequestKeeps
<1>4. ASSUME NEW m \in Msgs, Write(m) \/ Retry(m) \/ SendFails(m) PROVE [Promise!Next]_(Promise!vars)
  BY <1>1, <1>4, AuthorKeeps
<1>5. ASSUME NEW c \in Clients,
             TabStep(c) \/ SocketStep(c) \/ Close(c) \/ (\E n \in Numbers : MarkRead(c, n))
      PROVE  [Promise!Next]_(Promise!vars)
  BY <1>1, <1>5, ClientKeeps
<1> QED
  BY <1>2, <1>3, <1>4, <1>5 DEF Next

\* One log, whatever the requests do: a message gets one place and keeps it, what a
\* tab shows is stored and stays, "delivered" and the read positions are not taken back.
THEOREM DeliveryKeepsLog == Spec => KeepsLog
<1>1. Init => Promise!Init
  <2> SUFFICES ASSUME Init PROVE Promise!Init
    OBVIOUS
  <2>1. Places = {} /\ Told = {}
    BY DEF Init, Places, Told
  <2> QED
    BY <2>1 DEF Init, Promise!Init, Promise!First, First
<1>2. Delivered => AfterFirst
  BY DEF Delivered, Follows
<1> QED
  BY <1>1, <1>2, NextKeeps, DeliveryInvariant, DeliveryShows, PTL DEF Spec, KeepsLog, Promise!Spec
=============================================================================
