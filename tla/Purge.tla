------------------------------ MODULE Purge ------------------------------
(***************************************************************************)
(* What a channel leaves behind and who removes it: the purge of the       *)
(* channels their last member left (src/server/purge.go and the claims in  *)
(* src/server/channels.go), the pictures with their files                  *)
(* (src/server/media.go), and the requests that may still be writing to a  *)
(* channel when it is marked (src/server/messages_http.go).                *)
(*                                                                         *)
(* A picture is a media record that names a file.  A record is a pair      *)
(* <<file, channel>>, or <<file, Unsent>> before a message carries it; a   *)
(* forwarded copy is a second record of the same file.  Two copies inside  *)
(* one channel are one pair.  Messages are counted, not told apart.        *)
(*                                                                         *)
(* Time is in four steps: Grace (purgeGrace has passed since the mark),    *)
(* LeaseOut (purgeLease has passed since the last renewal), Overdue        *)
(* (mediaUnsentTTL has passed since the upload) and, in ListStray, the age *)
(* fileMinAge.                                                             *)
(***************************************************************************)
EXTENDS Naturals, FiniteSets

CONSTANTS
    Channels,
    Nodes,        \* each runs purgeDiscarded
    Files,        \* every file that is ever stored
    Leftovers,    \* the files that crashes before left stored and unnamed
    Requests,     \* HTTP requests, one operation each
    OldMessages,  \* messages each channel has at first (a bound)
    Batch,        \* purgeBatch
    SweepLimit,   \* fileSweepLimit
    MaxFaults     \* steps that fail, and claims that run out under a working node (a bound)

Unsent == "unsent"
None   == "none"

ASSUME NamesAssumption == None \notin Channels \cup Nodes \cup Files /\ Unsent \notin Channels
ASSUME BoundsAssumption ==
    /\ OldMessages \in Nat
    /\ Leftovers \subseteq Files
    /\ Batch \in Nat \ {0}
    /\ SweepLimit \in Nat
    /\ MaxFaults \in Nat

VARIABLES
    mark,        \* "live", "marked" (deleted_at), "due" (older than purgeGrace), "dropped"
    messages,    \* how many documents of each channel "messages" holds
    reads,       \* the channels with a document in "reads"
    named,       \* the records of "media"
    files,       \* the files stored in GridFS
    uploaded,    \* the ids ever given to a file: an upload gets a new one
    holder,      \* purge_owner of each channel
    held,        \* the channels whose purge_until is still ahead
    step,        \* where each node's purgeChannel stands
    work,        \* on which channel
    todo,        \* the files it has still to look at
    condemned,   \* the file it has found nobody else to name
    req,         \* each request
    overdue,     \* the files whose record is past its expires_at, if it has one
    expired,     \* the files DeleteExpired listed
    leftover,    \* the file whose record deleteWhere has just deleted
    stray,       \* the files deleteUnreferencedBefore listed
    faults

data   == <<messages, reads, named, files, uploaded>>
claims == <<holder, held>>
purge  == <<step, work, todo, condemned>>
sweeps == <<overdue, expired, leftover, stray>>
vars   == <<mark, data, claims, purge, req, sweeps, faults>>

NoRequest == [at |-> "none", to |-> None, from |-> None, file |-> None]

TypeOK ==
    /\ mark \in [Channels -> {"live", "marked", "due", "dropped"}]
    /\ messages \in [Channels -> Nat]
    /\ reads \in SUBSET Channels
    /\ named \in SUBSET (Files \X (Channels \cup {Unsent}))
    /\ uploaded \in SUBSET Files
    /\ files \in SUBSET uploaded
    /\ holder \in [Channels -> Nodes \cup {None}]
    /\ held \in SUBSET Channels
    /\ step \in [Nodes -> {"idle", "batch", "renew", "reads", "list", "files", "unlink", "drop"}]
    /\ work \in [Nodes -> Channels \cup {None}]
    /\ todo \in [Nodes -> SUBSET Files]
    /\ condemned \in [Nodes -> Files \cup {None}]
    /\ req \in [Requests -> [at : {"none", "recording", "attaching", "sourcing", "copying",
                                   "numbering", "inserting", "marking", "gone"},
                             to : Channels \cup {None}, from : Channels \cup {None},
                             file : Files \cup {None}]]
    /\ overdue \in SUBSET Files
    /\ expired \in SUBSET Files
    /\ leftover \in Files \cup {None}
    /\ stray \in SUBSET Files
    /\ faults \in 0 .. MaxFaults

Names(f) == \E c \in Channels \cup {Unsent} : <<f, c>> \in named

\* The database as an earlier day left it: pictures sent, forwarded or not yet
\* sent, and files no record names.
Init ==
    /\ mark = [c \in Channels |-> "live"]
    /\ messages = [c \in Channels |-> OldMessages]
    /\ reads = {c \in Channels : messages[c] > 0}
    /\ named \in SUBSET ((Files \ Leftovers) \X (Channels \cup {Unsent}))
    /\ \A f \in Files, c \in Channels : <<f, Unsent>> \in named => <<f, c>> \notin named
    /\ files = Leftovers \cup {f \in Files : Names(f)}
    /\ uploaded = files
    /\ holder = [c \in Channels |-> None]
    /\ held = {}
    /\ step = [n \in Nodes |-> "idle"]
    /\ work = [n \in Nodes |-> None]
    /\ todo = [n \in Nodes |-> {}]
    /\ condemned = [n \in Nodes |-> None]
    /\ req = [r \in Requests |-> NoRequest]
    /\ overdue = {}
    /\ expired = {}
    /\ leftover = None
    /\ stray = {}
    /\ faults = 0

-----------------------------------------------------------------------------
(* Requests.  Each step is one database operation; between two of them the *)
(* client may go away or the node may die (Abort).                         *)

Goto(r, at) == req' = [req EXCEPT ![r].at = at]
Begin(r, at, to, from, file) ==
    /\ req[r] = NoRequest
    /\ req' = [req EXCEPT ![r] = [at |-> at, to |-> to, from |-> from, file |-> file]]
End(r) == req' = [req EXCEPT ![r] = [NoRequest EXCEPT !.at = "gone"]]
InFlight(r) == req[r].at \notin {"none", "gone"}

\* Only a live channel has members, and every operation on a channel asks first
\* whether the caller is one.
Member(c) == mark[c] = "live"

\* handleUploadMedia: Save stores the file, then inserts its record.
Upload(r, f) ==
    /\ f \notin uploaded
    /\ Begin(r, "recording", None, None, f)
    /\ files' = files \cup {f}
    /\ uploaded' = uploaded \cup {f}
    /\ UNCHANGED <<mark, messages, reads, named, claims, purge, sweeps, faults>>

Record(r) ==
    /\ req[r].at = "recording"
    /\ named' = named \cup {<<req[r].file, Unsent>>}
    /\ End(r)
    /\ UNCHANGED <<mark, messages, reads, files, uploaded, claims, purge, sweeps, faults>>

\* The insert failed: Save takes its file back.  An insert that is applied although it
\* reports an error leaves a record as well; nobody is given its id, and DeleteExpired
\* ends it as it ends any other.
TakeBack(r) ==
    /\ req[r].at = "recording"
    /\ files' = files \ {req[r].file}
    /\ End(r)
    /\ UNCHANGED <<mark, messages, reads, named, uploaded, claims, purge, sweeps, faults>>

\* handleSendMessage, with a picture or without.
Send(r, c) ==
    /\ Member(c)
    /\ \/ Begin(r, "numbering", c, None, None)
       \/ \E f \in Files : Begin(r, "attaching", c, None, f)
    /\ UNCHANGED <<mark, data, claims, purge, sweeps, faults>>

\* Attach binds the record to the channel and unsets its expires_at; a record
\* bound to this channel already is accepted, another one is not found.
Attach(r) ==
    LET f == req[r].file
        c == req[r].to
    IN  /\ req[r].at = "attaching"
        /\ IF {<<f, Unsent>>, <<f, c>>} \cap named = {}
           THEN End(r) /\ UNCHANGED named
           ELSE /\ named' = (named \ {<<f, Unsent>>}) \cup {<<f, c>>}
                /\ Goto(r, "numbering")
        /\ UNCHANGED <<mark, messages, reads, files, uploaded, claims, purge, sweeps, faults>>

\* handleForwardMessage: the message and the channel it goes to are both the
\* caller's to read.
Forward(r, c, d) ==
    /\ Member(c) /\ Member(d)
    /\ \E f \in Files : <<f, c>> \in named /\ Begin(r, "sourcing", d, c, f)
    /\ UNCHANGED <<mark, data, claims, purge, sweeps, faults>>

\* CopyTo reads the records of the message, then inserts copies of them.
ReadSource(r) ==
    /\ req[r].at = "sourcing"
    /\ IF <<req[r].file, req[r].from>> \in named THEN Goto(r, "copying") ELSE End(r)
    /\ UNCHANGED <<mark, data, claims, purge, sweeps, faults>>

InsertCopy(r) ==
    /\ req[r].at = "copying"
    /\ named' = named \cup {<<req[r].file, req[r].to>>}
    /\ Goto(r, "numbering")
    /\ UNCHANGED <<mark, messages, reads, files, uploaded, claims, purge, sweeps, faults>>

\* nextSeq refuses a marked channel; the insert after it asks nothing.
TakeNumber(r) ==
    /\ req[r].at = "numbering"
    /\ IF Member(req[r].to) THEN Goto(r, "inserting") ELSE End(r)
    /\ UNCHANGED <<mark, data, claims, purge, sweeps, faults>>

Insert(r) ==
    /\ req[r].at = "inserting"
    /\ messages' = [messages EXCEPT ![req[r].to] = @ + 1]
    /\ Goto(r, "marking")
    /\ UNCHANGED <<mark, reads, named, files, uploaded, claims, purge, sweeps, faults>>

\* handleMarkRead: lastSeqFor asks whether the caller is a member, mark does not.
OpenRead(r, c) ==
    /\ Member(c)
    /\ Begin(r, "marking", c, None, None)
    /\ UNCHANGED <<mark, data, claims, purge, sweeps, faults>>

MarkRead(r) ==
    /\ req[r].at = "marking"
    /\ reads' = reads \cup {req[r].to}
    /\ End(r)
    /\ UNCHANGED <<mark, messages, named, files, uploaded, claims, purge, sweeps, faults>>

Abort(r) ==
    /\ InFlight(r)
    /\ End(r)
    /\ UNCHANGED <<mark, data, claims, purge, sweeps, faults>>

RequestGoesOn(r) ==
    \/ Record(r) \/ TakeBack(r)
    \/ Attach(r) \/ ReadSource(r) \/ InsertCopy(r)
    \/ TakeNumber(r) \/ Insert(r) \/ MarkRead(r)

-----------------------------------------------------------------------------
(* The mark and the claims.                                                *)

Set(c, m) == mark' = [mark EXCEPT ![c] = m]

\* Leave, for the last member: the write that empties the channel marks it.
LeaveLast(c) ==
    /\ mark[c] = "live"
    /\ Set(c, "marked")
    /\ UNCHANGED <<data, claims, purge, req, sweeps, faults>>

\* Variant: no grace at all.
GraceAtOnce(c) ==
    /\ mark[c] = "marked"
    /\ Set(c, "due")
    /\ UNCHANGED <<data, claims, purge, req, sweeps, faults>>

\* purgeGrace, ten minutes, outlasts every request that passed its membership
\* check before the mark: an upload has two minutes, other requests less.
Settled(c) == \A r \in Requests : InFlight(r) => c \notin {req[r].to, req[r].from}
Grace(c) ==
    /\ mark[c] = "marked"
    /\ Settled(c)
    /\ Set(c, "due")
    /\ UNCHANGED <<data, claims, purge, req, sweeps, faults>>

At(n, s) == step[n] = s
Move(n, s) == step' = [step EXCEPT ![n] = s]
Finish(n) ==
    /\ Move(n, "idle")
    /\ work' = [work EXCEPT ![n] = None]
    /\ todo' = [todo EXCEPT ![n] = {}]
    /\ condemned' = [condemned EXCEPT ![n] = None]

\* Variant: one claim for ever.
ClaimForEver(n, c) ==
    /\ At(n, "idle")
    /\ mark[c] = "due" /\ holder[c] = None
    /\ holder' = [holder EXCEPT ![c] = n]
    /\ held' = held \cup {c}
    /\ work' = [work EXCEPT ![n] = c]
    /\ Move(n, "batch")
    /\ UNCHANGED <<mark, data, todo, condemned, req, sweeps, faults>>

\* claimDiscarded: whether the claim is free, and taking it, is one write.
Claim(n, c) ==
    /\ At(n, "idle")
    /\ mark[c] = "due" /\ c \notin held
    /\ holder' = [holder EXCEPT ![c] = n]
    /\ held' = held \cup {c}
    /\ work' = [work EXCEPT ![n] = c]
    /\ Move(n, "batch")
    /\ UNCHANGED <<mark, data, todo, condemned, req, sweeps, faults>>

\* purge_until passes.  Under a node that is still at work on the channel that
\* is a slow node, and counted.
LeaseOut(c) ==
    /\ c \in held
    /\ held' = held \ {c}
    /\ IF \E n \in Nodes : holder[c] = n /\ work[n] = c
       THEN faults < MaxFaults /\ faults' = faults + 1
       ELSE UNCHANGED faults
    /\ UNCHANGED <<mark, data, holder, purge, req, sweeps>>

-----------------------------------------------------------------------------
(* purgeChannel, by node n.                                                *)

\* Variant: every batch counts as full.
FoundFull(c) == Batch
Found(c) == IF messages[c] < Batch THEN messages[c] ELSE Batch

DeleteBatch(n) ==
    /\ At(n, "batch")
    /\ IF Found(work[n]) = 0
       THEN Move(n, "reads") /\ UNCHANGED messages
       ELSE /\ messages' = [messages EXCEPT ![work[n]] = @ - Found(work[n])]
            /\ Move(n, "renew")
    /\ UNCHANGED <<mark, reads, named, files, uploaded, claims, work, todo, condemned, req, sweeps, faults>>

RenewClaim(n) ==
    /\ At(n, "renew")
    /\ IF holder[work[n]] = n
       THEN /\ held' = held \cup {work[n]}
            /\ Move(n, "batch")
            /\ UNCHANGED <<work, todo, condemned>>
       ELSE Finish(n) /\ UNCHANGED held
    /\ UNCHANGED <<mark, data, holder, req, sweeps, faults>>

DeleteReads(n) ==
    /\ At(n, "reads")
    /\ reads' = reads \ {work[n]}
    /\ Move(n, "list")
    /\ UNCHANGED <<mark, messages, named, files, uploaded, claims, work, todo, condemned, req, sweeps, faults>>

\* media.purgeChannel: the files of the channel's records,
ListFiles(n) ==
    /\ At(n, "list")
    /\ todo' = [todo EXCEPT ![n] = {f \in Files : <<f, work[n]>> \in named}]
    /\ Move(n, "files")
    /\ UNCHANGED <<mark, data, claims, work, condemned, req, sweeps, faults>>

NamedOutside(f, c) == \E d \in (Channels \cup {Unsent}) \ {c} : <<f, d>> \in named

\* Variant: what a channel's record names is the channel's to delete.
CountNothing(n, f) ==
    /\ At(n, "files") /\ f \in todo[n]
    /\ todo' = [todo EXCEPT ![n] = @ \ {f}]
    /\ condemned' = [condemned EXCEPT ![n] = f] /\ Move(n, "unlink")
    /\ UNCHANGED <<mark, data, claims, work, req, sweeps, faults>>

\* each kept if a record outside the channel names it,
CountOthers(n, f) ==
    /\ At(n, "files") /\ f \in todo[n]
    /\ todo' = [todo EXCEPT ![n] = @ \ {f}]
    /\ IF NamedOutside(f, work[n])
       THEN UNCHANGED <<condemned, step>>
       ELSE condemned' = [condemned EXCEPT ![n] = f] /\ Move(n, "unlink")
    /\ UNCHANGED <<mark, data, claims, work, req, sweeps, faults>>

\* and deleted otherwise (it may be gone already),
Unlink(n) ==
    /\ At(n, "unlink")
    /\ files' = files \ {condemned[n]}
    /\ condemned' = [condemned EXCEPT ![n] = None]
    /\ Move(n, "files")
    /\ UNCHANGED <<mark, messages, reads, named, uploaded, claims, work, todo, req, sweeps, faults>>

RecordsOf(c) == {rec \in named : rec[2] = c}

\* then the records.
DeleteRecords(n) ==
    /\ At(n, "files") /\ todo[n] = {}
    /\ named' = named \ RecordsOf(work[n])
    /\ Move(n, "drop")
    /\ UNCHANGED <<mark, messages, reads, files, uploaded, claims, work, todo, condemned, req, sweeps, faults>>

\* dropDiscarded: only for the node that still holds the claim.
DropDiscarded(n) ==
    /\ At(n, "drop")
    /\ IF holder[work[n]] = n /\ mark[work[n]] = "due"
       THEN Set(work[n], "dropped")
       ELSE UNCHANGED mark
    /\ Finish(n)
    /\ UNCHANGED <<data, claims, req, sweeps, faults>>

\* Any step may return an error, and the node may die: the claim stays.
PurgeFails(n) ==
    /\ ~At(n, "idle")
    /\ faults < MaxFaults /\ faults' = faults + 1
    /\ Finish(n)
    /\ UNCHANGED <<mark, data, claims, req, sweeps>>

PurgeStep(n) ==
    \/ \E c \in Channels : Claim(n, c)
    \/ DeleteBatch(n) \/ RenewClaim(n)
    \/ DeleteReads(n)
    \/ ListFiles(n) \/ (\E f \in Files : CountOthers(n, f)) \/ Unlink(n) \/ DeleteRecords(n)
    \/ DropDiscarded(n)

-----------------------------------------------------------------------------
(* The two sweeps.  Every node runs them; FindOneAndDelete decides between *)
(* two nodes that list the same record, and a file is deleted once, so one *)
(* of each is modelled.                                                    *)

Overdue(f) ==
    /\ <<f, Unsent>> \in named /\ f \notin overdue
    /\ overdue' = overdue \cup {f}
    /\ UNCHANGED <<mark, data, claims, purge, req, expired, leftover, stray, faults>>

\* DeleteExpired lists what has expired,
ListExpired ==
    /\ expired = {} /\ leftover = None
    /\ expired' = {f \in overdue : <<f, Unsent>> \in named}
    /\ expired' # {}
    /\ UNCHANGED <<mark, data, claims, purge, req, overdue, leftover, stray, faults>>

\* Variant: the record that was listed is deleted, expired still or not.
DeleteListed(f) ==
    /\ f \in expired /\ leftover = None
    /\ expired' = expired \ {f}
    /\ IF Names(f)
       THEN named' = named \ ({f} \X (Channels \cup {Unsent})) /\ leftover' = f
       ELSE UNCHANGED <<named, leftover>>
    /\ UNCHANGED <<mark, messages, reads, files, uploaded, claims, purge, req, overdue, stray, faults>>

\* and deletes each record if it still has its expires_at (deleteWhere): a
\* message may have taken it meanwhile.
DeleteExpired(f) ==
    /\ f \in expired /\ leftover = None
    /\ expired' = expired \ {f}
    /\ IF <<f, Unsent>> \in named
       THEN named' = named \ {<<f, Unsent>>} /\ leftover' = f
       ELSE UNCHANGED <<named, leftover>>
    /\ UNCHANGED <<mark, messages, reads, files, uploaded, claims, purge, req, overdue, stray, faults>>

\* The file follows its record,
DeleteFile ==
    /\ leftover # None
    /\ files' = files \ {leftover}
    /\ leftover' = None
    /\ UNCHANGED <<mark, messages, reads, named, uploaded, claims, purge, req, overdue, expired, stray, faults>>

\* unless the node dies in between.
SweepDies ==
    /\ expired # {} \/ leftover # None
    /\ faults < MaxFaults /\ faults' = faults + 1
    /\ expired' = {} /\ leftover' = None
    /\ UNCHANGED <<mark, data, claims, purge, req, overdue, stray>>

\* A file no record names, old enough not to be an upload in progress.
Stray(f) ==
    /\ f \in files /\ ~Names(f)
    /\ \A r \in Requests : ~(req[r].at = "recording" /\ req[r].file = f)

\* Variant: the limit is one too low.
ListStrayBelow ==
    /\ stray = {}
    /\ stray' = {f \in Files : Stray(f)}
    /\ Cardinality(stray') \in 1 .. (SweepLimit - 1)
    /\ UNCHANGED <<mark, data, claims, purge, req, overdue, expired, leftover, faults>>

\* deleteUnreferencedBefore lists them, and stops if there are too many.
ListStray ==
    /\ stray = {}
    /\ stray' = {f \in Files : Stray(f)}
    /\ Cardinality(stray') \in 1 .. SweepLimit
    /\ UNCHANGED <<mark, data, claims, purge, req, overdue, expired, leftover, faults>>

DeleteStray(f) ==
    /\ f \in stray
    /\ files' = files \ {f}
    /\ stray' = stray \ {f}
    /\ UNCHANGED <<mark, messages, reads, named, uploaded, claims, purge, req, overdue, expired, leftover, faults>>

SweepStep ==
    \/ ListExpired \/ (\E f \in Files : DeleteExpired(f)) \/ DeleteFile
    \/ ListStray \/ (\E f \in Files : DeleteStray(f))

-----------------------------------------------------------------------------
Next ==
    \/ \E r \in Requests :
        \/ \E f \in Files : Upload(r, f)
        \/ \E c \in Channels : Send(r, c) \/ OpenRead(r, c)
        \/ \E c, d \in Channels : Forward(r, c, d)
        \/ RequestGoesOn(r)
        \/ Abort(r)
    \/ \E c \in Channels : LeaveLast(c) \/ Grace(c) \/ LeaseOut(c)
    \/ \E n \in Nodes : PurgeStep(n) \/ PurgeFails(n)
    \/ \E f \in Files : Overdue(f)
    \/ SweepStep
    \/ SweepDies

Spec == Init /\ [][Next]_vars

\* Every node runs its rounds again and again (runEvery), time passes, and a
\* request ends.  Nobody has to leave, send or upload.
Fairness ==
    /\ \A r \in Requests : WF_vars(RequestGoesOn(r))
    /\ \A c \in Channels : WF_vars(Grace(c)) /\ WF_vars(LeaseOut(c))
    /\ \A n \in Nodes : WF_vars(PurgeStep(n))
    /\ \A f \in Files : WF_vars(Overdue(f))
    /\ WF_vars(ListExpired \/ (\E f \in Files : DeleteExpired(f)) \/ DeleteFile)
    /\ WF_vars(ListStray \/ (\E f \in Files : DeleteStray(f)))

FairSpec == Spec /\ Fairness

-----------------------------------------------------------------------------
(* Properties.                                                             *)

\* The channel goes last: while anything of it is left, its document with the
\* mark is there for another node to find, whoever failed, died or lost its
\* claim in the middle.
NothingOrphaned ==
    \A c \in Channels : mark[c] = "dropped" =>
        messages[c] = 0 /\ c \notin reads /\ RecordsOf(c) = {}

\* A picture that can still be asked for has its file: neither the purge of
\* another channel that shares the file, nor a sweep, takes it away.
PicturesShow ==
    \A f \in Files, c \in Channels \cup {Unsent} :
        <<f, c>> \in named /\ (c # Unsent => mark[c] # "due") => f \in files

\* A picture a message carries stays until its channel is due: DeleteExpired may
\* have listed it before it was attached.
SentStays ==
    [][\A f \in Files, c \in Channels :
        <<f, c>> \in named /\ mark[c] \in {"live", "marked"} => <<f, c>> \in named']_vars

\* A marked channel is purged in the end, although nodes fail in the middle and
\* claims run out under working ones.
PurgedInTheEnd == \A c \in Channels : mark[c] = "marked" ~> mark[c] = "dropped"

\* In the end - Files is finite, so uploads end - no file is stored that no channel
\* shows, whether it was never sent or a failed Save, a node that died inside
\* deleteWhere or two purges at once left it (each of them counted the other's
\* record).  Provided that not more than SweepLimit files stay unreferenced at once:
\* above the limit the sweep deletes none of them, and they wait for an operator
\* (docs/architecture.md:73-75, TestFileSweepStopsAtTheLimit).
Shown(f) == \E c \in Channels : <<f, c>> \in named
TooMany == Cardinality({f \in Files : Stray(f)}) > SweepLimit
UnshownGoes == []<>(~TooMany) => []<>(\A f \in files : Shown(f))
=============================================================================
