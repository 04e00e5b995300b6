---------------------------- MODULE PurgeProofs ----------------------------
(***************************************************************************)
(* Proofs about the module Purge, for any channels, nodes, files, requests *)
(* and batches and any number of faults: a channel that is gone has left   *)
(* nothing, a picture that can be asked for has its file, and one that was *)
(* sent stays.                                                             *)
(***************************************************************************)
EXTENDS Purge, TLAPS

Live(c) == mark[c] \in {"live", "marked"}

\* A request in flight uses channels that are not due yet.
RequestsLive ==
    \A r \in Requests : InFlight(r) =>
        /\ req[r].to # None => Live(req[r].to)
        /\ req[r].from # None => Live(req[r].from)

\* Each step says which channels the request has.
RequestsHave ==
    \A r \in Requests :
        /\ req[r].at \in {"attaching", "copying", "numbering", "inserting", "marking"}
              => req[r].to # None
        /\ req[r].at \in {"sourcing", "copying"} => req[r].from # None
        /\ req[r].at = "sourcing" => req[r].to # None
        /\ req[r].at \in {"recording", "attaching", "sourcing", "copying"}
              => req[r].file # None

\* A node purges a channel in an order, and what it is done with stays gone.
PurgesInOrder ==
    \A n \in Nodes : step[n] # "idle" =>
        /\ work[n] \in Channels /\ ~Live(work[n])
        /\ step[n] \notin {"batch", "renew"} => messages[work[n]] = 0
        /\ step[n] \in {"list", "files", "unlink", "drop"} => work[n] \notin reads
        /\ step[n] = "drop" => RecordsOf(work[n]) = {}

Goes == RequestsLive /\ RequestsHave /\ PurgesInOrder /\ NothingOrphaned

IInv == TypeOK /\ Goes

-----------------------------------------------------------------------------
(* The pictures.                                                           *)

\* Only channels that are due, or gone, have a record of the file.
Lost(f) ==
    /\ <<f, Unsent>> \notin named
    /\ \A c \in Channels : <<f, c>> \in named => ~Live(c)

\* A file about to be recorded is new to everything else.
Fresh(f) ==
    /\ \A c \in Channels \cup {Unsent} : <<f, c>> \notin named
    /\ f \in files /\ f # leftover /\ f \notin stray
    /\ \A n \in Nodes : f \notin todo[n] /\ f # condemned[n]

UploadsFresh ==
    /\ \A r \in Requests : req[r].at = "recording" => Fresh(req[r].file)
    /\ \A r, q \in Requests :
        req[r].at = "recording" /\ req[q].at = "recording" /\ r # q
            => req[r].file # req[q].file

\* A picture waits for its message or is in channels, not both.
UnsentApart ==
    \A f \in Files, c \in Channels : <<f, Unsent>> \in named => <<f, c>> \notin named

\* What is being copied is there until it has been.
CopiesHaveSource ==
    \A r \in Requests : req[r].at = "copying" => <<req[r].file, req[r].from>> \in named

\* What is about to be deleted, and what is not there, is lost already; what a
\* purge still looks at exists only where it was seen.
DoomedLost ==
    /\ \A n \in Nodes : step[n] = "unlink" => condemned[n] # None
    /\ \A n \in Nodes : step[n] # "unlink" => condemned[n] = None
    /\ \A n \in Nodes : condemned[n] # None => Lost(condemned[n])
    /\ leftover # None => Lost(leftover)
    /\ \A f \in stray : Lost(f)
    /\ \A f \in Files \ files : Lost(f)

\* Whatever has to do with a file comes after its upload.
AllUploaded ==
    /\ \A f \in Files, c \in Channels \cup {Unsent} : <<f, c>> \in named => f \in uploaded
    /\ stray \subseteq uploaded
    /\ leftover # None => leftover \in uploaded
    /\ \A n \in Nodes : /\ todo[n] \subseteq uploaded
                        /\ condemned[n] # None => condemned[n] \in uploaded

Kept == UploadsFresh /\ UnsentApart /\ CopiesHaveSource /\ DoomedLost /\ AllUploaded

PInv == IInv /\ Kept
-----------------------------------------------------------------------------
(* Next, by who takes the step.                                            *)

RequestStep(r) ==
    \/ \E f \in Files : Upload(r, f)
    \/ \E c \in Channels : Send(r, c) \/ OpenRead(r, c)
    \/ \E c, d \in Channels : Forward(r, c, d)
    \/ RequestGoesOn(r) \/ Abort(r)
MarkStep(c) == LeaveLast(c) \/ Grace(c) \/ LeaseOut(c)
NodeStep(n) == PurgeStep(n) \/ PurgeFails(n)
OtherStep == (\E f \in Files : Overdue(f)) \/ SweepStep \/ SweepDies

-----------------------------------------------------------------------------
(* Types.                                                                  *)

LEMMA RequestTypes ==
  ASSUME TypeOK, Goes, NEW r \in Requests, RequestStep(r)
  PROVE  TypeOK'
<1>1. CASE \E f \in Files : Upload(r, f)
  BY <1>1 DEF Upload, Goes, RequestsHave, TypeOK, Begin, Goto, End, NoRequest, data, claims, purge, sweeps
<1>2. CASE Record(r)
  BY <1>2 DEF Record, Goes, RequestsHave, TypeOK, Begin, Goto, End, NoRequest, data, claims, purge, sweeps
<1>3. CASE TakeBack(r)
  BY <1>3 DEF TakeBack, Goes, RequestsHave, TypeOK, Begin, Goto, End, NoRequest, data, claims, purge, sweeps
<1>4. CASE \E c \in Channels : Send(r, c)
  BY <1>4 DEF Send, Goes, RequestsHave, TypeOK, Begin, Goto, End, NoRequest, data, claims, purge, sweeps
<1>5. CASE Attach(r)
  <2>1. /\ req[r].file \in Files /\ req[r].to \in Channels
        /\ UNCHANGED <<mark, messages, reads, files, uploaded, claims, purge, sweeps, faults>>
    BY <1>5 DEF Attach, Goes, RequestsHave, TypeOK
  <2>2. req' \in {[req EXCEPT ![r].at = "numbering"], [req EXCEPT ![r] = [NoRequest EXCEPT !.at = "gone"]]}
    BY <1>5 DEF Attach, Goto, End
  <2>3. named' = named \/ named' = (named \ {<<req[r].file, Unsent>>}) \cup {<<req[r].file, req[r].to>>}
    BY <1>5 DEF Attach
  <2>4. named' \in SUBSET (Files \X (Channels \cup {Unsent}))
    BY <2>1, <2>3 DEF TypeOK
  <2> QED
    BY <2>1, <2>2, <2>4 DEF TypeOK, NoRequest, claims, purge, sweeps
<1>6. CASE \E c, d \in Channels : Forward(r, c, d)
  BY <1>6 DEF Forward, Goes, RequestsHave, TypeOK, Begin, Goto, End, NoRequest, data, claims, purge, sweeps
<1>7. CASE ReadSource(r)
  <2>1. req' \in {[req EXCEPT ![r].at = "copying"], [req EXCEPT ![r] = [NoRequest EXCEPT !.at = "gone"]]}
    BY <1>7 DEF ReadSource, Goto, End
  <2> QED
    BY <1>7, <2>1 DEF ReadSource, TypeOK, NoRequest, data, claims, purge, sweeps
<1>8. CASE InsertCopy(r)
  BY <1>8 DEF InsertCopy, Goes, RequestsHave, TypeOK, Begin, Goto, End, NoRequest, data, claims, purge, sweeps
<1>9. CASE TakeNumber(r)
  BY <1>9 DEF TakeNumber, Goes, RequestsHave, TypeOK, Begin, Goto, End, NoRequest, data, claims, purge, sweeps
<1>10. CASE Insert(r)
  BY <1>10 DEF Insert, Goes, RequestsHave, TypeOK, Begin, Goto, End, NoRequest, data, claims, purge, sweeps
<1>11. CASE \E c \in Channels : OpenRead(r, c)
  BY <1>11 DEF OpenRead, Goes, RequestsHave, TypeOK, Begin, Goto, End, NoRequest, data, claims, purge, sweeps
<1>12. CASE MarkRead(r)
  BY <1>12 DEF MarkRead, Goes, RequestsHave, TypeOK, Begin, Goto, End, NoRequest, data, claims, purge, sweeps
<1>13. CASE Abort(r)
  BY <1>13 DEF Abort, Goes, RequestsHave, TypeOK, Begin, Goto, End, NoRequest, data, claims, purge, sweeps
<1> QED
  BY <1>1, <1>2, <1>3, <1>4, <1>5, <1>6, <1>7, <1>8, <1>9, <1>10, <1>11, <1>12, <1>13 DEF RequestStep, RequestGoesOn

LEMMA MarkTypes ==
  ASSUME TypeOK, Goes, NEW c \in Channels, MarkStep(c)
  PROVE  TypeOK'
<1>1. CASE LeaveLast(c)
  BY <1>1, BoundsAssumption DEF LeaveLast, TypeOK, Set, data, claims, purge, sweeps
<1>2. CASE Grace(c)
  BY <1>2, BoundsAssumption DEF Grace, TypeOK, Set, data, claims, purge, sweeps
<1>3. CASE LeaseOut(c)
  BY <1>3, BoundsAssumption DEF LeaseOut, TypeOK, Set, data, claims, purge, sweeps
<1> QED
  BY <1>1, <1>2, <1>3 DEF MarkStep

LEMMA PurgeTypes ==
  ASSUME TypeOK, Goes, NEW n \in Nodes, NodeStep(n)
  PROVE  TypeOK'
<1>1. CASE \E c \in Channels : Claim(n, c)
  BY <1>1, BoundsAssumption DEF Claim, Goes, PurgesInOrder, TypeOK, At, Move, Finish, Set, Found, data, claims, sweeps
<1>2. CASE DeleteBatch(n)
  BY <1>2, BoundsAssumption DEF DeleteBatch, Goes, PurgesInOrder, TypeOK, At, Move, Finish, Set, Found, data, claims, sweeps
<1>3. CASE RenewClaim(n)
  BY <1>3, BoundsAssumption DEF RenewClaim, Goes, PurgesInOrder, TypeOK, At, Move, Finish, Set, Found, data, claims, sweeps
<1>4. CASE DeleteReads(n)
  BY <1>4, BoundsAssumption DEF DeleteReads, Goes, PurgesInOrder, TypeOK, At, Move, Finish, Set, Found, data, claims, sweeps
<1>5. CASE ListFiles(n)
  BY <1>5, BoundsAssumption DEF ListFiles, Goes, PurgesInOrder, TypeOK, At, Move, Finish, Set, Found, data, claims, sweeps
<1>6. CASE \E f \in Files : CountOthers(n, f)
  BY <1>6, BoundsAssumption DEF CountOthers, Goes, PurgesInOrder, TypeOK, At, Move, Finish, Set, Found, data, claims, sweeps
<1>7. CASE Unlink(n)
  BY <1>7, BoundsAssumption DEF Unlink, Goes, PurgesInOrder, TypeOK, At, Move, Finish, Set, Found, data, claims, sweeps
<1>8. CASE DeleteRecords(n)
  BY <1>8, BoundsAssumption DEF DeleteRecords, Goes, PurgesInOrder, TypeOK, At, Move, Finish, Set, Found, data, claims, sweeps
<1>9. CASE DropDiscarded(n)
  BY <1>9, BoundsAssumption DEF DropDiscarded, Goes, PurgesInOrder, TypeOK, At, Move, Finish, Set, Found, data, claims, sweeps
<1>10. CASE PurgeFails(n)
  BY <1>10, BoundsAssumption DEF PurgeFails, Goes, PurgesInOrder, TypeOK, At, Move, Finish, Set, Found, data, claims, sweeps
<1> QED
  BY <1>1, <1>2, <1>3, <1>4, <1>5, <1>6, <1>7, <1>8, <1>9, <1>10 DEF NodeStep, PurgeStep

LEMMA SweepTypes ==
  ASSUME TypeOK, Goes, OtherStep
  PROVE  TypeOK'
<1>1. CASE \E f \in Files : Overdue(f)
  BY <1>1 DEF Overdue, TypeOK, data, claims, purge
<1>2. CASE ListExpired
  BY <1>2 DEF ListExpired, TypeOK, data, claims, purge
<1>3. CASE \E f \in Files : DeleteExpired(f)
  BY <1>3 DEF DeleteExpired, TypeOK, data, claims, purge
<1>4. CASE DeleteFile
  BY <1>4 DEF DeleteFile, TypeOK, data, claims, purge
<1>5. CASE ListStray
  BY <1>5 DEF ListStray, TypeOK, data, claims, purge
<1>6. CASE \E f \in Files : DeleteStray(f)
  BY <1>6 DEF DeleteStray, TypeOK, data, claims, purge
<1>7. CASE SweepDies
  BY <1>7, BoundsAssumption DEF SweepDies, TypeOK, data, claims, purge
<1> QED
  BY <1>1, <1>2, <1>3, <1>4, <1>5, <1>6, <1>7 DEF OtherStep, SweepStep

-----------------------------------------------------------------------------
(* What is left of a channel.                                              *)

LEMMA RequestGoes ==
  ASSUME TypeOK, Goes, NEW r \in Requests, RequestStep(r)
  PROVE  Goes'
<1>1. CASE \E f \in Files : Upload(r, f)
  BY <1>1, NamesAssumption
  DEF Upload, Begin, Goto, End, NoRequest, data, claims, purge, sweeps, Member,
      TypeOK, Goes, RequestsLive, RequestsHave, PurgesInOrder, NothingOrphaned, RecordsOf, Live, InFlight
<1>2. CASE Record(r)
  BY <1>2, NamesAssumption
  DEF Record, Begin, Goto, End, NoRequest, data, claims, purge, sweeps, Member,
      TypeOK, Goes, RequestsLive, RequestsHave, PurgesInOrder, NothingOrphaned, RecordsOf, Live, InFlight
<1>3. CASE TakeBack(r)
  BY <1>3, NamesAssumption
  DEF TakeBack, Begin, Goto, End, NoRequest, data, claims, purge, sweeps, Member,
      TypeOK, Goes, RequestsLive, RequestsHave, PurgesInOrder, NothingOrphaned, RecordsOf, Live, InFlight
<1>4. CASE \E c \in Channels : Send(r, c)
  BY <1>4, NamesAssumption
  DEF Send, Begin, Goto, End, NoRequest, data, claims, purge, sweeps, Member,
      TypeOK, Goes, RequestsLive, RequestsHave, PurgesInOrder, NothingOrphaned, RecordsOf, Live, InFlight
<1>5. CASE Attach(r)
  BY <1>5, NamesAssumption
  DEF Attach, Begin, Goto, End, NoRequest, data, claims, purge, sweeps, Member,
      TypeOK, Goes, RequestsLive, RequestsHave, PurgesInOrder, NothingOrphaned, RecordsOf, Live, InFlight
<1>6. CASE \E c, d \in Channels : Forward(r, c, d)
  BY <1>6, NamesAssumption
  DEF Forward, Begin, Goto, End, NoRequest, data, claims, purge, sweeps, Member,
      TypeOK, Goes, RequestsLive, RequestsHave, PurgesInOrder, NothingOrphaned, RecordsOf, Live, InFlight
<1>7. CASE ReadSource(r)
  BY <1>7, NamesAssumption
  DEF ReadSource, Begin, Goto, End, NoRequest, data, claims, purge, sweeps, Member,
      TypeOK, Goes, RequestsLive, RequestsHave, PurgesInOrder, NothingOrphaned, RecordsOf, Live, InFlight
<1>8. CASE InsertCopy(r)
  BY <1>8, NamesAssumption
  DEF InsertCopy, Begin, Goto, End, NoRequest, data, claims, purge, sweeps, Member,
      TypeOK, Goes, RequestsLive, RequestsHave, PurgesInOrder, NothingOrphaned, RecordsOf, Live, InFlight
<1>9. CASE TakeNumber(r)
  <2>1. \A q \in Requests : InFlight(q)' =>
           InFlight(q) /\ req'[q].to = req[q].to /\ req'[q].from = req[q].from
    BY <1>9 DEF TakeNumber, Goto, End, NoRequest, TypeOK, InFlight
  <2>2. RequestsLive'
    BY <1>9, <2>1 DEF TakeNumber, Goes, RequestsLive, Live
  <2>3. RequestsHave'
    BY <1>9 DEF TakeNumber, Goto, End, NoRequest, TypeOK, Goes, RequestsHave
  <2>4. PurgesInOrder' /\ NothingOrphaned'
    BY <1>9
    DEF TakeNumber, data, claims, purge, Goes, PurgesInOrder, NothingOrphaned, RecordsOf, Live
  <2> QED
    BY <2>2, <2>3, <2>4 DEF Goes
<1>10. CASE Insert(r)
  BY <1>10, NamesAssumption
  DEF Insert, Begin, Goto, End, NoRequest, data, claims, purge, sweeps, Member,
      TypeOK, Goes, RequestsLive, RequestsHave, PurgesInOrder, NothingOrphaned, RecordsOf, Live, InFlight
<1>11. CASE \E c \in Channels : OpenRead(r, c)
  BY <1>11, NamesAssumption
  DEF OpenRead, Begin, Goto, End, NoRequest, data, claims, purge, sweeps, Member,
      TypeOK, Goes, RequestsLive, RequestsHave, PurgesInOrder, NothingOrphaned, RecordsOf, Live, InFlight
<1>12. CASE MarkRead(r)
  BY <1>12, NamesAssumption
  DEF MarkRead, Begin, Goto, End, NoRequest, data, claims, purge, sweeps, Member,
      TypeOK, Goes, RequestsLive, RequestsHave, PurgesInOrder, NothingOrphaned, RecordsOf, Live, InFlight
<1>13. CASE Abort(r)
  BY <1>13, NamesAssumption
  DEF Abort, Begin, Goto, End, NoRequest, data, claims, purge, sweeps, Member,
      TypeOK, Goes, RequestsLive, RequestsHave, PurgesInOrder, NothingOrphaned, RecordsOf, Live, InFlight
<1> QED
  BY <1>1, <1>2, <1>3, <1>4, <1>5, <1>6, <1>7, <1>8, <1>9, <1>10, <1>11, <1>12, <1>13 DEF RequestStep, RequestGoesOn

LEMMA MarkGoes ==
  ASSUME TypeOK, Goes, NEW c \in Channels, MarkStep(c)
  PROVE  Goes'
<1>1. CASE LeaveLast(c)
  BY <1>1, NamesAssumption
  DEF LeaveLast, Set, Settled, data, claims, purge, sweeps,
      TypeOK, Goes, RequestsLive, RequestsHave, PurgesInOrder, NothingOrphaned, RecordsOf, Live, InFlight
<1>2. CASE Grace(c)
  BY <1>2, NamesAssumption
  DEF Grace, Set, Settled, data, claims, purge, sweeps,
      TypeOK, Goes, RequestsLive, RequestsHave, PurgesInOrder, NothingOrphaned, RecordsOf, Live, InFlight
<1>3. CASE LeaseOut(c)
  BY <1>3, NamesAssumption
  DEF LeaseOut, Set, Settled, data, claims, purge, sweeps,
      TypeOK, Goes, RequestsLive, RequestsHave, PurgesInOrder, NothingOrphaned, RecordsOf, Live, InFlight
<1> QED
  BY <1>1, <1>2, <1>3 DEF MarkStep

LEMMA PurgeGoes ==
  ASSUME TypeOK, Goes, NEW n \in Nodes, NodeStep(n)
  PROVE  Goes'
<1>1. CASE \E c \in Channels : Claim(n, c)
  BY <1>1, NamesAssumption
  DEF Claim, At, Move, Finish, Set, Found, data, claims, sweeps,
      TypeOK, Goes, RequestsLive, RequestsHave, PurgesInOrder, NothingOrphaned, RecordsOf, Live, InFlight
<1>2. CASE DeleteBatch(n)
  BY <1>2, NamesAssumption, BoundsAssumption
  DEF DeleteBatch, At, Move, Finish, Set, Found, data, claims, sweeps,
      TypeOK, Goes, RequestsLive, RequestsHave, PurgesInOrder, NothingOrphaned, RecordsOf, Live, InFlight
<1>3. CASE RenewClaim(n)
  BY <1>3, NamesAssumption
  DEF RenewClaim, At, Move, Finish, Set, Found, data, claims, sweeps,
      TypeOK, Goes, RequestsLive, RequestsHave, PurgesInOrder, NothingOrphaned, RecordsOf, Live, InFlight
<1>4. CASE DeleteReads(n)
  BY <1>4, NamesAssumption
  DEF DeleteReads, At, Move, Finish, Set, Found, data, claims, sweeps,
      TypeOK, Goes, RequestsLive, RequestsHave, PurgesInOrder, NothingOrphaned, RecordsOf, Live, InFlight
<1>5. CASE ListFiles(n)
  BY <1>5, NamesAssumption
  DEF ListFiles, At, Move, Finish, Set, Found, data, claims, sweeps,
      TypeOK, Goes, RequestsLive, RequestsHave, PurgesInOrder, NothingOrphaned, RecordsOf, Live, InFlight
<1>6. CASE \E f \in Files : CountOthers(n, f)
  BY <1>6, NamesAssumption
  DEF CountOthers, At, Move, Finish, Set, Found, data, claims, sweeps,
      TypeOK, Goes, RequestsLive, RequestsHave, PurgesInOrder, NothingOrphaned, RecordsOf, Live, InFlight
<1>7. CASE Unlink(n)
  BY <1>7, NamesAssumption
  DEF Unlink, At, Move, Finish, Set, Found, data, claims, sweeps,
      TypeOK, Goes, RequestsLive, RequestsHave, PurgesInOrder, NothingOrphaned, RecordsOf, Live, InFlight
<1>8. CASE DeleteRecords(n)
  BY <1>8, NamesAssumption
  DEF DeleteRecords, At, Move, Finish, Set, Found, data, claims, sweeps,
      TypeOK, Goes, RequestsLive, RequestsHave, PurgesInOrder, NothingOrphaned, RecordsOf, Live, InFlight
<1>9. CASE DropDiscarded(n)
  <2>1. /\ step[n] = "drop" /\ UNCHANGED <<messages, reads, named, req>>
        /\ step' = [step EXCEPT ![n] = "idle"] /\ work' = [work EXCEPT ![n] = None]
        /\ mark' = mark \/ (mark[work[n]] = "due" /\ mark' = [mark EXCEPT ![work[n]] = "dropped"])
    BY <1>9 DEF DropDiscarded, At, Move, Finish, Set, data
  <2>2. \A c \in Channels : /\ Live(c)' <=> Live(c)
                            /\ mark'[c] = "dropped" => mark[c] = "dropped" \/ c = work[n]
    BY <2>1 DEF TypeOK, Live
  <2>3. RequestsLive' /\ RequestsHave'
    BY <2>1, <2>2, NamesAssumption DEF TypeOK, Goes, RequestsLive, RequestsHave, InFlight
  <2>4. PurgesInOrder'
    BY <2>1, <2>2 DEF TypeOK, Goes, PurgesInOrder, RecordsOf
  <2>5. NothingOrphaned'
    BY <2>1, <2>2 DEF Goes, PurgesInOrder, NothingOrphaned, RecordsOf
  <2> QED
    BY <2>3, <2>4, <2>5 DEF Goes
<1>10. CASE PurgeFails(n)
  BY <1>10, NamesAssumption
  DEF PurgeFails, At, Move, Finish, Set, Found, data, claims, sweeps,
      TypeOK, Goes, RequestsLive, RequestsHave, PurgesInOrder, NothingOrphaned, RecordsOf, Live, InFlight
<1> QED
  BY <1>1, <1>2, <1>3, <1>4, <1>5, <1>6, <1>7, <1>8, <1>9, <1>10 DEF NodeStep, PurgeStep

LEMMA SweepGoes ==
  ASSUME TypeOK, Goes, OtherStep
  PROVE  Goes'
<1>1. CASE \E f \in Files : Overdue(f)
  BY <1>1, NamesAssumption
  DEF Overdue, data, claims, purge,
      TypeOK, Goes, RequestsLive, RequestsHave, PurgesInOrder, NothingOrphaned, RecordsOf, Live, InFlight
<1>2. CASE ListExpired
  BY <1>2, NamesAssumption
  DEF ListExpired, data, claims, purge,
      TypeOK, Goes, RequestsLive, RequestsHave, PurgesInOrder, NothingOrphaned, RecordsOf, Live, InFlight
<1>3. CASE \E f \in Files : DeleteExpired(f)
  BY <1>3, NamesAssumption
  DEF DeleteExpired, data, claims, purge,
      TypeOK, Goes, RequestsLive, RequestsHave, PurgesInOrder, NothingOrphaned, RecordsOf, Live, InFlight
<1>4. CASE DeleteFile
  BY <1>4, NamesAssumption
  DEF DeleteFile, data, claims, purge,
      TypeOK, Goes, RequestsLive, RequestsHave, PurgesInOrder, NothingOrphaned, RecordsOf, Live, InFlight
<1>5. CASE ListStray
  BY <1>5, NamesAssumption
  DEF ListStray, data, claims, purge,
      TypeOK, Goes, RequestsLive, RequestsHave, PurgesInOrder, NothingOrphaned, RecordsOf, Live, InFlight
<1>6. CASE \E f \in Files : DeleteStray(f)
  BY <1>6, NamesAssumption
  DEF DeleteStray, data, claims, purge,
      TypeOK, Goes, RequestsLive, RequestsHave, PurgesInOrder, NothingOrphaned, RecordsOf, Live, InFlight
<1>7. CASE SweepDies
  BY <1>7, NamesAssumption
  DEF SweepDies, data, claims, purge,
      TypeOK, Goes, RequestsLive, RequestsHave, PurgesInOrder, NothingOrphaned, RecordsOf, Live, InFlight
<1> QED
  BY <1>1, <1>2, <1>3, <1>4, <1>5, <1>6, <1>7 DEF OtherStep, SweepStep

-----------------------------------------------------------------------------
(* The pictures.                                                           *)

\* A request that only goes on, or ends, disturbs nothing.
LEMMA QuietRequest ==
  ASSUME TypeOK, Kept, UNCHANGED <<mark, named, files, uploaded, purge, sweeps>>,
         \A q \in Requests : req'[q].at = "recording" => req'[q] = req[q],
         \A q \in Requests : req'[q].at = "copying" => <<req'[q].file, req'[q].from>> \in named
  PROVE  Kept'
<1>1. UploadsFresh'
  BY DEF Kept, UploadsFresh, Fresh, purge, sweeps
<1>2. CopiesHaveSource'
  BY DEF CopiesHaveSource
<1>3. UnsentApart' /\ DoomedLost' /\ AllUploaded'
  BY DEF Kept, UnsentApart, DoomedLost, AllUploaded, Lost, Live, purge, sweeps
<1> QED
  BY <1>1, <1>2, <1>3 DEF Kept

LEMMA RequestKept ==
  ASSUME TypeOK, Goes, Kept, NEW r \in Requests, RequestStep(r)
  PROVE  Kept'
<1>1. CASE \E f \in Files : Upload(r, f)
  <2>1. PICK f \in Files : Upload(r, f)
    BY <1>1
  <2>2. /\ f \notin uploaded /\ files' = files \cup {f} /\ uploaded' = uploaded \cup {f}
        /\ UNCHANGED <<mark, named, purge, sweeps>>
        /\ req[r].at = "none"
        /\ req'[r].at = "recording" /\ req'[r].file = f
        /\ \A q \in Requests \ {r} : req'[q] = req[q]
    BY <2>1 DEF Upload, Begin, NoRequest, TypeOK
  <2>3. Fresh(f)'
    BY <2>2, NamesAssumption DEF Fresh, Kept, AllUploaded, TypeOK, purge, sweeps
  <2>4. \A q \in Requests \ {r} : req[q].at = "recording" => Fresh(req[q].file)' /\ req[q].file # f
    BY <2>2 DEF Fresh, Kept, UploadsFresh, TypeOK, purge, sweeps
  <2>5. UploadsFresh'
    BY <2>2, <2>3, <2>4 DEF Kept, UploadsFresh
  <2>6. CopiesHaveSource'
    BY <2>2 DEF Kept, CopiesHaveSource
  <2>7. UnsentApart' /\ DoomedLost' /\ AllUploaded'
    BY <2>2 DEF Kept, UnsentApart, DoomedLost, AllUploaded, Lost, Live, purge, sweeps
  <2> QED
    BY <2>5, <2>6, <2>7 DEF Kept
<1>2. CASE Record(r)
  BY <1>2, NamesAssumption
  DEF Record, Begin, Goto, End, NoRequest, data, claims, purge, sweeps, Member,
      TypeOK, Goes, RequestsHave, RequestsLive, PurgesInOrder, InFlight, Live,
      Kept, UploadsFresh, UnsentApart, CopiesHaveSource, DoomedLost, AllUploaded, Lost, Fresh
<1>3. CASE TakeBack(r)
  BY <1>3, NamesAssumption
  DEF TakeBack, Begin, Goto, End, NoRequest, data, claims, purge, sweeps, Member,
      TypeOK, Goes, RequestsHave, RequestsLive, PurgesInOrder, InFlight, Live,
      Kept, UploadsFresh, UnsentApart, CopiesHaveSource, DoomedLost, AllUploaded, Lost, Fresh
<1>4. CASE \E c \in Channels : Send(r, c)
  <2>1. UNCHANGED <<mark, named, files, uploaded, purge, sweeps>>
    BY <1>4 DEF Send, data
  <2>2. \A q \in Requests : req'[q].at = "recording" => req'[q] = req[q]
    BY <1>4 DEF Send, Begin, Goto, End, NoRequest, TypeOK
  <2>3. \A q \in Requests : req'[q].at = "copying" => <<req'[q].file, req'[q].from>> \in named
    BY <1>4 DEF Send, Begin, Goto, End, NoRequest, TypeOK, Kept, CopiesHaveSource
  <2> QED
    BY <2>1, <2>2, <2>3, QuietRequest
<1>5. CASE Attach(r)
  <2> DEFINE f == req[r].file
             c == req[r].to
  <2>1. /\ f \in Files /\ c \in Channels /\ Live(c)
        /\ UNCHANGED <<mark, files, uploaded, purge, sweeps>>
        /\ req[r].at = "attaching" /\ req'[r].at \in {"numbering", "gone"}
        /\ \A q \in Requests \ {r} : req'[q] = req[q]
    BY <1>5 DEF Attach, Goto, End, NoRequest, TypeOK, Goes, RequestsHave, RequestsLive, InFlight
  <2>2. CASE {<<f, Unsent>>, <<f, c>>} \cap named = {}
    <3>1. named' = named
      BY <1>5, <2>2 DEF Attach
    <3> QED
      BY <2>1, <3>1, QuietRequest DEF Kept, CopiesHaveSource
  <2>3. CASE <<f, Unsent>> \in named \/ <<f, c>> \in named
    <3>1. named' = (named \ {<<f, Unsent>>}) \cup {<<f, c>>}
      BY <1>5, <2>3 DEF Attach
    <3> HIDE DEF f, c
    <3>2. \A q \in Requests : req[q].at = "recording" => req[q].file # f
      BY <2>1, <2>3 DEF Kept, UploadsFresh, Fresh
    <3>3. \A g \in Files \ {f} : (Lost(g) => Lost(g)') /\ (Fresh(g) => Fresh(g)')
      BY <2>1, <3>1 DEF Lost, Fresh, Live, purge, sweeps
    <3>4. ~Lost(f)
      BY <2>1, <2>3 DEF Lost
    <3>5. UploadsFresh'
      BY <2>1, <3>2, <3>3 DEF Kept, UploadsFresh, TypeOK, Goes, RequestsHave
    <3>6. UnsentApart'
      BY <2>1, <3>1, NamesAssumption DEF Kept, UnsentApart
    <3>7. CopiesHaveSource'
      <4> SUFFICES ASSUME NEW q \in Requests, req'[q].at = "copying"
                   PROVE  <<req'[q].file, req'[q].from>> \in named'
        BY DEF CopiesHaveSource
      <4>1. req'[q] = req[q] /\ req[q].from \in Channels /\ <<req[q].file, req[q].from>> \in named
        BY <2>1 DEF Kept, CopiesHaveSource, Goes, RequestsHave, TypeOK
      <4> QED
        BY <4>1, <3>1, NamesAssumption
    <3>8. DoomedLost'
      BY <2>1, <3>3, <3>4 DEF Kept, DoomedLost, TypeOK, purge, sweeps
    <3>9. AllUploaded'
      BY <2>1, <2>3, <3>1 DEF Kept, AllUploaded, purge, sweeps
    <3> QED
      BY <3>5, <3>6, <3>7, <3>8, <3>9 DEF Kept
  <2> QED
    BY <2>2, <2>3
<1>6. CASE \E c, d \in Channels : Forward(r, c, d)
  BY <1>6, NamesAssumption
  DEF Forward, Begin, Goto, End, NoRequest, data, claims, purge, sweeps, Member,
      TypeOK, Goes, RequestsHave, RequestsLive, PurgesInOrder, InFlight, Live,
      Kept, UploadsFresh, UnsentApart, CopiesHaveSource, DoomedLost, AllUploaded, Lost, Fresh
<1>7. CASE ReadSource(r)
  <2>1. UNCHANGED <<mark, named, files, uploaded, purge, sweeps>>
    BY <1>7 DEF ReadSource, data
  <2>2. \A q \in Requests : req'[q].at = "recording" => req'[q] = req[q]
    BY <1>7 DEF ReadSource, Begin, Goto, End, NoRequest, TypeOK
  <2>3. \A q \in Requests : req'[q].at = "copying" => <<req'[q].file, req'[q].from>> \in named
    BY <1>7 DEF ReadSource, Begin, Goto, End, NoRequest, TypeOK, Kept, CopiesHaveSource
  <2> QED
    BY <2>1, <2>2, <2>3, QuietRequest
<1>8. CASE InsertCopy(r)
  <2> DEFINE f == req[r].file
             c == req[r].to
  <2>1. /\ f \in Files /\ c \in Channels /\ Live(c)
        /\ req[r].from \in Channels /\ Live(req[r].from) /\ <<f, req[r].from>> \in named
        /\ UNCHANGED <<mark, files, uploaded, purge, sweeps>>
        /\ named' = named \cup {<<f, c>>}
        /\ req[r].at = "copying" /\ req'[r].at = "numbering"
        /\ \A q \in Requests \ {r} : req'[q] = req[q]
    BY <1>8 DEF InsertCopy, Goto, TypeOK, Goes, RequestsHave, RequestsLive, InFlight, Kept, CopiesHaveSource
  <2> HIDE DEF f, c
  <2>2. \A q \in Requests : req[q].at = "recording" => req[q].file # f
    BY <2>1 DEF Kept, UploadsFresh, Fresh
  <2>3. \A g \in Files \ {f} : (Lost(g) => Lost(g)') /\ (Fresh(g) => Fresh(g)')
    BY <2>1 DEF Lost, Fresh, Live, purge, sweeps
  <2>4. ~Lost(f) /\ <<f, Unsent>> \notin named
    BY <2>1 DEF Lost, Kept, UnsentApart
  <2>5. UploadsFresh'
    BY <2>1, <2>2, <2>3 DEF Kept, UploadsFresh, TypeOK, Goes, RequestsHave
  <2>6. UnsentApart'
    BY <2>1, <2>4, NamesAssumption DEF Kept, UnsentApart
  <2>7. CopiesHaveSource'
    BY <2>1 DEF Kept, CopiesHaveSource
  <2>8. DoomedLost'
    BY <2>1, <2>3, <2>4 DEF Kept, DoomedLost, TypeOK, purge, sweeps
  <2>9. AllUploaded'
    BY <2>1 DEF Kept, AllUploaded, purge, sweeps
  <2> QED
    BY <2>5, <2>6, <2>7, <2>8, <2>9 DEF Kept
<1>9. CASE TakeNumber(r)
  <2>1. UNCHANGED <<mark, named, files, uploaded, purge, sweeps>>
    BY <1>9 DEF TakeNumber, data
  <2>2. \A q \in Requests : req'[q].at = "recording" => req'[q] = req[q]
    BY <1>9 DEF TakeNumber, Begin, Goto, End, NoRequest, TypeOK
  <2>3. \A q \in Requests : req'[q].at = "copying" => <<req'[q].file, req'[q].from>> \in named
    BY <1>9 DEF TakeNumber, Begin, Goto, End, NoRequest, TypeOK, Kept, CopiesHaveSource
  <2> QED
    BY <2>1, <2>2, <2>3, QuietRequest
<1>10. CASE Insert(r)
  BY <1>10, NamesAssumption
  DEF Insert, Begin, Goto, End, NoRequest, data, claims, purge, sweeps, Member,
      TypeOK, Goes, RequestsHave, RequestsLive, PurgesInOrder, InFlight, Live,
      Kept, UploadsFresh, UnsentApart, CopiesHaveSource, DoomedLost, AllUploaded, Lost, Fresh
<1>11. CASE \E c \in Channels : OpenRead(r, c)
  BY <1>11, NamesAssumption
  DEF OpenRead, Begin, Goto, End, NoRequest, data, claims, purge, sweeps, Member,
      TypeOK, Goes, RequestsHave, RequestsLive, PurgesInOrder, InFlight, Live,
      Kept, UploadsFresh, UnsentApart, CopiesHaveSource, DoomedLost, AllUploaded, Lost, Fresh
<1>12. CASE MarkRead(r)
  BY <1>12, NamesAssumption
  DEF MarkRead, Begin, Goto, End, NoRequest, data, claims, purge, sweeps, Member,
      TypeOK, Goes, RequestsHave, RequestsLive, PurgesInOrder, InFlight, Live,
      Kept, UploadsFresh, UnsentApart, CopiesHaveSource, DoomedLost, AllUploaded, Lost, Fresh
<1>13. CASE Abort(r)
  BY <1>13, NamesAssumption
  DEF Abort, Begin, Goto, End, NoRequest, data, claims, purge, sweeps, Member,
      TypeOK, Goes, RequestsHave, RequestsLive, PurgesInOrder, InFlight, Live,
      Kept, UploadsFresh, UnsentApart, CopiesHaveSource, DoomedLost, AllUploaded, Lost, Fresh
<1> QED
  BY <1>1, <1>2, <1>3, <1>4, <1>5, <1>6, <1>7, <1>8, <1>9, <1>10, <1>11, <1>12, <1>13 DEF RequestStep, RequestGoesOn

LEMMA MarkKept ==
  ASSUME TypeOK, Goes, Kept, NEW c \in Channels, MarkStep(c)
  PROVE  Kept'
<1>1. CASE LeaveLast(c)
  BY <1>1, NamesAssumption
  DEF LeaveLast, Set, Settled, data, claims, purge, sweeps,
      TypeOK, Goes, RequestsHave, RequestsLive, PurgesInOrder, InFlight, Live,
      Kept, UploadsFresh, UnsentApart, CopiesHaveSource, DoomedLost, AllUploaded, Lost, Fresh
<1>2. CASE Grace(c)
  BY <1>2, NamesAssumption
  DEF Grace, Set, Settled, data, claims, purge, sweeps,
      TypeOK, Goes, RequestsHave, RequestsLive, PurgesInOrder, InFlight, Live,
      Kept, UploadsFresh, UnsentApart, CopiesHaveSource, DoomedLost, AllUploaded, Lost, Fresh
<1>3. CASE LeaseOut(c)
  BY <1>3, NamesAssumption
  DEF LeaseOut, Set, Settled, data, claims, purge, sweeps,
      TypeOK, Goes, RequestsHave, RequestsLive, PurgesInOrder, InFlight, Live,
      Kept, UploadsFresh, UnsentApart, CopiesHaveSource, DoomedLost, AllUploaded, Lost, Fresh
<1> QED
  BY <1>1, <1>2, <1>3 DEF MarkStep

LEMMA PurgeKept ==
  ASSUME TypeOK, Goes, Kept, NEW n \in Nodes, NodeStep(n)
  PROVE  Kept'
<1>1. CASE \E c \in Channels : Claim(n, c)
  BY <1>1, NamesAssumption
  DEF Claim, NamedOutside, RecordsOf, At, Move, Finish, Set, Found, data, claims, sweeps,
      TypeOK, Goes, RequestsHave, RequestsLive, PurgesInOrder, InFlight, Live,
      Kept, UploadsFresh, UnsentApart, CopiesHaveSource, DoomedLost, AllUploaded, Lost, Fresh
<1>2. CASE DeleteBatch(n)
  BY <1>2, NamesAssumption
  DEF DeleteBatch, NamedOutside, RecordsOf, At, Move, Finish, Set, Found, data, claims, sweeps,
      TypeOK, Goes, RequestsHave, RequestsLive, PurgesInOrder, InFlight, Live,
      Kept, UploadsFresh, UnsentApart, CopiesHaveSource, DoomedLost, AllUploaded, Lost, Fresh
<1>3. CASE RenewClaim(n)
  <2>1. /\ UNCHANGED <<mark, named, files, uploaded, req, sweeps>>
        /\ step[n] = "renew" /\ step' \in {[step EXCEPT ![n] = "batch"], [step EXCEPT ![n] = "idle"]}
        /\ todo' = todo \/ todo' = [todo EXCEPT ![n] = {}]
        /\ condemned' = condemned \/ condemned' = [condemned EXCEPT ![n] = None]
    BY <1>3 DEF RenewClaim, At, Move, Finish, data
  <2>2. \A m \in Nodes : /\ todo'[m] \subseteq todo[m]
                         /\ condemned'[m] = condemned[m] \/ condemned'[m] = None
                         /\ step'[m] = "unlink" <=> step[m] = "unlink"
    BY <2>1 DEF TypeOK
  <2>3. condemned[n] = None
    BY <2>1 DEF Kept, DoomedLost
  <2>4. condemned' = condemned
    BY <2>1, <2>3 DEF TypeOK
  <2>5. UploadsFresh'
    BY <2>1, <2>2, <2>4 DEF Kept, UploadsFresh, Fresh, sweeps
  <2>6. UnsentApart' /\ CopiesHaveSource'
    BY <2>1 DEF Kept, UnsentApart, CopiesHaveSource
  <2>7. DoomedLost' /\ AllUploaded'
    BY <2>1, <2>2, <2>4 DEF Kept, DoomedLost, AllUploaded, Lost, Live, sweeps
  <2> QED
    BY <2>5, <2>6, <2>7 DEF Kept
<1>4. CASE DeleteReads(n)
  BY <1>4, NamesAssumption
  DEF DeleteReads, NamedOutside, RecordsOf, At, Move, Finish, Set, Found, data, claims, sweeps,
      TypeOK, Goes, RequestsHave, RequestsLive, PurgesInOrder, InFlight, Live,
      Kept, UploadsFresh, UnsentApart, CopiesHaveSource, DoomedLost, AllUploaded, Lost, Fresh
<1>5. CASE ListFiles(n)
  <2>1. /\ UNCHANGED <<mark, named, files, uploaded, condemned, req, sweeps>>
        /\ step[n] = "list" /\ step' = [step EXCEPT ![n] = "files"] /\ work[n] \in Channels
        /\ todo' = [todo EXCEPT ![n] = {f \in Files : <<f, work[n]>> \in named}]
    BY <1>5 DEF ListFiles, At, Move, data, Goes, PurgesInOrder
  <2>2. \A m \in Nodes : \A f \in todo'[m] :
            f \in todo[m] \/ (f \in Files /\ <<f, work[n]>> \in named)
    BY <2>1 DEF TypeOK
  <2>3. \A m \in Nodes : step'[m] = "unlink" <=> step[m] = "unlink"
    BY <2>1 DEF TypeOK
  <2>4. \A f \in Files : Fresh(f) => Fresh(f)'
    BY <2>1, <2>2 DEF Fresh, sweeps
  <2>5. UploadsFresh'
    BY <2>1, <2>4 DEF Kept, UploadsFresh, TypeOK, Goes, RequestsHave
  <2>6. UnsentApart' /\ CopiesHaveSource'
    BY <2>1 DEF Kept, UnsentApart, CopiesHaveSource
  <2>7. DoomedLost'
    BY <2>1, <2>3 DEF Kept, DoomedLost, Lost, Live, sweeps
  <2>8. AllUploaded'
    BY <2>1, <2>2 DEF Kept, AllUploaded, sweeps
  <2> QED
    BY <2>5, <2>6, <2>7, <2>8 DEF Kept
<1>6. CASE \E f \in Files : CountOthers(n, f)
  <2>1. PICK f \in Files : CountOthers(n, f)
    BY <1>6
  <2>2. /\ UNCHANGED <<mark, named, files, uploaded, req, sweeps>>
        /\ step[n] = "files" /\ f \in todo[n] /\ todo' = [todo EXCEPT ![n] = @ \ {f}]
        /\ work[n] \in Channels /\ ~Live(work[n])
    BY <2>1 DEF CountOthers, At, data, Goes, PurgesInOrder
  <2>3. \A m \in Nodes : todo'[m] \subseteq todo[m]
    BY <2>2 DEF TypeOK
  <2>4. \/ UNCHANGED <<condemned, step>>
        \/ /\ ~NamedOutside(f, work[n])
           /\ condemned' = [condemned EXCEPT ![n] = f] /\ step' = [step EXCEPT ![n] = "unlink"]
    BY <2>1 DEF CountOthers, Move
  <2>5. UnsentApart' /\ CopiesHaveSource'
    BY <2>2 DEF Kept, UnsentApart, CopiesHaveSource
  <2>6. f \in uploaded /\ ~Fresh(f)
    BY <2>2 DEF Kept, AllUploaded, Fresh
  <2>7. ~NamedOutside(f, work[n]) => Lost(f)
    BY <2>2, NamesAssumption DEF NamedOutside, Lost
  <2>8. \A m \in Nodes : condemned'[m] = condemned[m] \/ (condemned'[m] = f /\ Lost(f))
    BY <2>2, <2>4, <2>7 DEF TypeOK
  <2>9. \A g \in Files : Fresh(g) => Fresh(g)'
    BY <2>2, <2>3, <2>6, <2>8 DEF Fresh, sweeps
  <2>10. UploadsFresh'
    BY <2>2, <2>9 DEF Kept, UploadsFresh, TypeOK, Goes, RequestsHave
  <2>11. \A m \in Nodes : step'[m] = "unlink" <=> condemned'[m] # None
    BY <2>2, <2>4, NamesAssumption DEF Kept, DoomedLost, TypeOK
  <2>12. DoomedLost'
    BY <2>2, <2>8, <2>11 DEF Kept, DoomedLost, Lost, Live, sweeps
  <2>13. AllUploaded'
    BY <2>2, <2>3, <2>6, <2>8 DEF Kept, AllUploaded, sweeps
  <2> QED
    BY <2>5, <2>10, <2>12, <2>13 DEF Kept
<1>7. CASE Unlink(n)
  BY <1>7, NamesAssumption
  DEF Unlink, NamedOutside, RecordsOf, At, Move, Finish, Set, Found, data, claims, sweeps,
      TypeOK, Goes, RequestsHave, RequestsLive, PurgesInOrder, InFlight, Live,
      Kept, UploadsFresh, UnsentApart, CopiesHaveSource, DoomedLost, AllUploaded, Lost, Fresh
<1>8. CASE DeleteRecords(n)
  BY <1>8, NamesAssumption
  DEF DeleteRecords, NamedOutside, RecordsOf, At, Move, Finish, Set, Found, data, claims, sweeps,
      TypeOK, Goes, RequestsHave, RequestsLive, PurgesInOrder, InFlight, Live,
      Kept, UploadsFresh, UnsentApart, CopiesHaveSource, DoomedLost, AllUploaded, Lost, Fresh
<1>9. CASE DropDiscarded(n)
  BY <1>9, NamesAssumption
  DEF DropDiscarded, NamedOutside, RecordsOf, At, Move, Finish, Set, Found, data, claims, sweeps,
      TypeOK, Goes, RequestsHave, RequestsLive, PurgesInOrder, InFlight, Live,
      Kept, UploadsFresh, UnsentApart, CopiesHaveSource, DoomedLost, AllUploaded, Lost, Fresh
<1>10. CASE PurgeFails(n)
  BY <1>10, NamesAssumption
  DEF PurgeFails, NamedOutside, RecordsOf, At, Move, Finish, Set, Found, data, claims, sweeps,
      TypeOK, Goes, RequestsHave, RequestsLive, PurgesInOrder, InFlight, Live,
      Kept, UploadsFresh, UnsentApart, CopiesHaveSource, DoomedLost, AllUploaded, Lost, Fresh
<1> QED
  BY <1>1, <1>2, <1>3, <1>4, <1>5, <1>6, <1>7, <1>8, <1>9, <1>10 DEF NodeStep, PurgeStep

LEMMA SweepKept ==
  ASSUME TypeOK, Goes, Kept, OtherStep
  PROVE  Kept'
<1>1. CASE \E f \in Files : Overdue(f)
  BY <1>1, NamesAssumption
  DEF Overdue, Stray, Names, data, claims, purge,
      TypeOK, Goes, RequestsHave, RequestsLive, PurgesInOrder, InFlight, Live,
      Kept, UploadsFresh, UnsentApart, CopiesHaveSource, DoomedLost, AllUploaded, Lost, Fresh
<1>2. CASE ListExpired
  BY <1>2, NamesAssumption
  DEF ListExpired, Stray, Names, data, claims, purge,
      TypeOK, Goes, RequestsHave, RequestsLive, PurgesInOrder, InFlight, Live,
      Kept, UploadsFresh, UnsentApart, CopiesHaveSource, DoomedLost, AllUploaded, Lost, Fresh
<1>3. CASE \E f \in Files : DeleteExpired(f)
  BY <1>3, NamesAssumption
  DEF DeleteExpired, Stray, Names, data, claims, purge,
      TypeOK, Goes, RequestsHave, RequestsLive, PurgesInOrder, InFlight, Live,
      Kept, UploadsFresh, UnsentApart, CopiesHaveSource, DoomedLost, AllUploaded, Lost, Fresh
<1>4. CASE DeleteFile
  BY <1>4, NamesAssumption
  DEF DeleteFile, Stray, Names, data, claims, purge,
      TypeOK, Goes, RequestsHave, RequestsLive, PurgesInOrder, InFlight, Live,
      Kept, UploadsFresh, UnsentApart, CopiesHaveSource, DoomedLost, AllUploaded, Lost, Fresh
<1>5. CASE ListStray
  <2>1. /\ stray' = {f \in Files : Stray(f)}
        /\ UNCHANGED <<mark, named, files, uploaded, purge, req, leftover>>
    BY <1>5 DEF ListStray, data
  <2>2. \A f \in stray' : Lost(f)
    BY <2>1 DEF Stray, Names, Lost
  <2>3. \A r \in Requests : req[r].at = "recording" => req[r].file \notin stray'
    BY <2>1 DEF Stray
  <2>4. UploadsFresh'
    BY <2>1, <2>3 DEF Kept, UploadsFresh, Fresh, purge
  <2>5. UnsentApart' /\ CopiesHaveSource'
    BY <2>1 DEF Kept, UnsentApart, CopiesHaveSource
  <2>6. DoomedLost'
    BY <2>1, <2>2 DEF Kept, DoomedLost, Lost, Live, purge
  <2>7. AllUploaded'
    BY <2>1 DEF Kept, AllUploaded, Stray, TypeOK, purge
  <2> QED
    BY <2>4, <2>5, <2>6, <2>7 DEF Kept
<1>6. CASE \E f \in Files : DeleteStray(f)
  BY <1>6, NamesAssumption
  DEF DeleteStray, Stray, Names, data, claims, purge,
      TypeOK, Goes, RequestsHave, RequestsLive, PurgesInOrder, InFlight, Live,
      Kept, UploadsFresh, UnsentApart, CopiesHaveSource, DoomedLost, AllUploaded, Lost, Fresh
<1>7. CASE SweepDies
  BY <1>7, NamesAssumption
  DEF SweepDies, Stray, Names, data, claims, purge,
      TypeOK, Goes, RequestsHave, RequestsLive, PurgesInOrder, InFlight, Live,
      Kept, UploadsFresh, UnsentApart, CopiesHaveSource, DoomedLost, AllUploaded, Lost, Fresh
<1> QED
  BY <1>1, <1>2, <1>3, <1>4, <1>5, <1>6, <1>7 DEF OtherStep, SweepStep

-----------------------------------------------------------------------------
(* The theorems.                                                           *)

LEMMA InitPInv == Init => PInv
<1> SUFFICES ASSUME Init PROVE PInv
  OBVIOUS
<1>1. TypeOK
  BY BoundsAssumption DEF Init, TypeOK, NoRequest
<1>2. Goes
  BY DEF Init, Goes, RequestsLive, RequestsHave, PurgesInOrder, NothingOrphaned, InFlight, NoRequest
<1>3. UploadsFresh /\ CopiesHaveSource
  BY DEF Init, UploadsFresh, CopiesHaveSource, NoRequest
<1>4. UnsentApart /\ AllUploaded
  BY DEF Init, UnsentApart, AllUploaded, Names
<1>5. DoomedLost
  BY DEF Init, DoomedLost, Lost, Names
<1> QED
  BY <1>1, <1>2, <1>3, <1>4, <1>5 DEF PInv, IInv, Kept

LEMMA WhoSteps ==
  ASSUME Next
  PROVE  \/ \E r \in Requests : RequestStep(r)
         \/ \E c \in Channels : MarkStep(c)
         \/ \E n \in Nodes : NodeStep(n)
         \/ OtherStep
  BY DEF Next, RequestStep, MarkStep, NodeStep, OtherStep

LEMMA NextPInv == PInv /\ [Next]_vars => PInv'
<1> SUFFICES ASSUME PInv, [Next]_vars PROVE PInv'
  OBVIOUS
<1>1. TypeOK /\ Goes /\ Kept
  BY DEF PInv, IInv
<1>2. CASE UNCHANGED vars
  <2>1. TypeOK' /\ Goes'
    BY <1>1, <1>2
    DEF vars, data, claims, purge, sweeps, TypeOK, Goes, RequestsLive, RequestsHave,
        PurgesInOrder, NothingOrphaned, RecordsOf, Live, InFlight
  <2>2. Kept'
    BY <1>1, <1>2
    DEF vars, data, claims, purge, sweeps, Kept, UploadsFresh, UnsentApart,
        CopiesHaveSource, DoomedLost, AllUploaded, Lost, Fresh, Live
  <2> QED
    BY <2>1, <2>2 DEF PInv, IInv
<1>3. ASSUME NEW r \in Requests, RequestStep(r) PROVE PInv'
  BY <1>1, <1>3, RequestTypes, RequestGoes, RequestKept DEF PInv, IInv
<1>4. ASSUME NEW c \in Channels, MarkStep(c) PROVE PInv'
  BY <1>1, <1>4, MarkTypes, MarkGoes, MarkKept DEF PInv, IInv
<1>5. ASSUME NEW n \in Nodes, NodeStep(n) PROVE PInv'
  BY <1>1, <1>5, PurgeTypes, PurgeGoes, PurgeKept DEF PInv, IInv
<1>6. CASE OtherStep
  BY <1>1, <1>6, SweepTypes, SweepGoes, SweepKept DEF PInv, IInv
<1> QED
  BY <1>2, <1>3, <1>4, <1>5, <1>6, WhoSteps

\* The invariant, for every size.
THEOREM PurgeInvariant == Spec => []PInv
  BY InitPInv, NextPInv, PTL DEF Spec

\* The types, of which the claims' and the counted batches' are the ones that say
\* something.
THEOREM PurgeTypesHold == Spec => []TypeOK
  BY PurgeInvariant, PTL DEF PInv, IInv

\* purgeChannel and dropDiscarded leave nothing of a channel behind, whoever fails
\* or loses the claim in between, because purgeGrace outlasts the requests.
THEOREM PurgeOrphansNothing == Spec => []NothingOrphaned
  BY PurgeInvariant, PTL DEF PInv, IInv, Goes

LEMMA PicturesAreThere == PInv => PicturesShow
<1> SUFFICES ASSUME PInv, NEW f \in Files, NEW c \in Channels \cup {Unsent},
                    <<f, c>> \in named, c # Unsent => mark[c] # "due"
             PROVE  f \in files
  BY DEF PicturesShow
<1>1. c \in Channels => Live(c)
  BY NamesAssumption DEF PInv, IInv, Goes, NothingOrphaned, RecordsOf, TypeOK, Live
<1>2. ~Lost(f)
  BY <1>1 DEF Lost
<1> QED
  BY <1>2 DEF PInv, Kept, DoomedLost

\* No purge, sweep or failed upload takes a file from a picture that can still be
\* asked for.
THEOREM PurgePicturesShow == Spec => []PicturesShow
  BY PurgeInvariant, PicturesAreThere, PTL

LEMMA SentAreKept ==
  ASSUME PInv, [Next]_vars, NEW f \in Files, NEW c \in Channels,
         <<f, c>> \in named, mark[c] \in {"live", "marked"}
  PROVE  <<f, c>> \in named'
<1>1. c # Unsent /\ TypeOK /\ PurgesInOrder
  BY NamesAssumption DEF PInv, IInv, Goes
<1>2. ASSUME NEW r \in Requests, RequestStep(r) PROVE <<f, c>> \in named'
  BY <1>1, <1>2
  DEF RequestStep, RequestGoesOn, Upload, Send, OpenRead, Forward, Record, TakeBack, Attach,
      ReadSource, InsertCopy, TakeNumber, Insert, MarkRead, Abort, data
<1>3. ASSUME NEW d \in Channels, MarkStep(d) PROVE <<f, c>> \in named'
  BY <1>3 DEF MarkStep, LeaveLast, Grace, LeaseOut, data
<1>4. ASSUME NEW n \in Nodes, NodeStep(n) PROVE <<f, c>> \in named'
  <2>1. CASE DeleteRecords(n)
    BY <1>1, <2>1 DEF DeleteRecords, At, RecordsOf, PurgesInOrder, Live
  <2> QED
    BY <1>4, <2>1
    DEF NodeStep, PurgeStep, Claim, DeleteBatch, RenewClaim, DeleteReads, ListFiles, CountOthers,
        Unlink, DropDiscarded, PurgeFails, data
<1>5. CASE OtherStep
  BY <1>1, <1>5
  DEF OtherStep, SweepStep, Overdue, ListExpired, DeleteExpired, DeleteFile, ListStray,
      DeleteStray, SweepDies, data
<1> QED
  BY <1>2, <1>3, <1>4, <1>5, WhoSteps DEF vars, data

\* DeleteExpired asks again for what it deletes, and the purge waits for the mark.
THEOREM PurgeSentStays == Spec => SentStays
<1>1. PInv /\ [Next]_vars =>
        [\A f \in Files, c \in Channels :
            <<f, c>> \in named /\ mark[c] \in {"live", "marked"} => <<f, c>> \in named']_vars
  BY SentAreKept
<1> QED
  BY <1>1, PurgeInvariant, PTL DEF Spec, SentStays
=============================================================================
