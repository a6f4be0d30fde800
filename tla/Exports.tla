-------------------------------- MODULE Exports --------------------------------
(* CSV exports of a team's standups: the request that inserts the row and adds *)
(* the job, ExportService.process() run by the worker processes, and the file  *)
(* the row promises.                                                           *)
EXTENDS Integers, FiniteSets

CONSTANTS
  Exports,      \* identities of export_jobs rows
  Standups,     \* bound: standups submitted while exports run
  Workers, NoWorker, JobAttempts, MaxStalled,
  MaxFaults     \* bound: rejected awaits, lost answers, deaths, expired locks

ASSUME ExportsAssumption ==
  /\ JobAttempts \in Nat \ {0}
  /\ MaxStalled \in Nat
  /\ NoWorker \notin Workers
  /\ MaxFaults \in Nat

VARIABLES
  job,        \* jobs of the queue "reports", one per row
  row,        \* export_jobs: each row's status
  file,       \* storage/exports: the file of each export
  request,    \* what each createExport request is doing
  run,        \* what each run of process() is doing
  standups,   \* standups of the team
  asked,      \* history: the standups when the row was inserted
  unheard,    \* history: rows whose COMPLETED was written, its answer lost
  faults

Q == INSTANCE JobQueue WITH Jobs <- Exports

vars == <<job, row, file, request, run, standups, asked, unheard, faults>>

Status == {"none", "PENDING", "PROCESSING", "COMPLETED", "FAILED"}
NoFile == [is |-> "missing"]
Truncated == [is |-> "truncated"]
Written(s) == [is |-> "whole", of |-> s]

Ended == [pc |-> "idle"]
Awaits == {"find", "claim", "load", "open", "write", "complete", "fail"}
Runs == [pc : Awaits \union {"returned", "threw"}, export : Exports, read : SUBSET Standups]
Files == {NoFile, Truncated} \union [is : {"whole"}, of : SUBSET Standups]

TypeOK ==
  /\ Q!TypeOK
  /\ row \in [Exports -> Status]
  /\ file \in [Exports -> Files]
  /\ request \in [Exports -> {"idle", "add", "done"}]
  /\ run \in [Workers -> {Ended} \union Runs]
  /\ standups \subseteq Standups
  /\ asked \in [Exports -> SUBSET Standups]
  /\ unheard \subseteq Exports
  /\ faults \in 0..MaxFaults

Init ==
  /\ Q!Init
  /\ row = [e \in Exports |-> "none"]
  /\ file = [e \in Exports |-> NoFile]
  /\ request = [e \in Exports |-> "idle"]
  /\ run = [w \in Workers |-> Ended]
  /\ standups = {}
  /\ asked = [e \in Exports |-> {}]
  /\ unheard = {}
  /\ faults = 0

Fault == faults < MaxFaults /\ faults' = faults + 1

-----------------------------------------------------------------------------
(* The API: enqueue(), behind the guard, for a team that is there.             *)

InsertExport(e) ==
  /\ request[e] = "idle"
  /\ row' = [row EXCEPT ![e] = "PENDING"]
  /\ asked' = [asked EXCEPT ![e] = standups]
  /\ request' = [request EXCEPT ![e] = "add"]
  /\ UNCHANGED <<job, file, run, standups, unheard, faults>>

AddJob(e) ==
  /\ request[e] = "add"
  /\ Q!Add(e)
  /\ request' = [request EXCEPT ![e] = "done"]
  /\ UNCHANGED <<row, file, run, standups, asked, unheard, faults>>

AddRejected(e) ==
  /\ request[e] = "add"
  /\ Fault
  /\ request' = [request EXCEPT ![e] = "done"]
  /\ UNCHANGED <<job, row, file, run, standups, asked, unheard>>

Submit(s) ==
  /\ s \notin standups
  /\ standups' = standups \union {s}
  /\ UNCHANGED <<job, row, file, request, run, asked, unheard, faults>>

-----------------------------------------------------------------------------
(* The queue.                                                                  *)

TakeJob(w) == \E e \in Exports :
  /\ run[w] = Ended
  /\ Q!Take(e, w)
  /\ run' = [run EXCEPT ![w] = [pc |-> "find", export |-> e, read |-> {}]]
  /\ UNCHANGED <<row, file, request, standups, asked, unheard, faults>>

At(w, pc) == run[w].pc = pc

SettleJob(w) ==
  /\ At(w, "returned") \/ At(w, "threw")
  /\ Q!Settle(run[w].export, w, At(w, "threw"))
  /\ run' = [run EXCEPT ![w] = Ended]
  /\ UNCHANGED <<row, file, request, standups, asked, unheard, faults>>

Crash(w) ==
  /\ run[w] # Ended
  /\ Fault
  /\ Q!Release(w)
  /\ run' = [run EXCEPT ![w] = Ended]
  /\ UNCHANGED <<row, file, request, standups, asked, unheard>>

LoseLock(e) ==
  /\ Fault
  /\ Q!LoseLock(e)
  /\ UNCHANGED <<row, file, request, run, standups, asked, unheard>>

HandOut(e) ==
  /\ Q!HandOut(e)
  /\ UNCHANGED <<row, file, request, run, standups, asked, unheard, faults>>

-----------------------------------------------------------------------------
(* process(), one action per await.                                            *)

Goto(w, pc) == run' = [run EXCEPT ![w].pc = pc]
Mark(w, status) == row' = [row EXCEPT ![run[w].export] = status]

(* Mutant: rows that are not PENDING are processed too. *)
FindAny(w) ==
  /\ At(w, "find")
  /\ Goto(w, "claim")
  /\ UNCHANGED <<job, row, file, request, standups, asked, unheard, faults>>
Find(w) ==
  /\ At(w, "find")
  /\ Goto(w, IF row[run[w].export] = "PENDING" THEN "claim" ELSE "returned")
  /\ UNCHANGED <<job, row, file, request, standups, asked, unheard, faults>>

Claim(w) ==
  /\ At(w, "claim")
  /\ Mark(w, "PROCESSING")
  /\ Goto(w, "load")
  /\ UNCHANGED <<job, file, request, standups, asked, unheard, faults>>

LoadStandups(w) ==
  /\ At(w, "load")
  /\ run' = [run EXCEPT ![w].pc = "open", ![w].read = standups]
  /\ UNCHANGED <<job, row, file, request, standups, asked, unheard, faults>>

(* writeFile() truncates the file, then writes it.                             *)
OpenFile(w) ==
  /\ At(w, "open")
  /\ file' = [file EXCEPT ![run[w].export] = Truncated]
  /\ Goto(w, "write")
  /\ UNCHANGED <<job, row, request, standups, asked, unheard, faults>>

(* Mutant: the row says COMPLETED before the file is written. *)
WriteLate(w) ==
  /\ At(w, "write")
  /\ Mark(w, "COMPLETED")
  /\ Goto(w, "complete")
  /\ UNCHANGED <<job, file, request, standups, asked, unheard, faults>>
(* What two runs write at once may be anything.                                *)
WriteFile(w) == LET e == run[w].export IN
  /\ At(w, "write")
  /\ \E content \in {Written(run[w].read)} \union
          {Truncated : o \in {o \in Workers \ {w} : At(o, "write") /\ run[o].export = e}} :
       file' = [file EXCEPT ![e] = content]
  /\ Goto(w, "complete")
  /\ UNCHANGED <<job, row, request, standups, asked, unheard, faults>>

(* Mutant: the row is left as it is. *)
CompleteUnsaved(w) ==
  /\ At(w, "complete")
  /\ Goto(w, "returned")
  /\ UNCHANGED <<job, row, file, request, standups, asked, unheard, faults>>
Complete(w) ==
  /\ At(w, "complete")
  /\ Mark(w, "COMPLETED")
  /\ Goto(w, "returned")
  /\ UNCHANGED <<job, file, request, standups, asked, unheard, faults>>

(* The catch: the row fails for good, the job is tried again and finds it so.  *)
RecordFailure(w) ==
  /\ At(w, "fail")
  /\ Mark(w, "FAILED")
  /\ Goto(w, "threw")
  /\ UNCHANGED <<job, file, request, standups, asked, unheard, faults>>

(* An await is rejected: before the try and in the catch process() throws, in   *)
(* the try it goes to the catch...                                             *)
(* Mutant: what is rejected before the try is swallowed. *)
CaughtSwallowed(w) == IF run[w].pc \in {"find", "claim", "fail"} THEN "returned" ELSE "fail"
(* Mutant: the catch starts over. *)
CaughtAgain(w) == IF run[w].pc \in {"find", "claim", "fail"} THEN "threw" ELSE "find"
Caught(w) == IF run[w].pc \in {"find", "claim", "fail"} THEN "threw" ELSE "fail"
Rejected(w) ==
  /\ run[w].pc \in Awaits
  /\ Fault
  /\ Goto(w, Caught(w))
  /\ UNCHANGED <<job, row, file, request, standups, asked, unheard>>

(* ... and so it does when an update was made and its answer lost.             *)
AnswerLost(w) ==
  /\ Fault
  /\ \/ At(w, "claim") /\ Mark(w, "PROCESSING") /\ UNCHANGED unheard
     \/ At(w, "complete") /\ Mark(w, "COMPLETED") /\ unheard' = unheard \union {run[w].export}
     \/ At(w, "fail") /\ Mark(w, "FAILED") /\ UNCHANGED unheard
  /\ Goto(w, Caught(w))
  /\ UNCHANGED <<job, file, request, standups, asked>>

RunStep(w) ==
  \/ Find(w) \/ Claim(w) \/ LoadStandups(w) \/ OpenFile(w) \/ WriteFile(w)
  \/ Complete(w) \/ RecordFailure(w) \/ SettleJob(w)

Next ==
  \/ \E e \in Exports : InsertExport(e) \/ AddJob(e) \/ AddRejected(e) \/ LoseLock(e) \/ HandOut(e)
  \/ \E s \in Standups : Submit(s)
  \/ \E w \in Workers : TakeJob(w) \/ RunStep(w) \/ Crash(w) \/ Rejected(w) \/ AnswerLost(w)

(* Requests end, and workers and the stalled-job checker run.                  *)
Fairness ==
  /\ \A e \in Exports : WF_vars(AddJob(e)) /\ WF_vars(HandOut(e))
  /\ \A w \in Workers : WF_vars(TakeJob(w)) /\ WF_vars(RunStep(w))

Spec == Init /\ [][Next]_vars
FairSpec == Spec /\ Fairness

-----------------------------------------------------------------------------
(* Safety.                                                                     *)

(* A COMPLETED export's file is there, whole, and has every standup submitted  *)
(* before it was asked for (export.service.ts:148-159, :213-232): no death or  *)
(* failed write leaves a promise of half a file, unless the job's lock expired *)
(* under a run, so that a second one truncates the file.                       *)
DownloadIsWhole ==
  \A e \in Exports : row[e] = "COMPLETED" /\ ~job[e].lost =>
    file[e].is = "whole" /\ asked[e] \subseteq file[e].of

(* What the requester polled as the end is the end (export.service.ts:112-169  *)
(* against the page that polls, export/page.tsx:60-69): a row leaves COMPLETED *)
(* or FAILED only if the job's lock expired under a run, or the answer to the  *)
(* update to COMPLETED was lost and the catch took it for a failure.           *)
EndIsFinal ==
  [][\A e \in Exports :
       row[e] \in {"COMPLETED", "FAILED"} /\ row'[e] # row[e]
         => job[e].lost \/ e \in unheard]_vars

(* The queue's tries are not spent on a row nobody processed                   *)
(* (export.module.ts:13-16 with export.service.ts:107-119): a job that was     *)
(* added ends with its row still PENDING only after more faults than the queue *)
(* makes good.                                                                 *)
PendingIsRetried ==
  \A e \in Exports : row[e] = "PENDING" /\ Q!Over(e) =>
    faults > MaxStalled \/ faults >= JobAttempts

(* While nothing fails, an export that was asked for is COMPLETED, or about to  *)
(* be added, or its job waits or is in the hands of a worker                   *)
(* (export.service.ts:95-173): no row fails, and none is forgotten.            *)
NoneForgotten ==
  \A e \in Exports : row[e] # "none" =>
    \/ row[e] = "COMPLETED" \/ request[e] = "add"
    \/ job[e].state = "waiting" \/ job[e].owner # NoWorker
    \/ faults > 0

(* What is left of an export's job, the run that holds its lock included.      *)
Held(e) == IF job[e].owner = NoWorker THEN Ended ELSE run[job[e].owner]
AwaitsLeft(pc) ==
  CASE pc = "find" -> 9 [] pc = "claim" -> 8 [] pc = "load" -> 7 [] pc = "open" -> 6
    [] pc = "write" -> 5 [] pc = "complete" -> 4 [] pc = "fail" -> 3
    [] pc \in {"returned", "threw"} -> 2 [] OTHER -> 1
Left(e) == Q!Left(job[e], AwaitsLeft(Held(e).pc))

(* No failure keeps a job going for good (export.module.ts:13-16 with          *)
(* export.service.ts:107-173): each step of the queue or of the run that holds *)
(* a job uses up some of what is left of it, and deaths, lost locks, hand-outs  *)
(* and whatever other runs do give nothing back.                               *)
RunsOut == \A e \in Exports : job[e].state # "none" =>
  /\ Left(e)' \in 0..Left(e)
  /\ job'[e] # job[e] \/ Held(e)' # Held(e) => Left(e)' < Left(e)
JobsRunOut == [][RunsOut]_vars

(* Liveness: while nothing fails, an export that was asked for ends            *)
(* (export.service.ts:95-173), so the page that polls it stops.                *)
UndisturbedEnds ==
  \A e \in Exports :
    row[e] = "PENDING" ~> row[e] \in {"COMPLETED", "FAILED"} \/ faults > 0
=============================================================================
