------------------------------- MODULE JobQueue -------------------------------
(* A queue whose jobs workers take, settle while they hold the job's lock, and *)
(* leave behind when they die; jobs that throw are tried again, and jobs whose *)
(* lock is gone are handed out again, each so many times.                      *)
EXTENDS Integers

CONSTANTS
  Jobs, Workers, NoWorker,
  JobAttempts,   \* how often a job may throw before it fails
  MaxStalled     \* how often a stalled job is handed out again

VARIABLE job

JobState == {"none", "waiting", "active", "completed", "failed"}
NoJob == [state |-> "none", made |-> 0, stalled |-> 0, owner |-> NoWorker, lost |-> FALSE]

TypeOK ==
  job \in [Jobs -> [state : JobState, made : 0..JobAttempts, stalled : 0..(MaxStalled + 1),
                    owner : Workers \union {NoWorker}, lost : BOOLEAN]]

Init == job = [j \in Jobs |-> NoJob]

Add(j) ==
  /\ job[j].state = "none"
  /\ job' = [job EXCEPT ![j].state = "waiting"]

Take(j, w) ==
  /\ job[j].state = "waiting"
  /\ job' = [job EXCEPT ![j].state = "active", ![j].owner = w]

AfterThrow(j) == IF job[j].made + 1 < JobAttempts THEN "waiting" ELSE "failed"

(* A run that lost its lock settles nothing.                                   *)
Settle(j, w, threw) == job' = IF job[j].owner # w THEN job ELSE
  [job EXCEPT ![j].owner = NoWorker,
              ![j].made = IF threw THEN @ + 1 ELSE @,
              ![j].state = IF threw THEN AfterThrow(j) ELSE "completed"]

(* The process dies; its lock expires with it.                                 *)
Release(w) == job' = [j \in Jobs |->
  IF job[j].owner = w THEN [job[j] EXCEPT !.owner = NoWorker] ELSE job[j]]

(* The lock of a run that goes on is not renewed in time.                      *)
LoseLock(j) ==
  /\ job[j].owner # NoWorker
  /\ job' = [job EXCEPT ![j].owner = NoWorker, ![j].lost = TRUE]

(* The stalled-job checker.                                                    *)
HandOut(j) ==
  /\ job[j].state = "active"
  /\ job[j].owner = NoWorker
  /\ job' = [job EXCEPT ![j].stalled = @ + 1,
               ![j].state = IF job[j].stalled < MaxStalled THEN "waiting" ELSE "failed"]

Over(j) == job[j].state \in {"completed", "failed"}

(* What is left of a job r: the tries and hand-outs it may still spend, each    *)
(* worth more than the steps of a run, and the steps of the run under way.     *)
Span == 12
TriesLeft(r) == JobAttempts - r.made + MaxStalled - r.stalled
Left(r, steps) ==
  IF r.state \notin {"waiting", "active"} THEN 0
  ELSE Span * TriesLeft(r) + IF r.state = "waiting" THEN Span - 1 ELSE steps
=============================================================================
