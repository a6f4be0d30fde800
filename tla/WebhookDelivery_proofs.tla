------------------------ MODULE WebhookDelivery_proofs ------------------------
(* Proofs about WebhookDelivery for any deliveries, digests, workers and       *)
(* bounds.                                                                     *)
EXTENDS WebhookDelivery, FiniteSetTheorems, TLAPS

USE DigestOfAssumption, WorkersAssumption, BoundsAssumption

-----------------------------------------------------------------------------
(* Types.                                                                      *)

(* What the queue makes of a job that a worker settles.                        *)
LEMMA SettledOwner ==
  ASSUME NEW j \in Jobs
  PROVE  /\ Completed(j).owner = NoWorker /\ Retried(j).owner = NoWorker
         /\ Completed(j).lost = j.lost /\ Retried(j).lost = j.lost
BY DEF Completed, Retried, Jobs

LEMMA SettledType ==
  ASSUME NEW j \in Jobs
  PROVE  Completed(j) \in Jobs /\ Retried(j) \in Jobs
<1>1. Completed(j) \in Jobs
  BY DEF Completed, Jobs, JobState
<1>2. Retried(j) \in Jobs
  <2>1. j.made + 1 \in Nat
    BY DEF Jobs
  <2>2. \A s \in JobState, n \in Nat :
          [j EXCEPT !.made = n, !.owner = NoWorker, !.state = s] \in Jobs
    BY DEF Jobs
  <2>3. AfterThrow(j) \in JobState
    BY DEF AfterThrow, JobState
  <2> QED
    BY <2>1, <2>2, <2>3 DEF Retried
<1> QED
  BY <1>1, <1>2

(* A run that is under way has a delivery and an attempt count.                *)
LEMMA RunType ==
  ASSUME TypeOK, NEW w \in Workers, ~IdleRun(w)
  PROVE  /\ run[w] \in [pc : RunPc \ {"idle"}, delivery : Deliveries, attempts : Nat]
         /\ run[w].delivery \in Deliveries
         /\ run[w].attempts \in Nat
         /\ delivery[run[w].delivery] \in Rows
         /\ delivery[run[w].delivery].attempts \in Nat
BY DEF TypeOK, Runs, Rows, IdleRun, Ended

(* A lock that expires under a live run, and a job handed out again.           *)
LEMMA LockFields ==
  ASSUME NEW j \in Jobs
  PROVE  LET free == [j EXCEPT !.owner = NoWorker, !.lost = TRUE] IN
         /\ free.owner = NoWorker /\ free.lost /\ free.state = j.state
         /\ free.made = j.made /\ free.stalled = j.stalled
         /\ Stalled(j).owner = j.owner /\ Stalled(j).lost = j.lost
BY DEF Stalled, Jobs

(* A tried row is a row.                                                       *)
LEMMA TriedType ==
  ASSUME NEW row \in Rows, NEW status \in RowStatus
  PROVE  Tried(row, status) \in Rows
BY DEF Tried, Rows

LEMMA TriedStatus ==
  ASSUME NEW row, NEW status
  PROVE  Tried(row, status).status = status
BY DEF Tried

(* A failed row keeps its status, or is given up.                              *)
LEMMA FailedRowStatus ==
  ASSUME NEW row, NEW n \in Nat
  PROVE  /\ FailedRow(row, n).status \in {row.status, "FAILED"}
         /\ n >= MaxAttempts => FailedRow(row, n).status = "FAILED"
         /\ FailedRow(row, n).attempts = n
BY DEF FailedRow

LEMMA FailedRowType ==
  ASSUME NEW row \in Rows, NEW n \in Nat
  PROVE  FailedRow(row, n) \in Rows
BY DEF FailedRow, Rows, RowStatus

(* Moving a run on changes where it is, and nothing else of any run.           *)
LEMMA MoveType ==
  ASSUME TypeOK, NEW w \in Workers, ~IdleRun(w),
         NEW pc \in RunPc \ {"idle"}, NEW n \in Nat
  PROVE  /\ [run EXCEPT ![w].pc = pc] \in [Workers -> Runs]
         /\ [run EXCEPT ![w] = [@ EXCEPT !.pc = pc, !.attempts = n]]
              \in [Workers -> Runs]
<1>1. run[w] \in [pc : RunPc \ {"idle"}, delivery : Deliveries, attempts : Nat]
  BY RunType
<1>2. /\ [run[w] EXCEPT !.pc = pc] \in Runs
      /\ [run[w] EXCEPT !.pc = pc, !.attempts = n] \in Runs
  BY <1>1 DEF Runs
<1> QED
  BY <1>2 DEF TypeOK

LEMMA Moved ==
  ASSUME TypeOK, NEW w \in Workers, ~IdleRun(w),
         NEW pc \in RunPc \ {"idle"}, Goto(w, pc)
  PROVE  /\ run' \in [Workers -> Runs]
         /\ run'[w].pc = pc
         /\ run'[w].delivery = run[w].delivery
         /\ run'[w].attempts = run[w].attempts
         /\ \A v \in Workers : v # w => run'[v] = run[v]
<1>1. run[w] \in [pc : RunPc \ {"idle"}, delivery : Deliveries, attempts : Nat]
  BY RunType
<1>2. run' \in [Workers -> Runs]
  BY MoveType DEF Goto
<1>3. run'[w] = [run[w] EXCEPT !.pc = pc]
  BY DEF Goto, TypeOK
<1> QED
  BY <1>1, <1>2, <1>3 DEF Goto, TypeOK

(* Settling ends the run, and touches no job but the one the worker holds.     *)
LEMMA Settled ==
  ASSUME TypeOK, NEW w \in Workers, SettleJob(w)
  PROVE  /\ ~IdleRun(w) /\ run[w].delivery \in Deliveries
         /\ \A v \in Workers : run'[v] = IF v = w THEN Ended ELSE run[v]
         /\ \A d \in Deliveries :
              \/ job'[d] = job[d] /\ (d = run[w].delivery => job[d].owner # w)
              \/ /\ d = run[w].delivery /\ job[d].owner = w
                 /\ job'[d] \in {Completed(job[d]), Retried(job[d])}
         /\ job' \in [Deliveries -> Jobs] /\ run' \in [Workers -> Runs]
<1>1. ~IdleRun(w) /\ run[w].delivery \in Deliveries
  BY RunType DEF SettleJob, IdleRun
<1>2. \A v \in Workers : run'[v] = IF v = w THEN Ended ELSE run[v]
  BY DEF SettleJob, TypeOK
<1>3. \A d \in Deliveries :
        \/ job'[d] = job[d] /\ (d = run[w].delivery => job[d].owner # w)
        \/ /\ d = run[w].delivery /\ job[d].owner = w
           /\ job'[d] \in {Completed(job[d]), Retried(job[d])}
  BY <1>1 DEF SettleJob, TypeOK
<1>4. job' \in [Deliveries -> Jobs]
  <2>1. \A d \in Deliveries : job[d] \in Jobs
    BY DEF TypeOK
  <2>2. \A d \in Deliveries : job'[d] \in Jobs
    BY <1>3, <2>1, SettledType
  <2> QED
    BY <2>2 DEF SettleJob, TypeOK
<1>5. run' \in [Workers -> Runs]
  BY DEF SettleJob, TypeOK, Runs
<1> QED
  BY <1>1, <1>2, <1>3, <1>4, <1>5

(* A failed try is thrown again or not: either way the run is at its end.      *)
LEMMA Recorded ==
  ASSUME TypeOK, NEW w \in Workers, RecordFailure(w)
  PROVE  \E pc \in {"returned", "threw"} : Goto(w, pc)
BY DEF RecordFailure

(* An update that is made and not answered ends the run with an error.         *)
LEMMA Unanswered ==
  ASSUME TypeOK, NEW w \in Workers, UpdateUnheard(w)
  PROVE  /\ ~IdleRun(w) /\ run[w].delivery \in Deliveries /\ run[w].attempts + 1 \in Nat
         /\ Goto(w, "threw")
         /\ \A d \in Deliveries : delivery'[d] =
              IF d # run[w].delivery THEN delivery[d]
              ELSE IF At(w, "markFailed") THEN Tried(delivery[d], "FAILED")
              ELSE FailedRow(delivery[d], run[w].attempts + 1)
         /\ UNCHANGED <<digestStatus, webhookUrl, job, posts>>
<1>1. ~IdleRun(w)
  BY DEF UpdateUnheard, IdleRun
<1>2. run[w].delivery \in Deliveries /\ run[w].attempts \in Nat
  BY <1>1, RunType
<1>3. DOMAIN delivery = Deliveries
  BY DEF TypeOK
<1> QED
  BY <1>1, <1>2, <1>3 DEF UpdateUnheard

LEMMA TypeInit == Init => TypeOK
<1>1. /\ NoRow \in Rows
      /\ NoJob \in Jobs
      /\ Ended \in Runs
  BY DEF NoRow, Rows, RowStatus, NoJob, Jobs, JobState, Runs
<1> QED
  BY <1>1 DEF Init, TypeOK

LEMMA TypeStep == TypeOK /\ [Next]_vars => TypeOK'
<1> SUFFICES ASSUME TypeOK, [Next]_vars PROVE TypeOK'
  OBVIOUS
<1>1. ASSUME NEW w \in Workers, TakeJob(w) PROVE TypeOK'
  <2> PICK d \in Deliveries :
        /\ job' = [job EXCEPT ![d] = [@ EXCEPT !.state = "active", !.owner = w]]
        /\ run' = [run EXCEPT ![w] =
                     [pc |-> "read", delivery |-> d, attempts |-> 0]]
    BY <1>1 DEF TakeJob
  <2>1. [pc |-> "read", delivery |-> d, attempts |-> 0] \in Runs
    BY DEF Runs, RunPc
  <2>2. [job[d] EXCEPT !.state = "active", !.owner = w] \in Jobs
    <3>1. job[d] \in Jobs
      BY DEF TypeOK
    <3> QED
      BY <3>1 DEF Jobs, JobState
  <2>3. job' \in [Deliveries -> Jobs] /\ run' \in [Workers -> Runs]
    BY <2>1, <2>2 DEF TypeOK
  <2> QED
    BY <1>1, <2>3 DEF TakeJob, TypeOK
<1>2. ASSUME NEW w \in Workers, SkipSettled(w) PROVE TypeOK'
  BY <1>2, Moved DEF SkipSettled, TypeOK, RunPc, At, IdleRun
<1>3. ASSUME NEW w \in Workers, ReadPending(w) PROVE TypeOK'
  <2>1. ~IdleRun(w) /\ delivery[run[w].delivery].attempts \in Nat
    BY <1>3, RunType DEF ReadPending, At, IdleRun
  <2> QED
    BY <1>3, <2>1, MoveType DEF ReadPending, TypeOK, RunPc
<1>4. ASSUME NEW w \in Workers, MarkFailed(w) PROVE TypeOK'
  <2>1. ~IdleRun(w)
    BY <1>4 DEF MarkFailed, At, IdleRun
  <2>2. Tried(delivery[run[w].delivery], "FAILED") \in Rows
    BY <2>1, RunType, TriedType DEF RowStatus
  <2> QED
    BY <1>4, <2>1, <2>2, Moved DEF MarkFailed, TypeOK, RunPc
<1>5. ASSUME NEW w \in Workers, PostAccepted(w) PROVE TypeOK'
  <2>1. ~IdleRun(w)
    BY <1>5 DEF PostAccepted, At, IdleRun
  <2>2. run[w].delivery \in Deliveries
    BY <2>1, RunType
  <2>3. run' \in [Workers -> Runs]
    <3>1. PICK answer \in {"commit", "record"} : Goto(w, answer)
      BY <1>5 DEF PostAccepted
    <3> QED
      BY <2>1, <3>1, MoveType DEF Goto, RunPc
  <2>4. posts' \in [Deliveries -> Nat]
    BY <1>5, <2>2 DEF PostAccepted, TypeOK
  <2> QED
    BY <1>5, <2>3, <2>4 DEF PostAccepted, TypeOK
<1>6. ASSUME NEW w \in Workers, PostRefused(w) PROVE TypeOK'
  BY <1>6, MoveType DEF PostRefused, Goto, TypeOK, RunPc, At, IdleRun
<1>7. ASSUME NEW w \in Workers, CommitSuccess(w) \/ CommitUnheard(w) PROVE TypeOK'
  <2>1. ~IdleRun(w)
    BY <1>7 DEF CommitSuccess, CommitUnheard, At, IdleRun
  <2>2. Tried(delivery[run[w].delivery], "SUCCESS") \in Rows
    BY <2>1, RunType, TriedType DEF RowStatus
  <2>3. delivery' \in [Deliveries -> Rows]
    BY <1>7, <2>2 DEF CommitSuccess, CommitUnheard, TypeOK
  <2>4. digestStatus' \in [Digests -> {"none", "GENERATED", "SENT"}]
    BY <1>7 DEF CommitSuccess, CommitUnheard, MarkSent, TypeOK
  <2>5. run' \in [Workers -> Runs]
    BY <1>7, <2>1, Moved DEF CommitSuccess, CommitUnheard, RunPc
  <2> QED
    BY <1>7, <2>3, <2>4, <2>5 DEF CommitSuccess, CommitUnheard, Fault, TypeOK
<1>8. ASSUME NEW w \in Workers, RecordFailure(w) PROVE TypeOK'
  <2>1. ~IdleRun(w)
    BY <1>8 DEF RecordFailure, IdleRun
  <2>2. FailedRow(delivery[run[w].delivery], run[w].attempts + 1) \in Rows
    BY <2>1, RunType, FailedRowType
  <2>3. run' \in [Workers -> Runs]
    BY <1>8, <2>1, Recorded, Moved DEF RunPc
  <2> QED
    BY <1>8, <2>2, <2>3 DEF RecordFailure, TypeOK
<1>9. ASSUME NEW w \in Workers, Crash(w) PROVE TypeOK'
  <2>1. \A d \in Deliveries : [job[d] EXCEPT !.owner = NoWorker] \in Jobs
    BY DEF TypeOK, Jobs
  <2>2. Ended \in Runs
    BY DEF Runs
  <2> QED
    BY <1>9, <2>1, <2>2 DEF Crash, Fault, TypeOK
<1>10. ASSUME NEW w \in Workers, CommitRejected(w) PROVE TypeOK'
  <2>1. run' \in [Workers -> Runs]
    BY <1>10, MoveType DEF CommitRejected, Goto, RunPc, At, IdleRun
  <2> QED
    BY <1>10, <2>1 DEF CommitRejected, Fault, TypeOK
<1>11. ASSUME NEW w \in Workers, QueryRejected(w) PROVE TypeOK'
  <2>1. ~IdleRun(w)
    BY <1>11 DEF QueryRejected, IdleRun
  <2> QED
    BY <1>11, <2>1, Moved DEF QueryRejected, Fault, TypeOK, RunPc
<1>12. ASSUME NEW d \in Deliveries, QueueStep(d) PROVE TypeOK'
  <2>1. job[d] \in Jobs
    BY DEF TypeOK
  <2>2. [job[d] EXCEPT !.owner = NoWorker, !.lost = TRUE] \in Jobs
    BY <2>1 DEF Jobs
  <2>3. AfterStall(job[d]) \in JobState
    BY DEF AfterStall, JobState
  <2>4. Stalled(job[d]) \in Jobs
    <3>1. job[d].stalled + 1 \in Nat
      BY <2>1 DEF Jobs
    <3>2. \A s \in JobState, n \in Nat :
            [job[d] EXCEPT !.stalled = n, !.state = s] \in Jobs
      BY <2>1 DEF Jobs
    <3> QED
      BY <2>3, <3>1, <3>2 DEF Stalled
  <2>5. CASE LoseLock(d)
    BY <2>2, <2>5 DEF LoseLock, Fault, TypeOK
  <2>6. CASE StalledJob(d)
    BY <2>4, <2>6 DEF StalledJob, TypeOK
  <2> QED
    BY <1>12, <2>5, <2>6 DEF QueueStep
<1>13. ASSUME NEW d \in Deliveries, CreateDelivery(d) PROVE TypeOK'
  <2>1. [status |-> "PENDING", attempts |-> 0] \in Rows
    BY DEF Rows, RowStatus
  <2> QED
    BY <1>13, <2>1 DEF CreateDelivery, InsertDelivery, TypeOK
<1>14. ASSUME NEW d \in Deliveries, EnqueueDelivery(d) PROVE TypeOK'
  <2>1. [job[d] EXCEPT !.state = "waiting"] \in Jobs
    BY DEF TypeOK, Jobs, JobState
  <2> QED
    BY <1>14, <2>1 DEF EnqueueDelivery, AddJob, TypeOK
<1>15. CASE SetWebhookUrl
  BY <1>15 DEF SetWebhookUrl, TypeOK
<1>16. CASE UNCHANGED vars
  BY <1>16 DEF vars, TypeOK
<1>17. ASSUME NEW w \in Workers, SettleJob(w) PROVE TypeOK'
  BY <1>17, Settled DEF SettleJob, TypeOK
<1>18. ASSUME NEW w \in Workers, UpdateUnheard(w) PROVE TypeOK'
  <2>1. ~IdleRun(w) /\ run[w].attempts + 1 \in Nat /\ Goto(w, "threw")
    BY <1>18, Unanswered
  <2>2. /\ Tried(delivery[run[w].delivery], "FAILED") \in Rows
        /\ FailedRow(delivery[run[w].delivery], run[w].attempts + 1) \in Rows
    BY <2>1, RunType, TriedType, FailedRowType DEF RowStatus
  <2>3. run' \in [Workers -> Runs]
    BY <2>1, Moved DEF RunPc
  <2>4. delivery' \in [Deliveries -> Rows]
    BY <1>18, <2>2 DEF UpdateUnheard, TypeOK
  <2>5. faults' \in 0..MaxFaults
    BY <1>18, BoundsAssumption DEF UpdateUnheard, Fault, TypeOK
  <2> QED
    BY <1>18, <2>3, <2>4, <2>5 DEF UpdateUnheard, TypeOK
<1> QED
  BY <1>1, <1>2, <1>3, <1>4, <1>5, <1>6, <1>7, <1>8, <1>9, <1>10, <1>11,
     <1>12, <1>13, <1>14, <1>15, <1>16, <1>17, <1>18
  DEF Next, Consume, DeliverStep, FaultStep

(* The tables, the queue and the runs keep their shape.                        *)
THEOREM TypeCorrect == Spec => []TypeOK
BY TypeInit, TypeStep, PTL DEF Spec

-----------------------------------------------------------------------------
(* The safety of deliver(), whatever locks expire.                             *)

(* A step that leaves the tables and the posts alone leaves what they say.     *)
LEMMA TablesFrame ==
  ASSUME ClaimsAreTrue, SuccessMarksDigest, PendingHasTriesLeft,
         UNCHANGED <<delivery, digestStatus, posts>>
  PROVE  ClaimsAreTrue' /\ SuccessMarksDigest' /\ PendingHasTriesLeft'
BY DEF ClaimsAreTrue, SuccessMarksDigest, PendingHasTriesLeft, Posted

(* A run that will neither post nor commit any more, while rows stay.          *)
LEMMA FinishedRun ==
  ASSUME TypeOK, RunsInv, JobsInv, NEW w \in Workers, ~IdleRun(w),
         NEW pc \in {"returned", "threw", "unheard"}, Goto(w, pc),
         pc = "unheard" => run[w].attempts < MaxAttempts,
         UNCHANGED <<job, posts>>,
         \A d \in Deliveries :
           delivery[d].status # "none" => delivery'[d].status # "none"
  PROVE  RunsInv' /\ JobsInv'
<1>1. /\ run'[w].pc = pc
      /\ run'[w].delivery = run[w].delivery
      /\ run'[w].attempts = run[w].attempts
      /\ \A v \in Workers : v # w => run'[v] = run[v]
  BY Moved DEF RunPc
<1>2. \A v \in Workers : ~IdleRun(v) => run[v].delivery \in Deliveries
  BY RunType
<1>3. RunsInv'
  <2> SUFFICES ASSUME NEW v \in Workers, ~IdleRun(v)'
               PROVE  /\ delivery'[run'[v].delivery].status # "none"
                      /\ run'[v].pc \in {"post", "commit", "record", "unheard"} =>
                           run'[v].attempts < MaxAttempts
                      /\ run'[v].pc = "commit" => posts'[run'[v].delivery] > 0
    BY DEF RunsInv
  <2>1. CASE v = w
    BY <1>1, <1>2, <2>1 DEF RunsInv
  <2>2. CASE v # w
    BY <1>1, <1>2, <2>2 DEF RunsInv, IdleRun
  <2> QED
    BY <2>1, <2>2
<1> QED
  BY <1>3 DEF JobsInv

LEMMA DeliveryInit == Init => DeliveryInv
<1> SUFFICES ASSUME Init PROVE DeliveryInv
  OBVIOUS
<1>1. TypeOK
  BY TypeInit
<1> QED
  BY <1>1 DEF Init, DeliveryInv, RunsInv, JobsInv, ClaimsAreTrue, Posted,
              SuccessMarksDigest, PendingHasTriesLeft, NoRow, NoJob, Ended, IdleRun

LEMMA DeliveryStep == DeliveryInv /\ [Next]_vars => DeliveryInv'
<1> SUFFICES ASSUME DeliveryInv, [Next]_vars
             PROVE  /\ RunsInv' /\ JobsInv'
                    /\ ClaimsAreTrue' /\ SuccessMarksDigest' /\ PendingHasTriesLeft'
  BY TypeStep DEF DeliveryInv
<1> USE DEF DeliveryInv
<1>a. \A w \in Workers : ~IdleRun(w) =>
        run[w].delivery \in Deliveries /\ run[w].attempts \in Nat
  BY RunType
<1>b. DOMAIN run = Workers /\ DOMAIN job = Deliveries /\ DOMAIN delivery = Deliveries
  BY DEF TypeOK
<1>1. ASSUME NEW w \in Workers, TakeJob(w)
      PROVE  RunsInv' /\ JobsInv'
  <2> PICK d \in Deliveries :
        /\ job[d].state = "waiting"
        /\ job' = [job EXCEPT ![d] = [@ EXCEPT !.state = "active", !.owner = w]]
        /\ run' = [run EXCEPT ![w] =
                     [pc |-> "read", delivery |-> d, attempts |-> 0]]
        /\ UNCHANGED <<delivery, posts>>
    BY <1>1 DEF TakeJob
  <2>1. delivery[d].status # "none"
    BY DEF JobsInv
  <2>2. RunsInv'
    BY <1>a, <1>b, <2>1 DEF RunsInv, IdleRun
  <2>3. JobsInv'
    BY <1>b, <2>1 DEF JobsInv
  <2> QED
    BY <2>2, <2>3
<1>2. ASSUME NEW w \in Workers, SkipSettled(w) \/ QueryRejected(w)
      PROVE  RunsInv' /\ JobsInv'
  BY <1>2, FinishedRun DEF SkipSettled, QueryRejected, At, IdleRun
<1>3. ASSUME NEW w \in Workers, ReadPending(w)
      PROVE  RunsInv' /\ JobsInv'
  <2>1. run[w].delivery \in Deliveries
    BY <1>3, <1>a DEF ReadPending, At, IdleRun
  <2>2. delivery[run[w].delivery].attempts < MaxAttempts
    BY <1>3, <2>1 DEF ReadPending, PendingHasTriesLeft
  <2>3. /\ run'[w].delivery = run[w].delivery
        /\ run'[w].attempts = delivery[run[w].delivery].attempts
        /\ run'[w].pc \in {"post", "markFailed"}
        /\ \A v \in Workers : v # w => run'[v] = run[v]
    BY <1>3, <1>a, <1>b, RunType DEF ReadPending, At, IdleRun
  <2>4. RunsInv'
    BY <1>3, <2>2, <2>3 DEF RunsInv, ReadPending, At, IdleRun
  <2> QED
    BY <1>3, <2>4 DEF JobsInv, ReadPending
<1>4. ASSUME NEW w \in Workers, PostAccepted(w)
      PROVE  RunsInv' /\ JobsInv' /\ ClaimsAreTrue'
  <2>1. run[w].delivery \in Deliveries /\ ~IdleRun(w)
    BY <1>4, <1>a DEF PostAccepted, At, IdleRun
  <2>2. \A d \in Deliveries :
          posts'[d] = IF d = run[w].delivery THEN posts[d] + 1 ELSE posts[d]
    BY <1>4, <2>1 DEF PostAccepted, TypeOK
  <2>3. /\ run'[w].delivery = run[w].delivery
        /\ run'[w].attempts = run[w].attempts
        /\ run'[w].pc \in {"commit", "record"}
        /\ \A v \in Workers : v # w => run'[v] = run[v]
    BY <1>4, <1>b, <2>1, RunType DEF PostAccepted, Goto
  <2>4. \A d \in Deliveries : posts[d] \in Nat
    BY DEF TypeOK
  <2>5. RunsInv'
    BY <1>4, <1>a, <2>1, <2>2, <2>3, <2>4 DEF RunsInv, PostAccepted, At, IdleRun
  <2>6. ClaimsAreTrue'
    BY <1>4, <2>2, <2>4 DEF ClaimsAreTrue, Posted, PostAccepted
  <2> QED
    BY <1>4, <2>5, <2>6 DEF JobsInv, PostAccepted
<1>5. ASSUME NEW w \in Workers, PostRefused(w) \/ CommitRejected(w)
      PROVE  RunsInv' /\ JobsInv'
  <2>1. ~IdleRun(w) /\ run[w].pc \in {"post", "commit"}
    BY <1>5 DEF PostRefused, CommitRejected, At, IdleRun
  <2>2. /\ run'[w].delivery = run[w].delivery
        /\ run'[w].attempts = run[w].attempts
        /\ run'[w].pc = "record"
        /\ \A v \in Workers : v # w => run'[v] = run[v]
    BY <1>5, <1>b, <2>1, RunType DEF PostRefused, CommitRejected, Goto
  <2>3. UNCHANGED <<delivery, job, posts>>
    BY <1>5 DEF PostRefused, CommitRejected
  <2>4. RunsInv'
    BY <2>1, <2>2, <2>3 DEF RunsInv, IdleRun
  <2> QED
    BY <2>3, <2>4 DEF JobsInv
<1>6. ASSUME NEW w \in Workers, MarkFailed(w)
      PROVE  /\ RunsInv' /\ JobsInv'
             /\ ClaimsAreTrue' /\ SuccessMarksDigest' /\ PendingHasTriesLeft'
  <2>1. run[w].delivery \in Deliveries /\ ~IdleRun(w)
    BY <1>6, <1>a DEF MarkFailed, At, IdleRun
  <2>2. \A d \in Deliveries : delivery'[d] =
          IF d = run[w].delivery THEN Tried(delivery[d], "FAILED") ELSE delivery[d]
    BY <1>6, <1>b, <2>1 DEF MarkFailed
  <2>3. \A d \in Deliveries : d = run[w].delivery => delivery'[d].status = "FAILED"
    BY <2>2, TriedStatus
  <2>4. RunsInv' /\ JobsInv'
    BY <1>6, <2>1, <2>2, <2>3, FinishedRun DEF MarkFailed
  <2> QED
    BY <1>6, <2>2, <2>3, <2>4
    DEF MarkFailed, ClaimsAreTrue, Posted, SuccessMarksDigest, PendingHasTriesLeft
<1>7. ASSUME NEW w \in Workers, CommitSuccess(w) \/ CommitUnheard(w)
      PROVE  /\ RunsInv' /\ JobsInv'
             /\ ClaimsAreTrue' /\ SuccessMarksDigest' /\ PendingHasTriesLeft'
  <2>1. run[w].delivery \in Deliveries /\ ~IdleRun(w) /\ run[w].pc = "commit"
    BY <1>7, <1>a DEF CommitSuccess, CommitUnheard, At, IdleRun
  <2>2. \A d \in Deliveries : delivery'[d] =
          IF d = run[w].delivery THEN Tried(delivery[d], "SUCCESS") ELSE delivery[d]
    BY <1>7, <1>b, <2>1 DEF CommitSuccess, CommitUnheard
  <2>3. \A d \in Deliveries : d = run[w].delivery => delivery'[d].status = "SUCCESS"
    BY <2>2, TriedStatus
  <2>4. RunsInv' /\ JobsInv'
    <3>1. /\ run[w].attempts < MaxAttempts /\ UNCHANGED <<job, posts>>
          /\ \E pc \in {"returned", "unheard"} : Goto(w, pc)
      BY <1>7, <2>1 DEF RunsInv, CommitSuccess, CommitUnheard
    <3> QED
      BY <2>1, <2>2, <2>3, <3>1, FinishedRun
  <2>5. posts[run[w].delivery] > 0
    BY <2>1 DEF RunsInv, IdleRun
  <2>6. \A g \in Digests : digestStatus'[g] =
          IF g = DigestOf[run[w].delivery] THEN "SENT" ELSE digestStatus[g]
    BY <1>7 DEF CommitSuccess, CommitUnheard, MarkSent
  <2>7. UNCHANGED posts
    BY <1>7 DEF CommitSuccess, CommitUnheard
  <2>8. ClaimsAreTrue'
    BY <2>1, <2>2, <2>5, <2>6, <2>7 DEF ClaimsAreTrue, Posted
  <2>9. SuccessMarksDigest'
    BY <2>2, <2>6 DEF SuccessMarksDigest
  <2>10. PendingHasTriesLeft'
    BY <2>2, <2>3 DEF PendingHasTriesLeft
  <2> QED
    BY <2>4, <2>8, <2>9, <2>10
<1>8. ASSUME NEW w \in Workers, RecordFailure(w)
      PROVE  /\ RunsInv' /\ JobsInv'
             /\ ClaimsAreTrue' /\ SuccessMarksDigest' /\ PendingHasTriesLeft'
  <2>1. run[w].delivery \in Deliveries /\ ~IdleRun(w) /\ run[w].attempts \in Nat
    BY <1>8, <1>a DEF RecordFailure, IdleRun
  <2>2. \A d \in Deliveries : delivery'[d] =
          IF d = run[w].delivery THEN FailedRow(delivery[d], run[w].attempts + 1)
                                 ELSE delivery[d]
    BY <1>8, <1>b, <2>1 DEF RecordFailure
  <2>3. \A d \in Deliveries :
          /\ delivery'[d].status \in {delivery[d].status, "FAILED"}
          /\ delivery'[d] # delivery[d] /\ delivery'[d].status = "PENDING" =>
               delivery'[d].attempts < MaxAttempts
    BY <2>1, <2>2, FailedRowStatus
  <2>4. RunsInv' /\ JobsInv'
    BY <1>8, <2>1, <2>3, Recorded, FinishedRun DEF RecordFailure
  <2>5. UNCHANGED <<posts, digestStatus>>
    BY <1>8 DEF RecordFailure
  <2> QED
    BY <2>3, <2>4, <2>5
    DEF ClaimsAreTrue, Posted, SuccessMarksDigest, PendingHasTriesLeft
<1>9. ASSUME NEW w \in Workers, Crash(w)
      PROVE  RunsInv' /\ JobsInv'
  <2>1. \A v \in Workers : run'[v] = IF v = w THEN Ended ELSE run[v]
    BY <1>9, <1>b DEF Crash
  <2>2. \A d \in Deliveries : job'[d].state = job[d].state
    BY <1>9 DEF Crash, TypeOK, Jobs
  <2>3. RunsInv'
    BY <1>9, <2>1 DEF Crash, RunsInv, IdleRun, Ended
  <2> QED
    BY <1>9, <2>2, <2>3 DEF Crash, JobsInv
<1>10. ASSUME NEW d \in Deliveries, QueueStep(d)
       PROVE  RunsInv' /\ JobsInv'
  <2>1. \A e \in Deliveries : job'[e].state # "none" => job[e].state # "none"
    <3>1. CASE LoseLock(d)
      BY <1>b, <3>1 DEF LoseLock, TypeOK, Jobs
    <3>2. CASE StalledJob(d)
      BY <1>b, <3>2 DEF StalledJob
    <3> QED
      BY <1>10, <3>1, <3>2 DEF QueueStep
  <2>2. UNCHANGED <<delivery, run, posts>>
    BY <1>10 DEF QueueStep, LoseLock, StalledJob
  <2> QED
    BY <2>1, <2>2 DEF RunsInv, JobsInv, IdleRun
<1>11. ASSUME NEW d \in Deliveries, CreateDelivery(d)
       PROVE  /\ RunsInv' /\ JobsInv'
              /\ ClaimsAreTrue' /\ SuccessMarksDigest' /\ PendingHasTriesLeft'
  <2>1. \A e \in Deliveries : delivery'[e] =
          IF e = d THEN [status |-> "PENDING", attempts |-> 0] ELSE delivery[e]
    BY <1>11, <1>b DEF CreateDelivery, InsertDelivery
  <2>2. \A g \in Digests : (digestStatus'[g] = "SENT" <=> digestStatus[g] = "SENT")
    BY <1>11 DEF CreateDelivery
  <2>3. UNCHANGED <<run, job, posts>>
    BY <1>11 DEF CreateDelivery
  <2>4. RunsInv'
    BY <1>a, <2>1, <2>3 DEF RunsInv, IdleRun
  <2> QED
    BY <2>1, <2>2, <2>3, <2>4
    DEF JobsInv, ClaimsAreTrue, Posted, SuccessMarksDigest, PendingHasTriesLeft
<1>12. ASSUME NEW d \in Deliveries, EnqueueDelivery(d)
       PROVE  RunsInv' /\ JobsInv'
  BY <1>12, <1>b DEF EnqueueDelivery, AddJob, RunsInv, JobsInv, IdleRun
<1>13. CASE SetWebhookUrl \/ UNCHANGED vars
  BY <1>13, TablesFrame DEF SetWebhookUrl, vars, RunsInv, JobsInv, IdleRun
<1>14. ASSUME NEW w \in Workers, SettleJob(w)
       PROVE  RunsInv' /\ JobsInv'
  <2>1. \A v \in Workers : run'[v] = IF v = w THEN Ended ELSE run[v]
    BY <1>14, Settled
  <2>2. UNCHANGED <<delivery, posts>>
    BY <1>14 DEF SettleJob
  <2>3. \A d \in Deliveries : job'[d] = job[d] \/ d = run[w].delivery
    BY <1>14, Settled
  <2>4. RunsInv'
    BY <2>1, <2>2 DEF RunsInv, IdleRun, Ended
  <2>5. delivery[run[w].delivery].status # "none"
    BY <1>14, Settled DEF RunsInv
  <2> QED
    BY <2>2, <2>3, <2>4, <2>5 DEF JobsInv
<1>15. ASSUME NEW w \in Workers, UpdateUnheard(w)
       PROVE  /\ RunsInv' /\ JobsInv'
              /\ ClaimsAreTrue' /\ SuccessMarksDigest' /\ PendingHasTriesLeft'
  <2>1. /\ ~IdleRun(w) /\ run[w].delivery \in Deliveries /\ run[w].attempts + 1 \in Nat
        /\ Goto(w, "threw") /\ UNCHANGED <<digestStatus, job, posts>>
    BY <1>15, Unanswered
  <2>2. \A d \in Deliveries :
          \/ delivery'[d] = delivery[d]
          \/ delivery'[d].status = "FAILED"
          \/ /\ delivery'[d] = FailedRow(delivery[d], run[w].attempts + 1)
    BY <1>15, Unanswered, TriedStatus
  <2>3. \A d \in Deliveries :
          /\ delivery'[d].status \in {delivery[d].status, "FAILED"}
          /\ delivery'[d] # delivery[d] /\ delivery'[d].status = "PENDING" =>
               delivery'[d].attempts < MaxAttempts
    BY <2>1, <2>2, FailedRowStatus, BoundsAssumption
  <2>4. RunsInv' /\ JobsInv'
    BY <2>1, <2>3, FinishedRun
  <2> QED
    BY <2>1, <2>3, <2>4
    DEF ClaimsAreTrue, Posted, SuccessMarksDigest, PendingHasTriesLeft
<1> QED
  <2>1. ASSUME NEW w \in Workers,
               \/ TakeJob(w) \/ SkipSettled(w) \/ ReadPending(w) \/ PostRefused(w)
               \/ CommitRejected(w) \/ QueryRejected(w) \/ Crash(w) \/ SettleJob(w)
        PROVE  UNCHANGED <<delivery, digestStatus, posts>>
    BY <2>1 DEF TakeJob, SkipSettled, ReadPending, PostRefused, CommitRejected,
                QueryRejected, Crash, SettleJob
  <2>2. ASSUME NEW w \in Workers, PostAccepted(w)
        PROVE  SuccessMarksDigest' /\ PendingHasTriesLeft'
    BY <2>2 DEF PostAccepted, SuccessMarksDigest, PendingHasTriesLeft
  <2>3. ASSUME NEW d \in Deliveries, QueueStep(d) \/ EnqueueDelivery(d)
        PROVE  UNCHANGED <<delivery, digestStatus, posts>>
    BY <2>3 DEF QueueStep, LoseLock, StalledJob, EnqueueDelivery
  <2>4. CASE SetWebhookUrl \/ UNCHANGED vars
    BY <1>13, <2>4, TablesFrame DEF SetWebhookUrl, vars
  <2>5. ASSUME NEW w \in Workers, TakeJob(w) \/ DeliverStep(w) \/ FaultStep(w)
        PROVE  /\ RunsInv' /\ JobsInv'
               /\ ClaimsAreTrue' /\ SuccessMarksDigest' /\ PendingHasTriesLeft'
    BY <1>1, <1>2, <1>3, <1>4, <1>5, <1>6, <1>7, <1>8, <1>9, <1>14, <1>15, <2>1,
       <2>2, <2>5, TablesFrame DEF DeliverStep, FaultStep
  <2>6. ASSUME NEW d \in Deliveries,
               QueueStep(d) \/ CreateDelivery(d) \/ EnqueueDelivery(d)
        PROVE  /\ RunsInv' /\ JobsInv'
               /\ ClaimsAreTrue' /\ SuccessMarksDigest' /\ PendingHasTriesLeft'
    BY <1>10, <1>11, <1>12, <2>3, <2>6, TablesFrame
  <2> QED
    BY <2>4, <2>5, <2>6 DEF Next, Consume

LEMMA DeliveryCorrect == Spec => []DeliveryInv
BY DeliveryInit, DeliveryStep, PTL DEF Spec

(* A delivery is called SUCCESS, and a digest SENT, only after the channel     *)
(* accepted a POST of it (webhooks.service.ts:64-102), whatever fails.         *)
THEOREM ClaimsCorrect == Spec => []ClaimsAreTrue
BY DeliveryCorrect, PTL DEF DeliveryInv

(* A SUCCESS row's digest is SENT (webhooks.service.ts:78-102).                *)
THEOREM SuccessCorrect == Spec => []SuccessMarksDigest
BY DeliveryCorrect, PTL DEF DeliveryInv

(* A PENDING row has tries left (webhooks.service.ts:107-117).                 *)
THEOREM PendingCorrect == Spec => []PendingHasTriesLeft
BY DeliveryCorrect, PTL DEF DeliveryInv

-----------------------------------------------------------------------------
(* What a step may never do.                                                   *)

LEMMA AdvancingNext == TypeOK /\ [Next]_vars => [AdvancingStep]_vars
<1> SUFFICES ASSUME TypeOK, Next PROVE AdvancingStep
  OBVIOUS
<1>a. \A w \in Workers : ~IdleRun(w) =>
        run[w].delivery \in Deliveries /\ run[w].attempts \in Nat
  BY RunType
<1>b. DOMAIN delivery = Deliveries
  BY DEF TypeOK
<1>1. ASSUME NEW w \in Workers, MarkFailed(w) PROVE AdvancingStep
  <2>1. \A d \in Deliveries :
          delivery'[d] \in {delivery[d], Tried(delivery[d], "FAILED")}
    BY <1>1, <1>b DEF MarkFailed
  <2> QED
    BY <1>1, <2>1, TriedStatus DEF MarkFailed, AdvancingStep
<1>2. ASSUME NEW w \in Workers, CommitSuccess(w) \/ CommitUnheard(w)
      PROVE  AdvancingStep
  <2>1. \A d \in Deliveries :
          delivery'[d] \in {delivery[d], Tried(delivery[d], "SUCCESS")}
    BY <1>2, <1>b DEF CommitSuccess, CommitUnheard
  <2>2. \A g \in Digests : digestStatus[g] = "SENT" => digestStatus'[g] = "SENT"
    BY <1>2 DEF CommitSuccess, CommitUnheard, MarkSent
  <2> QED
    BY <2>1, <2>2, TriedStatus DEF AdvancingStep
<1>3. ASSUME NEW w \in Workers, RecordFailure(w) PROVE AdvancingStep
  <2>1. run[w].attempts + 1 \in Nat
    BY <1>3, <1>a DEF RecordFailure, IdleRun
  <2>2. \A d \in Deliveries :
          delivery'[d] \in {delivery[d], FailedRow(delivery[d], run[w].attempts + 1)}
    BY <1>3, <1>b DEF RecordFailure
  <2> QED
    BY <1>3, <2>1, <2>2, FailedRowStatus DEF RecordFailure, AdvancingStep
<1>4. ASSUME NEW d \in Deliveries, CreateDelivery(d) PROVE AdvancingStep
  BY <1>4 DEF CreateDelivery, InsertDelivery, AdvancingStep
<1>5. CASE UNCHANGED <<delivery, digestStatus>>
  BY <1>5 DEF AdvancingStep
<1>6. ASSUME NEW w \in Workers,
             \/ TakeJob(w) \/ SkipSettled(w) \/ ReadPending(w) \/ PostAccepted(w)
             \/ PostRefused(w) \/ SettleJob(w)
             \/ Crash(w) \/ CommitRejected(w) \/ QueryRejected(w)
      PROVE  UNCHANGED <<delivery, digestStatus>>
  BY <1>6 DEF TakeJob, SkipSettled, ReadPending, PostAccepted, PostRefused, SettleJob,
              CommitRejected, QueryRejected, Crash
<1>7. ASSUME NEW d \in Deliveries, QueueStep(d) \/ EnqueueDelivery(d)
      PROVE  UNCHANGED <<delivery, digestStatus>>
  BY <1>7 DEF QueueStep, LoseLock, StalledJob, EnqueueDelivery
<1>8. ASSUME NEW w \in Workers, UpdateUnheard(w) PROVE AdvancingStep
  <2>1. /\ UNCHANGED digestStatus /\ run[w].attempts + 1 \in Nat
        /\ \A d \in Deliveries : delivery'[d] \in
             {delivery[d], Tried(delivery[d], "FAILED"),
              FailedRow(delivery[d], run[w].attempts + 1)}
    BY <1>8, Unanswered
  <2> QED
    BY <2>1, TriedStatus, FailedRowStatus DEF AdvancingStep
<1> QED
  BY <1>1, <1>2, <1>3, <1>4, <1>5, <1>6, <1>7, <1>8
  DEF Next, Consume, DeliverStep, FaultStep, SetWebhookUrl

(* No step returns a row to PENDING or a digest from SENT                      *)
(* (webhooks.service.ts:81-118).                                               *)
THEOREM StatusCorrect == Spec => StatusAdvances
BY TypeCorrect, AdvancingNext, PTL DEF Spec, StatusAdvances

LEMMA LocksInit == Init => LocksInv
BY DEF Init, LocksInv, LockedRun, NoJob, Ended, IdleRun

(* A run that will neither post nor commit any more keeps its lock.            *)
LEMMA FinishedLock ==
  ASSUME TypeOK, LocksInv, NEW w \in Workers, ~IdleRun(w),
         NEW pc \in {"returned", "threw", "unheard"}, Goto(w, pc), UNCHANGED job,
         \A d \in Deliveries : d # run[w].delivery =>
           delivery'[d].status = delivery[d].status
  PROVE  LocksInv'
<1>1. /\ run'[w].pc = pc
      /\ run'[w].delivery = run[w].delivery
      /\ \A v \in Workers : v # w => run'[v] = run[v]
  BY Moved DEF RunPc
<1>2. \A v \in Workers : v # w /\ ~IdleRun(v) /\ ~job[run[v].delivery].lost =>
        run[v].delivery \in Deliveries /\ run[v].delivery # run[w].delivery
  BY RunType DEF LocksInv, LockedRun
<1>3. LockedRun(w)'
  BY <1>1 DEF LocksInv, LockedRun, IdleRun
<1>4. \A v \in Workers : v # w => LockedRun(v)'
  BY <1>1, <1>2 DEF LocksInv, LockedRun, IdleRun
<1> QED
  BY <1>3, <1>4 DEF LocksInv

(* A job that is settled goes back without its lock, or is another run's by    *)
(* now.                                                                        *)
LEMMA SettledLock ==
  ASSUME TypeOK, LocksInv, NEW w \in Workers, SettleJob(w)
  PROVE  LocksInv'
<1> DEFINE e == run[w].delivery
<1>1. e \in Deliveries /\ ~IdleRun(w)
  BY Settled
<1>2. \A v \in Workers : run'[v] = IF v = w THEN Ended ELSE run[v]
  BY Settled
<1>3. \A d \in Deliveries :
        /\ job'[d].lost = job[d].lost
        /\ \/ job'[d] = job[d]
           \/ d = e /\ job[d].owner = w /\ job'[d].owner = NoWorker
  <2> TAKE d \in Deliveries
  <2>1. job[d] \in Jobs
    BY DEF TypeOK
  <2>2. CASE job'[d] = job[d]
    BY <2>2
  <2>3. CASE d = e /\ job[d].owner = w /\ job'[d] \in {Completed(job[d]), Retried(job[d])}
    BY <2>1, <2>3, SettledOwner
  <2> QED
    BY <2>2, <2>3, Settled
<1>4. \A v \in Workers : v # w => LockedRun(v)'
  <2> SUFFICES ASSUME NEW v \in Workers, v # w, ~IdleRun(v), ~job[run[v].delivery].lost
               PROVE  LockedRun(v)'
    BY <1>2, <1>3, RunType DEF LockedRun, IdleRun
  <2>1. run[v].delivery \in Deliveries /\ job[run[v].delivery].owner = v
    BY RunType DEF LocksInv, LockedRun
  <2>2. job'[run[v].delivery] = job[run[v].delivery]
    BY <1>3, <2>1
  <2>3. UNCHANGED delivery /\ run'[v] = run[v]
    BY <1>2 DEF SettleJob
  <2> QED
    BY <2>1, <2>2, <2>3 DEF LocksInv, LockedRun, IdleRun
<1>5. LockedRun(w)'
  BY <1>2 DEF LockedRun, IdleRun, Ended
<1> QED
  BY <1>3, <1>4, <1>5 DEF LocksInv

LEMMA LocksStep ==
  DeliveryInv /\ LocksInv /\ [Next]_vars => LocksInv' /\ [SettledStep]_vars
<1> SUFFICES ASSUME DeliveryInv, LocksInv, [Next]_vars
             PROVE  LocksInv' /\ [SettledStep]_vars
  OBVIOUS
<1> USE DEF DeliveryInv
<1>a. \A w \in Workers : ~IdleRun(w) => run[w].delivery \in Deliveries
  BY RunType
<1>b. DOMAIN run = Workers /\ DOMAIN job = Deliveries /\ DOMAIN delivery = Deliveries
  BY DEF TypeOK
<1>c. \A d \in Deliveries : job[d].state = "waiting" => job[d].owner = NoWorker
  BY DEF LocksInv, TypeOK, Jobs
<1>1. ASSUME NEW w \in Workers, TakeJob(w) PROVE LocksInv' /\ SettledStep
  <2> PICK d \in Deliveries :
        /\ job[d].state = "waiting"
        /\ job' = [job EXCEPT ![d] = [@ EXCEPT !.state = "active", !.owner = w]]
        /\ run' = [run EXCEPT ![w] =
                     [pc |-> "read", delivery |-> d, attempts |-> 0]]
        /\ UNCHANGED <<delivery, posts>>
    BY <1>1 DEF TakeJob
  <2>1. job'[d].state = "active" /\ job'[d].owner = w /\ job'[d].lost = job[d].lost
    BY <1>b DEF TypeOK, Jobs
  <2>2. \A e \in Deliveries : e # d => job'[e] = job[e]
    BY <1>b
  <2>3. \A v \in Workers : v # w /\ ~IdleRun(v) /\ ~job[d].lost => run[v].delivery # d
    BY <1>c DEF LocksInv, LockedRun
  <2>4. \A v \in Workers : v # w => LockedRun(v)'
    BY <1>a, <1>b, <2>1, <2>2, <2>3 DEF LocksInv, LockedRun, IdleRun
  <2>5. LockedRun(w)'
    BY <1>b, <2>1 DEF LockedRun, IdleRun
  <2>6. LocksInv'
    BY <2>1, <2>2, <2>4, <2>5 DEF LocksInv
  <2> QED
    BY <2>6 DEF SettledStep
<1>2. ASSUME NEW w \in Workers, SkipSettled(w) \/ QueryRejected(w)
      PROVE  LocksInv' /\ SettledStep
  <2>1. ~IdleRun(w) /\ UNCHANGED <<delivery, posts>>
    BY <1>2 DEF SkipSettled, QueryRejected, At, IdleRun
  <2> QED
    BY <1>2, <2>1, FinishedLock DEF SkipSettled, QueryRejected, SettledStep
<1>3. ASSUME NEW w \in Workers, ReadPending(w)
      PROVE  LocksInv' /\ SettledStep
  <2>1. /\ run'[w].delivery = run[w].delivery
        /\ delivery[run[w].delivery].status = "PENDING"
        /\ \A v \in Workers : v # w => run'[v] = run[v]
    BY <1>3, <1>a, <1>b, RunType DEF ReadPending, At, IdleRun
  <2>2. UNCHANGED <<delivery, posts, job>> /\ ~IdleRun(w)
    BY <1>3 DEF ReadPending, At, IdleRun
  <2> QED
    BY <2>1, <2>2 DEF LocksInv, LockedRun, IdleRun, SettledStep
<1>4. ASSUME NEW w \in Workers, PostAccepted(w)
      PROVE  LocksInv' /\ SettledStep
  <2>1. run[w].delivery \in Deliveries /\ ~IdleRun(w) /\ run[w].pc = "post"
    BY <1>4, <1>a DEF PostAccepted, At, IdleRun
  <2>2. job[run[w].delivery].lost \/ delivery[run[w].delivery].status = "PENDING"
    BY <2>1 DEF LocksInv, LockedRun, RunPc
  <2>3. /\ run'[w].delivery = run[w].delivery
        /\ run'[w].pc # "idle"
        /\ \A v \in Workers : v # w => run'[v] = run[v]
    BY <1>4, <1>b, <2>1, RunType DEF PostAccepted, Goto
  <2>4. UNCHANGED <<delivery, job>>
    BY <1>4 DEF PostAccepted
  <2>5. \A d \in Deliveries : d # run[w].delivery => posts'[d] = posts[d]
    BY <1>4 DEF PostAccepted, TypeOK
  <2>6. LocksInv'
    BY <2>1, <2>2, <2>3, <2>4 DEF LocksInv, LockedRun, IdleRun
  <2> QED
    BY <2>2, <2>4, <2>5, <2>6 DEF SettledStep
<1>5. ASSUME NEW w \in Workers, PostRefused(w) \/ CommitRejected(w)
      PROVE  LocksInv' /\ SettledStep
  <2>1. ~IdleRun(w) /\ run[w].pc \in {"post", "commit"}
    BY <1>5 DEF PostRefused, CommitRejected, At, IdleRun
  <2>2. /\ run'[w].delivery = run[w].delivery
        /\ \A v \in Workers : v # w => run'[v] = run[v]
    BY <1>5, <1>b, <2>1, RunType DEF PostRefused, CommitRejected, Goto
  <2>3. UNCHANGED <<delivery, job, posts>>
    BY <1>5 DEF PostRefused, CommitRejected
  <2> QED
    BY <2>1, <2>2, <2>3 DEF LocksInv, LockedRun, IdleRun, SettledStep, RunPc
<1>6. ASSUME NEW w \in Workers,
             \/ MarkFailed(w) \/ CommitSuccess(w) \/ CommitUnheard(w)
             \/ RecordFailure(w) \/ UpdateUnheard(w)
      PROVE  LocksInv' /\ SettledStep
  <2>1. ~IdleRun(w) /\ run[w].pc \in {"markFailed", "commit", "record", "unheard"}
    BY <1>6 DEF MarkFailed, CommitSuccess, CommitUnheard, RecordFailure, UpdateUnheard,
                At, IdleRun
  <2>2. \/ job[run[w].delivery].lost \/ delivery[run[w].delivery].status = "PENDING"
        \/ Unheard(run[w].delivery)
    BY <2>1 DEF LocksInv, LockedRun, RunPc, Unheard, At
  <2>3. /\ \A d \in Deliveries : d # run[w].delivery => delivery'[d] = delivery[d]
        /\ UNCHANGED <<job, posts>>
        /\ \E pc \in {"returned", "threw", "unheard"} : Goto(w, pc)
    <3>1. CASE UpdateUnheard(w)
      BY <3>1, Unanswered
    <3>2. CASE RecordFailure(w)
      BY <1>b, <3>2, Recorded DEF RecordFailure
    <3> QED
      BY <1>6, <1>b, <3>1, <3>2 DEF MarkFailed, CommitSuccess, CommitUnheard
  <2>4. LocksInv'
    BY <2>1, <2>3, FinishedLock
  <2> QED
    BY <2>2, <2>3, <2>4 DEF SettledStep
<1>7. ASSUME NEW w \in Workers, Crash(w) PROVE LocksInv' /\ SettledStep
  <2>1. \A v \in Workers : run'[v] = IF v = w THEN Ended ELSE run[v]
    BY <1>7, <1>b DEF Crash
  <2>2. \A d \in Deliveries :
          /\ job'[d].state = job[d].state /\ job'[d].lost = job[d].lost
          /\ job'[d].owner = IF job[d].owner = w THEN NoWorker ELSE job[d].owner
    BY <1>7 DEF Crash, TypeOK, Jobs
  <2>3. UNCHANGED <<delivery, posts>>
    BY <1>7 DEF Crash
  <2>4. LocksInv'
    BY <1>a, <2>1, <2>2, <2>3 DEF LocksInv, LockedRun, IdleRun, Ended
  <2> QED
    BY <2>3, <2>4 DEF SettledStep
<1>8. ASSUME NEW d \in Deliveries, QueueStep(d) PROVE LocksInv' /\ SettledStep
  <2>1. /\ job'[d].owner = NoWorker
        /\ job[d].lost => job'[d].lost
        /\ job[d].owner # NoWorker => job'[d].lost
    <3>1. job[d] \in Jobs
      BY DEF TypeOK
    <3>2. CASE LoseLock(d)
      BY <1>b, <3>1, <3>2, LockFields DEF LoseLock
    <3>3. CASE StalledJob(d)
      BY <1>b, <3>1, <3>3, LockFields DEF StalledJob
    <3> QED
      BY <1>8, <3>2, <3>3 DEF QueueStep
  <2>2. /\ \A e \in Deliveries : e # d => job'[e] = job[e]
        /\ UNCHANGED <<delivery, run, posts>>
    BY <1>8 DEF QueueStep, LoseLock, StalledJob, TypeOK
  <2>3. \A w \in Workers : LockedRun(w)'
    BY <1>a, <2>1, <2>2 DEF LocksInv, LockedRun, IdleRun
  <2>4. LocksInv'
    BY <2>1, <2>2, <2>3 DEF LocksInv
  <2> QED
    BY <2>2, <2>4 DEF SettledStep
<1>9. ASSUME NEW d \in Deliveries, CreateDelivery(d) PROVE LocksInv' /\ SettledStep
  <2>1. \A e \in Deliveries : delivery[e].status # "none" => delivery'[e] = delivery[e]
    BY <1>9, <1>b DEF CreateDelivery, InsertDelivery
  <2>2. UNCHANGED <<job, run, posts>>
    BY <1>9 DEF CreateDelivery
  <2> QED
    BY <1>a, <2>1, <2>2 DEF LocksInv, LockedRun, IdleRun, SettledStep, RunPc
<1>10. ASSUME NEW d \in Deliveries, EnqueueDelivery(d) PROVE LocksInv' /\ SettledStep
  <2>1. /\ job'[d].owner = job[d].owner /\ job[d].owner = NoWorker
        /\ job'[d].lost = job[d].lost
    BY <1>10, <1>b DEF EnqueueDelivery, AddJob, LocksInv, TypeOK, Jobs
  <2>2. /\ \A e \in Deliveries : e # d => job'[e] = job[e]
        /\ UNCHANGED <<delivery, run, posts>>
    BY <1>10 DEF EnqueueDelivery, AddJob, TypeOK
  <2> QED
    BY <1>a, <2>1, <2>2 DEF LocksInv, LockedRun, IdleRun, SettledStep
<1>11. CASE SetWebhookUrl
  BY <1>11 DEF SetWebhookUrl, LocksInv, LockedRun, IdleRun, SettledStep
<1>12. CASE UNCHANGED vars
  BY <1>12 DEF vars, LocksInv, LockedRun, IdleRun
<1>13. ASSUME NEW w \in Workers, SettleJob(w) PROVE LocksInv' /\ SettledStep
  BY <1>13, SettledLock DEF SettleJob, SettledStep
<1> QED
  BY <1>1, <1>2, <1>3, <1>4, <1>5, <1>6, <1>7, <1>8, <1>9, <1>10, <1>11, <1>12, <1>13
  DEF Next, Consume, DeliverStep, FaultStep

(* Unless its job's lock expired under a live run, a settled row is never      *)
(* posted again, and written again only by a run whose own commit was made and *)
(* not answered, before that run ends (webhooks.service.ts:37-39, :102-118).   *)
THEOREM SettledCorrect == Spec => SettledIsFinal
<1>1. DeliveryInv /\ LocksInv /\ [Next]_vars => LocksInv' /\ [SettledStep]_vars
  BY LocksStep
<1> QED
  BY <1>1, DeliveryCorrect, LocksInit, PTL DEF Spec, SettledIsFinal

-----------------------------------------------------------------------------
(* How often the channel sees a delivery.                                      *)

LEMMA SpentType ==
  ASSUME TypeOK, NEW d \in Deliveries
  PROVE  /\ IsFiniteSet(BeforePost(d)) /\ Cardinality(BeforePost(d)) \in Nat
         /\ posts[d] \in Nat /\ Spent(d) \in Nat
<1>1. BeforePost(d) \subseteq Workers
  BY DEF BeforePost
<1>2. IsFiniteSet(BeforePost(d)) /\ Cardinality(BeforePost(d)) \in Nat
  BY <1>1, FS_Subset, FS_CardinalityType
<1> QED
  BY <1>2 DEF Spent, TypeOK

(* The same set of runs, in the next state.                                    *)
LEMMA SpentTypeNext ==
  ASSUME TypeOK', NEW d \in Deliveries
  PROVE  /\ IsFiniteSet(BeforePost(d)') /\ Cardinality(BeforePost(d)') \in Nat
         /\ posts'[d] \in Nat /\ Spent(d)' \in Nat
<1>1. BeforePost(d)' \subseteq Workers
  BY DEF BeforePost
<1>2. IsFiniteSet(BeforePost(d)') /\ Cardinality(BeforePost(d)') \in Nat
  BY <1>1, FS_Subset, FS_CardinalityType
<1> QED
  BY <1>2 DEF Spent, TypeOK

(* A step that posts nothing and starts no run spends nothing.                 *)
LEMMA SpentFrame ==
  ASSUME TypeOK, TypeOK', UNCHANGED posts, NEW d \in Deliveries,
         BeforePost(d)' \subseteq BeforePost(d)
  PROVE  Spent(d)' <= Spent(d)
<1>1. Cardinality(BeforePost(d)') <= Cardinality(BeforePost(d))
  BY SpentType, FS_Subset
<1> QED
  BY <1>1, SpentType, SpentTypeNext DEF Spent

LEMMA PostsInit == Init => PostsInv
<1> SUFFICES ASSUME Init, NEW d \in Deliveries
             PROVE  Spent(d) = 0 /\ job[d] = NoJob
  <2>1. NoJob.state = "none" /\ NoJob.owner = NoWorker
    BY DEF NoJob
  <2> QED
    BY <2>1 DEF PostsInv, PostsInvOf
<1>1. BeforePost(d) = {}
  BY DEF Init, BeforePost, Ended
<1> QED
  BY <1>1, FS_EmptySet DEF Init, Spent

LEMMA JobFields ==
  ASSUME NEW j \in Jobs
  PROVE  /\ Completed(j).state = "completed"
         /\ Retried(j).made = j.made + 1 /\ Retried(j).stalled = j.stalled
         /\ Retried(j).state = AfterThrow(j)
         /\ Stalled(j).made = j.made /\ Stalled(j).stalled = j.stalled + 1
         /\ Stalled(j).state = AfterStall(j) /\ Stalled(j).owner = j.owner
         /\ j.made \in Nat /\ j.stalled \in Nat
BY DEF Completed, Retried, Stalled, Jobs

(* A job whose lock is gone.                                                   *)
Unowned(new, old) ==
  /\ new.owner = NoWorker /\ new.state = old.state
  /\ new.made = old.made /\ new.stalled = old.stalled

(* What may become of a job while its runs spend no more than before.          *)
LEMMA JobFrame ==
  ASSUME TypeOK, TypeOK', NEW d \in Deliveries, PostsInvOf(d), Spent(d)' <= Spent(d),
         \/ job'[d] = job[d]
         \/ /\ job[d].state = "active"
            /\ \/ Unowned(job'[d], job[d])
               \/ job'[d] \in {Completed(job[d]), Retried(job[d])}
               \/ job[d].owner = NoWorker /\ job'[d] = Stalled(job[d])
  PROVE  PostsInvOf(d)'
<1> DEFINE j == job[d]
<1>1. j \in Jobs /\ Spent(d) \in Nat /\ Spent(d)' \in Nat
  BY SpentType, SpentTypeNext DEF TypeOK
<1>2. j.made \in Nat /\ j.stalled \in Nat
  BY <1>1, JobFields
<1>3. CASE job'[d] = j
  BY <1>1, <1>2, <1>3 DEF PostsInvOf
<1>4. CASE j.state = "active" /\ Unowned(job'[d], j)
  BY <1>1, <1>2, <1>4 DEF PostsInvOf, Unowned
<1>5. CASE j.state = "active" /\ job'[d] = Completed(j)
  <2>1. job'[d].owner = NoWorker /\ job'[d].state = "completed"
    BY <1>1, <1>5, JobFields, SettledOwner
  <2> QED
    BY <1>1, <1>5, <2>1 DEF PostsInvOf
<1>6. CASE j.state = "active" /\ job'[d] = Retried(j)
  <2>1. /\ job'[d].owner = NoWorker /\ job'[d].state = AfterThrow(j)
        /\ job'[d].made = j.made + 1 /\ job'[d].stalled = j.stalled
    BY <1>1, <1>6, JobFields, SettledOwner
  <2> QED
    BY <1>1, <1>2, <1>6, <2>1 DEF PostsInvOf, AfterThrow
<1>7. CASE j.state = "active" /\ j.owner = NoWorker /\ job'[d] = Stalled(j)
  <2>1. /\ job'[d].owner = NoWorker /\ job'[d].state = AfterStall(j)
        /\ job'[d].made = j.made /\ job'[d].stalled = j.stalled + 1
    BY <1>1, <1>7, JobFields
  <2> QED
    BY <1>1, <1>2, <1>7, <2>1 DEF PostsInvOf, AfterStall
<1> QED
  BY <1>3, <1>4, <1>5, <1>6, <1>7

LEMMA PostsStep == TypeOK /\ PostsInv /\ [Next]_vars => PostsInv'
<1> SUFFICES ASSUME TypeOK, PostsInv, [Next]_vars, NEW d \in Deliveries
             PROVE  PostsInvOf(d)'
  BY DEF PostsInv
<1>a. TypeOK' /\ PostsInvOf(d) /\ job[d] \in Jobs
  BY TypeStep DEF PostsInv, TypeOK
<1>b. DOMAIN run = Workers /\ DOMAIN job = Deliveries
  BY DEF TypeOK
<1>c. \A w \in Workers : ~IdleRun(w) => run[w].delivery \in Deliveries
  BY RunType
<1>1. ASSUME NEW w \in Workers, TakeJob(w) PROVE PostsInvOf(d)'
  <2> PICK e \in Deliveries :
        /\ run[w].pc = "idle"
        /\ job[e].state = "waiting"
        /\ job' = [job EXCEPT ![e] = [@ EXCEPT !.state = "active", !.owner = w]]
        /\ run' = [run EXCEPT ![w] =
                     [pc |-> "read", delivery |-> e, attempts |-> 0]]
        /\ UNCHANGED posts
    BY <1>1 DEF TakeJob, IdleRun
  <2>1. CASE d # e
    <3>1. BeforePost(d)' \subseteq BeforePost(d)
      BY <1>b, <2>1 DEF BeforePost
    <3>2. job'[d] = job[d]
      BY <1>b, <2>1
    <3> QED
      BY <1>a, <3>1, <3>2, SpentFrame, JobFrame
  <2>2. CASE d = e
    <3>1. BeforePost(d)' = BeforePost(d) \union {w} /\ w \notin BeforePost(d)
      BY <1>b, <2>2 DEF BeforePost
    <3>2. Spent(d)' = Spent(d) + 1 /\ Spent(d) \in Nat
      <4>1. Cardinality(BeforePost(d)') = Cardinality(BeforePost(d)) + 1
        BY <3>1, SpentType, FS_AddElement
      <4> QED
        BY <4>1, SpentType DEF Spent
    <3>3. /\ job'[d].state = "active" /\ job[d].state = "waiting"
          /\ job'[d].made = job[d].made /\ job'[d].stalled = job[d].stalled
      BY <1>a, <1>b, <2>2 DEF Jobs
    <3> QED
      BY <1>a, <3>2, <3>3, JobFields DEF PostsInvOf
  <2> QED
    BY <2>1, <2>2
<1>2. ASSUME NEW w \in Workers, PostAccepted(w) PROVE PostsInvOf(d)'
  <2>1. run[w].delivery \in Deliveries /\ run[w].pc = "post"
    BY <1>2, <1>c DEF PostAccepted, At, IdleRun
  <2>2. \A v \in Workers : /\ run'[v].delivery = run[v].delivery
                           /\ v # w => run'[v] = run[v]
    BY <1>2, <1>b, <2>1, RunType DEF PostAccepted, Goto, IdleRun
  <2>3. run'[w].pc \in {"commit", "record"}
    BY <1>2, <1>b, <2>1, RunType DEF PostAccepted, Goto, IdleRun
  <2>4. job'[d] = job[d]
    BY <1>2 DEF PostAccepted
  <2>5. CASE d # run[w].delivery
    <3>1. BeforePost(d)' \subseteq BeforePost(d)
      BY <2>2, <2>5 DEF BeforePost
    <3>2. posts'[d] = posts[d]
      BY <1>2, <2>5 DEF PostAccepted, TypeOK
    <3>3. Cardinality(BeforePost(d)') <= Cardinality(BeforePost(d))
      BY <3>1, SpentType, FS_Subset
    <3>4. Spent(d)' <= Spent(d)
      BY <1>a, <3>2, <3>3, SpentType, SpentTypeNext DEF Spent
    <3> QED
      BY <1>a, <2>4, <3>4, JobFrame
  <2>6. CASE d = run[w].delivery
    <3>1. BeforePost(d)' = BeforePost(d) \ {w} /\ w \in BeforePost(d)
      BY <2>1, <2>2, <2>3, <2>6 DEF BeforePost
    <3>2. posts'[d] = posts[d] + 1
      BY <1>2, <2>1, <2>6 DEF PostAccepted, TypeOK
    <3>3. Cardinality(BeforePost(d)') = Cardinality(BeforePost(d)) - 1
      <4>1. IsFiniteSet(BeforePost(d)) /\ Cardinality(BeforePost(d)) \in Nat
        BY SpentType
      <4>2. ASSUME NEW S, IsFiniteSet(S), NEW x \in S
            PROVE  Cardinality(S \ {x}) = Cardinality(S) - 1
        BY <4>2, FS_RemoveElement
      <4> QED
        BY <3>1, <4>1, <4>2
    <3>4. Spent(d)' <= Spent(d)
      BY <1>a, <3>2, <3>3, SpentType, SpentTypeNext DEF Spent
    <3> QED
      BY <1>a, <2>4, <3>4, JobFrame
  <2> QED
    BY <2>5, <2>6
(* Every other step posts nothing and starts no run.                           *)
<1>3. ASSUME NEW w \in Workers, DeliverStep(w) \/ FaultStep(w), ~PostAccepted(w)
      PROVE  PostsInvOf(d)'
  <2>1. ~IdleRun(w) /\ UNCHANGED posts
    BY <1>3 DEF DeliverStep, FaultStep, SkipSettled, ReadPending, MarkFailed, PostRefused,
       CommitSuccess, RecordFailure, SettleJob, Crash, CommitRejected, CommitUnheard,
       QueryRejected, UpdateUnheard, At, IdleRun
  <2>2. \/ ReadPending(w) \/ Crash(w) \/ SettleJob(w)
        \/ \E pc \in {"record", "unheard", "returned", "threw"} :
             Goto(w, pc) /\ UNCHANGED job
    BY <1>3, Recorded DEF DeliverStep, FaultStep, SkipSettled, MarkFailed, PostRefused,
       CommitSuccess, RecordFailure, CommitRejected, CommitUnheard, QueryRejected,
       UpdateUnheard
  <2>3. /\ \A v \in Workers : v # w => run'[v] = run[v]
        /\ run'[w].pc \in {"read", "post"} =>
             run[w].pc = "read" /\ run'[w].delivery = run[w].delivery
    <3>1. CASE ReadPending(w)
      BY <1>b, <2>1, <3>1, RunType DEF ReadPending, At
    <3>2. CASE \E pc \in {"record", "unheard", "returned", "threw"} : Goto(w, pc)
      BY <2>1, <3>2, Moved DEF RunPc
    <3>3. CASE Crash(w) \/ SettleJob(w)
      BY <1>b, <3>3 DEF Crash, SettleJob, Ended
    <3> QED
      BY <2>2, <3>1, <3>2, <3>3
  <2>4. BeforePost(d)' \subseteq BeforePost(d)
    BY <2>3 DEF BeforePost
  <2>5. \/ job'[d] = job[d]
        \/ /\ job[d].owner = w
           /\ \/ Unowned(job'[d], job[d])
              \/ job'[d] \in {Completed(job[d]), Retried(job[d])}
    BY <1>a, <2>2, Settled DEF ReadPending, Crash, Unowned, Jobs
  <2>6. job[d].owner = w => job[d].state = "active"
    BY <1>a DEF PostsInvOf
  <2> QED
    BY <1>a, <2>1, <2>4, <2>5, <2>6, SpentFrame, JobFrame
<1>4. ASSUME NEW e \in Deliveries, QueueStep(e) PROVE PostsInvOf(d)'
  <2>1. UNCHANGED <<run, posts>>
    BY <1>4 DEF QueueStep, LoseLock, StalledJob
  <2>2. BeforePost(d)' = BeforePost(d)
    BY <2>1 DEF BeforePost
  <2>3. \/ job'[d] = job[d]
        \/ job[d].owner # NoWorker /\ Unowned(job'[d], job[d])
        \/ /\ job[d].state = "active" /\ job[d].owner = NoWorker
           /\ job'[d] = Stalled(job[d])
    <3>1. CASE LoseLock(e)
      BY <1>a, <1>b, <3>1, LockFields DEF LoseLock, Unowned
    <3>2. CASE StalledJob(e)
      BY <1>b, <3>2 DEF StalledJob
    <3> QED
      BY <1>4, <3>1, <3>2 DEF QueueStep
  <2> QED
    BY <1>a, <2>1, <2>2, <2>3, SpentFrame, JobFrame DEF PostsInvOf
<1>5. ASSUME NEW e \in Deliveries, EnqueueDelivery(e) PROVE PostsInvOf(d)'
  <2>1. UNCHANGED <<run, posts>>
    BY <1>5 DEF EnqueueDelivery
  <2>2. BeforePost(d)' = BeforePost(d)
    BY <2>1 DEF BeforePost
  <2>3. CASE d # e
    <3>1. job'[d] = job[d]
      BY <1>5, <2>3 DEF EnqueueDelivery, AddJob, TypeOK
    <3> QED
      BY <1>a, <2>1, <2>2, <3>1, SpentFrame, JobFrame
  <2>4. CASE d = e
    <3>1. job[d] = NoJob /\ Spent(d) = 0
      BY <1>5, <1>a, <2>4 DEF EnqueueDelivery, AddJob, PostsInvOf
    <3>2. job'[d] = [NoJob EXCEPT !.state = "waiting"]
      BY <1>5, <1>b, <2>4, <3>1 DEF EnqueueDelivery, AddJob
    <3>3. Spent(d)' = 0
      BY <2>1, <2>2, <3>1 DEF Spent
    <3> QED
      BY <3>2, <3>3 DEF PostsInvOf, NoJob
  <2> QED
    BY <2>3, <2>4
<1>6. ASSUME UNCHANGED <<job, run, posts>> PROVE PostsInvOf(d)'
  <2>1. BeforePost(d)' = BeforePost(d)
    BY <1>6 DEF BeforePost
  <2> QED
    BY <1>6, <1>a, <2>1, SpentFrame, JobFrame
<1>7. ASSUME NEW e \in Deliveries, CreateDelivery(e) PROVE UNCHANGED <<job, run, posts>>
  BY <1>7 DEF CreateDelivery
<1>8. CASE SetWebhookUrl \/ UNCHANGED vars
  BY <1>6, <1>8 DEF SetWebhookUrl, vars
<1> QED
  BY <1>1, <1>2, <1>3, <1>4, <1>5, <1>6, <1>7, <1>8 DEF Next, Consume

LEMMA PostsInvariant == Spec => [](TypeOK /\ PostsInv)
BY TypeCorrect, PostsInit, PostsStep, PTL DEF Spec

LEMMA PostsAreBounded == TypeOK /\ PostsInv => PostsBounded
<1> SUFFICES ASSUME TypeOK, PostsInv, NEW d \in Deliveries
             PROVE  posts[d] <= JobAttempts + MaxStalled
  BY DEF PostsBounded
<1> QED
  BY SpentType DEF PostsInv, PostsInvOf, Spent

(* The channel sees one delivery at most JobAttempts + MaxStalled times        *)
(* (webhooks.module.ts:11), whatever fails.                                    *)
THEOREM PostsCorrect == Spec => []PostsBounded
BY PostsAreBounded, PostsInvariant, PTL

-----------------------------------------------------------------------------
(* A job runs out.                                                             *)

LEMMA AwaitsKinds ==
  /\ \A pc : AwaitsLeft(pc) \in 1..6
  /\ \A pc \in RunPc \ {"idle"} : AwaitsLeft(pc) >= 2
BY DEF AwaitsLeft, RunPc

(* What is left of a job that is under way.                                    *)
TriesLeft(j) == JobAttempts - j.made + MaxStalled - j.stalled
UnderWay(j) == /\ j \in Jobs /\ j.state \in {"waiting", "active"}
               /\ j.made < JobAttempts /\ j.stalled <= MaxStalled
LEMMA LeftKinds ==
  ASSUME NEW j, UnderWay(j)
  PROVE  /\ TriesLeft(j) \in Nat \ {0}
         /\ j.state = "waiting" => \A pc : LeftOf(j, pc) = 8 * TriesLeft(j) + 7
         /\ j.state = "active" => \A pc : LeftOf(j, pc) = 8 * TriesLeft(j) + AwaitsLeft(pc)
BY DEF UnderWay, TriesLeft, LeftOf, Jobs

(* A try or a stall is spent, or the job is over.                              *)
LEMMA Costs ==
  ASSUME NEW j, NEW k, NEW pc, NEW new, UnderWay(j), j.state = "active", k \in Jobs,
         \/ k.state \in {"completed", "failed"}
         \/ k.state = "waiting" /\ UnderWay(k) /\ TriesLeft(k) = TriesLeft(j) - 1
  PROVE  LeftOf(k, new) \in 0..(LeftOf(j, pc) - 1)
<1>1. TriesLeft(j) \in Nat \ {0} /\ AwaitsLeft(pc) \in 1..6
  BY LeftKinds, AwaitsKinds
<1>2. LeftOf(j, pc) = 8 * TriesLeft(j) + AwaitsLeft(pc)
  BY LeftKinds
<1>3. CASE k.state \in {"completed", "failed"}
  BY <1>1, <1>2, <1>3 DEF LeftOf
<1>4. CASE k.state = "waiting" /\ UnderWay(k) /\ TriesLeft(k) = TriesLeft(j) - 1
  <2>1. LeftOf(k, new) = 8 * (TriesLeft(j) - 1) + 7 /\ TriesLeft(j) - 1 \in Nat
    BY <1>4, LeftKinds
  <2> QED
    BY <1>1, <1>2, <2>1
<1> QED
  BY <1>3, <1>4

(* What a step leaves of one job, and that its lock is still its run's.        *)
HeldAt(d) == job[d].owner # NoWorker =>
  /\ job[d].state = "active"
  /\ ~IdleRun(job[d].owner) /\ run[job[d].owner].delivery = d
RunsOutAt(d) == job[d].state # "none" =>
  /\ Left(d)' \in 0..Left(d)
  /\ job'[d] # job[d] \/ Held(d)' # Held(d) => Left(d)' < Left(d)

(* What a step does to one job and its run: nothing, an await, the enqueue, a  *)
(* take, a settlement, the loss of the lock, another hand-out.                 *)
Untouched(d) == job'[d] = job[d] /\ Held(d)' = Held(d) /\ HeldAt(d)'
Awaited(d) == LET w == job[d].owner IN
  /\ w # NoWorker /\ job'[d] = job[d]
  /\ run'[w].delivery = d /\ ~IdleRun(w)'
  /\ AwaitsLeft(run'[w].pc) < AwaitsLeft(run[w].pc)
Enqueued(d) == job[d].state = "none" /\ job'[d].owner = NoWorker
Taken(d) ==
  /\ job[d].state = "waiting" /\ job'[d].state = "active"
  /\ job'[d].made = job[d].made /\ job'[d].stalled = job[d].stalled
  /\ job'[d].owner # NoWorker
  /\ run'[job'[d].owner].pc = "read" /\ run'[job'[d].owner].delivery = d
Ends(d) == job[d].owner # NoWorker /\ job'[d] \in {Completed(job[d]), Retried(job[d])}
Unlocked(d) == job[d].owner # NoWorker /\ Unowned(job'[d], job[d])
Repeated(d) ==
  job[d].state = "active" /\ job[d].owner = NoWorker /\ job'[d] = Stalled(job[d])
Touched(d) ==
  \/ Untouched(d) \/ Awaited(d) \/ Enqueued(d) \/ Taken(d)
  \/ Ends(d) \/ Unlocked(d) \/ Repeated(d)

LEMMA TouchRunsOut ==
  ASSUME TypeOK, TypeOK', NEW d \in Deliveries, PostsInvOf(d), PostsInvOf(d)',
         HeldAt(d), Touched(d)
  PROVE  HeldAt(d)' /\ RunsOutAt(d)
<1> DEFINE j == job[d]
           k == job'[d]
<1>1. /\ j \in Jobs /\ k \in Jobs
      /\ j.state \in {"waiting", "active"} => UnderWay(j)
      /\ k.state \in {"waiting", "active"} => UnderWay(k)
  BY DEF TypeOK, PostsInvOf, UnderWay
<1>2. /\ j.state \in JobState /\ k.state \in JobState
      /\ j.owner \in Workers \union {NoWorker} /\ k.owner \in Workers \union {NoWorker}
      /\ j.made \in Nat /\ j.stalled \in Nat
  BY <1>1 DEF Jobs
<1>3. Left(d) = LeftOf(j, Held(d).pc) /\ Left(d)' = LeftOf(k, Held(d)'.pc)
  BY DEF Left
<1>4. Left(d) \in Nat
  BY <1>1, <1>2, <1>3, LeftKinds, AwaitsKinds DEF LeftOf, JobState
<1>5. j.owner # NoWorker => j.state = "active" /\ Held(d) = run[j.owner]
  BY DEF HeldAt, Held
<1>6. CASE Untouched(d)
  <2>1. Left(d)' = Left(d)
    BY <1>3, <1>6 DEF Untouched
  <2> QED
    BY <1>4, <1>6, <2>1 DEF Untouched, RunsOutAt
<1>7. CASE Awaited(d)
  <2>1. Held(d)' = run'[j.owner] /\ k = j /\ j.state = "active" /\ Held(d) = run[j.owner]
    BY <1>5, <1>7 DEF Awaited, Held
  <2>2. Left(d)' < Left(d) /\ Left(d)' \in Nat
    <3>1. /\ Left(d) = 8 * TriesLeft(j) + AwaitsLeft(Held(d).pc)
          /\ Left(d)' = 8 * TriesLeft(j) + AwaitsLeft(Held(d)'.pc)
      BY <1>1, <1>3, <2>1, LeftKinds
    <3>2. /\ TriesLeft(j) \in Nat
          /\ AwaitsLeft(Held(d).pc) \in Nat /\ AwaitsLeft(Held(d)'.pc) \in Nat
          /\ AwaitsLeft(Held(d)'.pc) < AwaitsLeft(Held(d).pc)
      BY <1>1, <1>7, <2>1, LeftKinds, AwaitsKinds DEF Awaited
    <3> QED
      BY <3>1, <3>2
  <2>3. HeldAt(d)'
    BY <1>7, <2>1 DEF HeldAt, Awaited, IdleRun
  <2> QED
    BY <1>4, <2>2, <2>3 DEF RunsOutAt
<1>8. CASE Enqueued(d)
  BY <1>8 DEF Enqueued, HeldAt, RunsOutAt
<1>9. CASE Taken(d)
  <2>1. Held(d)'.pc = "read" /\ AwaitsLeft("read") = 6 /\ TriesLeft(k) = TriesLeft(j)
    BY <1>9 DEF Taken, Held, AwaitsLeft, TriesLeft
  <2>2. /\ Left(d) = 8 * TriesLeft(j) + 7 /\ Left(d)' = 8 * TriesLeft(j) + 6
        /\ TriesLeft(j) \in Nat
    BY <1>1, <1>3, <1>9, <2>1, LeftKinds DEF Taken
  <2>3. HeldAt(d)'
    BY <1>9 DEF Taken, HeldAt, IdleRun
  <2> QED
    BY <2>2, <2>3 DEF RunsOutAt
<1>a. ASSUME k.owner = NoWorker, j.state = "active",
             \/ k.state \in {"completed", "failed"}
             \/ k.state = "waiting" /\ TriesLeft(k) = TriesLeft(j) - 1
      PROVE  HeldAt(d)' /\ RunsOutAt(d)
  <2>1. LeftOf(k, Held(d)'.pc) \in 0..(LeftOf(j, Held(d).pc) - 1)
    BY <1>1, <1>a, Costs
  <2>2. Left(d)' \in 0..(Left(d) - 1)
    BY <1>3, <2>1
  <2> QED
    BY <1>4, <1>a, <2>2 DEF HeldAt, RunsOutAt
<1>b. CASE Ends(d)
  <2>1. k.owner = NoWorker /\ j.state = "active"
    BY <1>1, <1>5, <1>b, SettledOwner DEF Ends
  <2>2. CASE k = Completed(j)
    BY <1>1, <1>a, <2>1, <2>2, JobFields
  <2>3. CASE k = Retried(j)
    <3>1. k.made = j.made + 1 /\ k.stalled = j.stalled /\ k.state \in {"waiting", "failed"}
      BY <1>1, <2>3, JobFields DEF AfterThrow
    <3>2. TriesLeft(k) = TriesLeft(j) - 1
      BY <1>2, <3>1 DEF TriesLeft
    <3> QED
      BY <1>a, <2>1, <3>1, <3>2
  <2> QED
    BY <1>b, <2>2, <2>3 DEF Ends
<1>c. CASE Unlocked(d)
  <2>1. /\ k.owner = NoWorker /\ k.state = "active" /\ j.state = "active"
        /\ TriesLeft(k) = TriesLeft(j)
    BY <1>5, <1>c DEF Unlocked, Unowned, TriesLeft
  <2>2. Held(d)' = Ended /\ AwaitsLeft("idle") = 1
    BY <2>1 DEF Held, AwaitsLeft
  <2>3. Held(d).pc \in RunPc \ {"idle"}
    BY <1>2, <1>5, <1>c, RunType DEF Unlocked, HeldAt
  <2>4. /\ Left(d)' = 8 * TriesLeft(j) + 1
        /\ Left(d) = 8 * TriesLeft(j) + AwaitsLeft(Held(d).pc)
        /\ TriesLeft(j) \in Nat
    BY <1>1, <1>3, <2>1, <2>2, LeftKinds DEF Ended
  <2>5. AwaitsLeft(Held(d).pc) \in 2..6
    BY <2>3, AwaitsKinds
  <2>6. HeldAt(d)'
    BY <2>1 DEF HeldAt
  <2> QED
    BY <2>4, <2>5, <2>6 DEF RunsOutAt
<1>d. CASE Repeated(d)
  <2>1. /\ k.owner = NoWorker /\ k.made = j.made /\ k.stalled = j.stalled + 1
        /\ k.state \in {"waiting", "failed"}
    BY <1>1, <1>d, JobFields DEF Repeated, AfterStall
  <2>2. TriesLeft(k) = TriesLeft(j) - 1
    BY <1>2, <2>1 DEF TriesLeft
  <2> QED
    BY <1>a, <1>d, <2>1, <2>2 DEF Repeated
<1> QED
  BY <1>6, <1>7, <1>8, <1>9, <1>b, <1>c, <1>d DEF Touched

(* A job that a step leaves alone, with the run that holds it.                 *)
LEMMA LeavesAlone ==
  ASSUME NEW d \in Deliveries, HeldAt(d), job'[d] = job[d],
         job[d].owner # NoWorker => run'[job[d].owner] = run[job[d].owner]
  PROVE  Touched(d)
<1>1. Held(d)' = Held(d)
  BY DEF Held
<1>2. HeldAt(d)'
  BY DEF HeldAt, IdleRun
<1> QED
  BY <1>1, <1>2 DEF Touched, Untouched

(* An await of the run w: still w's, and still of its row.                     *)
LEMMA AwaitTouches ==
  ASSUME TypeOK, HeldInv, NEW w \in Workers, ~IdleRun(w), UNCHANGED job,
         \A v \in Workers \ {w} : run'[v] = run[v],
         run'[w].delivery = run[w].delivery, ~IdleRun(w)',
         AwaitsLeft(run'[w].pc) < AwaitsLeft(run[w].pc)
  PROVE  \A d \in Deliveries : Touched(d)
<1> TAKE d \in Deliveries
<1>1. HeldAt(d) /\ job[d].owner \in Workers \union {NoWorker}
  BY DEF HeldInv, HeldAt, TypeOK, Jobs
<1>2. CASE job[d].owner = w
  <2>1. Awaited(d)
    BY <1>1, <1>2 DEF HeldAt, Awaited
  <2> QED
    BY <2>1 DEF Touched
<1>3. CASE job[d].owner # w
  BY <1>1, <1>3, LeavesAlone
<1> QED
  BY <1>2, <1>3

LEMMA NextTouches ==
  ASSUME TypeOK, PostsInv, HeldInv, [Next]_vars
  PROVE  \A d \in Deliveries : Touched(d)
<1>a. DOMAIN run = Workers /\ DOMAIN job = Deliveries
  BY DEF TypeOK
<1>b. \A d \in Deliveries : /\ HeldAt(d) /\ job[d] \in Jobs
                            /\ job[d].owner \in Workers \union {NoWorker}
  BY DEF HeldInv, HeldAt, TypeOK, Jobs
<1>1. ASSUME UNCHANGED <<job, run>>, NEW d \in Deliveries PROVE Touched(d)
  BY <1>1, <1>b, LeavesAlone
<1>2. ASSUME NEW w \in Workers, TakeJob(w), NEW d \in Deliveries PROVE Touched(d)
  <2> PICK e \in Deliveries :
        /\ run[w].pc = "idle"
        /\ job[e].state = "waiting"
        /\ job' = [job EXCEPT ![e] = [@ EXCEPT !.state = "active", !.owner = w]]
        /\ run' = [run EXCEPT ![w] =
                     [pc |-> "read", delivery |-> e, attempts |-> 0]]
    BY <1>2 DEF TakeJob, IdleRun
  <2>1. CASE d = e
    <3>1. /\ job'[d].state = "active" /\ job'[d].owner = w
          /\ job'[d].made = job[d].made /\ job'[d].stalled = job[d].stalled
      BY <1>a, <1>b, <2>1 DEF Jobs
    <3>2. run'[w].pc = "read" /\ run'[w].delivery = d
      BY <1>a, <2>1
    <3> QED
      BY <2>1, <3>1, <3>2 DEF Touched, Taken
  <2>2. CASE d # e
    <3>1. job'[d] = job[d]
      BY <1>a, <2>2
    <3>2. job[d].owner # NoWorker =>
            job[d].owner # w /\ run'[job[d].owner] = run[job[d].owner]
      BY <1>a, <1>b DEF HeldAt, IdleRun
    <3> QED
      BY <1>b, <3>1, <3>2, LeavesAlone
  <2> QED
    BY <2>1, <2>2
<1>3. ASSUME NEW w \in Workers, SettleJob(w), NEW d \in Deliveries PROVE Touched(d)
  <2>1. CASE job[d].owner = w
    <3>1. job'[d] \in {Completed(job[d]), Retried(job[d])}
      BY <1>3, <1>b, <2>1, Settled DEF HeldAt
    <3> QED
      BY <2>1, <3>1 DEF Touched, Ends
  <2>2. CASE job[d].owner # w
    <3>1. /\ job'[d] = job[d]
          /\ job[d].owner # NoWorker => run'[job[d].owner] = run[job[d].owner]
      BY <1>3, <1>b, <2>2, Settled
    <3> QED
      BY <1>b, <3>1, LeavesAlone
  <2> QED
    BY <2>1, <2>2
<1>4. ASSUME NEW w \in Workers, Crash(w), NEW d \in Deliveries PROVE Touched(d)
  <2>1. CASE job[d].owner = w
    <3>1. Unowned(job'[d], job[d])
      BY <1>4, <1>b, <2>1 DEF Crash, Unowned, Jobs
    <3> QED
      BY <2>1, <3>1 DEF Touched, Unlocked
  <2>2. CASE job[d].owner # w
    <3>1. /\ job'[d] = job[d]
          /\ job[d].owner # NoWorker => run'[job[d].owner] = run[job[d].owner]
      BY <1>4, <1>a, <1>b, <2>2 DEF Crash
    <3> QED
      BY <1>b, <3>1, LeavesAlone
  <2> QED
    BY <2>1, <2>2
<1>5. ASSUME NEW e \in Deliveries, LoseLock(e) \/ StalledJob(e) \/ EnqueueDelivery(e),
             NEW d \in Deliveries
      PROVE  Touched(d)
  <2>1. UNCHANGED run
    BY <1>5 DEF LoseLock, StalledJob, EnqueueDelivery
  <2>2. CASE d # e
    <3>1. job'[d] = job[d]
      BY <1>5, <1>a, <2>2 DEF LoseLock, StalledJob, EnqueueDelivery, AddJob
    <3> QED
      BY <1>b, <2>1, <3>1, LeavesAlone
  <2>3. CASE d = e /\ LoseLock(e)
    <3>1. job[d].owner # NoWorker /\ Unowned(job'[d], job[d])
      BY <1>a, <1>b, <2>3, LockFields DEF LoseLock, Unowned
    <3> QED
      BY <3>1 DEF Touched, Unlocked
  <2>4. CASE d = e /\ StalledJob(e)
    <3>1. Repeated(d)
      BY <1>a, <2>4 DEF StalledJob, Repeated
    <3> QED
      BY <3>1 DEF Touched
  <2>5. CASE d = e /\ EnqueueDelivery(e)
    <3>1. job[d].state = "none" /\ job[d] = NoJob
      BY <2>5 DEF EnqueueDelivery, AddJob, PostsInv, PostsInvOf
    <3>2. job'[d].owner = NoWorker
      BY <1>a, <2>5, <3>1 DEF EnqueueDelivery, AddJob, NoJob
    <3> QED
      BY <3>1, <3>2 DEF Touched, Enqueued
  <2> QED
    BY <1>5, <2>2, <2>3, <2>4, <2>5
<1>6. ASSUME NEW w \in Workers,
             \/ SkipSettled(w) \/ MarkFailed(w) \/ PostAccepted(w) \/ PostRefused(w)
             \/ CommitSuccess(w) \/ RecordFailure(w)
             \/ CommitRejected(w) \/ CommitUnheard(w)
             \/ QueryRejected(w) \/ UpdateUnheard(w)
      PROVE  \A d \in Deliveries : Touched(d)
  <2>1. /\ ~IdleRun(w) /\ UNCHANGED job
        /\ run[w].pc \in {"read", "markFailed", "post", "commit", "record", "unheard"}
    BY <1>6 DEF SkipSettled, MarkFailed, PostAccepted, PostRefused, CommitSuccess,
       RecordFailure, CommitRejected, CommitUnheard, QueryRejected, UpdateUnheard,
       At, IdleRun
  <2>2. PICK pc \in RunPc \ {"idle"} :
          Goto(w, pc) /\ AwaitsLeft(pc) < AwaitsLeft(run[w].pc)
    <3>1. ASSUME NEW pc \in {"returned", "threw"}, Goto(w, pc)
          PROVE  AwaitsLeft(pc) < AwaitsLeft(run[w].pc) /\ pc \in RunPc \ {"idle"}
      BY <2>1, <3>1 DEF AwaitsLeft, RunPc
    <3>2. CASE PostAccepted(w) \/ PostRefused(w) \/ CommitRejected(w) \/ CommitUnheard(w)
      BY <3>2 DEF PostAccepted, PostRefused, CommitRejected, CommitUnheard, At,
         AwaitsLeft, RunPc
    <3>3. CASE \/ SkipSettled(w) \/ MarkFailed(w) \/ CommitSuccess(w)
               \/ QueryRejected(w) \/ UpdateUnheard(w)
      BY <3>1, <3>3 DEF SkipSettled, MarkFailed, CommitSuccess, QueryRejected, UpdateUnheard
    <3>4. CASE RecordFailure(w)
      BY <3>1, <3>4, Recorded
    <3> QED
      BY <1>6, <3>2, <3>3, <3>4
  <2>3. /\ run'[w].pc = pc /\ run'[w].delivery = run[w].delivery
        /\ \A v \in Workers \ {w} : run'[v] = run[v]
    BY <2>1, <2>2, Moved
  <2>4. ~IdleRun(w)'
    BY <2>3 DEF IdleRun
  <2> QED
    BY <2>1, <2>2, <2>3, <2>4, AwaitTouches
<1>7. ASSUME NEW w \in Workers, ReadPending(w) PROVE \A d \in Deliveries : Touched(d)
  <2>1. ~IdleRun(w) /\ UNCHANGED job /\ run[w].pc = "read"
    BY <1>7 DEF ReadPending, At, IdleRun
  <2>2. /\ run'[w].pc \in {"post", "markFailed"} /\ run'[w].delivery = run[w].delivery
        /\ \A v \in Workers \ {w} : run'[v] = run[v]
    BY <1>7, <1>a, <2>1, RunType DEF ReadPending
  <2>3. ~IdleRun(w)' /\ AwaitsLeft(run'[w].pc) < AwaitsLeft(run[w].pc)
    BY <2>1, <2>2 DEF IdleRun, AwaitsLeft
  <2> QED
    BY <2>1, <2>2, <2>3, AwaitTouches
<1>8. ASSUME NEW d \in Deliveries, CreateDelivery(d) PROVE UNCHANGED <<job, run>>
  BY <1>8 DEF CreateDelivery
<1>9. CASE SetWebhookUrl \/ UNCHANGED vars
  BY <1>1, <1>9 DEF SetWebhookUrl, vars
<1> QED
  BY <1>1, <1>2, <1>3, <1>4, <1>5, <1>6, <1>7, <1>8, <1>9
     DEF Next, Consume, DeliverStep, FaultStep, QueueStep

LEMMA HeldInit == Init => HeldInv
BY DEF Init, HeldInv, NoJob

LEMMA RunsOutStep ==
  TypeOK /\ PostsInv /\ HeldInv /\ [Next]_vars => PostsInv' /\ HeldInv' /\ RunsOut
<1> SUFFICES ASSUME TypeOK, PostsInv, HeldInv, [Next]_vars
             PROVE  PostsInv' /\ HeldInv' /\ RunsOut
  OBVIOUS
<1>1. TypeOK' /\ PostsInv'
  BY TypeStep, PostsStep
<1>2. \A d \in Deliveries : HeldAt(d)' /\ RunsOutAt(d)
  BY <1>1, NextTouches, TouchRunsOut DEF PostsInv, HeldInv, HeldAt
<1> QED
  BY <1>1, <1>2 DEF HeldInv, HeldAt, RunsOut, RunsOutAt

(* A step of another part, which leaves the rows and the queue as they are.    *)
LEMMA QueueFrame ==
  TypeOK /\ TypeOK' /\ PostsInv /\ HeldInv /\ LocksInv
    /\ UNCHANGED <<delivery, job, run, posts>>
  => PostsInv' /\ HeldInv' /\ LocksInv' /\ RunsOut
<1> SUFFICES ASSUME TypeOK, TypeOK', PostsInv, HeldInv, LocksInv,
                    UNCHANGED <<delivery, job, run, posts>>
             PROVE  PostsInv' /\ HeldInv' /\ LocksInv' /\ RunsOut
  OBVIOUS
<1>1. \A d \in Deliveries : Spent(d)' = Spent(d)
  BY DEF Spent, BeforePost
<1>2. \A d \in Deliveries : PostsInvOf(d) => PostsInvOf(d)'
  BY <1>1 DEF PostsInvOf
<1>3. PostsInv' /\ LocksInv'
  BY <1>2 DEF PostsInv, LocksInv, LockedRun, IdleRun
<1>4. \A d \in Deliveries : HeldAt(d)' /\ RunsOutAt(d)
  BY <1>3, LeavesAlone, TouchRunsOut DEF PostsInv, HeldInv, HeldAt
<1> QED
  BY <1>3, <1>4 DEF HeldInv, HeldAt, RunsOut, RunsOutAt

(* Whatever fails, a job ends after so many of its own steps: the tries of     *)
(* webhooks.module.ts:11 and the queue's stalls are all it has, and the awaits *)
(* of deliver() (webhooks.service.ts:28-128) have no loop. What EnqueuedIsSettled *)
(* needs beside this is that the workers and the stalled-job checker run.      *)
THEOREM RunsOutCorrect == Spec => JobsRunOut
<1>1. TypeOK /\ PostsInv /\ HeldInv /\ [Next]_vars => [RunsOut]_vars
  BY RunsOutStep
<1> QED
  BY <1>1, HeldInit, RunsOutStep, PostsInvariant, PTL DEF Spec, JobsRunOut

-----------------------------------------------------------------------------
(* While nothing failed.                                                       *)

LEMMA UndisturbedInit == Init => UndisturbedInv
BY DEF Init, UndisturbedInv, UndisturbedJob, IdleRun, Ended, NoJob, NoRow

(* A step that leaves the jobs and a run alone and the rows, but for that run. *)
LEMMA UndisturbedRow ==
  ASSUME DeliveryInv, NEW w \in Workers, ~IdleRun(w),
         \A v \in Workers : ~IdleRun(v) => UndisturbedRun(v),
         \A d \in Deliveries : UndisturbedJob(d),
         UNCHANGED job,
         \A v \in Workers \ {w} : run'[v] = run[v],
         ~IdleRun(w)', run'[w].delivery = run[w].delivery,
         \A d \in Deliveries \ {run[w].delivery} : delivery'[d] = delivery[d],
         UndisturbedRun(w)'
  PROVE  /\ \A v \in Workers : ~IdleRun(v)' => UndisturbedRun(v)'
         /\ \A d \in Deliveries : UndisturbedJob(d)'
<1>a. run[w].delivery \in Deliveries /\ job[run[w].delivery].state = "active"
  BY RunType DEF DeliveryInv, UndisturbedRun
<1>1. ASSUME NEW v \in Workers, ~IdleRun(v)' PROVE UndisturbedRun(v)'
  <2>1. CASE v # w
    <3>1. ~IdleRun(v) /\ run'[v] = run[v]
      BY <1>1, <2>1 DEF IdleRun
    <3>2. run[v].delivery \in Deliveries /\ run[v].delivery # run[w].delivery
      BY <2>1, <3>1, RunType DEF DeliveryInv, UndisturbedRun
    <3> QED
      BY <3>1, <3>2 DEF UndisturbedRun
  <2> QED
    BY <2>1
<1>2. ASSUME NEW d \in Deliveries PROVE UndisturbedJob(d)'
  <2>1. CASE d = run[w].delivery
    BY <1>a, <2>1 DEF UndisturbedJob, UndisturbedRun
  <2>2. CASE d # run[w].delivery
    BY <2>2 DEF UndisturbedJob, IdleRun
  <2> QED
    BY <2>1, <2>2
<1> QED
  BY <1>1, <1>2

LEMMA UndisturbedStep ==
  MaxAttempts <= JobAttempts /\ DeliveryInv /\ UndisturbedInv /\ [Next]_vars
    => UndisturbedInv'
<1> SUFFICES ASSUME MaxAttempts <= JobAttempts, DeliveryInv, UndisturbedInv, [Next]_vars,
                    faults' = 0
             PROVE  /\ \A w \in Workers : ~IdleRun(w)' => UndisturbedRun(w)'
                    /\ \A d \in Deliveries : UndisturbedJob(d)'
  BY DEF UndisturbedInv
<1> DEFINE Goal == /\ \A w \in Workers : ~IdleRun(w)' => UndisturbedRun(w)'
                   /\ \A d \in Deliveries : UndisturbedJob(d)'
<1>a. TypeOK /\ DOMAIN run = Workers /\ DOMAIN job = Deliveries
      /\ DOMAIN delivery = Deliveries
  BY DEF DeliveryInv, TypeOK
<1>b. ~Fault
  BY <1>a DEF Fault, TypeOK
<1>c. faults = 0
  BY <1>a, <1>b DEF Next, Consume, vars, TakeJob, DeliverStep, FaultStep, QueueStep, Crash,
     CommitRejected, CommitUnheard, QueryRejected, UpdateUnheard, LoseLock, StalledJob,
     SkipSettled, ReadPending, MarkFailed, PostAccepted, PostRefused, CommitSuccess, RecordFailure, SettleJob,
     CreateDelivery, EnqueueDelivery, SetWebhookUrl
<1>d. /\ \A w \in Workers : ~IdleRun(w) => UndisturbedRun(w)
      /\ \A d \in Deliveries : UndisturbedJob(d)
  BY <1>c DEF UndisturbedInv
<1>e. \A w \in Workers : ~IdleRun(w) =>
        /\ run[w].delivery \in Deliveries /\ run[w].attempts \in Nat
        /\ UndisturbedRun(w)
  BY <1>a, <1>d, RunType
<1>1. ASSUME NEW w \in Workers, TakeJob(w) PROVE Goal
  <2> PICK d \in Deliveries :
        /\ IdleRun(w) /\ job[d].state = "waiting"
        /\ job' = [job EXCEPT ![d] = [@ EXCEPT !.state = "active", !.owner = w]]
        /\ run' = [run EXCEPT ![w] = [pc |-> "read", delivery |-> d, attempts |-> 0]]
        /\ UNCHANGED delivery
    BY <1>1 DEF TakeJob
  <2>1. /\ job'[d].state = "active" /\ job'[d].owner = w /\ job'[d].made = job[d].made
        /\ \A e \in Deliveries \ {d} : job'[e] = job[e]
    BY <1>a DEF TypeOK, Jobs
  <2>2. /\ run'[w] = [pc |-> "read", delivery |-> d, attempts |-> 0]
        /\ \A v \in Workers \ {w} : run'[v] = run[v]
    BY <1>a
  <2>3. UndisturbedRun(w)'
    BY <1>d, <2>1, <2>2 DEF UndisturbedRun, UndisturbedJob
  <2>4. ASSUME NEW v \in Workers \ {w}, ~IdleRun(v)' PROVE UndisturbedRun(v)'
    <3>1. ~IdleRun(v) /\ run[v].delivery \in Deliveries /\ run[v].delivery # d
      BY <1>e, <2>2, <2>4 DEF IdleRun, UndisturbedRun
    <3> QED
      BY <1>d, <2>1, <2>2, <3>1 DEF UndisturbedRun
  <2>5. ASSUME NEW e \in Deliveries PROVE UndisturbedJob(e)'
    <3>1. CASE e = d
      BY <2>1, <2>2, <3>1 DEF UndisturbedJob, IdleRun
    <3>2. CASE e # d
      BY <1>d, <2>1, <2>2, <3>2 DEF UndisturbedJob, IdleRun
    <3> QED
      BY <3>1, <3>2
  <2> QED
    BY <2>3, <2>4, <2>5
<1>2. ASSUME NEW w \in Workers,
             \/ SkipSettled(w) \/ ReadPending(w) \/ MarkFailed(w) \/ PostAccepted(w)
             \/ PostRefused(w) \/ CommitSuccess(w) \/ RecordFailure(w)
      PROVE  Goal
  <2> DEFINE d == run[w].delivery
  <2>1. ~IdleRun(w) /\ UNCHANGED job
    BY <1>2 DEF SkipSettled, ReadPending, MarkFailed, PostAccepted, PostRefused,
                CommitSuccess, RecordFailure, At, IdleRun
  <2>2. d \in Deliveries /\ run[w].attempts \in Nat /\ UndisturbedRun(w)
        /\ run[w] \in [pc : RunPc \ {"idle"}, delivery : Deliveries, attempts : Nat]
    BY <1>a, <1>e, <2>1, RunType
  <2>3. /\ \A v \in Workers \ {w} : run'[v] = run[v]
        /\ ~IdleRun(w)' /\ run'[w].delivery = d
    <3>1. CASE ReadPending(w)
      BY <1>a, <2>2, <3>1 DEF ReadPending, IdleRun
    <3>2. CASE ~ReadPending(w)
      <4>1. PICK pc \in RunPc \ {"idle"} : Goto(w, pc)
        BY <1>2, <3>2, Recorded, <1>a DEF SkipSettled, MarkFailed, PostAccepted, PostRefused,
           CommitSuccess, RunPc
      <4> QED
        BY <1>a, <2>1, <4>1, Moved DEF IdleRun
    <3> QED
      BY <3>1, <3>2
  <2>4. \A e \in Deliveries \ {d} : delivery'[e] = delivery[e]
    BY <1>2, <1>a DEF SkipSettled, ReadPending, MarkFailed, PostAccepted, PostRefused,
                CommitSuccess, RecordFailure
  <2>5. UndisturbedRun(w)'
    <3>1. CASE SkipSettled(w) \/ PostAccepted(w) \/ PostRefused(w)
      BY <1>a, <2>1, <2>2, <2>3, <3>1
      DEF SkipSettled, PostAccepted, PostRefused, Goto, At, UndisturbedRun
    <3>2. CASE ReadPending(w)
      <4>1. /\ run'[w].pc \in {"post", "markFailed"}
            /\ run'[w].attempts = delivery[d].attempts /\ UNCHANGED delivery
        BY <1>a, <2>2, <3>2 DEF ReadPending
      <4> QED
        BY <2>1, <2>2, <2>3, <3>2, <4>1 DEF ReadPending, At, UndisturbedRun
    <3>3. CASE MarkFailed(w) \/ CommitSuccess(w)
      <4>1. run'[w].pc = "returned" /\ delivery'[d].status # "PENDING"
        BY <1>a, <2>2, <3>3 DEF MarkFailed, CommitSuccess, Goto, Tried
      <4> QED
        BY <2>1, <2>2, <2>3, <4>1 DEF UndisturbedRun
    <3>4. CASE RecordFailure(w)
      <4>1. /\ run[w].attempts = job[d].made /\ delivery[d].status = "PENDING"
        BY <2>2, <3>4 DEF RecordFailure, UndisturbedRun
      <4>2. /\ delivery'[d] = FailedRow(delivery[d], run[w].attempts + 1)
            /\ run'[w].pc = IF run[w].attempts + 1 < MaxAttempts THEN "threw" ELSE "returned"
        BY <1>a, <2>2, <3>4 DEF RecordFailure, Goto
      <4> QED
        BY <2>1, <2>2, <2>3, <4>1, <4>2, BoundsAssumption DEF UndisturbedRun, FailedRow
    <3> QED
      BY <1>2, <3>1, <3>2, <3>3, <3>4
  <2> QED
    BY <1>d, <2>1, <2>2, <2>3, <2>4, <2>5, UndisturbedRow
<1>3. ASSUME NEW w \in Workers, SettleJob(w) PROVE Goal
  <2>0. run[w].delivery \in Deliveries
    BY <1>3, <1>a, Settled
  <2> PICK d \in Deliveries : d = run[w].delivery
    BY <2>0
  <2>1. /\ ~IdleRun(w) /\ d \in Deliveries /\ UNCHANGED delivery
        /\ run[w].pc \in {"returned", "threw"}
    BY <1>3, <1>a, Settled DEF SettleJob
  <2>2. UndisturbedRun(w)
    BY <1>d, <2>1
  <2>3. /\ job'[d] = IF run[w].pc = "returned" THEN Completed(job[d]) ELSE Retried(job[d])
        /\ \A e \in Deliveries \ {d} : job'[e] = job[e]
        /\ run'[w] = Ended /\ \A v \in Workers \ {w} : run'[v] = run[v]
    BY <1>3, <1>a, <2>1, <2>2 DEF SettleJob, UndisturbedRun
  <2>4. job[d] \in Jobs /\ delivery[d].attempts \in Nat
    BY <1>a, <2>1 DEF TypeOK, Rows
  <2>5. UndisturbedJob(d)'
    <3>1. CASE run[w].pc = "returned"
      <4>1. job'[d].state = "completed" /\ delivery[d].status # "PENDING"
        BY <2>2, <2>3, <2>4, <3>1 DEF Completed, Jobs, UndisturbedRun
      <4> QED
        BY <2>1, <4>1 DEF UndisturbedJob
    <3>2. CASE run[w].pc = "threw"
      <4>1. delivery[d].status = "PENDING" /\ delivery[d].attempts = job[d].made + 1
        BY <2>2, <3>2 DEF UndisturbedRun
      <4>2. delivery[d].attempts < MaxAttempts
        BY <2>1, <4>1 DEF DeliveryInv, PendingHasTriesLeft
      <4>3. job[d].made \in Nat /\ job[d].made + 1 < JobAttempts
        BY <2>4, <4>1, <4>2, BoundsAssumption DEF Jobs
      <4>4. job'[d].state = "waiting" /\ job'[d].made = job[d].made + 1
        BY <2>3, <2>4, <3>2, <4>3 DEF Retried, AfterThrow, Jobs
      <4> QED
        BY <2>1, <4>1, <4>4 DEF UndisturbedJob
    <3> QED
      BY <2>1, <3>1, <3>2
  <2>6. ASSUME NEW v \in Workers, ~IdleRun(v)' PROVE UndisturbedRun(v)'
    <3>1. v # w /\ ~IdleRun(v) /\ run'[v] = run[v]
      BY <2>3, <2>6 DEF IdleRun, Ended
    <3>2. run[v].delivery \in Deliveries /\ run[v].delivery # d /\ UndisturbedRun(v)
      BY <1>e, <2>2, <3>1 DEF UndisturbedRun
    <3> QED
      BY <2>1, <2>3, <3>1, <3>2 DEF UndisturbedRun
  <2>7. ASSUME NEW e \in Deliveries \ {d} PROVE UndisturbedJob(e)'
    <3>1. UndisturbedJob(e) /\ job'[e] = job[e]
      BY <1>d, <2>3
    <3>2. job[e].state = "active" =>
            \E v \in Workers \ {w} : job[e].owner = v /\ ~IdleRun(v) /\ run[v].delivery = e
      BY <3>1 DEF UndisturbedJob
    <3> QED
      BY <2>1, <2>3, <3>1, <3>2 DEF UndisturbedJob, IdleRun
  <2> QED
    BY <2>5, <2>6, <2>7
<1>4. ASSUME NEW w \in Workers PROVE ~FaultStep(w)
  BY <1>b DEF FaultStep, Crash, CommitRejected, CommitUnheard, QueryRejected, UpdateUnheard
<1>5. ASSUME NEW d \in Deliveries PROVE ~QueueStep(d)
  <2>1. ~LoseLock(d)
    BY <1>b DEF LoseLock
  <2>2. ~StalledJob(d)
    BY <1>d, WorkersAssumption DEF StalledJob, UndisturbedJob
  <2> QED
    BY <2>1, <2>2 DEF QueueStep
<1>6. ASSUME NEW d \in Deliveries, CreateDelivery(d) PROVE Goal
  <2>1. /\ delivery[d].status = "none" /\ UNCHANGED <<job, run>>
        /\ delivery'[d] = [status |-> "PENDING", attempts |-> 0]
        /\ \A e \in Deliveries \ {d} : delivery'[e] = delivery[e]
    BY <1>6, <1>a DEF CreateDelivery, InsertDelivery
  <2>2. job[d].state = "none"
    BY <2>1 DEF DeliveryInv, JobsInv
  <2>3. ASSUME NEW w \in Workers, ~IdleRun(w)' PROVE UndisturbedRun(w)'
    <3>1. ~IdleRun(w)
      BY <2>1, <2>3 DEF IdleRun
    <3>2. run[w].delivery \in Deliveries /\ run[w].delivery # d /\ UndisturbedRun(w)
      BY <1>e, <2>2, <3>1 DEF UndisturbedRun
    <3> QED
      BY <2>1, <3>2 DEF UndisturbedRun
  <2>4. ASSUME NEW e \in Deliveries PROVE UndisturbedJob(e)'
    BY <1>d, <2>1, <2>2 DEF UndisturbedJob, IdleRun
  <2> QED
    BY <2>3, <2>4
<1>7. ASSUME NEW d \in Deliveries, EnqueueDelivery(d) PROVE Goal
  <2>1. job[d].state = "none" /\ UNCHANGED <<delivery, run>>
    BY <1>7 DEF EnqueueDelivery, AddJob
  <2>2. /\ job'[d].state = "waiting" /\ job'[d].made = job[d].made
        /\ \A e \in Deliveries \ {d} : job'[e] = job[e]
    BY <1>7, <1>a DEF EnqueueDelivery, AddJob, TypeOK, Jobs
  <2>3. ASSUME NEW w \in Workers, ~IdleRun(w)' PROVE UndisturbedRun(w)'
    <3>1. ~IdleRun(w)
      BY <2>1, <2>3 DEF IdleRun
    <3>2. run[w].delivery \in Deliveries /\ run[w].delivery # d /\ UndisturbedRun(w)
      BY <1>e, <2>1, <3>1 DEF UndisturbedRun
    <3> QED
      BY <2>1, <2>2, <3>2 DEF UndisturbedRun
  <2>4. ASSUME NEW e \in Deliveries PROVE UndisturbedJob(e)'
    BY <1>d, <2>1, <2>2 DEF UndisturbedJob, IdleRun
  <2> QED
    BY <2>3, <2>4
<1>8. CASE SetWebhookUrl \/ UNCHANGED vars
  BY <1>d, <1>8 DEF SetWebhookUrl, vars, UndisturbedRun, UndisturbedJob, IdleRun
<1> QED
  BY <1>1, <1>2, <1>3, <1>4, <1>5, <1>6, <1>7, <1>8 DEF Next, Consume, DeliverStep

(* No interleaving of workers, enqueues and changes of the URL ends a job over a *)
(* PENDING row: while nothing fails, a job and its row are tried alike often,   *)
(* and the job may be tried as often as the row (webhooks.module.ts:11,        *)
(* webhooks.service.ts:12). With RunsOutCorrect this is EnqueuedIsSettled but   *)
(* for the fairness of workers.                                                *)
THEOREM EndsSettledCorrect ==
  ASSUME MaxAttempts <= JobAttempts PROVE Spec => []EndsSettled
<1>1. DeliveryInv /\ UndisturbedInv => EndsSettled
  BY DEF DeliveryInv, TypeOK, Rows, RowStatus, JobsInv, UndisturbedInv, UndisturbedJob,
         EndsSettled
<1>2. DeliveryInv /\ UndisturbedInv /\ [Next]_vars => UndisturbedInv'
  BY UndisturbedStep
<1> QED
  BY <1>1, <1>2, DeliveryCorrect, UndisturbedInit, PTL DEF Spec
=============================================================================
