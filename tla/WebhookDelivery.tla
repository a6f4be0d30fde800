--------------------------- MODULE WebhookDelivery ---------------------------
(* The outbox consumer: webhook_deliveries rows, the BullMQ queue "webhooks"   *)
(* and the worker processes that run WebhooksService.deliver() on its jobs.    *)
(*                                                                             *)
(* A row is written PENDING by a producer (digest, resend, reminder) and a job *)
(* naming it is added to the queue by enqueueDelivery().  A worker takes the   *)
(* job, reads the row, POSTs to the team's URL and records the outcome; each   *)
(* await of deliver() is a step of its own, so other workers, the stalled-job  *)
(* checker and configuration changes may come between.                         *)
EXTENDS Integers, FiniteSets

CONSTANTS
  Deliveries,   \* identities of webhook_deliveries rows (their dedupeKey)
  Digests,      \* identities of digests rows
  NoDigest,     \* the null digestId of a reminder's delivery
  DigestOf,     \* digestId of each delivery: written once, with the row
  Workers,      \* worker slots that run deliver(), one job at a time each
  NoWorker,     \* nobody holds the job's lock
  MaxAttempts,  \* MAX_ATTEMPTS of webhooks.service.ts
  JobAttempts,  \* attempts of the queue's default job options
  MaxStalled,   \* BullMQ's maxStalledCount: reruns of a job whose lock expired
  CanLoseLock,  \* may a live worker's lock expire before its run ends?
  MaxFaults     \* bound on crashes, failed or unanswered queries, expired locks

ASSUME DigestOfAssumption ==
  /\ NoDigest \notin Digests
  /\ DigestOf \in [Deliveries -> Digests \union {NoDigest}]
ASSUME WorkersAssumption == NoWorker \notin Workers /\ IsFiniteSet(Workers)
ASSUME BoundsAssumption ==
  /\ MaxAttempts \in Nat \ {0}
  /\ JobAttempts \in Nat \ {0}
  /\ MaxStalled \in Nat
  /\ MaxFaults \in Nat
  /\ CanLoseLock \in BOOLEAN

VARIABLES
  delivery,      \* webhook_deliveries: status ("none" = no row) and attempts
  digestStatus,  \* digests.status ("none" = no row)
  webhookUrl,    \* is team_configs.webhookUrl set?
  job,           \* the queue's job of each delivery
  run,           \* what each worker slot is doing
  posts,         \* POSTs of each delivery that the endpoint has accepted
  faults         \* faults so far (bounded by MaxFaults)

vars == <<delivery, digestStatus, webhookUrl, job, run, posts, faults>>

-----------------------------------------------------------------------------

RowStatus == {"none", "PENDING", "SUCCESS", "FAILED"}
JobState == {"none", "waiting", "active", "completed", "failed"}
(* The awaits of deliver(): "read" findUnique, "markFailed" its update,       *)
(* "post" fetch, "commit" the success transaction, "record" the catch's        *)
(* update, "unheard" the same after a commit that was made but not answered;   *)
(* then the queue is told that deliver() "returned" or "threw".                *)
RunPc == {"idle", "read", "markFailed", "post", "commit", "record", "unheard",
          "returned", "threw"}

IdleRun(w) == run[w].pc = "idle"
Ended == [pc |-> "idle"]
NoRow == [status |-> "none", attempts |-> 0]
NoJob ==
  [state |-> "none", made |-> 0, stalled |-> 0, owner |-> NoWorker, lost |-> FALSE]

Rows == [status : RowStatus, attempts : Nat]
(* lost: history, has the job's lock expired under a live run?                 *)
Jobs == [state : JobState, made : Nat, stalled : Nat,
         owner : Workers \union {NoWorker}, lost : BOOLEAN]
(* A run remembers the row it is delivering and the attempts it read.         *)
Runs == {Ended} \union
        [pc : RunPc \ {"idle"}, delivery : Deliveries, attempts : Nat]

TypeOK ==
  /\ delivery \in [Deliveries -> Rows]
  /\ digestStatus \in [Digests -> {"none", "GENERATED", "SENT"}]
  /\ webhookUrl \in BOOLEAN
  /\ job \in [Deliveries -> Jobs]
  /\ run \in [Workers -> Runs]
  /\ posts \in [Deliveries -> Nat]
  /\ faults \in 0..MaxFaults

Init ==
  /\ delivery = [d \in Deliveries |-> NoRow]
  /\ digestStatus = [g \in Digests |-> "none"]
  /\ webhookUrl = TRUE
  /\ job = [d \in Deliveries |-> NoJob]
  /\ run = [w \in Workers |-> Ended]
  /\ posts = [d \in Deliveries |-> 0]
  /\ faults = 0

-----------------------------------------------------------------------------
(* Producers.                                                                 *)

InsertDelivery(d) ==
  /\ delivery[d].status = "none"
  /\ delivery' = [delivery EXCEPT ![d] = [status |-> "PENDING", attempts |-> 0]]

(* The producers seen from here: a row appears, with its digest if it is the   *)
(* digest's own and not a resend's or a reminder's.                            *)
CreateDelivery(d) ==
  /\ InsertDelivery(d)
  /\ digestStatus' = [g \in Digests |->
       IF g = DigestOf[d] /\ digestStatus[g] = "none" THEN "GENERATED"
                                                      ELSE digestStatus[g]]
  /\ UNCHANGED <<webhookUrl, job, run, posts, faults>>

AddJob(d) ==
  /\ job[d].state = "none"
  /\ job' = [job EXCEPT ![d].state = "waiting"]

EnqueueDelivery(d) ==
  /\ delivery[d].status # "none"
  /\ AddJob(d)
  /\ UNCHANGED <<delivery, digestStatus, webhookUrl, run, posts, faults>>

(* updateConfig() sets or clears the URL at any time.                          *)
SetWebhookUrl ==
  /\ webhookUrl' = ~webhookUrl
  /\ UNCHANGED <<delivery, digestStatus, job, run, posts, faults>>

-----------------------------------------------------------------------------
(* The queue.  A worker settles a job only while it holds the job's lock.      *)

TakeJob(w) == \E d \in Deliveries :
  /\ IdleRun(w)
  /\ job[d].state = "waiting"
  /\ job' = [job EXCEPT ![d] = [@ EXCEPT !.state = "active", !.owner = w]]
  /\ run' = [run EXCEPT ![w] = [pc |-> "read", delivery |-> d, attempts |-> 0]]
  /\ UNCHANGED <<delivery, digestStatus, webhookUrl, posts, faults>>

Completed(j) == [j EXCEPT !.state = "completed", !.owner = NoWorker]
AfterThrow(j) == IF j.made + 1 < JobAttempts THEN "waiting" ELSE "failed"
(* Mutant: tries are not counted. *)
RetriedUncounted(j) == [j EXCEPT !.owner = NoWorker, !.state = "waiting"]
Retried(j) ==
  [j EXCEPT !.made = @ + 1, !.owner = NoWorker, !.state = AfterThrow(j)]
AfterStall(j) == IF j.stalled < MaxStalled THEN "waiting" ELSE "failed"
(* Mutant: stalls are not counted. *)
StalledUncounted(j) == [j EXCEPT !.state = AfterStall(j)]
Stalled(j) == [j EXCEPT !.stalled = @ + 1, !.state = AfterStall(j)]

(* The worker tells the queue how deliver() ended, and is idle again.          *)
SettleJob(w) == LET d == run[w].delivery IN
  /\ run[w].pc \in {"returned", "threw"}
  /\ job' = [job EXCEPT ![d] =
       IF job[d].owner # w THEN @
       ELSE IF run[w].pc = "returned" THEN Completed(@) ELSE Retried(@)]
  /\ run' = [run EXCEPT ![w] = Ended]
  /\ UNCHANGED <<delivery, digestStatus, webhookUrl, posts, faults>>

Fault ==
  /\ faults < MaxFaults
  /\ faults' = faults + 1

(* The process dies; its lock expires with it.                                 *)
Crash(w) ==
  /\ ~IdleRun(w)
  /\ Fault
  /\ run' = [run EXCEPT ![w] = Ended]
  /\ job' = [d \in Deliveries |->
       IF job[d].owner = w THEN [job[d] EXCEPT !.owner = NoWorker] ELSE job[d]]
  /\ UNCHANGED <<delivery, digestStatus, webhookUrl, posts>>

(* The lock of a run that is still going is not renewed in time.               *)
LoseLock(d) ==
  /\ CanLoseLock
  /\ job[d].owner # NoWorker
  /\ Fault
  /\ job' = [job EXCEPT ![d] = [@ EXCEPT !.owner = NoWorker, !.lost = TRUE]]
  /\ UNCHANGED <<delivery, digestStatus, webhookUrl, run, posts>>

(* The stalled-job checker hands an active job without a lock out again, or   *)
(* gives it up once it has stalled too often.                                 *)
StalledJob(d) ==
  /\ job[d].state = "active"
  /\ job[d].owner = NoWorker
  /\ job' = [job EXCEPT ![d] = Stalled(@)]
  /\ UNCHANGED <<delivery, digestStatus, webhookUrl, run, posts, faults>>

-----------------------------------------------------------------------------
(* deliver(), one action per await.                                            *)

At(w, pc) == run[w].pc = pc
Goto(w, pc) == run' = [run EXCEPT ![w].pc = pc]

(* The row is gone from PENDING: nothing to do.                                *)
SkipSettled(w) ==
  /\ At(w, "read")
  /\ delivery[run[w].delivery].status # "PENDING"
  /\ Goto(w, "returned")
  /\ UNCHANGED <<delivery, digestStatus, webhookUrl, job, posts, faults>>

(* The row is PENDING: it is delivered when its team has a URL.  A row always *)
(* has a body (its digest's content or its own payload), so the third branch, *)
(* "Delivery payload missing", is never taken.                                 *)
(* Mutant: the row's status is not looked at. *)
ReadAny(w) == LET row == delivery[run[w].delivery] IN
  /\ At(w, "read")
  /\ run' = [run EXCEPT ![w] =
       [@ EXCEPT !.pc = IF webhookUrl THEN "post" ELSE "markFailed",
                 !.attempts = row.attempts]]
  /\ UNCHANGED <<delivery, digestStatus, webhookUrl, job, posts, faults>>
ReadPending(w) == LET row == delivery[run[w].delivery] IN
  /\ At(w, "read")
  /\ row.status = "PENDING"
  /\ run' = [run EXCEPT ![w] =
       [@ EXCEPT !.pc = IF webhookUrl THEN "post" ELSE "markFailed",
                 !.attempts = row.attempts]]
  /\ UNCHANGED <<delivery, digestStatus, webhookUrl, job, posts, faults>>

Tried(row, status) == [status |-> status, attempts |-> row.attempts + 1]

MarkFailed(w) == LET d == run[w].delivery IN
  /\ At(w, "markFailed")
  /\ delivery' = [delivery EXCEPT ![d] = Tried(@, "FAILED")]
  /\ Goto(w, "returned")
  /\ UNCHANGED <<digestStatus, webhookUrl, job, posts, faults>>

(* The endpoint takes the POST; its 2xx answer arrives, or does not.           *)
PostAccepted(w) == \E answer \in {"commit", "record"} :
  /\ At(w, "post")
  /\ posts' = [posts EXCEPT ![run[w].delivery] = @ + 1]
  /\ Goto(w, answer)
  /\ UNCHANGED <<delivery, digestStatus, webhookUrl, job, faults>>

(* No connection, or an error status.                                          *)
(* Mutant: res.ok is not looked at. *)
PostRefusedUnseen(w) ==
  /\ At(w, "post")
  /\ Goto(w, "commit")
  /\ UNCHANGED <<delivery, digestStatus, webhookUrl, job, posts, faults>>
PostRefused(w) ==
  /\ At(w, "post")
  /\ Goto(w, "record")
  /\ UNCHANGED <<delivery, digestStatus, webhookUrl, job, posts, faults>>

MarkSent(d) == [g \in Digests |-> IF g = DigestOf[d] THEN "SENT" ELSE digestStatus[g]]

CommitSuccess(w) == LET d == run[w].delivery IN
  /\ At(w, "commit")
  /\ delivery' = [delivery EXCEPT ![d] = Tried(@, "SUCCESS")]
  /\ digestStatus' = MarkSent(d)
  /\ Goto(w, "returned")
  /\ UNCHANGED <<webhookUrl, job, posts, faults>>

(* The transaction is rejected: an accepted POST is treated as a failed one.   *)
CommitRejected(w) ==
  /\ At(w, "commit")
  /\ Fault
  /\ Goto(w, "record")
  /\ UNCHANGED <<delivery, digestStatus, webhookUrl, job, posts>>

(* The transaction is made and its answer lost: the catch runs all the same.   *)
CommitUnheard(w) == LET d == run[w].delivery IN
  /\ At(w, "commit")
  /\ Fault
  /\ delivery' = [delivery EXCEPT ![d] = Tried(@, "SUCCESS")]
  /\ digestStatus' = MarkSent(d)
  /\ Goto(w, "unheard")
  /\ UNCHANGED <<webhookUrl, job, posts>>

(* The catch: attempts counts from the value read at the start of the run, and *)
(* the row's present status is not looked at, be it the run's own SUCCESS.     *)
FailedRow(row, attempts) ==
  [status |-> IF attempts >= MaxAttempts THEN "FAILED" ELSE row.status,
   attempts |-> attempts]

(* Mutant: the error is not thrown again. *)
RecordFailureSwallowed(w) == LET d == run[w].delivery IN
  /\ run[w].pc \in {"record", "unheard"}
  /\ delivery' = [delivery EXCEPT ![d] = FailedRow(@, run[w].attempts + 1)]
  /\ Goto(w, "returned")
  /\ UNCHANGED <<digestStatus, webhookUrl, job, posts, faults>>
RecordFailure(w) == LET d == run[w].delivery
                        attempts == run[w].attempts + 1 IN
  /\ run[w].pc \in {"record", "unheard"}
  /\ delivery' = [delivery EXCEPT ![d] = FailedRow(@, attempts)]
  /\ Goto(w, IF attempts < MaxAttempts THEN "threw" ELSE "returned")
  /\ UNCHANGED <<digestStatus, webhookUrl, job, posts, faults>>

(* A query outside the try, or the catch's own update, is rejected: deliver()  *)
(* throws and the row is as it was.                                            *)
QueryRejected(w) ==
  /\ run[w].pc \in {"read", "markFailed", "record", "unheard"}
  /\ Fault
  /\ Goto(w, "threw")
  /\ UNCHANGED <<delivery, digestStatus, webhookUrl, job, posts>>

(* Either update is made and its answer lost: deliver() throws.                *)
UpdateUnheard(w) == LET d == run[w].delivery IN
  /\ run[w].pc \in {"markFailed", "record", "unheard"}
  /\ Fault
  /\ delivery' = [delivery EXCEPT ![d] =
       IF At(w, "markFailed") THEN Tried(@, "FAILED")
                              ELSE FailedRow(@, run[w].attempts + 1)]
  /\ Goto(w, "threw")
  /\ UNCHANGED <<digestStatus, webhookUrl, job, posts>>

-----------------------------------------------------------------------------

DeliverStep(w) ==
  \/ SkipSettled(w) \/ ReadPending(w) \/ MarkFailed(w)
  \/ PostAccepted(w) \/ PostRefused(w)
  \/ CommitSuccess(w) \/ RecordFailure(w) \/ SettleJob(w)
FaultStep(w) ==
  \/ Crash(w) \/ CommitRejected(w) \/ CommitUnheard(w)
  \/ QueryRejected(w) \/ UpdateUnheard(w)
QueueStep(d) == LoseLock(d) \/ StalledJob(d)

Consume ==
  \/ \E w \in Workers : TakeJob(w) \/ DeliverStep(w) \/ FaultStep(w)
  \/ \E d \in Deliveries : QueueStep(d)

Next ==
  \/ Consume
  \/ \E d \in Deliveries : CreateDelivery(d) \/ EnqueueDelivery(d)
  \/ SetWebhookUrl

(* Workers poll the queue and every await settles; the stalled-job checker    *)
(* runs on a timer.  Nothing obliges a producer, a user or a fault.            *)
Fairness ==
  /\ \A w \in Workers : WF_vars(TakeJob(w)) /\ WF_vars(DeliverStep(w))
  /\ \A d \in Deliveries : WF_vars(StalledJob(d))

Spec == Init /\ [][Next]_vars
FairSpec == Spec /\ Fairness

-----------------------------------------------------------------------------
(* Safety.                                                                     *)

(* A delivery is SUCCESS, and a digest SENT, only if the channel accepted a    *)
(* POST of it (webhooks.service.ts:64-102): no failure path, stale run or      *)
(* rerun may claim a delivery that never happened.                             *)
Posted(g) == \E d \in Deliveries : DigestOf[d] = g /\ posts[d] > 0
ClaimsAreTrue ==
  /\ \A d \in Deliveries : delivery[d].status = "SUCCESS" => posts[d] > 0
  /\ \A g \in Digests : digestStatus[g] = "SENT" => Posted(g)

(* The success transaction marks the row and its digest together              *)
(* (webhooks.service.ts:81-102): nobody sees a SUCCESS row of an unsent digest.*)
SuccessMarksDigest ==
  \A d \in Deliveries :
    delivery[d].status = "SUCCESS" /\ DigestOf[d] \in Digests
      => digestStatus[DigestOf[d]] = "SENT"

(* A row that may still be tried has tries left, even when overlapping runs   *)
(* write attempts from stale reads (webhooks.service.ts:107-117).              *)
PendingHasTriesLeft ==
  \A d \in Deliveries :
    delivery[d].status = "PENDING" => delivery[d].attempts < MaxAttempts

(* The channel sees one delivery at most as often as the queue runs its job:  *)
(* JobAttempts tries and MaxStalled reruns, whatever crashes, lost answers,    *)
(* rejected and unheard commits and expired locks come between.                *)
PostsBounded == \A d \in Deliveries : posts[d] <= JobAttempts + MaxStalled

(* No step returns a row to PENDING or takes back a digest's SENT              *)
(* (webhooks.service.ts:81-118), however runs overlap.                         *)
AdvancingStep ==
  /\ \A d \in Deliveries : delivery[d].status # "none" =>
       delivery'[d].status \in {delivery[d].status, "SUCCESS", "FAILED"}
  /\ \A g \in Digests : digestStatus[g] = "SENT" => digestStatus'[g] = "SENT"
StatusAdvances == [][AdvancingStep]_vars

(* While nothing but the endpoint fails, no job ends before its row: the job's *)
(* tries (webhooks.module.ts:11) outlast the row's (webhooks.service.ts:12).   *)
EndsSettled ==
  \A d \in Deliveries : job[d].state \in {"completed", "failed"} =>
    delivery[d].status \in {"SUCCESS", "FAILED"} \/ faults > 0

(* Unless its job's lock expired under a live run, a settled row is never      *)
(* posted again, and never written again but by the run whose own commit was   *)
(* made and not answered, until that run ends, whatever crashes and reruns     *)
(* (the status check of webhooks.service.ts:37-39 is made once per run, long   *)
(* before the run's POST and updates; the catch of :105-118 makes none).       *)
Unheard(d) == \E w \in Workers : At(w, "unheard") /\ run[w].delivery = d
SettledStep ==
  \A d \in Deliveries :
    delivery[d].status \in {"SUCCESS", "FAILED"} /\ ~job[d].lost =>
      /\ posts'[d] = posts[d]
      /\ delivery'[d] = delivery[d] \/ Unheard(d)
SettledIsFinal == [][SettledStep]_vars

(* What is left of a job: the tries and stalls it may still spend, and, of the *)
(* try under way, how far the run that holds its lock is from the end.         *)
Held(d) == IF job[d].owner = NoWorker THEN Ended ELSE run[job[d].owner]
AwaitsLeft(pc) ==
  CASE pc = "read" -> 6
    [] pc \in {"markFailed", "post"} -> 5
    [] pc = "commit" -> 4
    [] pc \in {"record", "unheard"} -> 3
    [] pc \in {"returned", "threw"} -> 2
    [] OTHER -> 1
LeftOf(j, pc) ==
  IF j.state \notin {"waiting", "active"} THEN 0
  ELSE 8 * (JobAttempts - j.made + MaxStalled - j.stalled)
       + IF j.state = "waiting" THEN 7 ELSE AwaitsLeft(pc)
Left(d) == LeftOf(job[d], Held(d).pc)

(* No failure keeps a job going for good (webhooks.module.ts:11 with           *)
(* webhooks.service.ts:28-128): each step of the queue or of the run that holds *)
(* a job uses up some of what is left of it, and crashes, lost locks, stalls    *)
(* and whatever other jobs do give nothing back.                               *)
RunsOut == \A d \in Deliveries : job[d].state # "none" =>
  /\ Left(d)' \in 0..Left(d)
  /\ job'[d] # job[d] \/ Held(d)' # Held(d) => Left(d)' < Left(d)
JobsRunOut == [][RunsOut]_vars

-----------------------------------------------------------------------------
(* Liveness.                                                                   *)

(* A job that was enqueued ends, whatever fails: none is left active or        *)
(* waiting for good.  While nothing but the endpoint fails it ends with its    *)
(* delivery settled (EndsSettled).                                             *)
EnqueuedIsSettled ==
  \A d \in Deliveries : job[d].state = "waiting" ~>
    /\ job[d].state \in {"completed", "failed"}
    /\ delivery[d].status \in {"SUCCESS", "FAILED"} \/ faults > 0

-----------------------------------------------------------------------------
(* What makes the safety properties inductive.                                 *)

(* A run is of a row; it has tries left once it read the row PENDING; it        *)
(* commits only what the endpoint accepted.                                    *)
RunsInv ==
  \A w \in Workers : ~IdleRun(w) =>
    /\ delivery[run[w].delivery].status # "none"
    /\ run[w].pc \in {"post", "commit", "record", "unheard"} =>
         run[w].attempts < MaxAttempts
    /\ run[w].pc = "commit" => posts[run[w].delivery] > 0

(* A job is of a row.                                                          *)
JobsInv == \A d \in Deliveries : job[d].state # "none" => delivery[d].status # "none"

DeliveryInv ==
  /\ TypeOK
  /\ RunsInv
  /\ JobsInv
  /\ ClaimsAreTrue
  /\ SuccessMarksDigest
  /\ PendingHasTriesLeft

(* Until its lock expires under a live run, a job has at most the run that     *)
(* owns it, and after that run's read the row is as it read it.                *)
LockedRun(w) ==
  ~IdleRun(w) /\ ~job[run[w].delivery].lost =>
    /\ job[run[w].delivery].owner = w
    /\ run[w].pc \in {"markFailed", "post", "commit", "record"} =>
         delivery[run[w].delivery].status = "PENDING"
LocksInv ==
  /\ \A d \in Deliveries : job[d].owner # NoWorker => job[d].state = "active"
  /\ \A w \in Workers : LockedRun(w)

(* The runs that may still post d, and the runs the queue has yet to start:    *)
(* each run costs a try or a stall.                                            *)
BeforePost(d) ==
  {w \in Workers : run[w].pc \in {"read", "post"} /\ run[w].delivery = d}
Spent(d) == posts[d] + Cardinality(BeforePost(d))
PostsInvOf(d) ==
  /\ Spent(d) <= JobAttempts + MaxStalled
  /\ job[d].owner # NoWorker => job[d].state = "active"
  /\ job[d].state \in {"waiting", "active"} =>
       job[d].made < JobAttempts /\ job[d].stalled <= MaxStalled
  /\ job[d].state = "none" => Spent(d) = 0 /\ job[d] = NoJob
  /\ job[d].state = "waiting" => Spent(d) <= job[d].made + job[d].stalled
  /\ job[d].state = "active" => Spent(d) <= job[d].made + job[d].stalled + 1
PostsInv == \A d \in Deliveries : PostsInvOf(d)

(* The lock of a job is held by a worker that is running it.                   *)
HeldInv == \A d \in Deliveries : job[d].owner # NoWorker =>
  /\ job[d].state = "active"
  /\ ~IdleRun(job[d].owner) /\ run[job[d].owner].delivery = d

(* While nothing failed, an active job has the one run that owns it, a row has *)
(* been tried as often as its job, and a job has ended only with its row       *)
(* settled.                                                                    *)
UndisturbedRun(w) == LET d == run[w].delivery IN
  /\ job[d].state = "active" /\ job[d].owner = w
  /\ run[w].pc = "read" /\ delivery[d].status = "PENDING" =>
       delivery[d].attempts = job[d].made
  /\ run[w].pc \in {"markFailed", "post", "commit", "record"} =>
       delivery[d].status = "PENDING" /\ run[w].attempts = job[d].made
  /\ run[w].pc = "threw" =>
       delivery[d].status = "PENDING" /\ delivery[d].attempts = job[d].made + 1
  /\ run[w].pc = "returned" => delivery[d].status # "PENDING"
  /\ run[w].pc # "unheard"
UndisturbedJob(d) ==
  /\ job[d].state = "active" =>
       \E w \in Workers : job[d].owner = w /\ ~IdleRun(w) /\ run[w].delivery = d
  /\ job[d].state = "none" => job[d].made = 0
  /\ job[d].state \in {"none", "waiting"} /\ delivery[d].status = "PENDING" =>
       delivery[d].attempts = job[d].made
  /\ job[d].state \in {"completed", "failed"} => delivery[d].status # "PENDING"
UndisturbedInv ==
  faults = 0 =>
    /\ \A w \in Workers : ~IdleRun(w) => UndisturbedRun(w)
    /\ \A d \in Deliveries : UndisturbedJob(d)
=============================================================================
