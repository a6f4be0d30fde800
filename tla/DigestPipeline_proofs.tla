------------------------ MODULE DigestPipeline_proofs ------------------------
(* Proofs about the digest pipeline.  Its outbox W is an instance of           *)
(* WebhookDelivery, so what WebhookDelivery_proofs shows of every step of the  *)
(* outbox is used here through WP, an instance of that module.                 *)
EXTENDS DigestPipeline, FiniteSetTheorems, TLAPS

WP == INSTANCE WebhookDelivery_proofs WITH
       Deliveries <- Keys, Digests <- Days, NoDigest <- 0,
       DigestOf <- [k \in Keys |-> k.day]

-----------------------------------------------------------------------------
(* WP and W say the same.                                                      *)

LEMMA Assumptions ==
  WP!DigestOfAssumption /\ WP!WorkersAssumption /\ WP!BoundsAssumption
<1>1. WP!DigestOfAssumption
  BY PipelineAssumption DEF WP!DigestOfAssumption, Keys, Days
<1>2. WP!WorkersAssumption
  BY OutboxAssumption DEF WP!WorkersAssumption, W!WorkersAssumption,
     WP!IsFiniteSet, W!IsFiniteSet
<1>3. WP!BoundsAssumption
  BY OutboxAssumption DEF WP!BoundsAssumption, W!BoundsAssumption
<1> QED
  BY <1>1, <1>2, <1>3

LEMMA SameType == (W!TypeOK <=> WP!TypeOK) /\ (W!TypeOK' <=> WP!TypeOK')
BY DEF WP!TypeOK, W!TypeOK, WP!Rows, W!Rows, WP!Jobs, W!Jobs, WP!Runs, W!Runs,
       WP!RunPc, W!RunPc, WP!RowStatus, W!RowStatus, WP!JobState, W!JobState,
       WP!Ended, W!Ended

LEMMA SameInit == W!Init <=> WP!Init
BY DEF WP!Init, W!Init, WP!NoRow, W!NoRow, WP!NoJob, W!NoJob, WP!Ended, W!Ended

LEMMA SameWorker ==
  ASSUME NEW w \in Workers
  PROVE  /\ W!TakeJob(w) <=> WP!TakeJob(w)
         /\ W!DeliverStep(w) <=> WP!DeliverStep(w)
         /\ W!FaultStep(w) <=> WP!FaultStep(w)
<1> USE DEF W!Goto, WP!Goto, W!At, WP!At, W!IdleRun, WP!IdleRun, W!Ended, WP!Ended,
            W!Fault, WP!Fault, W!Tried, WP!Tried, W!FailedRow, WP!FailedRow,
            W!MarkSent, WP!MarkSent
<1>1. W!TakeJob(w) <=> WP!TakeJob(w)
  BY DEF W!TakeJob, WP!TakeJob
<1>2. W!SettleJob(w) <=> WP!SettleJob(w)
  BY DEF W!SettleJob, WP!SettleJob, W!Completed, WP!Completed, W!Retried, WP!Retried,
         W!AfterThrow, WP!AfterThrow
<1>3. W!SkipSettled(w) <=> WP!SkipSettled(w)
  BY DEF W!SkipSettled, WP!SkipSettled
<1>4. W!ReadPending(w) <=> WP!ReadPending(w)
  BY DEF W!ReadPending, WP!ReadPending
<1>5. W!MarkFailed(w) <=> WP!MarkFailed(w)
  BY DEF W!MarkFailed, WP!MarkFailed
<1>6. W!PostAccepted(w) <=> WP!PostAccepted(w)
  BY DEF W!PostAccepted, WP!PostAccepted
<1>7. W!PostRefused(w) <=> WP!PostRefused(w)
  BY DEF W!PostRefused, WP!PostRefused
<1>8. W!CommitSuccess(w) <=> WP!CommitSuccess(w)
  BY DEF W!CommitSuccess, WP!CommitSuccess
<1>9. W!RecordFailure(w) <=> WP!RecordFailure(w)
  BY DEF W!RecordFailure, WP!RecordFailure
<1>10. W!Crash(w) <=> WP!Crash(w)
  BY DEF W!Crash, WP!Crash
<1>11. W!CommitRejected(w) <=> WP!CommitRejected(w)
  BY DEF W!CommitRejected, WP!CommitRejected
<1>12. W!QueryRejected(w) <=> WP!QueryRejected(w)
  BY DEF W!QueryRejected, WP!QueryRejected
<1>13. W!CommitUnheard(w) <=> WP!CommitUnheard(w)
  BY DEF W!CommitUnheard, WP!CommitUnheard
<1>14. W!UpdateUnheard(w) <=> WP!UpdateUnheard(w)
  BY DEF W!UpdateUnheard, WP!UpdateUnheard
<1> QED
  BY <1>1, <1>2, <1>3, <1>4, <1>5, <1>6, <1>7, <1>8, <1>9, <1>10, <1>11, <1>12, <1>13,
     <1>14
  DEF W!DeliverStep, WP!DeliverStep, W!FaultStep, WP!FaultStep

LEMMA SameConsume == W!Consume <=> WP!Consume
<1>1. ASSUME NEW d \in Keys PROVE W!QueueStep(d) <=> WP!QueueStep(d)
  BY DEF W!QueueStep, WP!QueueStep, W!LoseLock, WP!LoseLock, W!StalledJob, WP!StalledJob,
         W!Stalled, WP!Stalled, W!AfterStall, WP!AfterStall, W!Fault, WP!Fault
<1> QED
  BY <1>1, SameWorker DEF W!Consume, WP!Consume

LEMMA SameInv ==
  (W!DeliveryInv <=> WP!DeliveryInv) /\ (W!DeliveryInv' <=> WP!DeliveryInv')
<1> USE DEF W!RunsInv, WP!RunsInv, W!JobsInv, WP!JobsInv, W!ClaimsAreTrue,
            WP!ClaimsAreTrue, W!SuccessMarksDigest, WP!SuccessMarksDigest,
            W!PendingHasTriesLeft, WP!PendingHasTriesLeft, W!Posted, WP!Posted,
            W!IdleRun, WP!IdleRun, W!DeliveryInv, WP!DeliveryInv
<1>1. W!DeliveryInv <=> WP!DeliveryInv
  BY SameType
<1>2. W!DeliveryInv' <=> WP!DeliveryInv'
  BY SameType
<1> QED
  BY <1>1, <1>2

LEMMA OutboxInit == W!Init => W!DeliveryInv
BY SameInit, SameInv, Assumptions, WP!DeliveryInit
DEF WP!DeliveryInit, WP!DigestOfAssumption, WP!WorkersAssumption, WP!BoundsAssumption

LEMMA OutboxNext ==
  ASSUME W!DeliveryInv, [WP!Next]_(WP!vars)
  PROVE  W!DeliveryInv'
BY SameInv, Assumptions, WP!DeliveryStep
DEF WP!DeliveryStep, WP!DigestOfAssumption, WP!WorkersAssumption, WP!BoundsAssumption

-----------------------------------------------------------------------------
(* Data.                                                                       *)

LEMMA KeyType ==
  /\ \A day \in Days : DigestKey(day) \in Keys /\ DigestKey(day).day = day
  /\ \A day \in Days, r \in Resends :
       ResendKey(day, r) \in Keys /\ ResendKey(day, r).day = day
  /\ \A k \in Keys : k.day \in Days
BY DEF Keys, DigestKey, ResendKey

LEMMA DaysType == 0 \notin Days /\ \A d \in Days : d \in 0..LastDay
BY PipelineAssumption DEF Days

(* The fields of what generate() remembers.                                    *)
LEMMA GenType ==
  ASSUME TypeOK, NEW g \in Generators, gen[g].pc \in {"team", "find", "load", "enqueue"}
  PROVE  /\ gen[g] \in Generating
         /\ gen[g].day \in Days /\ gen[g].firing \in Firings
<1>1. gen[g] \in Generating
  BY DEF TypeOK, Ended, GenerateRuns
<1> QED
  BY <1>1 DEF Generating

-----------------------------------------------------------------------------
(* Every step of the pipeline is a step of the outbox, or only creates a       *)
(* digest without a delivery, or only counts a fault.                          *)

(* A fault of another part leaves the outbox as it is.                         *)
LEMMA FaultKeeps ==
  ASSUME W!DeliveryInv, W!Fault,
         UNCHANGED <<delivery, digestStatus, webhookUrl, job, run, posts>>
  PROVE  W!DeliveryInv'
<1> USE DEF W!DeliveryInv
<1>1. W!TypeOK'
  BY OutboxAssumption DEF W!TypeOK, W!Fault, W!BoundsAssumption
<1>2. W!RunsInv' /\ W!JobsInv'
  BY DEF W!RunsInv, W!JobsInv, W!IdleRun
<1>3. W!ClaimsAreTrue' /\ W!SuccessMarksDigest' /\ W!PendingHasTriesLeft'
  BY DEF W!ClaimsAreTrue, W!SuccessMarksDigest, W!PendingHasTriesLeft, W!Posted
<1> QED
  BY <1>1, <1>2, <1>3

(* A digest of a team without a URL: a row of digests, and no delivery.        *)
LEMMA QuietDigestKeeps ==
  ASSUME W!DeliveryInv, NEW day \in Days, digestStatus[day] = "none",
         digestStatus' = [digestStatus EXCEPT ![day] = "GENERATED"],
         UNCHANGED <<delivery, webhookUrl, job, run, posts, faults>>
  PROVE  W!DeliveryInv'
<1> USE DEF W!DeliveryInv
<1>1. \A d \in Days :
        digestStatus'[d] = IF d = day THEN "GENERATED" ELSE digestStatus[d]
  BY DEF W!TypeOK
<1>2. W!TypeOK'
  BY DEF W!TypeOK
<1>3. W!RunsInv' /\ W!JobsInv'
  BY DEF W!RunsInv, W!JobsInv, W!IdleRun
<1>4. W!ClaimsAreTrue'
  BY <1>1 DEF W!ClaimsAreTrue, W!Posted
<1>5. W!SuccessMarksDigest'
  BY <1>1 DEF W!SuccessMarksDigest
<1>6. W!PendingHasTriesLeft'
  BY DEF W!PendingHasTriesLeft
<1> QED
  BY <1>2, <1>3, <1>4, <1>5, <1>6

(* A row of an existing digest, or of one that is created with it.             *)
LEMMA InsertIsCreate ==
  ASSUME W!TypeOK, NEW k \in Keys, W!InsertDelivery(k),
         \A d \in Days : digestStatus'[d] =
           IF d = k.day /\ digestStatus[d] = "none" THEN "GENERATED" ELSE digestStatus[d],
         digestStatus' = [d \in Days |-> digestStatus'[d]],
         UNCHANGED <<webhookUrl, job, run, posts, faults>>
  PROVE  WP!Next
<1>1. WP!CreateDelivery(k)
  BY DEF W!InsertDelivery, WP!InsertDelivery, WP!CreateDelivery
<1> QED
  BY <1>1 DEF WP!Next

LEMMA AddIsEnqueue ==
  ASSUME NEW k \in Keys, delivery[k].status # "none", W!AddJob(k),
         UNCHANGED <<delivery, digestStatus, webhookUrl, run, posts, faults>>
  PROVE  WP!Next
<1>1. WP!EnqueueDelivery(k)
  BY DEF W!AddJob, WP!AddJob, WP!EnqueueDelivery
<1> QED
  BY <1>1 DEF WP!Next

QuietDigest(day) ==
  /\ digestStatus[day] = "none"
  /\ digestStatus' = [digestStatus EXCEPT ![day] = "GENERATED"]
  /\ UNCHANGED <<delivery, webhookUrl, job, run, posts, faults>>
FaultElsewhere ==
  W!Fault /\ UNCHANGED <<delivery, digestStatus, webhookUrl, job, run, posts>>

LEMMA OutboxKinds ==
  ASSUME PipelineInv, [Next]_vars
  PROVE  [WP!Next]_(WP!vars) \/ (\E day \in Days : QuietDigest(day)) \/ FaultElsewhere
<1> DEFINE Kinds ==
      [WP!Next]_(WP!vars) \/ (\E day \in Days : QuietDigest(day)) \/ FaultElsewhere
<1> USE DEF PipelineInv
<1>a. W!TypeOK /\ digestStatus \in [Days -> {"none", "GENERATED", "SENT"}]
  BY DEF W!DeliveryInv, W!TypeOK
<1>1. CASE UNCHANGED outbox
  BY <1>1 DEF outbox, WP!vars
<1>2. CASE W!Fault /\ UNCHANGED <<delivery, digestStatus, webhookUrl, job, run, posts>>
  BY <1>2 DEF FaultElsewhere
<1>3. CASE ChangeUrl
  BY <1>3 DEF ChangeUrl, W!SetWebhookUrl, WP!SetWebhookUrl, WP!Next
<1>4. CASE Deliver
  BY <1>4, SameConsume DEF Deliver, WP!Next
<1>5. ASSUME NEW g \in Generators, CommitDigest(g) PROVE Kinds
  <2> DEFINE day == gen[g].day
  <2>1. day \in Days
    BY <1>5, GenType DEF CommitDigest, Loaded, At
  <2>2. /\ digestStatus[day] = "none"
        /\ digestStatus' = [digestStatus EXCEPT ![day] = "GENERATED"]
        /\ UNCHANGED <<webhookUrl, job, run, posts, faults>>
    BY <1>5, <2>1 DEF CommitDigest, LedgersAgree
  <2>3. CASE gen[g].url
    <3>1. W!InsertDelivery(DigestKey(day))
      BY <1>5, <2>3 DEF CommitDigest
    <3>2. DigestKey(day) \in Keys /\ DigestKey(day).day = day
      BY <2>1, KeyType
    <3>3. \A d \in Days : digestStatus'[d] =
            IF d = day /\ digestStatus[d] = "none" THEN "GENERATED" ELSE digestStatus[d]
      BY <1>a, <2>1, <2>2
    <3>4. digestStatus' = [d \in Days |-> digestStatus'[d]]
      BY <1>a, <2>2
    <3> QED
      BY <1>a, <2>2, <3>1, <3>2, <3>3, <3>4, InsertIsCreate
  <2>4. CASE ~gen[g].url
    BY <1>5, <2>1, <2>2, <2>4 DEF CommitDigest, QuietDigest
  <2> QED
    BY <2>3, <2>4
<1>6. ASSUME NEW g \in Generators, EnqueueDigest(g) PROVE Kinds
  <2>1. gen[g].day \in Days
    BY <1>6, GenType DEF EnqueueDigest, At
  <2>2. DigestKey(gen[g].day) \in Keys /\ delivery[DigestKey(gen[g].day)].status # "none"
    BY <1>6, <2>1, KeyType DEF EnqueueDigest, ProducersInv
  <2> QED
    BY <1>6, <2>2, AddIsEnqueue DEF EnqueueDigest
<1>7. ASSUME NEW r \in Resends, ResendDigest(r) PROVE Kinds
  <2> DEFINE day == resend[r].day
  <2>1. day \in Days
    BY <1>7 DEF ResendDigest, ProducersInv
  <2>2. ResendKey(day, r) \in Keys /\ ResendKey(day, r).day = day
    BY <2>1, KeyType
  <2>3. digestStatus[day] # "none"
    BY <1>7, <2>1 DEF ResendDigest, LedgersAgree
  <2>4. /\ W!InsertDelivery(ResendKey(day, r))
        /\ UNCHANGED <<digestStatus, webhookUrl, job, run, posts, faults>>
    BY <1>7 DEF ResendDigest
  <2>5. digestStatus' = [d \in Days |-> digestStatus'[d]]
    BY <1>a, <2>4
  <2> QED
    BY <1>a, <2>2, <2>3, <2>4, <2>5, InsertIsCreate
<1>8. ASSUME NEW r \in Resends, EnqueueResend(r) PROVE Kinds
  <2>1. resend[r].day \in Days
    BY <1>8, DaysType DEF EnqueueResend, ProducersInv
  <2>2. /\ ResendKey(resend[r].day, r) \in Keys
        /\ delivery[ResendKey(resend[r].day, r)].status # "none"
    BY <1>8, <2>1, KeyType DEF EnqueueResend, ProducersInv
  <2> QED
    BY <1>8, <2>2, AddIsEnqueue DEF EnqueueResend
<1>9. CASE Environment
  BY <1>1, <1>2, <1>3, <1>9
  DEF Environment, Submit, InsertStandup, SubmitRejected, ChangeMembers, ChangeTeam,
      ReachDeadline, PassDeadline, NextDay, MoveDeadline
<1>10. CASE Generate
  <2>1. ASSUME NEW g \in Generators,
               ReadTeam(g) \/ FindDigest(g) \/ LoadMembers(g) \/ LoadStandups(g)
               \/ CommitConflict(g) \/ SettleDigestJob(g) \/ TakeDigestJob(g)
        PROVE  Kinds
    BY <1>1, <2>1 DEF ReadTeam, FindDigest, LoadMembers, LoadStandups, CommitConflict,
       SettleDigestJob, TakeDigestJob
  <2>2. ASSUME NEW g \in Generators, CrashGenerator(g) \/ GenerateRejected(g) PROVE Kinds
    BY <1>2, <2>2 DEF CrashGenerator, GenerateRejected
  <2>3. ASSUME NEW f \in Firings, LoseDigestLock(f) \/ StalledDigestJob(f) PROVE Kinds
    BY <1>1, <1>2, <2>3 DEF LoseDigestLock, StalledDigestJob
  <2>4. ASSUME NEW g \in Generators, GenerateStep(g) PROVE Kinds
    <3>1. CASE CommitDigest(g)
      BY <1>5, <3>1
    <3>2. CASE EnqueueDigest(g)
      BY <1>6, <3>2
    <3>3. CASE ~CommitDigest(g) /\ ~EnqueueDigest(g)
      BY <2>1, <2>4, <3>3 DEF GenerateStep
    <3> QED
      BY <3>1, <3>2, <3>3
  <2>5. ASSUME NEW g \in Generators,
               TakeDigestJob(g) \/ GenerateStep(g) \/ CrashGenerator(g) \/ GenerateRejected(g)
        PROVE  Kinds
    <3>1. CASE TakeDigestJob(g)
      BY <2>1, <3>1
    <3>2. CASE GenerateStep(g)
      BY <2>4, <3>2
    <3>3. CASE CrashGenerator(g) \/ GenerateRejected(g)
      BY <2>2, <3>3
    <3> QED
      BY <2>5, <3>1, <3>2, <3>3
  <2>6. CASE \E g \in Generators :
               TakeDigestJob(g) \/ GenerateStep(g) \/ CrashGenerator(g) \/ GenerateRejected(g)
    BY <2>5, <2>6
  <2>7. CASE \E f \in Firings : LoseDigestLock(f) \/ StalledDigestJob(f)
    BY <2>3, <2>7
  <2> QED
    BY <1>10, <2>6, <2>7 DEF Generate
<1>11. CASE Resend
  BY <1>1, <1>2, <1>7, <1>8, <1>11
  DEF Resend, ResendStep, ReadForResend, ResendNothing, ResendRejected
<1>12. CASE UNCHANGED vars
  BY <1>1, <1>12 DEF vars
<1> QED
  BY <1>4, <1>9, <1>10, <1>11, <1>12 DEF Next

LEMMA OutboxStep ==
  ASSUME PipelineInv, [Next]_vars
  PROVE  W!DeliveryInv'
BY OutboxKinds, OutboxNext, QuietDigestKeeps, FaultKeeps
DEF PipelineInv, QuietDigest, FaultElsewhere

-----------------------------------------------------------------------------
(* Types.                                                                      *)

LEMMA TypeInit == Init => TypeOK
<1> SUFFICES ASSUME Init PROVE TypeOK
  OBVIOUS
<1>1. W!TypeOK
  BY OutboxInit DEF Init, W!DeliveryInv
<1>2. /\ 1 \in Days /\ 0 \in 0..MaxChanges /\ 0 \in 0..LastDay
  BY PipelineAssumption DEF Days
<1>3. NoDigestJob \in DigestJobs /\ Ended \in GenerateRuns
  BY DEF NoDigestJob, DigestJobs, GenerateRuns, W!JobState
<1> QED
  BY <1>1, <1>2, <1>3 DEF Init, TypeOK, Submission, NoResend

(* Moving generate() on, or ending it.                                         *)
LEMMA GotoType ==
  ASSUME TypeOK, NEW g \in Generators,
         gen[g].pc \in {"team", "find", "load", "enqueue"},
         \/ \E pc \in {"find", "load", "enqueue"} : Goto(g, pc)
         \/ End(g, "returned") \/ End(g, "threw")
  PROVE  gen' \in [Generators -> GenerateRuns]
<1>1. CASE \E pc \in {"find", "load", "enqueue"} : Goto(g, pc)
  <2> PICK pc \in {"find", "load", "enqueue"} : Goto(g, pc)
    BY <1>1
  <2>1. [gen[g] EXCEPT !.pc = pc] \in GenerateRuns
    BY GenType DEF GenerateRuns, Generating
  <2> QED
    BY <2>1 DEF Goto, TypeOK
<1>2. ASSUME NEW how \in {"returned", "threw"}, End(g, how)
      PROVE  gen' \in [Generators -> GenerateRuns]
  <2>1. [pc |-> how, firing |-> gen[g].firing] \in GenerateRuns
    BY GenType DEF GenerateRuns
  <2> QED
    BY <1>2, <2>1 DEF End, TypeOK
<1> QED
  BY <1>1, <1>2

(* The fields of a digest job.                                                 *)
LEMMA DigestJobType ==
  ASSUME NEW j \in DigestJobs, NEW owner \in Generators \union {NoGenerator},
         NEW state \in {"waiting", "active", "completed", "failed"}
  PROVE  /\ [j EXCEPT !.state = state] \in DigestJobs
         /\ [j EXCEPT !.owner = owner] \in DigestJobs
         /\ [j EXCEPT !.state = state, !.owner = owner] \in DigestJobs
         /\ [j EXCEPT !.stalled = j.stalled + 1, !.state = state] \in DigestJobs
<1> USE DEF DigestJobs, W!JobState
<1>1. [j EXCEPT !.state = state] \in DigestJobs
  OBVIOUS
<1>2. [j EXCEPT !.owner = owner] \in DigestJobs
  OBVIOUS
<1>3. [j EXCEPT !.state = state, !.owner = owner] \in DigestJobs
  OBVIOUS
<1>4. [j EXCEPT !.stalled = j.stalled + 1, !.state = state] \in DigestJobs
  <2>1. j.stalled + 1 \in Nat
    OBVIOUS
  <2> QED
    BY <2>1
<1> QED
  BY <1>1, <1>2, <1>3, <1>4

(* What a step of generate() changes in what it remembers.                     *)
LEMMA ReadType ==
  ASSUME NEW x \in Generating, NEW url \in BOOLEAN
  PROVE  [x EXCEPT !.pc = "find", !.url = url] \in Generating
BY DEF Generating

LEMMA LoadType ==
  ASSUME NEW x \in Generating, NEW m \in SUBSET Users, NEW s \in [Users -> Submission],
         NEW done
  PROVE  /\ [x EXCEPT !.members = m, !.todo = x.todo \ {done}] \in Generating
         /\ [x EXCEPT !.standups = s, !.todo = x.todo \ {done}] \in Generating
<1>1. x.todo \ {done} \in SUBSET {"members", "standups"}
  BY DEF Generating
<1> DEFINE todo == x.todo \ {done}
<1> HIDE DEF todo
<1>2. todo \in SUBSET {"members", "standups"}
  BY <1>1 DEF todo
<1>3. [x EXCEPT !.members = m, !.todo = todo] \in Generating
  BY <1>2 DEF Generating
<1>4. [x EXCEPT !.standups = s, !.todo = todo] \in Generating
  BY <1>2 DEF Generating
<1> QED
  BY <1>3, <1>4 DEF todo

(* A digest's content and its statistics are of members and standups.          *)
LEMMA CommittedType ==
  ASSUME TypeOK, NEW g \in Generators, At(g, "load")
  PROVE  /\ Content(gen[g].members, gen[g].standups) \in Contents
         /\ Stat(gen[g].members, gen[g].standups) \in Stats
BY GenType DEF At, Contents, Stats, Generating

LEMMA TypeStep ==
  ASSUME PipelineInv, [Next]_vars
  PROVE  TypeOK'
<1> USE DEF PipelineInv
<1>a. W!TypeOK'
  BY OutboxStep DEF W!DeliveryInv
<1>1. CASE Environment
  <2>1. ASSUME NEW u \in Users, Submit(u) PROVE TypeOK'
    BY <1>a, <2>1 DEF Submit, TypeOK
  <2>2. ASSUME NEW u \in Users, InsertStandup(u) PROVE TypeOK'
    <3>1. draft[u].day \in Days
      BY <2>2 DEF InsertStandup, TypeOK, NoDraft
    <3>2. Moment(draft[u]) \in Submission
      BY DEF Moment, Submission
    <3>3. standup' \in [Days -> [Users -> Submission]]
      BY <2>2, <3>1, <3>2 DEF InsertStandup, TypeOK
    <3> QED
      BY <1>a, <2>2, <3>3 DEF InsertStandup, TypeOK
  <2>3. ASSUME NEW u \in Users, SubmitRejected(u) PROVE TypeOK'
    BY <1>a, <2>3 DEF SubmitRejected, TypeOK
  <2>4. CASE ChangeMembers \/ ChangeTeam \/ ChangeUrl
    <3>1. changes' \in 0..MaxChanges
      BY <2>4, PipelineAssumption DEF ChangeMembers, ChangeTeam, ChangeUrl, Change, TypeOK
    <3> QED
      BY <1>a, <2>4, <3>1 DEF ChangeMembers, ChangeTeam, ChangeUrl, W!SetWebhookUrl, TypeOK
  <2>5. CASE ReachDeadline
    <3>1. /\ now' \in [day : Days, phase : {"before", "deadline", "after"}]
          /\ UNCHANGED <<outbox, team, members, changes, draft, standup, digest, stat,
                         gen, resend>>
      BY <2>5 DEF ReachDeadline, TypeOK
    <3>2. digestJob' \in [Firings -> DigestJobs]
      <4>1. ASSUME NEW f \in Firings, digestJob' = [digestJob EXCEPT ![f].state = "waiting"]
            PROVE  digestJob' \in [Firings -> DigestJobs]
        <5>1. [digestJob[f] EXCEPT !.state = "waiting"] \in DigestJobs
          BY DEF DigestJobs, W!JobState, TypeOK
        <5> QED
          BY <4>1, <5>1 DEF TypeOK
      <4> QED
        BY <2>5, <4>1 DEF ReachDeadline, TypeOK
    <3> QED
      BY <1>a, <3>1, <3>2 DEF TypeOK
  <2>6. CASE PassDeadline \/ NextDay \/ MoveDeadline
    <3>1. now' \in [day : Days, phase : {"before", "deadline", "after"}]
      BY SMTT(30), <2>6, PipelineAssumption DEF PassDeadline, NextDay, MoveDeadline, TypeOK, Days
    <3> QED
      BY <1>a, <2>6, <3>1 DEF PassDeadline, NextDay, MoveDeadline, TypeOK
  <2> QED
    BY <1>1, <2>1, <2>2, <2>3, <2>4, <2>5, <2>6 DEF Environment
<1>2. CASE Generate
  <2> USE DEF setting, outbox
  <2>1. ASSUME NEW g \in Generators, TakeDigestJob(g) PROVE TypeOK'
    <3> PICK f \in Firings :
          /\ digestJob' = [digestJob EXCEPT ![f].state = "active", ![f].owner = g]
          /\ gen' = [gen EXCEPT ![g] = Started(f)]
          /\ UNCHANGED <<outbox, setting, digest, stat, resend>>
      BY <2>1 DEF TakeDigestJob
    <3>1. Started(f) \in GenerateRuns
      BY DEF Started, Today, Submission, TypeOK, GenerateRuns, Generating
    <3>2. [digestJob[f] EXCEPT !.state = "active", !.owner = g] \in DigestJobs
      BY DigestJobType DEF TypeOK
    <3>3. \A e \in Firings : digestJob'[e] =
            IF e = f THEN [digestJob[f] EXCEPT !.state = "active", !.owner = g]
                     ELSE digestJob[e]
      BY DEF TypeOK, DigestJobs
    <3>4. digestJob' \in [Firings -> DigestJobs]
      BY <3>2, <3>3 DEF TypeOK
    <3> QED
      BY <1>a, <3>1, <3>4 DEF TypeOK
  <2>2. ASSUME NEW g \in Generators,
               \/ ReadTeam(g) \/ FindDigest(g) \/ CommitConflict(g) \/ EnqueueDigest(g)
               \/ GenerateRejected(g)
        PROVE  TypeOK'
    <3>1. /\ gen[g].pc \in {"team", "find", "load", "enqueue"}
          /\ UNCHANGED <<setting, digest, stat, digestJob, resend>>
      BY <2>2 DEF ReadTeam, FindDigest, CommitConflict, EnqueueDigest, GenerateRejected,
                  Loaded, At
    <3>2. \/ \E pc \in {"find", "load", "enqueue"} : Goto(g, pc)
          \/ End(g, "returned") \/ End(g, "threw")
          \/ gen' = [gen EXCEPT ![g].pc = "find", ![g].url = webhookUrl]
      BY <2>2 DEF ReadTeam, FindDigest, CommitConflict, EnqueueDigest, GenerateRejected
    <3>3. ASSUME gen' = [gen EXCEPT ![g].pc = "find", ![g].url = webhookUrl]
          PROVE  gen' \in [Generators -> GenerateRuns]
      <4>1. gen[g] \in Generating /\ webhookUrl \in BOOLEAN
        BY <3>1, GenType DEF TypeOK, W!TypeOK
      <4> DEFINE read == [gen[g] EXCEPT !.pc = "find", !.url = webhookUrl]
      <4>2. gen' = [gen EXCEPT ![g] = read]
        BY <3>3, <4>1 DEF TypeOK, Generating
      <4>3. read \in GenerateRuns
        BY <4>1, ReadType DEF GenerateRuns
      <4>4. gen \in [Generators -> GenerateRuns]
        BY DEF TypeOK
      <4> HIDE DEF read, PipelineInv
      <4> QED
        BY <4>2, <4>3, <4>4
    <3>4. gen' \in [Generators -> GenerateRuns]
      BY <3>1, <3>2, <3>3, GotoType
    <3> QED
      BY <1>a, <3>1, <3>4 DEF TypeOK
  <2>3. ASSUME NEW g \in Generators, LoadMembers(g) \/ LoadStandups(g) PROVE TypeOK'
    <3>1. /\ gen[g].pc = "load"
          /\ UNCHANGED <<setting, digest, stat, digestJob, resend>>
      BY <2>3 DEF LoadMembers, LoadStandups, At
    <3>2. members \in SUBSET Users /\ standup[gen[g].day] \in [Users -> Submission]
      BY <3>1, GenType DEF TypeOK
    <3>3. PICK run2 \in Generating : gen' = [gen EXCEPT ![g] = run2]
      <4>1. CASE LoadMembers(g)
        <5>1. [gen[g] EXCEPT !.members = members, !.todo = @ \ {"members"}] \in Generating
          BY <3>1, <3>2, GenType, LoadType
        <5>2. gen' = [gen EXCEPT ![g] =
                [gen[g] EXCEPT !.members = members, !.todo = @ \ {"members"}]]
          BY <3>1, <4>1, GenType DEF LoadMembers, TypeOK
        <5> QED
          BY <5>1, <5>2
      <4>2. CASE LoadStandups(g)
        <5>1. [gen[g] EXCEPT !.standups = standup[gen[g].day], !.todo = @ \ {"standups"}]
                \in Generating
          BY <3>1, <3>2, GenType, LoadType
        <5>2. gen' = [gen EXCEPT ![g] = [gen[g] EXCEPT
                !.standups = standup[gen[g].day], !.todo = @ \ {"standups"}]]
          BY <3>1, <4>2, GenType DEF LoadStandups, TypeOK
        <5> QED
          BY <5>1, <5>2
      <4> QED
        BY <2>3, <4>1, <4>2
    <3> QED
      BY <1>a, <3>1, <3>3 DEF TypeOK, GenerateRuns
  <2>4. ASSUME NEW g \in Generators, CommitDigest(g) PROVE TypeOK'
    <3>1. At(g, "load")
      BY <2>4 DEF CommitDigest, Loaded
    <3>2. digest' \in [Days -> Contents \union {NoContent}]
      BY <2>4, <3>1, CommittedType DEF CommitDigest, TypeOK
    <3>3. stat' \in [Days -> Stats \union {NoStat}]
      BY <2>4, <3>1, CommittedType DEF CommitDigest, TypeOK
    <3>4. Goto(g, "enqueue") \/ End(g, "returned")
      BY <2>4 DEF CommitDigest
    <3>5. UNCHANGED <<setting, digestJob, resend>>
      BY <2>4 DEF CommitDigest
    <3> QED
      BY <1>a, <3>1, <3>2, <3>3, <3>4, <3>5, GotoType DEF TypeOK, At
  <2>5. ASSUME NEW g \in Generators, SettleDigestJob(g) \/ CrashGenerator(g)
        PROVE  TypeOK'
    <3>1. digestJob' \in [Firings -> DigestJobs]
      <4>1. CASE SettleDigestJob(g) /\ digestJob' # digestJob
        <5> DEFINE f == gen[g].firing
                   state == IF gen[g].pc = "returned" THEN "completed" ELSE "failed"
                   settled == [digestJob[f] EXCEPT !.state = state, !.owner = NoGenerator]
        <5>1. f \in Firings
          BY <4>1 DEF SettleDigestJob, TypeOK, GenerateRuns, Generating, Ended
        <5>2. settled \in DigestJobs
          BY <5>1, DigestJobType DEF TypeOK
        <5>3. \A e \in Firings :
                digestJob'[e] = IF e = f THEN settled ELSE digestJob[e]
          BY <4>1, <5>1 DEF SettleDigestJob, TypeOK, DigestJobs
        <5>4. digestJob' = [e \in Firings |-> digestJob'[e]]
          BY <4>1 DEF SettleDigestJob, TypeOK
        <5> HIDE DEF settled
        <5> QED
          BY <5>2, <5>3, <5>4 DEF TypeOK
      <4>2. CASE CrashGenerator(g)
        <5>1. \A e \in Firings : [digestJob[e] EXCEPT !.owner = NoGenerator] \in DigestJobs
          BY SMTT(30) DEF TypeOK, DigestJobs
        <5> QED
          BY <4>2, <5>1 DEF CrashGenerator, TypeOK
      <4>3. CASE digestJob' = digestJob
        BY <4>3 DEF TypeOK
      <4> QED
        BY <2>5, <4>1, <4>2, <4>3
    <3>2. gen' = [gen EXCEPT ![g] = Ended] /\ UNCHANGED <<setting, digest, stat, resend>>
      BY <2>5 DEF SettleDigestJob, CrashGenerator
    <3> QED
      BY <1>a, <3>1, <3>2 DEF TypeOK, GenerateRuns
  <2>6. ASSUME NEW f \in Firings, LoseDigestLock(f) \/ StalledDigestJob(f) PROVE TypeOK'
    <3>1. PICK j \in DigestJobs : digestJob' = [digestJob EXCEPT ![f] = j]
      <4>1. CASE LoseDigestLock(f)
        BY <4>1, DigestJobType DEF LoseDigestLock, TypeOK
      <4>2. CASE StalledDigestJob(f)
        <5> DEFINE state == IF digestJob[f].stalled < MaxStalled THEN "waiting" ELSE "failed"
        <5>1. [digestJob[f] EXCEPT !.stalled = digestJob[f].stalled + 1, !.state = state]
                \in DigestJobs
          BY DigestJobType DEF TypeOK
        <5>2. digestJob' = [digestJob EXCEPT ![f] =
                [digestJob[f] EXCEPT !.stalled = digestJob[f].stalled + 1, !.state = state]]
          BY <4>2 DEF StalledDigestJob, TypeOK, DigestJobs
        <5> QED
          BY <5>1, <5>2
      <4> QED
        BY <2>6, <4>1, <4>2
    <3>2. UNCHANGED <<setting, digest, stat, gen, resend>>
      BY <2>6 DEF LoseDigestLock, StalledDigestJob
    <3>3. UNCHANGED <<now, team, members, changes, draft, standup, digest, stat, gen, resend>>
      BY <3>2 DEF setting
    <3> QED
      BY <1>a, <3>1, <3>3 DEF TypeOK
  <2> QED
    BY <1>2, <2>1, <2>2, <2>3, <2>4, <2>5, <2>6 DEF Generate, GenerateStep
<1>3. CASE Resend
  <2>1. ASSUME NEW r \in Resends, ReadForResend(r) PROVE TypeOK'
    BY <1>a, <2>1, DaysType DEF ReadForResend, setting, TypeOK
  <2>2. ASSUME NEW r \in Resends, ResendStep(r) \/ ResendRejected(r) PROVE TypeOK'
    <3>1. /\ \E pc \in {"enqueue", "done"} : resend' = [resend EXCEPT ![r].pc = pc]
          /\ UNCHANGED <<setting, digest, stat, digestJob, gen>>
      BY <2>2 DEF ResendStep, ResendDigest, ResendNothing, EnqueueResend, ResendRejected
    <3>2. resend' \in [Resends -> [pc : {"idle", "find", "enqueue", "done"}, day : 0..LastDay]]
      BY <3>1 DEF TypeOK
    <3>3. UNCHANGED <<now, team, members, changes, draft, standup, digest, stat, digestJob, gen>>
      BY <3>1 DEF setting
    <3> QED
      BY <1>a, <3>2, <3>3 DEF TypeOK
  <2> QED
    BY <1>3, <2>1, <2>2 DEF Resend
<1>4. CASE Deliver \/ UNCHANGED vars
  BY <1>a, <1>4 DEF Deliver, OutboxOnly, vars, setting, TypeOK
<1> QED
  BY <1>1, <1>2, <1>3, <1>4 DEF Next

-----------------------------------------------------------------------------
(* The ledgers.                                                                *)

LEMMA Numbers ==
  ASSUME NEW m \in SUBSET Users, NEW s \in [Users -> Submission]
  PROVE  /\ Content(m, s) # NoContent /\ Stat(m, s) # NoStat
         /\ Stat(m, s).submittedCount = Cardinality(Content(m, s).submitted)
         /\ Stat(m, s).missingCount = Content(m, s).missingCount
         /\ Stat(m, s).lateCount = Cardinality(Content(m, s).late)
         /\ Content(m, s).missingCount <= Cardinality(Content(m, s).missing)
<1>1. Content(m, s) # NoContent /\ Stat(m, s) # NoStat
  BY DEF Content, Stat, NoContent, NoStat
<1>2. IsFiniteSet(m) /\ IsFiniteSet(Submitters(s))
  BY PipelineAssumption, FS_Subset DEF Submitters
<1>3. IsFiniteSet(m \ Submitters(s)) /\ IsFiniteSet(m \intersect Submitters(s))
  BY <1>2, FS_Subset
<1>4. Cardinality(m \ Submitters(s)) =
        Cardinality(m) - Cardinality(m \intersect Submitters(s))
  BY <1>2, FS_Difference
<1>5. Cardinality(m \intersect Submitters(s)) <= Cardinality(Submitters(s))
  BY <1>2, FS_Subset
<1>6. /\ Cardinality(m) \in Nat /\ Cardinality(Submitters(s)) \in Nat
      /\ Cardinality(m \intersect Submitters(s)) \in Nat
  BY <1>2, <1>3, FS_CardinalityType
<1>7. Cardinality(m) - Cardinality(Submitters(s)) <= Cardinality(m \ Submitters(s))
  BY <1>4, <1>5, <1>6
<1> QED
  BY <1>1, <1>7 DEF Content, Stat

(* What a step of the consumer does to the rows, the digests and the posts.    *)
ShownStep(k) ==
  /\ posts' = [posts EXCEPT ![k] = @ + 1]
  /\ UNCHANGED <<delivery, digestStatus>>
SentStep(k) ==
  /\ posts[k] > 0
  /\ digestStatus' = [d \in Days |-> IF d = k.day THEN "SENT" ELSE digestStatus[d]]
  /\ UNCHANGED posts

LEMMA ConsumeKinds ==
  ASSUME PipelineInv, W!Consume
  PROVE  /\ \A k \in Keys : delivery'[k].status = "none" <=> delivery[k].status = "none"
         /\ \/ UNCHANGED <<digestStatus, posts>>
            \/ \E k \in Keys : delivery[k].status # "none" /\ (ShownStep(k) \/ SentStep(k))
<1> USE DEF PipelineInv, W!DeliveryInv
<1>a. \A w \in Workers : ~W!IdleRun(w) =>
        /\ run[w].delivery \in Keys /\ run[w].attempts \in Nat
        /\ delivery[run[w].delivery].status # "none"
  BY DEF W!TypeOK, W!Runs, W!Ended, W!IdleRun, W!RunsInv
<1>b. DOMAIN delivery = Keys
  BY DEF W!TypeOK
<1>1. ASSUME NEW w \in Workers,
             \/ W!TakeJob(w) \/ W!SkipSettled(w) \/ W!ReadPending(w) \/ W!PostRefused(w)
             \/ W!CommitRejected(w) \/ W!QueryRejected(w) \/ W!Crash(w) \/ W!SettleJob(w)
      PROVE  UNCHANGED <<delivery, digestStatus, posts>>
  BY <1>1 DEF W!TakeJob, W!SkipSettled, W!ReadPending, W!PostRefused, W!CommitRejected,
              W!QueryRejected, W!Crash, W!SettleJob
<1>2. ASSUME NEW d \in Keys, W!QueueStep(d)
      PROVE  UNCHANGED <<delivery, digestStatus, posts>>
  BY <1>2 DEF W!QueueStep, W!LoseLock, W!StalledJob
<1>3. ASSUME NEW w \in Workers, W!MarkFailed(w) \/ W!RecordFailure(w) \/ W!UpdateUnheard(w)
      PROVE  /\ UNCHANGED <<digestStatus, posts>>
             /\ \A k \in Keys : delivery'[k].status = "none" <=> delivery[k].status = "none"
  <2>1. /\ UNCHANGED <<digestStatus, posts>>
        /\ run[w].delivery \in Keys /\ delivery[run[w].delivery].status # "none"
    BY <1>3, <1>a DEF W!MarkFailed, W!RecordFailure, W!UpdateUnheard, W!At, W!IdleRun
  <2>2. \A k \in Keys :
          \/ delivery'[k] = delivery[k]
          \/ /\ k = run[w].delivery
             /\ \/ delivery'[k] = W!Tried(delivery[k], "FAILED")
                \/ delivery'[k] = W!FailedRow(delivery[k], run[w].attempts + 1)
    <3>1. CASE W!MarkFailed(w)
      BY <1>b, <3>1 DEF W!MarkFailed
    <3>2. CASE W!RecordFailure(w)
      BY <1>b, <3>2 DEF W!RecordFailure
    <3>3. CASE W!UpdateUnheard(w)
      BY <1>b, <3>3 DEF W!UpdateUnheard
    <3> QED
      BY <1>3, <3>1, <3>2, <3>3
  <2>3. \A k \in Keys :
          /\ W!Tried(delivery[k], "FAILED").status = "FAILED"
          /\ W!FailedRow(delivery[k], run[w].attempts + 1).status
               \in {"FAILED", delivery[k].status}
    BY DEF W!Tried, W!FailedRow
  <2>4. \A k \in Keys :
          \/ delivery'[k].status = delivery[k].status
          \/ k = run[w].delivery /\ delivery'[k].status = "FAILED"
    BY <2>2, <2>3
  <2> QED
    BY <2>1, <2>4
<1>4. ASSUME NEW w \in Workers, W!PostAccepted(w)
      PROVE  \E k \in Keys : delivery[k].status # "none" /\ ShownStep(k)
  BY <1>4, <1>a DEF W!PostAccepted, W!At, W!IdleRun, ShownStep
<1>5. ASSUME NEW w \in Workers, W!CommitSuccess(w) \/ W!CommitUnheard(w)
      PROVE  /\ \E k \in Keys : delivery[k].status # "none" /\ SentStep(k)
             /\ \A k \in Keys : delivery'[k].status = "none" <=> delivery[k].status = "none"
  <2>1. run[w].delivery \in Keys /\ posts[run[w].delivery] > 0
    BY <1>5, <1>a DEF W!CommitSuccess, W!CommitUnheard, W!At, W!IdleRun, W!RunsInv
  <2>2. SentStep(run[w].delivery)
    BY <1>5, <2>1 DEF SentStep, W!CommitSuccess, W!CommitUnheard, W!MarkSent
  <2> QED
    BY <1>5, <1>a, <1>b, <2>1, <2>2
    DEF W!CommitSuccess, W!CommitUnheard, W!At, W!IdleRun, W!Tried
<1>6. ASSUME NEW k \in Keys, ShownStep(k) PROVE UNCHANGED delivery
  BY <1>6 DEF ShownStep
<1> QED
  BY <1>1, <1>2, <1>3, <1>4, <1>5, <1>6 DEF W!Consume, W!DeliverStep, W!FaultStep

(* A step that writes no row, no digest and no statistics.                     *)
LEMMA LedgersFrame ==
  ASSUME LedgersAgree, UNCHANGED <<digest, stat>>,
         \A d \in Days : digestStatus'[d] = "none" <=> digestStatus[d] = "none",
         \A k \in Keys : delivery'[k].status = "none" <=> delivery[k].status = "none"
  PROVE  LedgersAgree'
BY DEF LedgersAgree

LEMMA LedgersStep ==
  ASSUME PipelineInv, [Next]_vars
  PROVE  LedgersAgree'
<1> USE DEF PipelineInv
<1>a. DOMAIN delivery = Keys /\ DOMAIN digest = Days /\ DOMAIN stat = Days
      /\ DOMAIN digestStatus = Days
  BY DEF W!DeliveryInv, W!TypeOK, TypeOK
<1>1. ASSUME UNCHANGED <<digest, stat, digestStatus, delivery>> PROVE LedgersAgree'
  BY <1>1, LedgersFrame
<1>2. ASSUME NEW g \in Generators, CommitDigest(g) PROVE LedgersAgree'
  <2> DEFINE day == gen[g].day
             content == Content(gen[g].members, gen[g].standups)
             numbers == Stat(gen[g].members, gen[g].standups)
  <2>1. /\ day \in Days /\ gen[g].members \in SUBSET Users
        /\ gen[g].standups \in [Users -> Submission]
    BY <1>2, GenType DEF CommitDigest, Loaded, At, Generating
  <2>2. /\ content # NoContent /\ numbers # NoStat
        /\ numbers.submittedCount = Cardinality(content.submitted)
        /\ numbers.missingCount = content.missingCount
        /\ numbers.lateCount = Cardinality(content.late)
        /\ content.missingCount <= Cardinality(content.missing)
    BY <2>1, Numbers
  <2>3. /\ digest' = [digest EXCEPT ![day] = content]
        /\ digestStatus' = [digestStatus EXCEPT ![day] = "GENERATED"]
        /\ stat' = [stat EXCEPT ![day] = numbers]
    BY <1>2 DEF CommitDigest
  <2>4. \A k \in Keys : delivery'[k].status # "none" =>
          k.day = day \/ delivery[k].status # "none"
    BY <1>2, <1>a, <2>1, KeyType DEF CommitDigest, W!InsertDelivery
  <2> HIDE DEF day, content, numbers
  <2>5. ASSUME NEW d \in Days
        PROVE  /\ digest'[d] = IF d = day THEN content ELSE digest[d]
               /\ stat'[d] = IF d = day THEN numbers ELSE stat[d]
               /\ digestStatus'[d] = IF d = day THEN "GENERATED" ELSE digestStatus[d]
    BY <1>a, <2>1, <2>3
  <2> QED
    BY <2>2, <2>4, <2>5 DEF LedgersAgree
<1>3. ASSUME NEW r \in Resends, ResendDigest(r) PROVE LedgersAgree'
  <2>1. /\ resend[r].day \in Days /\ digest[resend[r].day] # NoContent
        /\ UNCHANGED <<digestStatus, digest, stat>>
    BY <1>3 DEF ResendDigest, ProducersInv, setting
  <2>2. \A k \in Keys : delivery'[k].status # "none" =>
          k.day = resend[r].day \/ delivery[k].status # "none"
    BY <1>3, <1>a, <2>1, KeyType DEF ResendDigest, W!InsertDelivery
  <2> QED
    BY <2>1, <2>2 DEF LedgersAgree
<1>4. CASE Deliver
  <2>1. \A d \in Days : digestStatus'[d] = "none" <=> digestStatus[d] = "none"
    BY <1>4, ConsumeKinds, KeyType DEF Deliver, ShownStep, SentStep, LedgersAgree
  <2> QED
    BY <1>4, <2>1, ConsumeKinds, LedgersFrame DEF Deliver, OutboxOnly
<1>5. CASE Environment
  BY <1>1, <1>5
  DEF Environment, Submit, InsertStandup, SubmitRejected, ChangeMembers, ChangeTeam,
      ChangeUrl, W!SetWebhookUrl, ReachDeadline, PassDeadline, NextDay, MoveDeadline, outbox
<1>6. CASE Generate
  <2>1. ASSUME NEW g \in Generators,
               ReadTeam(g) \/ FindDigest(g) \/ LoadMembers(g) \/ LoadStandups(g)
               \/ CommitConflict(g) \/ SettleDigestJob(g) \/ TakeDigestJob(g)
        PROVE  LedgersAgree'
    BY <1>1, <2>1 DEF ReadTeam, FindDigest, LoadMembers, LoadStandups, CommitConflict,
       SettleDigestJob, TakeDigestJob, outbox
  <2>2. ASSUME NEW g \in Generators,
               EnqueueDigest(g) \/ CrashGenerator(g) \/ GenerateRejected(g)
        PROVE  LedgersAgree'
    BY <1>1, <2>2 DEF EnqueueDigest, CrashGenerator, GenerateRejected
  <2>3. ASSUME NEW f \in Firings, LoseDigestLock(f) \/ StalledDigestJob(f)
        PROVE  LedgersAgree'
    BY <1>1, <2>3 DEF LoseDigestLock, StalledDigestJob, outbox
  <2> QED
    BY <1>2, <1>6, <2>1, <2>2, <2>3 DEF Generate, GenerateStep
<1>7. CASE Resend
  BY <1>1, <1>3, <1>7
  DEF Resend, ResendStep, ReadForResend, ResendNothing, EnqueueResend, ResendRejected, outbox
<1>8. CASE UNCHANGED vars
  BY <1>1, <1>8 DEF vars, outbox
<1> QED
  BY <1>4, <1>5, <1>6, <1>7, <1>8 DEF Next

-----------------------------------------------------------------------------
(* The producers.                                                              *)

LEMMA RowsStay ==
  ASSUME PipelineInv, [Next]_vars
  PROVE  \A k \in Keys : delivery[k].status # "none" => delivery'[k].status # "none"
<1> USE DEF PipelineInv
<1>a. DOMAIN delivery = Keys
  BY DEF W!DeliveryInv, W!TypeOK
<1>1. CASE UNCHANGED delivery
  BY <1>1
<1>2. ASSUME NEW e \in Keys, W!InsertDelivery(e)
      PROVE  \A k \in Keys : delivery[k].status # "none" => delivery'[k].status # "none"
  BY <1>2, <1>a DEF W!InsertDelivery
<1>3. ASSUME NEW g \in Generators, CommitDigest(g)
      PROVE  \A k \in Keys : delivery[k].status # "none" => delivery'[k].status # "none"
  BY <1>1, <1>2, <1>3, GenType, KeyType DEF CommitDigest, Loaded, At
<1>4. ASSUME NEW r \in Resends, ResendDigest(r)
      PROVE  \A k \in Keys : delivery[k].status # "none" => delivery'[k].status # "none"
  BY <1>2, <1>4, KeyType DEF ResendDigest, ProducersInv
<1>5. CASE Deliver
  BY <1>5, ConsumeKinds DEF Deliver
<1>6. CASE Environment
  BY <1>1, <1>6
  DEF Environment, Submit, InsertStandup, SubmitRejected, ChangeMembers, ChangeTeam,
      ChangeUrl, W!SetWebhookUrl, ReachDeadline, PassDeadline, NextDay, MoveDeadline, outbox
<1>7. CASE Generate
  BY <1>1, <1>3, <1>7
  DEF Generate, GenerateStep, TakeDigestJob, CrashGenerator, GenerateRejected,
      LoseDigestLock, StalledDigestJob, ReadTeam, FindDigest, LoadMembers, LoadStandups,
      CommitConflict, EnqueueDigest, SettleDigestJob, outbox
<1>8. CASE Resend
  BY <1>1, <1>4, <1>8
  DEF Resend, ResendStep, ReadForResend, ResendNothing, EnqueueResend, ResendRejected, outbox
<1>9. CASE UNCHANGED vars
  BY <1>1, <1>9 DEF vars, outbox
<1> QED
  BY <1>5, <1>6, <1>7, <1>8, <1>9 DEF Next

LEMMA ProducersStep ==
  ASSUME PipelineInv, [Next]_vars
  PROVE  ProducersInv'
<1> USE DEF PipelineInv
<1>a. DOMAIN delivery = Keys /\ DOMAIN gen = Generators /\ DOMAIN resend = Resends
  BY DEF W!DeliveryInv, W!TypeOK, TypeOK
<1>1. ASSUME UNCHANGED <<gen, resend>> PROVE ProducersInv'
  BY <1>1, RowsStay, KeyType, GenType DEF ProducersInv, At
<1>2. ASSUME NEW g \in Generators, UNCHANGED resend,
             \A h \in Generators \ {g} : gen'[h] = gen[h],
             gen'[g].pc = "enqueue" => 
               gen'[g].day \in Days /\ delivery'[DigestKey(gen'[g].day)].status # "none"
      PROVE  ProducersInv'
  BY <1>2, RowsStay, KeyType, GenType DEF ProducersInv, At
<1>3. ASSUME NEW r \in Resends, UNCHANGED gen,
             \A q \in Resends \ {r} : resend'[q] = resend[q],
             resend'[r].pc \in {"find", "enqueue"} => resend'[r].day \in Days,
             resend'[r].pc = "enqueue" =>
               delivery'[ResendKey(resend'[r].day, r)].status # "none"
      PROVE  ProducersInv'
  BY <1>3, RowsStay, KeyType, GenType DEF ProducersInv, At
<1>4. CASE Environment \/ Deliver
  BY <1>1, <1>4
  DEF Environment, Submit, InsertStandup, SubmitRejected, ChangeMembers, ChangeTeam,
      ChangeUrl, ReachDeadline, PassDeadline, NextDay, MoveDeadline, Deliver, OutboxOnly
<1>5. CASE Generate
  <2>1. ASSUME NEW g \in Generators,
               TakeDigestJob(g) \/ GenerateStep(g) \/ CrashGenerator(g) \/ GenerateRejected(g)
        PROVE  \A h \in Generators \ {g} : gen'[h] = gen[h]
    BY <1>a, <2>1 DEF TakeDigestJob, GenerateStep, CrashGenerator, GenerateRejected, ReadTeam,
       FindDigest, LoadMembers, LoadStandups, CommitDigest, CommitConflict, EnqueueDigest,
       SettleDigestJob, Goto, End
  <2>2. ASSUME NEW g \in Generators,
               \/ TakeDigestJob(g) \/ CrashGenerator(g) \/ GenerateRejected(g) \/ ReadTeam(g)
               \/ FindDigest(g) \/ LoadMembers(g) \/ LoadStandups(g) \/ CommitConflict(g)
               \/ EnqueueDigest(g) \/ SettleDigestJob(g)
        PROVE  gen'[g].pc # "enqueue" /\ UNCHANGED resend
    <3>1. UNCHANGED resend
      BY <2>2 DEF TakeDigestJob, CrashGenerator, GenerateRejected, ReadTeam, FindDigest,
         LoadMembers, LoadStandups, CommitConflict, EnqueueDigest, SettleDigestJob
    <3>2. CASE gen' = [gen EXCEPT ![g] = Ended] \/ End(g, "returned") \/ End(g, "threw")
               \/ \E f \in Firings : gen' = [gen EXCEPT ![g] = Started(f)]
      BY <1>a, <3>1, <3>2 DEF Ended, End, Started
    <3>3. ASSUME NEW pc \in {"find", "load"}, Goto(g, pc), gen[g] \in Generating
          PROVE  gen'[g].pc # "enqueue"
      BY <1>a, <3>3 DEF Goto, Generating
    <3>4. CASE gen' = [gen EXCEPT ![g].pc = "find", ![g].url = webhookUrl] /\ At(g, "team")
      BY <1>a, <3>1, <3>4, GenType DEF Generating, At
    <3>5. CASE LoadMembers(g)
      <4>1. gen[g] \in Generating /\ gen[g].pc = "load"
        BY <3>5, GenType DEF LoadMembers, At
      <4>2. gen'[g].pc = gen[g].pc
        BY <1>a, <3>5, <4>1 DEF LoadMembers, Generating
      <4> QED
        BY <3>1, <4>1, <4>2
    <3>6. CASE LoadStandups(g)
      <4>1. gen[g] \in Generating /\ gen[g].pc = "load"
        BY <3>6, GenType DEF LoadStandups, At
      <4>2. gen'[g].pc = gen[g].pc
        BY <1>a, <3>6, <4>1 DEF LoadStandups, Generating
      <4> QED
        BY <3>1, <4>1, <4>2
    <3> QED
      BY <2>2, <3>1, <3>2, <3>3, <3>4, <3>5, <3>6, GenType
      DEF TakeDigestJob, CrashGenerator, GenerateRejected, ReadTeam, FindDigest,
          CommitConflict, EnqueueDigest, SettleDigestJob, At
  <2>3. ASSUME NEW g \in Generators, CommitDigest(g)
        PROVE  /\ UNCHANGED resend
               /\ gen'[g].pc = "enqueue" =>
                    gen'[g].day \in Days /\ delivery'[DigestKey(gen'[g].day)].status # "none"
    <3>1. gen[g].day \in Days /\ gen[g].pc # "enqueue" /\ gen[g] \in Generating
      BY <2>3, GenType DEF CommitDigest, Loaded, At
    <3>2. CASE End(g, "returned") /\ UNCHANGED resend
      BY <1>a, <3>2 DEF End
    <3>3. CASE W!InsertDelivery(DigestKey(gen[g].day)) /\ Goto(g, "enqueue") /\ UNCHANGED resend
      <4>1. gen'[g].day = gen[g].day
        BY <1>a, <3>1, <3>3 DEF Goto, Generating
      <4>2. delivery'[DigestKey(gen[g].day)].status # "none"
        BY <1>a, <3>1, <3>3, KeyType DEF W!InsertDelivery
      <4> QED
        BY <3>1, <3>3, <4>1, <4>2
    <3> QED
      BY <2>3, <3>2, <3>3 DEF CommitDigest
  <2>4. ASSUME NEW f \in Firings, LoseDigestLock(f) \/ StalledDigestJob(f)
        PROVE  UNCHANGED <<gen, resend>>
    BY <2>4 DEF LoseDigestLock, StalledDigestJob
  <2> QED
    BY <1>1, <1>2, <1>5, <2>1, <2>2, <2>3, <2>4 DEF Generate, GenerateStep
<1>6. ASSUME NEW r \in Resends, ReadForResend(r) \/ ResendStep(r) \/ ResendRejected(r)
      PROVE  ProducersInv'
  <2>1. UNCHANGED gen /\ \A q \in Resends \ {r} : resend'[q] = resend[q]
    BY <1>a, <1>6 DEF ReadForResend, ResendStep, ResendDigest, ResendNothing, EnqueueResend,
       ResendRejected
  <2>2. CASE ReadForResend(r)
    BY <1>3, <1>a, <2>1, <2>2 DEF ReadForResend
  <2>3. CASE ResendDigest(r)
    <3>1. resend[r].day \in Days /\ resend[r] \in [pc : {"idle", "find", "enqueue", "done"}, day : 0..LastDay]
      BY <2>3 DEF ResendDigest, ProducersInv, TypeOK
    <3>2. resend'[r].day = resend[r].day
      BY <1>a, <2>3, <3>1 DEF ResendDigest
    <3>3. delivery'[ResendKey(resend[r].day, r)].status # "none"
      BY <1>a, <2>3, <3>1, KeyType DEF ResendDigest, W!InsertDelivery
    <3> QED
      BY <1>3, <2>1, <3>1, <3>2, <3>3
  <2>4. CASE ResendNothing(r) \/ EnqueueResend(r) \/ ResendRejected(r)
    <3>1. resend'[r].pc = "done"
      BY <1>a, <2>4 DEF ResendNothing, EnqueueResend, ResendRejected, TypeOK
    <3> QED
      BY <1>3, <2>1, <3>1
  <2> QED
    BY <1>6, <2>2, <2>3, <2>4 DEF ResendStep
<1>7. CASE UNCHANGED vars
  BY <1>1, <1>7 DEF vars
<1> QED
  BY <1>4, <1>5, <1>6, <1>7 DEF Next, Resend

-----------------------------------------------------------------------------
(* The invariant.                                                              *)

LEMMA PipelineInit == Init => PipelineInv
<1> SUFFICES ASSUME Init PROVE PipelineInv
  OBVIOUS
<1>1. TypeOK
  BY TypeInit
<1>2. W!DeliveryInv
  BY OutboxInit DEF Init
<1>3. ProducersInv
  BY DEF Init, ProducersInv, At, Ended, NoResend
<1>4. LedgersAgree
  BY KeyType DEF Init, LedgersAgree, W!Init, W!NoRow
<1> QED
  BY <1>1, <1>2, <1>3, <1>4 DEF PipelineInv

LEMMA PipelineStep == PipelineInv /\ [Next]_vars => PipelineInv'
BY TypeStep, OutboxStep, ProducersStep, LedgersStep DEF PipelineInv

LEMMA PipelineCorrect == Spec => []PipelineInv
BY PipelineInit, PipelineStep, PTL DEF Spec

(* The variables keep their types, those of the outbox included.               *)
THEOREM TypeCorrect == Spec => []TypeOK
BY PipelineCorrect, PTL DEF PipelineInv

(* The digest, its statistics and its row in the outbox appear together and    *)
(* tell the same numbers (digest.service.ts:129-168), whatever fails.          *)
THEOREM LedgersCorrect == Spec => []LedgersAgree
BY PipelineCorrect, PTL DEF PipelineInv

-----------------------------------------------------------------------------
(* The pipeline implements the promise.                                        *)

LEMMA PromiseInit == Init => Promise!Init
<1> SUFFICES ASSUME Init PROVE Promise!Init
  OBVIOUS
<1>1. \A d \in Days : ~W!Posted(d) /\ digestStatus[d] # "SENT"
  BY DEF Init, W!Init, W!Posted
<1> QED
  BY <1>1 DEF Init, Promise!Init

(* A step that composes nothing, shows nothing and sends nothing.              *)
LEMMA PromiseStutter ==
  ASSUME UNCHANGED <<digest, digestStatus, posts>>
  PROVE  UNCHANGED Promise!vars
BY DEF Promise!vars, W!Posted

LEMMA PromiseStep ==
  ASSUME PipelineInv, [Next]_vars
  PROVE  [Promise!Next]_(Promise!vars)
<1> USE DEF PipelineInv
<1>a. /\ digestStatus \in [Days -> {"none", "GENERATED", "SENT"}]
      /\ posts \in [Keys -> Nat]
  BY DEF TypeOK, W!TypeOK
<1>1. ASSUME NEW g \in Generators, CommitDigest(g) PROVE Promise!Next
  <2> DEFINE day == gen[g].day
             content == Content(gen[g].members, gen[g].standups)
  <2>1. day \in Days /\ content \in Contents
    BY <1>1, GenType, CommittedType DEF CommitDigest, Loaded, At
  <2>2. digest[day] = NoContent /\ digest' = [digest EXCEPT ![day] = content]
    BY <1>1 DEF CommitDigest
  <2>3. \A d \in Days : digestStatus'[d] = "SENT" <=> digestStatus[d] = "SENT"
    <3>1. digestStatus[day] = "none"
      BY <2>1, <2>2 DEF LedgersAgree
    <3>2. digestStatus' = [digestStatus EXCEPT ![day] = "GENERATED"]
      BY <1>1 DEF CommitDigest
    <3> QED
      BY <1>a, <2>1, <3>1, <3>2
  <2>4. \A d \in Days : W!Posted(d)' <=> W!Posted(d)
    BY <1>1 DEF CommitDigest, W!Posted
  <2>5. /\ {d \in Days : W!Posted(d)}' = {d \in Days : W!Posted(d)}
        /\ {d \in Days : digestStatus[d] = "SENT"}' = {d \in Days : digestStatus[d] = "SENT"}
    BY <2>3, <2>4
  <2>6. Promise!Compose(day)
    BY <2>1, <2>2, <2>5 DEF Promise!Compose
  <2> QED
    BY <2>1, <2>6 DEF Promise!Next
<1>2. ASSUME Deliver PROVE [Promise!Next]_(Promise!vars)
  <2>1. UNCHANGED digest
    BY <1>2 DEF Deliver, OutboxOnly
  <2>2. ASSUME NEW k \in Keys, delivery[k].status # "none", ShownStep(k)
        PROVE  Promise!Next
    <3>1. k.day \in Days /\ digest[k.day] # NoContent
      BY <2>2, KeyType DEF LedgersAgree
    <3>2. \A e \in Keys : posts'[e] = IF e = k THEN posts[e] + 1 ELSE posts[e]
      BY <1>a, <2>2 DEF ShownStep
    <3>3. \A d \in Days : W!Posted(d)' <=> W!Posted(d) \/ d = k.day
      BY <1>a, <2>2, <3>2 DEF W!Posted
    <3>4. {d \in Days : W!Posted(d)}' = {d \in Days : W!Posted(d)} \union {k.day}
      BY <3>1, <3>3
    <3>5. Promise!Show(k.day)
      BY <2>1, <2>2, <3>1, <3>4 DEF Promise!Show, ShownStep
    <3> QED
      BY <3>1, <3>5 DEF Promise!Next
  <2>3. ASSUME NEW k \in Keys, delivery[k].status # "none", SentStep(k)
        PROVE  Promise!Next
    <3>1. k.day \in Days /\ W!Posted(k.day)
      BY <2>3, KeyType DEF SentStep, W!Posted
    <3>2. {d \in Days : digestStatus[d] = "SENT"}'
            = {d \in Days : digestStatus[d] = "SENT"} \union {k.day}
      BY <2>3, <3>1 DEF SentStep
    <3>3. {d \in Days : W!Posted(d)}' = {d \in Days : W!Posted(d)}
      BY <2>3 DEF SentStep, W!Posted
    <3>4. Promise!MarkSent(k.day)
      BY <2>1, <3>1, <3>2, <3>3 DEF Promise!MarkSent
    <3> QED
      BY <3>1, <3>4 DEF Promise!Next
  <2> QED
    BY <1>2, <2>1, <2>2, <2>3, ConsumeKinds, PromiseStutter DEF Deliver
<1>3. CASE Environment
  BY <1>3, PromiseStutter
  DEF Environment, Submit, InsertStandup, SubmitRejected, ChangeMembers, ChangeTeam,
      ChangeUrl, W!SetWebhookUrl, ReachDeadline, PassDeadline, NextDay, MoveDeadline, outbox
<1>4. CASE Generate
  BY <1>1, <1>4, PromiseStutter
  DEF Generate, GenerateStep, TakeDigestJob, CrashGenerator, GenerateRejected,
      LoseDigestLock, StalledDigestJob, ReadTeam, FindDigest, LoadMembers, LoadStandups,
      CommitConflict, EnqueueDigest, SettleDigestJob, outbox
<1>5. CASE Resend
  BY <1>5, PromiseStutter
  DEF Resend, ResendStep, ReadForResend, ResendDigest, ResendNothing, EnqueueResend,
      ResendRejected, outbox
<1>6. CASE UNCHANGED vars
  BY <1>6, PromiseStutter DEF vars, outbox
<1> QED
  BY <1>2, <1>3, <1>4, <1>5, <1>6 DEF Next

(* Whatever jobs overlap, fail, are run again or come twice, a day's digest is *)
(* composed once and never rewritten, shown only once composed and SENT only   *)
(* if shown (digest.service.ts:45-60, :129-168, webhooks.service.ts:64-102).   *)
THEOREM PromiseCorrect == Spec => KeepsPromise
BY PipelineCorrect, PromiseInit, PromiseStep, PTL DEF Spec, KeepsPromise, Promise!Spec

-----------------------------------------------------------------------------
(* What the outbox promises by itself it keeps beside its producers.           *)

OutboxInv == WP!PostsInv /\ WP!HeldInv /\ WP!LocksInv

LEMMA OutboxInvInit == W!Init => OutboxInv
BY SameInit, Assumptions, WP!PostsInit, WP!HeldInit, WP!LocksInit
DEF OutboxInv, WP!PostsInit, WP!HeldInit, WP!LocksInit, WP!DigestOfAssumption,
    WP!WorkersAssumption, WP!BoundsAssumption

(* Every step of the pipeline, the outbox's own or not, keeps what each of the *)
(* theorems about the outbox rests on.                                         *)
LEMMA OutboxInvStep ==
  ASSUME PipelineInv, PipelineInv', OutboxInv, [Next]_vars
  PROVE  OutboxInv' /\ WP!RunsOut /\ (WP!SettledStep \/ UNCHANGED WP!vars)
         /\ (WP!AdvancingStep \/ UNCHANGED WP!vars)
<1>1. WP!DeliveryInv /\ WP!TypeOK /\ WP!TypeOK'
  BY SameInv, SameType DEF PipelineInv, W!DeliveryInv
<1>2. CASE [WP!Next]_(WP!vars)
  <2>1. WP!PostsInv' /\ WP!HeldInv' /\ WP!RunsOut
    BY <1>1, <1>2, Assumptions, WP!RunsOutStep
    DEF OutboxInv, WP!RunsOutStep, WP!DigestOfAssumption, WP!WorkersAssumption,
        WP!BoundsAssumption
  <2>2. WP!LocksInv' /\ [WP!SettledStep]_(WP!vars)
    BY <1>1, <1>2, Assumptions, WP!LocksStep
    DEF OutboxInv, WP!LocksStep, WP!DigestOfAssumption, WP!WorkersAssumption,
        WP!BoundsAssumption
  <2>3. [WP!AdvancingStep]_(WP!vars)
    BY <1>1, <1>2, Assumptions, WP!AdvancingNext
    DEF WP!AdvancingNext, WP!DigestOfAssumption, WP!WorkersAssumption, WP!BoundsAssumption
  <2> QED
    BY <2>1, <2>2, <2>3 DEF OutboxInv
<1>3. ASSUME UNCHANGED <<delivery, job, run, posts>>
      PROVE  OutboxInv' /\ WP!RunsOut /\ WP!SettledStep
  <2>1. WP!PostsInv' /\ WP!HeldInv' /\ WP!LocksInv' /\ WP!RunsOut
    BY <1>1, <1>3, Assumptions, WP!QueueFrame
    DEF OutboxInv, WP!QueueFrame, WP!DigestOfAssumption, WP!WorkersAssumption,
        WP!BoundsAssumption
  <2>2. WP!SettledStep
    BY <1>3 DEF WP!SettledStep
  <2> QED
    BY <2>1, <2>2 DEF OutboxInv
<1>4. CASE \E day \in Days : QuietDigest(day)
  <2>1. WP!AdvancingStep
    BY <1>1, <1>4 DEF QuietDigest, WP!AdvancingStep, WP!TypeOK
  <2> QED
    BY <1>3, <1>4, <2>1 DEF QuietDigest
<1>5. CASE FaultElsewhere
  <2>1. WP!AdvancingStep
    BY <1>5 DEF FaultElsewhere, WP!AdvancingStep
  <2> QED
    BY <1>3, <1>5, <2>1 DEF FaultElsewhere
<1> QED
  BY <1>2, <1>4, <1>5, OutboxKinds

LEMMA SameSteps ==
  /\ W!RunsOut <=> WP!RunsOut
  /\ W!SettledStep <=> WP!SettledStep
  /\ W!AdvancingStep <=> WP!AdvancingStep
  /\ W!vars = WP!vars /\ W!vars' = WP!vars'
  /\ W!PostsBounded <=> WP!PostsBounded
<1>1. W!RunsOut <=> WP!RunsOut
  <2>1. \A pc : W!AwaitsLeft(pc) = WP!AwaitsLeft(pc)
    BY DEF W!AwaitsLeft, WP!AwaitsLeft
  <2>2. \A j, pc : W!LeftOf(j, pc) = WP!LeftOf(j, pc)
    BY <2>1 DEF W!LeftOf, WP!LeftOf
  <2>3. \A k \in Keys : W!Held(k) = WP!Held(k) /\ W!Held(k)' = WP!Held(k)'
    BY DEF W!Held, WP!Held, W!Ended, WP!Ended
  <2>4. \A k \in Keys : W!Left(k) = WP!Left(k) /\ W!Left(k)' = WP!Left(k)'
    BY <2>2, <2>3 DEF W!Left, WP!Left
  <2> QED
    BY <2>3, <2>4 DEF W!RunsOut, WP!RunsOut
<1>2. /\ W!SettledStep <=> WP!SettledStep
      /\ W!AdvancingStep <=> WP!AdvancingStep
      /\ W!vars = WP!vars /\ W!vars' = WP!vars'
      /\ W!PostsBounded <=> WP!PostsBounded
  BY DEF W!SettledStep, WP!SettledStep, W!Unheard, WP!Unheard, W!At, WP!At, W!AdvancingStep, WP!AdvancingStep, W!vars, WP!vars,
         W!PostsBounded, WP!PostsBounded
<1> QED
  BY <1>1, <1>2

LEMMA OutboxSteps ==
  PipelineInv /\ PipelineInv' /\ OutboxInv /\ [Next]_vars =>
    /\ OutboxInv'
    /\ [W!RunsOut]_(W!vars) /\ [W!SettledStep]_(W!vars) /\ [W!AdvancingStep]_(W!vars)
BY OutboxInvStep, SameSteps

LEMMA OutboxInvCorrect == Spec => []OutboxInv
<1>1. Init => OutboxInv
  BY OutboxInvInit DEF Init
<1> QED
  BY <1>1, OutboxSteps, PipelineCorrect, PTL DEF Spec

(* With digests, resends and a changing team beside it, the channel sees one   *)
(* message at most as often as the queue runs its job                          *)
(* (digest.service.ts:124-155 with webhooks.service.ts:28-128).                *)
THEOREM OutboxPostsCorrect == Spec => []W!PostsBounded
<1>1. PipelineInv /\ OutboxInv => W!PostsBounded
  BY SameInv, SameSteps, Assumptions, WP!PostsAreBounded
  DEF PipelineInv, OutboxInv, WP!DeliveryInv, WP!PostsAreBounded, WP!DigestOfAssumption,
      WP!WorkersAssumption, WP!BoundsAssumption
<1> QED
  BY <1>1, PipelineCorrect, OutboxInvCorrect, PTL

(* No producer reopens a settled row or takes back a digest's SENT: what the   *)
(* outbox settled stays so, unless a lock expired under a live run or the run   *)
(* that settled it was not told that it did.                                   *)
THEOREM OutboxSettledCorrect == Spec => W!SettledIsFinal /\ W!StatusAdvances
BY OutboxSteps, OutboxInvCorrect, PipelineCorrect, PTL
DEF Spec, W!SettledIsFinal, W!StatusAdvances

(* And no producer gives a job new tries: each ends after so many steps.       *)
THEOREM OutboxRunsOutCorrect == Spec => W!JobsRunOut
BY OutboxSteps, OutboxInvCorrect, PipelineCorrect, PTL DEF Spec, W!JobsRunOut

-----------------------------------------------------------------------------
(* While nothing failed, no PENDING row is forgotten.                          *)

LEMMA SameUndisturbed ==
  (W!UndisturbedInv <=> WP!UndisturbedInv) /\ (W!UndisturbedInv' <=> WP!UndisturbedInv')
BY DEF W!UndisturbedInv, WP!UndisturbedInv, W!UndisturbedRun, WP!UndisturbedRun,
       W!UndisturbedJob, WP!UndisturbedJob, W!IdleRun, WP!IdleRun

LEMMA UndisturbedOutboxInit == W!Init => W!UndisturbedInv
BY SameInit, SameUndisturbed, Assumptions, WP!UndisturbedInit
DEF WP!UndisturbedInit, WP!DigestOfAssumption, WP!WorkersAssumption, WP!BoundsAssumption

LEMMA UndisturbedOutboxStep ==
  ASSUME MaxAttempts <= JobAttempts, PipelineInv, W!UndisturbedInv, [Next]_vars
  PROVE  W!UndisturbedInv'
<1>1. CASE [WP!Next]_(WP!vars)
  BY <1>1, SameInv, SameUndisturbed, Assumptions, WP!UndisturbedStep
  DEF PipelineInv, WP!UndisturbedStep, WP!DigestOfAssumption, WP!WorkersAssumption,
      WP!BoundsAssumption
<1>2. CASE \E day \in Days : QuietDigest(day)
  BY <1>2 DEF QuietDigest, W!UndisturbedInv, W!UndisturbedRun, W!UndisturbedJob, W!IdleRun
<1>3. CASE FaultElsewhere
  BY <1>3, OutboxAssumption
  DEF FaultElsewhere, W!Fault, W!UndisturbedInv, PipelineInv, TypeOK, W!TypeOK,
      W!BoundsAssumption
<1> QED
  BY <1>1, <1>2, <1>3, OutboxKinds

(* The consumer takes no job away and makes no row PENDING.                    *)
LEMMA ConsumeAnnounces ==
  ASSUME PipelineInv, W!Consume, NEW k \in Keys
  PROVE  /\ job'[k].state = "none" => job[k].state = "none"
         /\ delivery'[k].status = "PENDING" => delivery[k].status = "PENDING"
         /\ faults' = 0 => faults = 0
<1> USE DEF PipelineInv, W!DeliveryInv
<1>a. DOMAIN delivery = Keys /\ DOMAIN job = Keys /\ job \in [Keys -> W!Jobs]
      /\ faults \in Nat
  BY OutboxAssumption DEF W!TypeOK, W!BoundsAssumption
<1>b. \A w \in Workers : ~W!IdleRun(w) =>
        run[w].delivery \in Keys /\ run[w].attempts \in Nat
  BY DEF W!TypeOK, W!Runs, W!Ended, W!IdleRun
<1> DEFINE Goal == /\ job'[k].state = "none" => job[k].state = "none"
                   /\ delivery'[k].status = "PENDING" => delivery[k].status = "PENDING"
                   /\ faults' = 0 => faults = 0
<1>1. ASSUME NEW w \in Workers, W!TakeJob(w) PROVE Goal
  BY <1>a, <1>1 DEF W!TakeJob
<1>2. ASSUME NEW w \in Workers, W!SettleJob(w) PROVE Goal
  <2>1. job'[k] \in {job[k], W!Completed(job[k]), W!Retried(job[k])}
    BY <1>a, <1>2 DEF W!SettleJob
  <2>2. W!Completed(job[k]).state = "completed" /\ W!Retried(job[k]).state # "none"
    BY <1>a DEF W!Completed, W!Retried, W!AfterThrow, W!Jobs
  <2> QED
    BY <1>2, <2>1, <2>2 DEF W!SettleJob
<1>3. ASSUME NEW w \in Workers,
             \/ W!SkipSettled(w) \/ W!ReadPending(w) \/ W!PostAccepted(w) \/ W!PostRefused(w)
      PROVE  Goal
  BY <1>3 DEF W!SkipSettled, W!ReadPending, W!PostAccepted, W!PostRefused
<1>4. ASSUME NEW w \in Workers,
             \/ W!MarkFailed(w) \/ W!CommitSuccess(w) \/ W!RecordFailure(w)
             \/ W!CommitUnheard(w) \/ W!UpdateUnheard(w)
      PROVE  Goal
  <2>1. UNCHANGED job /\ run[w].delivery \in Keys /\ (faults' = 0 => faults = 0)
    BY <1>4, <1>a, <1>b DEF W!MarkFailed, W!CommitSuccess, W!RecordFailure, W!CommitUnheard,
       W!UpdateUnheard, W!Fault, W!At, W!IdleRun
  <2>2. \/ delivery'[k] = delivery[k]
        \/ \E status \in {"SUCCESS", "FAILED"} : delivery'[k] = W!Tried(delivery[k], status)
        \/ delivery'[k] = W!FailedRow(delivery[k], run[w].attempts + 1)
    BY <1>4, <1>a, <2>1 DEF W!MarkFailed, W!CommitSuccess, W!RecordFailure, W!CommitUnheard,
       W!UpdateUnheard
  <2> QED
    BY <2>1, <2>2 DEF W!Tried, W!FailedRow
<1>5. ASSUME NEW w \in Workers, W!Crash(w) \/ W!CommitRejected(w) \/ W!QueryRejected(w)
      PROVE  Goal
  BY <1>5, <1>a DEF W!Crash, W!CommitRejected, W!QueryRejected, W!Fault, W!Jobs
<1>6. ASSUME NEW d \in Keys, W!QueueStep(d) PROVE Goal
  <2>1. CASE W!LoseLock(d)
    BY <1>a, <2>1 DEF W!LoseLock, W!Fault, W!Jobs
  <2>2. CASE W!StalledJob(d)
    BY <1>a, <2>2 DEF W!StalledJob, W!Stalled, W!AfterStall, W!Jobs
  <2> QED
    BY <1>6, <2>1, <2>2 DEF W!QueueStep
<1> QED
  BY <1>1, <1>2, <1>3, <1>4, <1>5, <1>6 DEF W!Consume, W!DeliverStep, W!FaultStep

LEMMA AnnouncedStep ==
  ASSUME PipelineInv, PendingIsAnnounced, [Next]_vars
  PROVE  PendingIsAnnounced'
<1> SUFFICES ASSUME faults' = 0, NEW k \in Keys,
                    delivery'[k].status = "PENDING", job'[k].state = "none"
             PROVE  AboutToEnqueue(k)'
  BY DEF PendingIsAnnounced
<1> USE DEF PipelineInv
<1>a. /\ DOMAIN delivery = Keys /\ DOMAIN job = Keys /\ job \in [Keys -> W!Jobs]
      /\ DOMAIN gen = Generators /\ DOMAIN resend = Resends /\ faults \in Nat
  BY OutboxAssumption DEF W!DeliveryInv, W!TypeOK, TypeOK, W!BoundsAssumption
<1>b. ~W!Fault
  BY <1>a DEF W!Fault
<1>c. k.kind \in {"digest", "resend"} /\ k.day \in Days
      /\ (k.kind = "resend" => k.request \in Resends)
      /\ (k.kind = "digest" => k = DigestKey(k.day))
      /\ (k.kind = "resend" => k = ResendKey(k.day, k.request))
  BY DEF Keys, DigestKey, ResendKey
<1>1. ASSUME UNCHANGED <<delivery, job, faults, gen, resend>> PROVE AboutToEnqueue(k)'
  BY <1>1 DEF PendingIsAnnounced, AboutToEnqueue, At
<1>2. CASE Environment
  BY <1>1, <1>2, <1>b
  DEF Environment, Submit, InsertStandup, SubmitRejected, ChangeMembers, ChangeTeam,
      ChangeUrl, W!SetWebhookUrl, ReachDeadline, PassDeadline, NextDay, MoveDeadline, outbox
<1>3. CASE Deliver
  <2>1. UNCHANGED <<gen, resend>>
    BY <1>3 DEF Deliver, OutboxOnly
  <2> QED
    BY <1>3, <2>1, ConsumeAnnounces DEF Deliver, PendingIsAnnounced, AboutToEnqueue, At
(* A run of generate() that is not about to enqueue.                           *)
<1>4. ASSUME NEW g \in Generators, ~At(g, "enqueue"), UNCHANGED <<delivery, job, faults, resend>>,
             \A h \in Generators \ {g} : gen'[h] = gen[h]
      PROVE  AboutToEnqueue(k)'
  BY <1>4 DEF PendingIsAnnounced, AboutToEnqueue, At
<1>5. ASSUME NEW g \in Generators,
             \/ TakeDigestJob(g) \/ ReadTeam(g) \/ FindDigest(g) \/ LoadMembers(g)
             \/ LoadStandups(g) \/ CommitConflict(g) \/ SettleDigestJob(g)
      PROVE  AboutToEnqueue(k)'
  <2>1. ~At(g, "enqueue") /\ UNCHANGED <<delivery, job, faults, resend>>
    BY <1>5 DEF TakeDigestJob, ReadTeam, FindDigest, LoadMembers, LoadStandups,
       CommitConflict, SettleDigestJob, Loaded, At, outbox
  <2>2. \A h \in Generators \ {g} : gen'[h] = gen[h]
    BY <1>5, <1>a DEF TakeDigestJob, ReadTeam, FindDigest, LoadMembers, LoadStandups,
       CommitConflict, SettleDigestJob, Goto, End
  <2> QED
    BY <1>4, <2>1, <2>2
<1>6. ASSUME NEW g \in Generators, CommitDigest(g) PROVE AboutToEnqueue(k)'
  <2> DEFINE day == gen[g].day
  <2>1. /\ day \in Days /\ gen[g] \in Generating /\ ~At(g, "enqueue")
        /\ UNCHANGED <<job, faults, resend>>
    BY <1>6, GenType DEF CommitDigest, Loaded, At
  <2>2. \A h \in Generators \ {g} : gen'[h] = gen[h]
    BY <1>6, <1>a DEF CommitDigest, Goto, End
  <2>3. CASE UNCHANGED delivery
    BY <1>4, <2>1, <2>2, <2>3
  <2>4. CASE W!InsertDelivery(DigestKey(day)) /\ Goto(g, "enqueue")
    <3>1. gen'[g].pc = "enqueue" /\ gen'[g].day = day
      BY <1>a, <2>1, <2>4 DEF Goto, Generating
    <3>2. CASE k = DigestKey(day)
      BY <1>c, <3>1, <3>2 DEF AboutToEnqueue, At, DigestKey
    <3>3. CASE k # DigestKey(day)
      <4>1. delivery'[k] = delivery[k]
        BY <1>a, <2>4, <3>3 DEF W!InsertDelivery
      <4>2. AboutToEnqueue(k)
        BY <2>1, <4>1 DEF PendingIsAnnounced
      <4> QED
        BY <2>1, <2>2, <4>2 DEF AboutToEnqueue, At
    <3> QED
      BY <3>2, <3>3
  <2> QED
    BY <1>6, <2>3, <2>4 DEF CommitDigest
<1>7. ASSUME NEW g \in Generators, EnqueueDigest(g) PROVE AboutToEnqueue(k)'
  <2>1. gen[g].day \in Days /\ UNCHANGED <<delivery, faults, resend>>
    BY <1>7, GenType DEF EnqueueDigest, At
  <2>2. DigestKey(gen[g].day) \in Keys
    BY <2>1, KeyType
  <2>3. job' = [job EXCEPT ![DigestKey(gen[g].day)].state = "waiting"]
    BY <1>7 DEF EnqueueDigest, W!AddJob
  <2>4. k # DigestKey(gen[g].day) /\ job'[k] = job[k]
    BY <1>a, <2>2, <2>3 DEF W!Jobs
  <2>5. AboutToEnqueue(k)
    BY <2>1, <2>4 DEF PendingIsAnnounced
  <2>6. \A h \in Generators \ {g} : gen'[h] = gen[h]
    BY <1>7, <1>a DEF EnqueueDigest, End
  <2> QED
    BY <1>c, <2>1, <2>4, <2>5, <2>6 DEF AboutToEnqueue, At
<1>8. CASE Generate
  <2>1. ASSUME NEW g \in Generators PROVE ~CrashGenerator(g) /\ ~GenerateRejected(g)
    BY <1>b DEF CrashGenerator, GenerateRejected
  <2>2. ASSUME NEW f \in Firings, LoseDigestLock(f) \/ StalledDigestJob(f)
        PROVE  UNCHANGED <<delivery, job, faults, gen, resend>>
    BY <1>b, <2>2 DEF LoseDigestLock, StalledDigestJob, outbox
  <2> QED
    BY <1>1, <1>5, <1>6, <1>7, <1>8, <2>1, <2>2 DEF Generate, GenerateStep
<1>9. ASSUME NEW r \in Resends, ReadForResend(r) \/ ResendNothing(r) PROVE AboutToEnqueue(k)'
  <2>1. resend[r].pc # "enqueue" /\ UNCHANGED <<delivery, job, faults, gen>>
    BY <1>9 DEF ReadForResend, ResendNothing, outbox
  <2>2. \A q \in Resends \ {r} : resend'[q] = resend[q]
    BY <1>9, <1>a DEF ReadForResend, ResendNothing
  <2>3. AboutToEnqueue(k)
    BY <2>1 DEF PendingIsAnnounced
  <2> QED
    BY <1>c, <2>1, <2>2, <2>3 DEF AboutToEnqueue, At
<1>10. ASSUME NEW r \in Resends, ResendDigest(r) PROVE AboutToEnqueue(k)'
  <2>1. /\ resend[r].pc = "find" /\ resend[r].day \in Days
        /\ UNCHANGED <<job, faults, gen>>
    BY <1>10 DEF ResendDigest, ProducersInv
  <2>2. /\ resend'[r].pc = "enqueue" /\ \A q \in Resends \ {r} : resend'[q] = resend[q]
    BY <1>10, <1>a DEF ResendDigest, TypeOK
  <2>3. CASE k = ResendKey(resend[r].day, r)
    <3>1. resend'[r] = [pc |-> "enqueue", day |-> resend[r].day]
      BY <1>10, <1>a DEF ResendDigest, TypeOK
    <3> QED
      BY <2>3, <3>1 DEF AboutToEnqueue, ResendKey
  <2>4. CASE k # ResendKey(resend[r].day, r)
    <3>1. delivery'[k] = delivery[k]
      BY <1>10, <1>a, <2>4 DEF ResendDigest, W!InsertDelivery
    <3>2. AboutToEnqueue(k)
      BY <2>1, <3>1 DEF PendingIsAnnounced
    <3> QED
      BY <1>c, <2>1, <2>2, <3>2 DEF AboutToEnqueue, At
  <2> QED
    BY <2>3, <2>4
<1>11. ASSUME NEW r \in Resends, EnqueueResend(r) PROVE AboutToEnqueue(k)'
  <2>1. /\ resend[r].pc = "enqueue" /\ resend[r].day \in Days
        /\ UNCHANGED <<delivery, faults, gen>>
    BY <1>11 DEF EnqueueResend, ProducersInv
  <2>2. job' = [job EXCEPT ![ResendKey(resend[r].day, r)].state = "waiting"]
    BY <1>11 DEF EnqueueResend, W!AddJob
  <2>3. k # ResendKey(resend[r].day, r) /\ job'[k] = job[k]
    BY <1>a, <2>1, <2>2, KeyType DEF W!Jobs
  <2>4. AboutToEnqueue(k)
    BY <2>1, <2>3 DEF PendingIsAnnounced
  <2>5. \A q \in Resends \ {r} : resend'[q] = resend[q]
    BY <1>11, <1>a DEF EnqueueResend
  <2> QED
    BY <1>c, <2>1, <2>3, <2>4, <2>5 DEF AboutToEnqueue, At
<1>12. CASE Resend
  BY <1>b, <1>9, <1>10, <1>11, <1>12 DEF Resend, ResendStep, ResendRejected
<1>13. CASE UNCHANGED vars
  BY <1>1, <1>13 DEF vars, outbox
<1> QED
  BY <1>2, <1>3, <1>8, <1>12, <1>13 DEF Next

(* While nothing failed, no interleaving of digest jobs, resends and           *)
(* deliveries forgets a PENDING row (digest.service.ts:170-172, :221-230), if  *)
(* the queue tries a job as often as the row may be tried (webhooks.module.ts: *)
(* 11, webhooks.service.ts:12).                                                *)
THEOREM QueuedCorrect ==
  ASSUME MaxAttempts <= JobAttempts
  PROVE  Spec => []PendingIsQueued
<1>1. Init => UndisturbedInv
  <2>1. Init => PendingIsAnnounced
    BY DEF Init, W!Init, W!NoRow, PendingIsAnnounced
  <2> QED
    BY <2>1, PipelineInit, UndisturbedOutboxInit DEF Init, UndisturbedInv
<1>2. UndisturbedInv /\ [Next]_vars => UndisturbedInv'
  BY PipelineStep, UndisturbedOutboxStep, AnnouncedStep DEF UndisturbedInv
<1>3. UndisturbedInv => PendingIsQueued
  BY DEF UndisturbedInv, PendingIsQueued, PendingIsAnnounced, W!UndisturbedInv,
         W!UndisturbedJob, PipelineInv, W!DeliveryInv, W!TypeOK, W!Jobs, W!JobState
<1> QED
  BY <1>1, <1>2, <1>3, PTL DEF Spec

-----------------------------------------------------------------------------
(* A punctual team's early standups are in the day's digest.                   *)

LEMMA RunType ==
  ASSUME TypeOK, NEW g \in Generators, gen[g].pc # "idle"
  PROVE  gen[g].firing \in Firings
BY DEF TypeOK, GenerateRuns, Generating, Ended

LEMMA FiringType ==
  /\ \A f \in Firings : f[1] \in Days /\ f[2] \in 1..MaxFirings /\ f = <<f[1], f[2]>>
  /\ \A d \in Days, n \in 1..MaxFirings : <<d, n>> \in Firings /\ <<d, n>>[1] = d
BY DEF Firings

(* What was read and composed stays timely when jobs fire and runs move on.    *)
LEMMA EarlyFrame ==
  ASSUME TypeOK, EarlyInv, UNCHANGED <<standup, digest>>, FiringsTimely',
         \A f \in Firings : Fired(f) => Fired(f)',
         \A g \in Generators : gen'[g] = gen[g] \/ RunTimely(g)'
  PROVE  EarlyInv'
<1>1. ASSUME NEW g \in Generators PROVE RunTimely(g)'
  <2>1. CASE gen'[g] = gen[g]
    BY <2>1, RunType DEF EarlyInv, RunTimely
  <2> QED
    BY <2>1
<1>2. DigestTimely'
  BY FiringType DEF EarlyInv, DigestTimely
<1> QED
  BY <1>1, <1>2 DEF EarlyInv, EarlyStandupsReported

(* A run that moves on without reading standups.                               *)
LEMMA RunMoves ==
  ASSUME TypeOK, EarlyInv, NEW g \in Generators, gen[g].pc # "idle",
         UNCHANGED <<now, standup, digest, digestJob>>,
         \A h \in Generators \ {g} : gen'[h] = gen[h],
         gen'[g].firing = gen[g].firing,
         \/ gen'[g].pc \in {"returned", "threw"}
         \/ /\ gen[g].pc \in {"team", "find", "load", "enqueue"}
            /\ gen'[g].day = gen[g].day /\ gen'[g].standups = gen[g].standups
            /\ "standups" \in gen'[g].todo <=> "standups" \in gen[g].todo
  PROVE  EarlyInv'
<1>1. FiringsTimely' /\ \A f \in Firings : Fired(f) => Fired(f)'
  BY DEF EarlyInv, FiringsTimely, Fired, Unfinished, Reached
<1>2. RunTimely(g)'
  BY DEF EarlyInv, RunTimely, Fired
<1> QED
  BY <1>1, <1>2, EarlyFrame

(* Digest jobs that change hands, wait again or end.                           *)
LEMMA JobsMove ==
  ASSUME TypeOK, EarlyInv, UNCHANGED <<now, standup, digest>>,
         \A g \in Generators : gen'[g] = gen[g] \/ RunTimely(g)',
         \A f \in Firings : /\ Fired(f) <=> Fired(f)'
                            /\ Unfinished(f)' => Unfinished(f)
  PROVE  EarlyInv'
<1>1. FiringsTimely'
  BY DEF EarlyInv, FiringsTimely, Reached
<1> QED
  BY <1>1, EarlyFrame

LEMMA EarlyClock ==
  ASSUME TypeOK, EarlyInv, Punctual,
         ReachDeadline \/ PassDeadline \/ NextDay \/ MoveDeadline
  PROVE  EarlyInv'
<1>0. FiringsTimely
  BY DEF EarlyInv
<1>a. now.day \in Days /\ Days \subseteq Int /\ digestJob \in [Firings -> DigestJobs]
  BY DEF TypeOK, Days
<1>b. DOMAIN now = {"day", "phase"}
  BY DEF TypeOK
<1>1. CASE ReachDeadline
  <2>1. now'.day = now.day /\ now'.phase = "deadline"
    BY <1>1, <1>b DEF ReachDeadline, TypeOK
  <2>2. \A f \in Firings : Reached(f[1]) => Reached(f[1])'
    BY <2>1 DEF Reached
  <2>3. UNCHANGED <<standup, digest, gen>>
    BY <1>1 DEF ReachDeadline
  <2>4. ASSUME NEW f \in Firings, f[1] = now.day,
               digestJob' = [digestJob EXCEPT ![f].state = "waiting"]
        PROVE  EarlyInv'
    <3>1. \A e \in Firings : digestJob'[e].state =
            IF e = f THEN "waiting" ELSE digestJob[e].state
      BY <1>a, <2>4 DEF DigestJobs
    <3>2. FiringsTimely'
      BY <1>0, <2>1, <2>2, <2>4, <3>1 DEF FiringsTimely, Fired, Unfinished, Reached
    <3> QED
      BY <2>3, <3>1, <3>2, EarlyFrame DEF Fired
  <2>5. CASE UNCHANGED digestJob
    <3>1. FiringsTimely'
      BY <1>0, <2>1, <2>2, <2>5 DEF FiringsTimely, Fired, Unfinished
    <3> QED
      BY <2>3, <2>5, <3>1, EarlyFrame DEF Fired
  <2> QED
    BY <1>1, <2>4, <2>5 DEF ReachDeadline, Fires
<1>2. CASE PassDeadline
  <2>1. now'.day = now.day /\ now'.phase = "after" /\ UNCHANGED <<standup, digest, gen, digestJob>>
    BY <1>2, <1>b DEF PassDeadline, TypeOK
  <2>2. FiringsTimely'
    BY <1>0, <2>1 DEF FiringsTimely, Fired, Unfinished, Reached
  <2> QED
    BY <2>1, <2>2, EarlyFrame DEF Fired
<1>3. CASE NextDay
  <2>1. now'.day = now.day + 1 /\ UNCHANGED <<standup, digest, gen, digestJob>>
    BY <1>3 DEF NextDay
  <2>2. \A f \in Firings : ~Unfinished(f)
    BY <1>3 DEF Punctual
  <2>3. \A d \in Days : Reached(d) => Reached(d)'
    <3>1. TAKE d \in Days
    <3>2. now.day \in Int /\ d \in Int
      BY <1>a
    <3> QED
      BY <2>1, <3>2 DEF Reached
  <2>4. FiringsTimely'
    BY <1>0, <2>1, <2>2, <2>3, FiringType DEF FiringsTimely, Fired, Unfinished
  <2> QED
    BY <2>1, <2>4, EarlyFrame DEF Fired
<1>4. CASE MoveDeadline
  <2>1. now'.day = now.day /\ UNCHANGED <<standup, digest, gen, digestJob>>
    BY <1>4, <1>b DEF MoveDeadline, TypeOK
  <2>2. \A f \in Firings : Fired(f) => f[1] # now.day
    BY <1>4, FiringType DEF Punctual, Fired
  <2>3. \A f \in Firings : Fired(f) => Reached(f[1])'
    BY <1>0, <2>1, <2>2 DEF FiringsTimely, Reached
  <2>4. FiringsTimely'
    BY <1>0, <2>1, <2>3 DEF FiringsTimely, Fired, Unfinished
  <2> QED
    BY <2>1, <2>4, EarlyFrame DEF Fired
<1> QED
  BY <1>1, <1>2, <1>3, <1>4

(* A standup is early only while no job of its day has fired.                  *)
LEMMA EarlyInsert ==
  ASSUME TypeOK, EarlyInv, NEW u \in Users, InsertStandup(u)
  PROVE  EarlyInv'
<1> USE DEF EarlyInv
<1> DEFINE day == draft[u].day
<1>1. /\ day \in Days /\ UNCHANGED <<now, digest, gen, digestJob>>
      /\ standup' = [standup EXCEPT ![day][u] = Moment(draft[u])]
  BY DEF InsertStandup, TypeOK, NoDraft
<1>2. Moment(draft[u]) = "early" => now = [day |-> day, phase |-> "before"]
  BY DEF Moment
<1>3. ASSUME NEW d \in Days, NEW v \in Users, standup'[d][v] = "early",
             standup[d][v] # "early"
      PROVE  \A f \in Firings : Fired(f) => f[1] # d
  <2>1. d = day /\ now = [day |-> day, phase |-> "before"]
    BY <1>1, <1>2, <1>3 DEF TypeOK
  <2>2. day \in Int
    BY <1>1 DEF Days
  <2>3. ~Reached(d)
    BY <2>1, <2>2 DEF Reached
  <2> QED
    BY <2>3 DEF FiringsTimely
<1>4. FiringsTimely' /\ DigestTimely'
  BY <1>1 DEF FiringsTimely, DigestTimely, Fired, Unfinished, Reached
<1>5. ASSUME NEW g \in Generators PROVE RunTimely(g)'
  <2>1. SUFFICES ASSUME gen[g].pc \in {"team", "find", "load", "enqueue"},
                        "standups" \notin gen[g].todo, NEW v \in Users,
                        standup'[gen[g].day][v] = "early"
                 PROVE  gen[g].standups[v] # "none"
    BY <1>1 DEF RunTimely, Fired
  <2>2. /\ gen[g].firing \in Firings /\ gen[g].day \in Days
        /\ Fired(gen[g].firing) /\ gen[g].firing[1] = gen[g].day
    BY <2>1, GenType DEF RunTimely
  <2>3. standup[gen[g].day][v] = "early"
    BY <1>3, <2>1, <2>2
  <2> QED
    BY <2>1, <2>3 DEF RunTimely
<1>6. EarlyStandupsReported'
  <2>1. SUFFICES ASSUME NEW d \in Days, digest[d] # NoContent, NEW v \in Users,
                        standup'[d][v] = "early"
                 PROVE  v \in digest[d].submitted
    BY <1>1 DEF EarlyStandupsReported
  <2>2. PICK n \in 1..MaxFirings : Fired(<<d, n>>)
    BY <2>1 DEF DigestTimely
  <2>3. standup[d][v] = "early"
    BY <1>3, <2>1, <2>2, FiringType
  <2> QED
    BY <2>1, <2>3 DEF EarlyStandupsReported
<1> QED
  BY <1>4, <1>5, <1>6

LEMMA EarlyLoad ==
  ASSUME TypeOK, EarlyInv, NEW g \in Generators, LoadStandups(g)
  PROVE  EarlyInv'
<1>1. /\ gen[g] \in Generating /\ gen[g].day \in Days /\ gen[g].pc = "load"
      /\ UNCHANGED <<now, standup, digest, digestJob>>
  BY GenType DEF LoadStandups, At, setting
<1>2. \A h \in Generators \ {g} : gen'[h] = gen[h]
  BY DEF LoadStandups, TypeOK
<1>3. /\ gen'[g].pc = "load" /\ gen'[g].firing = gen[g].firing
      /\ gen'[g].day = gen[g].day /\ gen'[g].standups = standup[gen[g].day]
  BY <1>1 DEF LoadStandups, TypeOK, Generating
<1>4. RunTimely(g)'
  BY <1>1, <1>3 DEF EarlyInv, RunTimely, Fired
<1> QED
  BY <1>1, <1>2, <1>4, JobsMove DEF Fired, Unfinished

(* What is composed is what was read.                                          *)
LEMMA EarlyCommit ==
  ASSUME TypeOK, EarlyInv, NEW g \in Generators, CommitDigest(g)
  PROVE  EarlyInv'
<1> USE DEF EarlyInv
<1> DEFINE day == gen[g].day
<1>1. /\ gen[g] \in Generating /\ day \in Days /\ gen[g].pc = "load"
      /\ gen[g].firing \in Firings /\ gen[g].todo = {}
      /\ UNCHANGED <<now, standup, digestJob>>
  BY GenType DEF CommitDigest, Loaded, At, setting
<1>2. /\ \A h \in Generators \ {g} : gen'[h] = gen[h]
      /\ gen'[g].firing = gen[g].firing
      /\ \/ gen'[g].pc = "returned"
         \/ /\ gen'[g].pc = "enqueue" /\ gen'[g].day = day
            /\ gen'[g].standups = gen[g].standups
  BY <1>1 DEF CommitDigest, Goto, End, TypeOK, Generating
<1>3. Fired(gen[g].firing) /\ gen[g].firing[1] = day
  BY <1>1 DEF RunTimely
<1>4. \A u \in Users : standup[day][u] = "early" => gen[g].standups[u] # "none"
  BY <1>1 DEF RunTimely
<1>5. digest' = [digest EXCEPT ![day] = Content(gen[g].members, gen[g].standups)]
  BY DEF CommitDigest
<1>6. FiringsTimely'
  BY <1>1 DEF FiringsTimely, Fired, Unfinished, Reached
<1>7. ASSUME NEW h \in Generators PROVE RunTimely(h)'
  <2>1. CASE h = g
    BY <1>1, <1>2, <1>3, <1>4, <2>1 DEF RunTimely, Fired
  <2>2. CASE h # g
    BY <1>1, <1>2, <2>2 DEF RunTimely, Fired
  <2> QED
    BY <2>1, <2>2
<1>8. DigestTimely'
  <2>1. gen[g].firing[2] \in 1..MaxFirings /\ Fired(<<day, gen[g].firing[2]>>)
    BY <1>1, <1>3, FiringType
  <2>2. \A d \in Days \ {day} : digest'[d] = digest[d]
    BY <1>5 DEF TypeOK
  <2> QED
    BY <1>1, <2>1, <2>2 DEF DigestTimely, Fired
<1>9. EarlyStandupsReported'
  <2>1. digest'[day] = Content(gen[g].members, gen[g].standups)
    BY <1>1, <1>5 DEF TypeOK
  <2>2. \A u \in Users : standup'[day][u] = "early" => u \in digest'[day].submitted
    BY <1>1, <1>4, <2>1 DEF Content, Submitters
  <2>3. \A d \in Days \ {day} : digest'[d] = digest[d]
    BY <1>5 DEF TypeOK
  <2> QED
    BY <1>1, <2>2, <2>3 DEF EarlyStandupsReported
<1> QED
  BY <1>6, <1>7, <1>8, <1>9

LEMMA EarlyJobs ==
  ASSUME TypeOK, EarlyInv,
         \/ \E g \in Generators : TakeDigestJob(g) \/ SettleDigestJob(g) \/ CrashGenerator(g)
         \/ \E f \in Firings : LoseDigestLock(f) \/ StalledDigestJob(f)
  PROVE  EarlyInv'
<1>a. digestJob \in [Firings -> DigestJobs] /\ DOMAIN gen = Generators
  BY DEF TypeOK
<1>1. ASSUME NEW g \in Generators, TakeDigestJob(g) PROVE EarlyInv'
  <2>1. PICK f \in Firings :
          /\ digestJob[f].state = "waiting"
          /\ digestJob' = [digestJob EXCEPT ![f].state = "active", ![f].owner = g]
          /\ gen' = [gen EXCEPT ![g] = Started(f)]
          /\ UNCHANGED <<now, standup, digest>>
    BY <1>1 DEF TakeDigestJob, setting
  <2>2. \A e \in Firings : digestJob'[e].state =
          IF e = f THEN "active" ELSE digestJob[e].state
    BY <1>a, <2>1 DEF DigestJobs
  <2>3. Fired(f) /\ Unfinished(f)
    BY <2>1 DEF Fired, Unfinished
  <2>4. Fired(f)' /\ \A e \in Firings \ {f} : digestJob'[e].state = digestJob[e].state
    BY <2>2 DEF Fired
  <2>5. \A e \in Firings : (Fired(e) <=> Fired(e)') /\ (Unfinished(e)' => Unfinished(e))
    BY <2>3, <2>4 DEF Fired, Unfinished
  <2>6. f[1] = now.day
    BY <2>3 DEF EarlyInv, FiringsTimely
  <2>7. RunTimely(g)'
    <3>1. gen'[g] = Started(f)
      BY <1>a, <2>1
    <3> QED
      BY <2>4, <2>6, <3>1 DEF RunTimely, Started, Today
  <2>8. \A h \in Generators \ {g} : gen'[h] = gen[h]
    BY <1>a, <2>1
  <2> QED
    BY <2>1, <2>5, <2>7, <2>8, JobsMove
<1>2. ASSUME NEW g \in Generators, SettleDigestJob(g) \/ CrashGenerator(g) PROVE EarlyInv'
  <2>1. UNCHANGED <<now, standup, digest>> /\ gen[g].pc # "idle"
    BY <1>2 DEF SettleDigestJob, CrashGenerator, setting
  <2>2. gen[g].firing \in Firings /\ Fired(gen[g].firing)
    BY <2>1, RunType DEF EarlyInv, RunTimely
  <2>3. gen' = [gen EXCEPT ![g] = Ended]
    BY <1>2 DEF SettleDigestJob, CrashGenerator
  <2>4. RunTimely(g)' /\ \A h \in Generators \ {g} : gen'[h] = gen[h]
    BY <1>a, <2>3 DEF RunTimely, Ended
  <2>5. \A e \in Firings : (Fired(e) <=> Fired(e)') /\ (Unfinished(e)' => Unfinished(e))
    <3>1. CASE SettleDigestJob(g)
      <4> DEFINE f == gen[g].firing
                 end == IF gen[g].pc = "returned" THEN "completed" ELSE "failed"
      <4>1. CASE digestJob[f].owner # g
        <5>1. digestJob' = digestJob
          BY <3>1, <4>1 DEF SettleDigestJob
        <5> QED
          BY <5>1 DEF Fired, Unfinished
      <4>2. CASE digestJob[f].owner = g
        <5>1. digestJob' = [digestJob EXCEPT ![f].owner = NoGenerator, ![f].state = end]
          BY <3>1, <4>2 DEF SettleDigestJob
        <5>2. \A e \in Firings :
                digestJob'[e].state = IF e = f THEN end ELSE digestJob[e].state
          <6> HIDE DEF f, end
          <6> QED
            BY <1>a, <5>1 DEF DigestJobs
        <5> QED
          BY <2>2, <5>2 DEF Fired, Unfinished
      <4> QED
        BY <4>1, <4>2
    <3>2. CASE CrashGenerator(g)
      BY <1>a, <3>2 DEF CrashGenerator, Fired, Unfinished, DigestJobs
    <3> QED
      BY <1>2, <3>1, <3>2
  <2> QED
    BY <2>1, <2>4, <2>5, JobsMove
<1>3. ASSUME NEW f \in Firings, LoseDigestLock(f) \/ StalledDigestJob(f) PROVE EarlyInv'
  <2>1. UNCHANGED <<now, standup, digest, gen>>
    BY <1>3 DEF LoseDigestLock, StalledDigestJob, setting
  <2>2. \A e \in Firings : (Fired(e) <=> Fired(e)') /\ (Unfinished(e)' => Unfinished(e))
    BY <1>a, <1>3 DEF LoseDigestLock, StalledDigestJob, Fired, Unfinished, DigestJobs
  <2> QED
    BY <2>1, <2>2, JobsMove
<1> QED
  BY <1>1, <1>2, <1>3

LEMMA EarlyRuns ==
  ASSUME TypeOK, EarlyInv, NEW g \in Generators,
         \/ ReadTeam(g) \/ FindDigest(g) \/ LoadMembers(g)
         \/ CommitConflict(g) \/ EnqueueDigest(g) \/ GenerateRejected(g)
  PROVE  EarlyInv'
<1>1. /\ gen[g].pc \in {"team", "find", "load", "enqueue"} /\ gen[g] \in Generating
      /\ UNCHANGED <<now, standup, digest, digestJob>>
  BY GenType DEF ReadTeam, FindDigest, LoadMembers, CommitConflict, EnqueueDigest,
     GenerateRejected, Loaded, At, setting
<1>2. \A h \in Generators \ {g} : gen'[h] = gen[h]
  BY DEF ReadTeam, FindDigest, LoadMembers, CommitConflict, EnqueueDigest,
     GenerateRejected, Goto, End, TypeOK
<1>3. CASE LoadMembers(g)
  BY <1>1, <1>2, <1>3, RunMoves DEF LoadMembers, TypeOK, Generating
<1>4. CASE End(g, "returned") \/ End(g, "threw")
  BY <1>1, <1>2, <1>4, RunMoves DEF End, TypeOK
<1>5. CASE Goto(g, "load") \/ gen' = [gen EXCEPT ![g].pc = "find", ![g].url = webhookUrl]
  <2>1. /\ gen'[g].firing = gen[g].firing /\ gen'[g].day = gen[g].day
        /\ gen'[g].standups = gen[g].standups /\ gen'[g].todo = gen[g].todo
    BY <1>1, <1>5 DEF Goto, TypeOK, Generating
  <2> QED
    BY <1>1, <1>2, <2>1, RunMoves
<1>6. CASE ReadTeam(g) \/ FindDigest(g)
  BY <1>4, <1>5, <1>6 DEF ReadTeam, FindDigest
<1>7. CASE CommitConflict(g) \/ EnqueueDigest(g) \/ GenerateRejected(g)
  BY <1>4, <1>7 DEF CommitConflict, EnqueueDigest, GenerateRejected
<1> QED
  BY <1>3, <1>6, <1>7

LEMMA EarlyStep ==
  ASSUME TypeOK, EarlyInv, [Next /\ Punctual]_vars
  PROVE  EarlyInv'
<1>1. ASSUME UNCHANGED <<now, standup, digest, digestJob, gen>> PROVE EarlyInv'
  BY <1>1, JobsMove DEF Fired, Unfinished
<1>a. CASE UNCHANGED vars
  BY <1>1, <1>a DEF vars, setting
<1>b. SUFFICES ASSUME Next, Punctual PROVE EarlyInv'
  BY <1>a
<1>2. ASSUME NEW u \in Users, Submit(u) \/ SubmitRejected(u) PROVE EarlyInv'
  BY <1>1, <1>2 DEF Submit, SubmitRejected
<1>3. CASE ChangeMembers \/ ChangeTeam \/ ChangeUrl
  BY <1>1, <1>3 DEF ChangeMembers, ChangeTeam, ChangeUrl
<1>4. CASE Environment
  BY <1>b, <1>2, <1>3, <1>4, EarlyInsert, EarlyClock DEF Environment
<1>5. CASE Generate
  BY <1>5, EarlyJobs, EarlyRuns, EarlyLoad, EarlyCommit DEF Generate, GenerateStep
<1>6. CASE Resend
  BY <1>1, <1>6 DEF Resend, ResendStep, ReadForResend, ResendDigest, ResendNothing,
     EnqueueResend, ResendRejected, setting
<1>7. CASE Deliver
  BY <1>1, <1>7 DEF Deliver, OutboxOnly, setting
<1> QED
  BY <1>b, <1>4, <1>5, <1>6, <1>7 DEF Next

(* A standup written before the deadline's minute is in the day's digest,      *)
(* however its submit, overlapping and repeated digest jobs and changes of the *)
(* team interleave (digest.service.ts:45, :62-85, :129-168), for any number of *)
(* days, if no deadline is moved after its job fired and no digest job is left *)
(* over at midnight.                                                           *)
THEOREM EarlyCorrect == PunctualSpec => []EarlyStandupsReported
<1>1. Init => EarlyInv
  BY DEF Init, EarlyInv, FiringsTimely, RunTimely, DigestTimely, EarlyStandupsReported,
         Fired, Unfinished, NoDigestJob, Ended
<1>2. PipelineInv /\ EarlyInv /\ [Next /\ Punctual]_vars => PipelineInv' /\ EarlyInv'
  BY PipelineStep, EarlyStep DEF PipelineInv
<1>3. EarlyInv => EarlyStandupsReported
  BY DEF EarlyInv
<1> QED
  BY <1>1, <1>2, <1>3, PipelineInit, PTL DEF PunctualSpec
=============================================================================
