---------------------------- MODULE DigestPipeline ----------------------------
(* One team's digests, from the scheduled job to the channel: the queue        *)
(* "digest", DigestService.generate() run by the worker processes, resend()    *)
(* run by the API, both producing webhook_deliveries rows for WebhookDelivery, *)
(* while members submit standups, join and leave, the configuration changes    *)
(* and the team's clock passes the deadline and midnight.                      *)
EXTENDS Integers, FiniteSets

CONSTANTS
  Users,
  LastDay,      \* bound: the team-local days 1..LastDay
  WorkingDays,  \* the days whose weekday is in team_configs.workingDays
  MaxFirings,   \* bound: digest jobs per day (moving the deadline fires again)
  Resends,      \* bound: identities of resend requests
  MaxChanges,   \* bound: changes to the team, its members and its URL
  Generators,   \* worker slots that run generate()
  NoGenerator,  \* nobody holds the digest job's lock
  Workers, NoWorker, MaxAttempts, JobAttempts, MaxStalled, CanLoseLock, MaxFaults

Days == 1..LastDay
Firings == Days \X (1..MaxFirings)

ASSUME PipelineAssumption ==
  /\ LastDay \in Nat \ {0}
  /\ MaxFirings \in Nat \ {0}
  /\ MaxChanges \in Nat
  /\ WorkingDays \subseteq Days
  /\ NoGenerator \notin Generators
  /\ IsFiniteSet(Users)

(* dedupeKey: `digest:team:date`, and `digest-resend:team:date:uuid`.          *)
DigestKey(day) == [kind |-> "digest", day |-> day]
ResendKey(day, r) == [kind |-> "resend", day |-> day, request |-> r]
Keys == [kind : {"digest"}, day : Days]
          \union [kind : {"resend"}, day : Days, request : Resends]

VARIABLES
  delivery, digestStatus, webhookUrl, job, run, posts, faults,
  now,        \* the team's clock: its day, and where it is about the deadline
  team,       \* "active", "inactive" (isActive = false) or "deleted"
  members,    \* team_members
  changes,    \* changes so far (bounded by MaxChanges)
  draft,      \* the request that is submitting a user's standup
  standup,    \* standups: when each user submitted, per day
  digest,     \* digests: the content of each day's row
  stat,       \* daily_team_stats: each day's row
  digestJob,  \* jobs of the queue "digest"
  gen,        \* what each run of generate() is doing
  resend      \* what each resend request is doing

W == INSTANCE WebhookDelivery WITH
       Deliveries <- Keys, Digests <- Days, NoDigest <- 0,
       DigestOf <- [k \in Keys |-> k.day]

ASSUME OutboxAssumption == W!WorkersAssumption /\ W!BoundsAssumption

outbox == <<delivery, digestStatus, webhookUrl, job, run, posts, faults>>
setting == <<now, team, members, changes, draft, standup>>
vars == <<outbox, setting, digest, stat, digestJob, gen, resend>>

-----------------------------------------------------------------------------
(* Data.                                                                       *)

(* A standup is "late" (isLate) if its request came after the deadline's       *)
(* minute.  Else it is "early" if it was also written before that minute, at   *)
(* whose first second the digest job fires, and "onTime" if not.               *)
Submission == {"none", "early", "onTime", "late"}

NoContent == [none |-> TRUE]
NoStat == [none |-> TRUE]

Submitters(s) == {u \in Users : s[u] # "none"}
Late(s) == {u \in Users : s[u] = "late"}

(* The digest of the members m and the standups s that were read.              *)
Content(m, s) ==
  [submitted |-> Submitters(s), late |-> Late(s), missing |-> m \ Submitters(s),
   missingCount |-> Cardinality(m) - Cardinality(Submitters(s))]
(* Mutant: the statistics count the missing list, the digest does not. *)
StatFromList(m, s) ==
  [memberCount |-> Cardinality(m), submittedCount |-> Cardinality(Submitters(s)),
   missingCount |-> Cardinality(m \ Submitters(s)), lateCount |-> Cardinality(Late(s))]
Stat(m, s) ==
  [memberCount |-> Cardinality(m), submittedCount |-> Cardinality(Submitters(s)),
   missingCount |-> Cardinality(m) - Cardinality(Submitters(s)),
   lateCount |-> Cardinality(Late(s))]

Contents == {Content(m, s) : m \in SUBSET Users, s \in [Users -> Submission]}
Stats == {Stat(m, s) : m \in SUBSET Users, s \in [Users -> Submission]}

Ended == [pc |-> "idle"]
NoDigestJob == [state |-> "none", stalled |-> 0, owner |-> NoGenerator]
NoResend == [pc |-> "idle", day |-> 0]
NoDraft == [day |-> 0, isLate |-> FALSE]

DigestJobs ==
  [state : W!JobState, stalled : Nat, owner : Generators \union {NoGenerator}]
Generating ==
  [pc : {"team", "find", "load", "enqueue"}, firing : Firings, day : Days,
   url : BOOLEAN, todo : SUBSET {"members", "standups"},
   members : SUBSET Users, standups : [Users -> Submission]]
GenerateRuns ==
  {Ended} \union [pc : {"returned", "threw"}, firing : Firings] \union Generating

TypeOK ==
  /\ W!TypeOK
  /\ now \in [day : Days, phase : {"before", "deadline", "after"}]
  /\ team \in {"active", "inactive", "deleted"}
  /\ members \subseteq Users
  /\ changes \in 0..MaxChanges
  /\ draft \in [Users -> {NoDraft} \union [day : Days, isLate : BOOLEAN]]
  /\ standup \in [Days -> [Users -> Submission]]
  /\ digest \in [Days -> Contents \union {NoContent}]
  /\ stat \in [Days -> Stats \union {NoStat}]
  /\ digestJob \in [Firings -> DigestJobs]
  /\ gen \in [Generators -> GenerateRuns]
  /\ resend \in [Resends -> [pc : {"idle", "find", "enqueue", "done"}, day : 0..LastDay]]

Init ==
  /\ W!Init
  /\ now = [day |-> 1, phase |-> "before"]
  /\ team = "active"
  /\ members = Users
  /\ changes = 0
  /\ draft = [u \in Users |-> NoDraft]
  /\ standup = [d \in Days |-> [u \in Users |-> "none"]]
  /\ digest = [d \in Days |-> NoContent]
  /\ stat = [d \in Days |-> NoStat]
  /\ digestJob = [f \in Firings |-> NoDigestJob]
  /\ gen = [g \in Generators |-> Ended]
  /\ resend = [r \in Resends |-> NoResend]

-----------------------------------------------------------------------------
(* The team and its clock.                                                     *)

(* StandupsService.submit(): behind the membership guard, on a working day,    *)
(* once per day; an inactive team still takes standups.  The moment that makes *)
(* it late or not is taken awaits before the row is written.                   *)
Submit(u) ==
  /\ team # "deleted"
  /\ u \in members
  /\ now.day \in WorkingDays
  /\ draft[u] = NoDraft
  /\ standup[now.day][u] = "none"
  /\ draft' = [draft EXCEPT ![u] = [day |-> now.day, isLate |-> now.phase = "after"]]
  /\ UNCHANGED <<outbox, now, team, members, changes, standup, digest, stat, digestJob, gen, resend>>

Moment(d) ==
  CASE d.isLate -> "late"
    [] ~d.isLate /\ now = [day |-> d.day, phase |-> "before"] -> "early"
    [] OTHER -> "onTime"
InsertStandup(u) ==
  /\ draft[u] # NoDraft
  /\ standup' = [standup EXCEPT ![draft[u].day][u] = Moment(draft[u])]
  /\ draft' = [draft EXCEPT ![u] = NoDraft]
  /\ UNCHANGED <<outbox, now, team, members, changes, digest, stat, digestJob, gen, resend>>

(* The insert is rejected, or the API process dies before it.                  *)
SubmitRejected(u) ==
  /\ draft[u] # NoDraft
  /\ W!Fault
  /\ draft' = [draft EXCEPT ![u] = NoDraft]
  /\ UNCHANGED <<delivery, digestStatus, webhookUrl, job, run, posts, now, team,
                 members, changes, standup, digest, stat, digestJob, gen, resend>>

Change ==
  /\ team # "deleted"
  /\ changes < MaxChanges
  /\ changes' = changes + 1

(* acceptInvitation() and removeMember().                                      *)
ChangeMembers == \E u \in Users :
  /\ Change
  /\ members' = IF u \in members THEN members \ {u} ELSE members \union {u}
  /\ UNCHANGED <<outbox, now, team, draft, standup, digest, stat, digestJob, gen, resend>>

(* updateConfig() and softDelete().                                            *)
ChangeTeam == \E status \in {"active", "inactive", "deleted"} :
  /\ Change
  /\ team # status
  /\ team' = status
  /\ UNCHANGED <<outbox, now, members, draft, standup, digest, stat, digestJob, gen, resend>>

ChangeUrl ==
  /\ Change
  /\ W!SetWebhookUrl
  /\ UNCHANGED <<now, team, members, draft, standup, digest, stat, digestJob, gen, resend>>

(* The job scheduler, registered while the team is active, adds a day's job   *)
(* when the deadline's minute begins.  It schedules a job when the one before *)
(* is taken, or when a reconcile registers it anew: while an earlier job still *)
(* waits, the next may or may not come.                                        *)
Fires(f) ==
  /\ team = "active"
  /\ f[1] = now.day
  /\ digestJob[f].state = "none"
  /\ \A n \in 1..(f[2] - 1) : digestJob[<<now.day, n>>].state # "none"

Silent == team # "active" \/ \E f \in Firings : digestJob[f].state = "waiting"

ReachDeadline ==
  /\ now.phase = "before"
  /\ now' = [now EXCEPT !.phase = "deadline"]
  /\ \/ \E f \in Firings :
          Fires(f) /\ digestJob' = [digestJob EXCEPT ![f].state = "waiting"]
     \/ Silent /\ UNCHANGED digestJob
  /\ UNCHANGED <<outbox, team, members, changes, draft, standup, digest, stat, gen, resend>>

PassDeadline ==
  /\ now.phase = "deadline"
  /\ now' = [now EXCEPT !.phase = "after"]
  /\ UNCHANGED <<outbox, team, members, changes, draft, standup, digest, stat, digestJob, gen, resend>>

NextDay ==
  /\ now.phase = "after"
  /\ now.day < LastDay
  /\ now' = [day |-> now.day + 1, phase |-> "before"]
  /\ UNCHANGED <<outbox, team, members, changes, draft, standup, digest, stat, digestJob, gen, resend>>

(* updateConfig() sets today's deadline to a later time.                       *)
MoveDeadline ==
  /\ team # "deleted"
  /\ now.phase = "after"
  /\ \E n \in 1..MaxFirings : digestJob[<<now.day, n>>].state = "none"
  /\ now' = [now EXCEPT !.phase = "before"]
  /\ UNCHANGED <<outbox, team, members, changes, draft, standup, digest, stat, digestJob, gen, resend>>

-----------------------------------------------------------------------------
(* The queue "digest".  Scheduled jobs carry no attempts: a throw fails them.  *)

(* The run starts: its `at` is now, its date the team's day of now.            *)
(* Mutant: the date of a zone ahead of the team's. *)
TodayAhead == now.day + 1
Today == now.day
Started(f) ==
  [pc |-> "team", firing |-> f, day |-> Today, url |-> FALSE,
   todo |-> {"members", "standups"}, members |-> {},
   standups |-> [u \in Users |-> "none"]]

TakeDigestJob(g) == \E f \in Firings :
  /\ gen[g].pc = "idle"
  /\ digestJob[f].state = "waiting"
  /\ digestJob' = [digestJob EXCEPT ![f].state = "active", ![f].owner = g]
  /\ gen' = [gen EXCEPT ![g] = Started(f)]
  /\ UNCHANGED <<outbox, setting, digest, stat, resend>>

(* The worker tells the queue that generate() returned, or threw.              *)
SettleDigestJob(g) == LET f == gen[g].firing IN
  /\ gen[g].pc \in {"returned", "threw"}
  /\ digestJob' = IF digestJob[f].owner # g THEN digestJob ELSE
       [digestJob EXCEPT ![f].owner = NoGenerator,
          ![f].state = IF gen[g].pc = "returned" THEN "completed" ELSE "failed"]
  /\ gen' = [gen EXCEPT ![g] = Ended]
  /\ UNCHANGED <<outbox, setting, digest, stat, resend>>

CrashGenerator(g) ==
  /\ gen[g].pc # "idle"
  /\ W!Fault
  /\ gen' = [gen EXCEPT ![g] = Ended]
  /\ digestJob' = [f \in Firings |->
       IF digestJob[f].owner = g THEN [digestJob[f] EXCEPT !.owner = NoGenerator]
                                 ELSE digestJob[f]]
  /\ UNCHANGED <<delivery, digestStatus, webhookUrl, job, run, posts,
                 setting, digest, stat, resend>>

LoseDigestLock(f) ==
  /\ CanLoseLock
  /\ digestJob[f].owner # NoGenerator
  /\ W!Fault
  /\ digestJob' = [digestJob EXCEPT ![f].owner = NoGenerator]
  /\ UNCHANGED <<delivery, digestStatus, webhookUrl, job, run, posts,
                 setting, digest, stat, gen, resend>>

StalledDigestJob(f) ==
  /\ digestJob[f].state = "active"
  /\ digestJob[f].owner = NoGenerator
  /\ digestJob' = [digestJob EXCEPT ![f].stalled = @ + 1,
                     ![f].state = IF digestJob[f].stalled < MaxStalled
                                  THEN "waiting" ELSE "failed"]
  /\ UNCHANGED <<outbox, setting, digest, stat, gen, resend>>

-----------------------------------------------------------------------------
(* generate(), one action per await.                                           *)

At(g, pc) == gen[g].pc = pc
Goto(g, pc) == gen' = [gen EXCEPT ![g].pc = pc]
End(g, how) == gen' = [gen EXCEPT ![g] = [pc |-> how, firing |-> @.firing]]

(* team_not_found, team_inactive, not_working_day; otherwise the URL is kept.  *)
ReadTeam(g) ==
  /\ At(g, "team")
  /\ IF team = "active" /\ gen[g].day \in WorkingDays
     THEN gen' = [gen EXCEPT ![g].pc = "find", ![g].url = webhookUrl]
     ELSE End(g, "returned")
  /\ UNCHANGED <<outbox, setting, digest, stat, digestJob, resend>>

FindDigest(g) ==
  /\ At(g, "find")
  /\ IF digest[gen[g].day] = NoContent THEN Goto(g, "load") ELSE End(g, "returned")
  /\ UNCHANGED <<outbox, setting, digest, stat, digestJob, resend>>

(* Promise.all: the two reads are made in either order.                        *)
LoadMembers(g) ==
  /\ At(g, "load")
  /\ "members" \in gen[g].todo
  /\ gen' = [gen EXCEPT ![g].members = members, ![g].todo = @ \ {"members"}]
  /\ UNCHANGED <<outbox, setting, digest, stat, digestJob, resend>>

(* Mutant: only present members' standups are read. *)
LoadMembersStandups(g) ==
  /\ At(g, "load")
  /\ "standups" \in gen[g].todo
  /\ gen' = [gen EXCEPT ![g].todo = @ \ {"standups"}, ![g].standups =
       [u \in Users |-> IF u \in members THEN standup[gen[g].day][u] ELSE "none"]]
  /\ UNCHANGED <<outbox, setting, digest, stat, digestJob, resend>>
LoadStandups(g) ==
  /\ At(g, "load")
  /\ "standups" \in gen[g].todo
  /\ gen' = [gen EXCEPT ![g].standups = standup[gen[g].day],
                        ![g].todo = @ \ {"standups"}]
  /\ UNCHANGED <<outbox, setting, digest, stat, digestJob, resend>>

Loaded(g) == At(g, "load") /\ gen[g].todo = {}

(* The transaction: the digest, its delivery if the team had a URL, the stat.  *)
CommitDigest(g) == LET day == gen[g].day IN
  /\ Loaded(g)
  /\ digest[day] = NoContent
  /\ digest' = [digest EXCEPT ![day] = Content(gen[g].members, gen[g].standups)]
  /\ digestStatus' = [digestStatus EXCEPT ![day] = "GENERATED"]
  /\ stat' = [stat EXCEPT ![day] = Stat(gen[g].members, gen[g].standups)]
  /\ IF gen[g].url
     THEN W!InsertDelivery(DigestKey(day)) /\ Goto(g, "enqueue")
     ELSE UNCHANGED delivery /\ End(g, "returned")
  /\ UNCHANGED <<webhookUrl, job, run, posts, faults, setting, digestJob, resend>>

(* The unique index on (teamId, digestDate) rejects a second digest.           *)
(* Mutant: the existing digest is rewritten. *)
CommitOverwrite(g) ==
  /\ Loaded(g)
  /\ digest[gen[g].day] # NoContent
  /\ digest' = [digest EXCEPT ![gen[g].day] = Content(gen[g].members, gen[g].standups)]
  /\ End(g, "returned")
  /\ UNCHANGED <<outbox, setting, stat, digestJob, resend>>
CommitConflict(g) ==
  /\ Loaded(g)
  /\ digest[gen[g].day] # NoContent
  /\ End(g, "threw")
  /\ UNCHANGED <<outbox, setting, digest, stat, digestJob, resend>>

(* Mutant: the delivery is not enqueued. *)
EnqueueNothing(g) ==
  /\ At(g, "enqueue")
  /\ End(g, "returned")
  /\ UNCHANGED <<outbox, setting, digest, stat, digestJob, resend>>
EnqueueDigest(g) ==
  /\ At(g, "enqueue")
  /\ W!AddJob(DigestKey(gen[g].day))
  /\ End(g, "returned")
  /\ UNCHANGED <<delivery, digestStatus, webhookUrl, run, posts, faults,
                 setting, digest, stat, digestJob, resend>>

(* Any await of generate() may be rejected: PostgreSQL or Redis is away.  A     *)
(* transaction or an add that is made and not answered is CommitDigest with    *)
(* the rejection of "enqueue", or EnqueueDigest, but for how the job ends.     *)
GenerateRejected(g) ==
  /\ gen[g].pc \in {"team", "find", "load", "enqueue"}
  /\ W!Fault
  /\ End(g, "threw")
  /\ UNCHANGED <<delivery, digestStatus, webhookUrl, job, run, posts,
                 setting, digest, stat, digestJob, resend>>

-----------------------------------------------------------------------------
(* resend(): a further delivery of an existing digest, then its job.  Digests  *)
(* are never deleted, so looking for one and inserting its delivery are one.   *)

ReadForResend(r) == \E day \in Days :
  /\ resend[r].pc = "idle"
  /\ team # "deleted"
  /\ webhookUrl
  /\ resend' = [resend EXCEPT ![r] = [pc |-> "find", day |-> day]]
  /\ UNCHANGED <<outbox, setting, digest, stat, digestJob, gen>>

ResendDigest(r) == LET day == resend[r].day IN
  /\ resend[r].pc = "find"
  /\ digest[day] # NoContent
  /\ W!InsertDelivery(ResendKey(day, r))
  /\ resend' = [resend EXCEPT ![r].pc = "enqueue"]
  /\ UNCHANGED <<digestStatus, webhookUrl, job, run, posts, faults,
                 setting, digest, stat, digestJob, gen>>

(* DIGEST_NOT_FOUND. *)
ResendNothing(r) ==
  /\ resend[r].pc = "find"
  /\ digest[resend[r].day] = NoContent
  /\ resend' = [resend EXCEPT ![r].pc = "done"]
  /\ UNCHANGED <<outbox, setting, digest, stat, digestJob, gen>>

EnqueueResend(r) ==
  /\ resend[r].pc = "enqueue"
  /\ W!AddJob(ResendKey(resend[r].day, r))
  /\ resend' = [resend EXCEPT ![r].pc = "done"]
  /\ UNCHANGED <<delivery, digestStatus, webhookUrl, run, posts, faults,
                 setting, digest, stat, digestJob, gen>>

(* An await of resend() is rejected, or the API process dies; one that is made *)
(* and not answered is its step and then this one.                             *)
ResendRejected(r) ==
  /\ resend[r].pc \in {"find", "enqueue"}
  /\ W!Fault
  /\ resend' = [resend EXCEPT ![r].pc = "done"]
  /\ UNCHANGED <<delivery, digestStatus, webhookUrl, job, run, posts,
                 setting, digest, stat, digestJob, gen>>

-----------------------------------------------------------------------------

Environment ==
  \/ \E u \in Users : Submit(u) \/ InsertStandup(u) \/ SubmitRejected(u)
  \/ ChangeMembers \/ ChangeTeam \/ ChangeUrl
  \/ ReachDeadline \/ PassDeadline \/ NextDay \/ MoveDeadline

GenerateStep(g) ==
  \/ ReadTeam(g) \/ FindDigest(g) \/ LoadMembers(g) \/ LoadStandups(g)
  \/ CommitDigest(g) \/ CommitConflict(g) \/ EnqueueDigest(g)
  \/ SettleDigestJob(g)

Generate ==
  \/ \E g \in Generators :
       TakeDigestJob(g) \/ GenerateStep(g) \/ CrashGenerator(g) \/ GenerateRejected(g)
  \/ \E f \in Firings : LoseDigestLock(f) \/ StalledDigestJob(f)

ResendStep(r) == ResendDigest(r) \/ ResendNothing(r) \/ EnqueueResend(r)
Resend == \E r \in Resends : ReadForResend(r) \/ ResendStep(r) \/ ResendRejected(r)

OutboxOnly == UNCHANGED <<setting, digest, stat, digestJob, gen, resend>>
Deliver == W!Consume /\ OutboxOnly

Next == Environment \/ Generate \/ Resend \/ Deliver

(* Workers run the queues and requests end; users, clock and faults may stop.  *)
Fairness ==
  /\ \A g \in Generators : WF_vars(TakeDigestJob(g)) /\ WF_vars(GenerateStep(g))
  /\ \A f \in Firings : WF_vars(StalledDigestJob(f))
  /\ \A r \in Resends : WF_vars(ResendStep(r))
  /\ \A w \in Workers : /\ WF_vars(W!TakeJob(w) /\ OutboxOnly)
                        /\ WF_vars(W!DeliverStep(w) /\ OutboxOnly)
  /\ \A k \in Keys : WF_vars(W!StalledJob(k) /\ OutboxOnly)

Spec == Init /\ [][Next]_vars
FairSpec == Spec /\ Fairness

(* A punctual team moves a day's deadline only before a job of the day fired,   *)
(* and finds no digest job unfinished at midnight.                             *)
Unfinished(f) == digestJob[f].state \in {"waiting", "active"}
Punctual ==
  /\ MoveDeadline => \A n \in 1..MaxFirings : digestJob[<<now.day, n>>].state = "none"
  /\ NextDay => \A f \in Firings : ~Unfinished(f)
PunctualSpec == Init /\ [][Next /\ Punctual]_vars

-----------------------------------------------------------------------------
(* The promise, and this pipeline as an implementation of it.                  *)

Promise == INSTANCE DigestPromise WITH
  composed <- digest,
  shown <- {d \in Days : W!Posted(d)},
  sent <- {d \in Days : digestStatus[d] = "SENT"}

(* Overlapping digest jobs, reruns, resends and retries keep the promise       *)
(* (digest.service.ts:129-168, webhooks.service.ts:28-128): a digest is        *)
(* composed once and never rewritten, shown only once composed, SENT only if   *)
(* shown.                                                                      *)
KeepsPromise == Promise!Spec

-----------------------------------------------------------------------------
(* Safety.                                                                     *)

(* The day's digest, its statistics and its row in the outbox appear together  *)
(* and tell the same numbers (digest.service.ts:129-168), so the reports that  *)
(* read daily_team_stats never contradict the channel; its count of the missing *)
(* never exceeds the list beside it (:89, :94).                                *)
LedgersAgree ==
  \A d \in Days :
    /\ digest[d] = NoContent <=> stat[d] = NoStat
    /\ digest[d] = NoContent <=> digestStatus[d] = "none"
    /\ digest[d] # NoContent =>
         /\ stat[d].submittedCount = Cardinality(digest[d].submitted)
         /\ stat[d].missingCount = digest[d].missingCount
         /\ stat[d].lateCount = Cardinality(digest[d].late)
         /\ digest[d].missingCount <= Cardinality(digest[d].missing)
    /\ \A k \in Keys : k.day = d /\ delivery[k].status # "none"
                         => digest[d] # NoContent

(* While nothing fails, a PENDING row is in the queue's hands or about to be   *)
(* (digest.service.ts:170-172, :221-230): no interleaving of digest jobs,      *)
(* resends and deliveries forgets one.                                         *)
AboutToEnqueue(k) ==
  \/ k.kind = "digest" /\ \E g \in Generators :
       At(g, "enqueue") /\ gen[g].day = k.day
  \/ k.kind = "resend" /\ resend[k.request] = [pc |-> "enqueue", day |-> k.day]

PendingIsQueued ==
  \A k \in Keys : delivery[k].status = "PENDING" /\ faults = 0 =>
    job[k].state \in {"waiting", "active"} \/ AboutToEnqueue(k)

(* A standup written before the deadline's minute is in the day's digest,      *)
(* however its submit, the digest job, a rerun of it and changes of the team    *)
(* overlap (digest.service.ts:45, :62-85), if the team is punctual: otherwise  *)
(* it is not.                                                                  *)
EarlyStandupsReported ==
  \A d \in Days : digest[d] # NoContent =>
    \A u \in Users : standup[d][u] = "early" => u \in digest[d].submitted

-----------------------------------------------------------------------------
(* Liveness.                                                                   *)

(* While nothing but the endpoint fails, a digest that has a delivery is        *)
(* delivered, or given up as FAILED (digest.service.ts:170-172 with            *)
(* webhooks.service.ts:28-128).                                                *)
Settled(d) == delivery[DigestKey(d)].status \in {"SUCCESS", "FAILED"}
UndisturbedIsSettled ==
  \A d \in Days :
    delivery[DigestKey(d)].status = "PENDING" ~> Settled(d) \/ faults > 0

-----------------------------------------------------------------------------
(* What makes the safety properties inductive.                                 *)

(* A producer that is about to enqueue has written its row, or its request     *)
(* named a day.                                                                *)
ProducersInv ==
  /\ \A g \in Generators : At(g, "enqueue") =>
       delivery[DigestKey(gen[g].day)].status # "none"
  /\ \A r \in Resends :
       /\ resend[r].pc \in {"find", "enqueue"} => resend[r].day \in Days
       /\ resend[r].pc = "enqueue" =>
            delivery[ResendKey(resend[r].day, r)].status # "none"

(* Of a punctual team, a job has fired only if its day's deadline was reached,  *)
(* an unfinished one is today's, a run is of its job's day and, once it has     *)
(* read the standups, knows every early one; a digest has a job that fired.    *)
Reached(d) == now.day > d \/ (now.day = d /\ now.phase # "before")
Fired(f) == digestJob[f].state # "none"
FiringsTimely == \A f \in Firings :
  /\ Fired(f) => Reached(f[1])
  /\ Unfinished(f) => f[1] = now.day
RunTimely(g) ==
  /\ gen[g].pc # "idle" => Fired(gen[g].firing)
  /\ gen[g].pc \in {"team", "find", "load", "enqueue"} =>
       /\ gen[g].firing[1] = gen[g].day
       /\ "standups" \notin gen[g].todo => \A u \in Users :
            standup[gen[g].day][u] = "early" => gen[g].standups[u] # "none"
DigestTimely == \A d \in Days :
  digest[d] # NoContent => \E n \in 1..MaxFirings : Fired(<<d, n>>)
EarlyInv ==
  FiringsTimely /\ (\A g \in Generators : RunTimely(g)) /\ DigestTimely
    /\ EarlyStandupsReported

PipelineInv ==
  /\ TypeOK
  /\ W!DeliveryInv
  /\ ProducersInv
  /\ LedgersAgree

(* While nothing failed, a PENDING row without a job is about to get one.      *)
PendingIsAnnounced ==
  faults = 0 => \A k \in Keys :
    delivery[k].status = "PENDING" /\ job[k].state = "none" => AboutToEnqueue(k)

UndisturbedInv ==
  PipelineInv /\ W!UndisturbedInv /\ PendingIsAnnounced
=============================================================================
