# StandSync in TLA+

Models, model checking and proofs of StandSync: its background processing (the
digests, reminders and exports, the webhook outbox that carries messages to a
team's channel, the job schedulers that start them), its teams, its standups, its
sessions and its accounts. Source paths are relative to
`src/apps/api/src/modules/` unless they start with `src/`.

```
tlc -workers 2 -config delivery_overlap.cfg MCWebhookDelivery.tla
tlapm Scheduler_proofs.tla
```

## 1. Inventory

Two kinds of processes run this code: API processes (`src/apps/api/src/main.ts`)
and worker processes (`worker.ts`). They share PostgreSQL, through Prisma, and
Redis, through BullMQ, and nothing spans both. Any number of each may run, may
die between two awaits and may come back. The web client talks to the API only.

| component | state | operations | talks to |
|---|---|---|---|
| teams (`teams/`) | `teams`, `team_configs`, `team_members`, `invitations` | create, update, softDelete, updateConfig, invite, accept, change role, remove | scheduler (call), mail (queue) |
| scheduler (`scheduler/`) | job schedulers in Redis: one digest, three reminders per team | reconcileTeam, reconcileAll at boot | teams (read), queues `digest`, `reminders` |
| standups (`standups/`) | `standups` | submit, update, today board, history by cursor | teams (read) |
| digest (`digest/`) | `digests`, `daily_team_stats`, queue `digest` | generate, resend | standups, members (read), outbox (insert), webhooks (call) |
| reminders (`reminders/`) | queue `reminders` | send | as digest |
| webhooks (`webhooks/`) | `webhook_deliveries`, queue `webhooks` | enqueueDelivery, deliver | the team's channel (HTTP POST), `digests.status` |
| sessions (`auth/`, web `api-client.ts`) | `refresh_tokens`, cookie, access token in memory | login, rotate, logout, reset password, silent refresh | - |
| accounts (`auth/`) | `users`, `email_verifications`, `password_resets`, `auth_accounts` | register, resend, forgot, verify, reset, provider sign-in | mail (queue) |
| exports (`export/`) | `export_jobs`, files, queue `reports` | enqueue, process, download | standups (read) |
| reports, search, analytics | none of their own | read | standups, `daily_team_stats` |
| mail (`mail/`) | queue `mail` | process | the mailbox (SMTP) |
| formatters, bootstrap, filters, web pages | none of their own | - | - |

What is hard here, and what makes each part correct:

- **Outbox.** `deliver()` reads a row, POSTs, and records the outcome: five
  awaits, no lock on the row. A process may die, an answer may be lost, a
  query may be rejected, a BullMQ lock may expire while the run is going, so
  two runs overlap on one row. The row and the job each count tries. Correct
  means: statuses only advance and say what happened, tries run out
  together, what the channel can see again is bounded, every row is settled.
- **Digest.** `generate()` runs at a minute that standups, joins, leaves,
  configuration changes and midnight share. Two jobs of a day may overlap.
  Correct means: one digest per day, never rewritten, its statistics and its
  delivery beside it, its delivery enqueued, the early standups in it.
- **Scheduler.** Eight Redis calls per reconcile, with the configuration read
  before them, from several requests and boots at once. Correct means: once
  all is quiet, the schedulers are those of the configuration, and a boot
  repairs whatever went wrong.
- **Sessions.** Rotation checks, inserts, then revokes, while a browser may
  send the same cookie twice. Correct means: one live token per family, no
  live token after logout or reset, no session lost to the client's own race.
- **Teams.** Roles and invitations are checked before an unguarded write.
  Correct means: one owner always, no one joins a team deleted or by an
  invitation revoked.
- **Exports, reminders.** Row status against job tries, and insert against
  enqueue, with runs that overlap on one file or one day. Correct means: a
  completed export has its whole file, a reminder goes to those who still owe a
  standup, and nothing stays in progress for good.
- **Standups.** A submit takes its moment and writes awaits later; a list is
  paged while rows are inserted; counts are made of two reads. Correct means: one
  row a day, nothing late in a row on time, every row shown once, counts that agree.
- **Accounts.** Every request checks, then writes awaits later; links travel by a
  queue. Correct means: one way in per account, a link works once, and whoever signs
  up is mailed.

`PROJECT.json` lists each hazard at its line and the properties that cover it, or
why none does.

## 2. Modules

| module | models | composed of |
|---|---|---|
| `WebhookDelivery` | webhooks: rows, queue, runs of `deliver()` | - |
| `DigestPipeline` | digest, resend, queue `digest`, submit, clock, changes to the team | `INSTANCE WebhookDelivery` |
| `DigestPromise` | what a team is promised, without workers or queues | refined by `DigestPipeline` |
| `Scheduler` | reconcileTeam, its three callers, the boot loop | - |
| `Teams` | roles, members, invitations, soft delete of one team | - |
| `Sessions` | one user's refresh tokens, cookies and requests | - |
| `Standups` | submit, edit, paged lists, board, dashboard, weekly report | - |
| `JobQueue` | a BullMQ queue: tries, locks, stalled jobs | instantiated by `Exports`, `Reminders`, `Accounts` |
| `Exports` | the export request, `process()`, the file | `INSTANCE JobQueue` |
| `Reminders` | `send()` on the queue `reminders` | `INSTANCE JobQueue` |
| `AccountTables` | the rows of accounts, profiles and links, and what must hold of them | - |
| `Accounts` | sign-up, provider sign-in, links, the queue `mail` | `AccountTables`, `INSTANCE JobQueue` |
| `*_proofs` | theorems about the module they are named after; `Sessions_proofs` about `Accounts` too | extend it |
| `MC*` | values for TLC | extend the above |

Two rules hold in all of them. One action is what happens up to the next
`await`, including the whole of a transaction, because only there can another
process come between. And a fault (a process that dies, a rejected query, an
an update that is made but not answered, an expired lock) is an action that counts in `faults`, bounded by `MaxFaults`, so
that a property can say what holds without faults and what holds in spite of
them.

### WebhookDelivery

A row is `delivery[d]` (status, attempts), its job `job[d]` (state, tries made,
stalls, owner of the lock), a worker slot `run[w]` (which await, which row, the
attempts it read). `ReadPending`/`SkipSettled` are lines 29-62,
`PostAccepted`/`PostRefused` the fetch (an accepted POST may lose its answer and
be taken for a failure), `CommitSuccess` the transaction of 79-103,
`RecordFailure` the catch, `MarkFailed` its namesake, `QueryRejected` and
`CommitRejected` awaits that are rejected, `CommitUnheard` and `UpdateUnheard`
a transaction or an update that is made while its answer is lost, which the code
cannot tell from a rejection: after such a commit (`unheard`) the catch writes the row
that the run itself has just marked SUCCESS. `SettleJob` is what the processor tells
the queue. BullMQ is external and modelled as the code relies on it: a job's
lock is lost when its process dies or, if `CanLoseLock`, while it lives;
`StalledJob` hands such a job out again `MaxStalled` times, and a settlement
without the lock is ignored. `posts[d]` counts what the endpoint accepted and `job[d].lost` remembers an
expired lock; the program has no such variables, the properties need them. Left out: the body of
the POST, error texts, the back-off (a waiting job may be taken at any time),
and removal of finished jobs.

### DigestPipeline

The team's clock `now` has a day and where it is about the deadline: before it,
in its minute, after it. The digest fires at the first second of the minute and
`isLate` compares minutes, so the minute is a phase of its own. A generator slot
`gen[g]` goes through generate(): team, existing digest, the two parallel reads
in either order, the transaction (`CommitDigest`, or `CommitConflict` on the
unique index), the enqueue; each may be rejected. A transaction or an insert
that is made but not answered is here its step followed by `GenerateRejected` or `ResendRejected`,
as neither handler writes more after it; an unanswered enqueue is the enqueue, but for how the job ends. The date is the clock's day when the run
starts. Deliveries are named by their dedupe key; the module instantiates
`WebhookDelivery` with them, and `Deliver` is that module's consumer. The team, its members, its URL and its deadline change
under all of it, `MaxChanges` times. `submit()` takes its
moment (`Submit`, a `draft`) and writes awaits later (`InsertStandup`), perhaps after
the deadline or midnight. `resend()` reads the team, then finds the digest and
inserts: digests are never deleted, so the last two are one step. Two submits of one
user at once are in `Standups`.

Refinement: `Promise == INSTANCE DigestPromise` with `composed` the contents of
the digests, `shown` the days with an accepted POST, `sent` the days marked
SENT. Resends and retries show a day again, which the promise allows.

### Scheduler

A scheduler is its timezone and its minute of the day. `call[c]` is a request or
a boot: past its guard, after its write, at its n-th removal or registration,
with what it read. `CreateTeam`, `UpdateConfig`, `SoftDelete` are the three
hooks; the guard that admits the last two is a step of its own, so a team may
be deleted between guard and write. `RemoveRejected` is the swallowed rejection
of lines 79-95, `CallDies` any other, and the death of the process. The times
are computed as the code does, with JavaScript's `%` and the wrap at midnight.
`disturbed[t]` is a history variable: FALSE again as soon as a call reads the
team while no other works on it, TRUE when a call reads it while another does,
or when a call fails on it after its write. It names what QuietTeamsMatch must
exclude. `AtIt` is a call that still has a team to do, or works on it with what it has
done standing; `StepsLeft` counts the awaits a call has left. Left out: what BullMQ does at a firing
(`DigestPipeline` takes it from there), the pending job that a removal discards,
and cron's text.

### Teams

One team: `role[u]` is `team_members`, `invitation[i]` its rows, `past` those
whose seven days are over. `call[c]` is a request, at one of its awaits. A
request starts where `TeamMembershipGuard` admits its actor (`Admitted`, an
acceptance starts at its own checks), and what it has read it keeps.
`updateMemberRole()` reads actor and target in two queries in either order
(`ReadActor`, `ReadTarget`), `removeMember()` in one (`ReadBoth`); both then check
(`MayChange`) and write by key (`WriteChange`). `invite()` looks for a member,
revokes what is pending, inserts, each an await. `acceptInvitation()` checks, then
writes membership and status in one transaction that checks nothing again.
`disturbed[c]` is a history variable: another request wrote since `c` started. A
user is an e-mail address, registered or not; the role a request gives is chosen
when it is written. Left out: names, the mail, and the reads.

### Sessions

`token[k]` is a row of `refresh_tokens`, `cookie[b]` what a browser holds, `call[c]` a
request at one of its awaits. A rotation is `Find` (a revoked token is a reuse), `Insert`,
`Retire` (by id, whatever happened meanwhile), `Reply`; a reuse revokes the family and
leaves the cookie alone; `Logout` and `CommitReset` revoke in one statement, which does
not see the row that a request past its check is about to insert (`slipped`). Every tab
refreshes on its own with its browser's cookie, as `api-client.ts` does. `disturbed` names
the families of which one token was refreshed twice at once or a rotation was cut off.
Left out: access tokens, which are stateless, and other users. A reset revokes every family
with a row, and a login whose row is still to come slips past it.

### JobQueue, Exports, Reminders

`JobQueue` is BullMQ as the code relies on it, with the same rules as in
`WebhookDelivery`: a throw costs a try, a lock is lost with its process or, rarely,
while it lives, a stalled job is handed out `MaxStalled` times, a settlement without
the lock is ignored. `Left` is what is left of a job: its tries and hand-outs, each worth
more than the awaits of a run, and the awaits left to the run that holds its lock.
JobsRunOut, of the outbox, the exports and the reminders, is about it.

`Exports`: `InsertExport` and `AddJob` are the request, `run[w]` goes through
`process()`: find, claim (PROCESSING), load, open (which truncates the file), write,
complete, or fail, which is written from any of them. Standups are submitted meanwhile, so a
file says which it holds. `asked` and `unheard` are history.

`Reminders`: one team, whose members, submissions and switch change while `send()` runs;
the two reads are in either order; the row's dedupe key is the day and the kind, and the
insert that loses returns. `cut` is the rows whose run a fault ended before the enqueue.
The queue has no retries (`JobAttempts` is 1), and what becomes of a queued row is
`WebhookDelivery`.

### Standups

`now` is a day and whether its deadline is over. `submit()` and `update()` take their moment at the
start and write an await later; a row found between the two ends the call as the unique index does, so
the find is folded into the start. Ids are cuids: `Ids` are given out in any order, because
pages are ordered by (date, id). `list` is a browser's list: its first page, load-more and
the answer it may lose; filters are on what an edit cannot change. A load-more whose first
page is replaced or fetched anew meanwhile mixes the two (`mixed`), which PagesComplete
excludes. `report` is a board, dashboard or weekly report with its two reads in either
order. A week has `DaysPerWeek` days (7 in the code). `UpdateConfig` is updateConfig(): it sets
`workingDays` to another of `Settings`, and moves `now` to where the new deadline and time zone put
the team in its days, by at most `MaxShift` days. A submit, a board and a report keep the working
days they read; a row remembers those it was let in under (`setting`, history). The lists read no
configuration. `Beside` bounds the write requests under way while a page is open, `MaxUpdates`
the updates. In `DigestPipeline` and `Reminders` the days that are working days stay constant:
what their jobs do on a day taken off, or put back, is what they do when the team's switch (`isActive`)
is turned, which they model; that a submit is then refused too is in `Standups`. Of the client, `list` is the history page; the search page
is not modelled (§5), only the pages that search() answers.

### Accounts

`user[e]` is the row of an address (every path lowers addresses first), `link[l]` the rows of
`email_verifications` and `password_resets` in order of issue, `inbox` what was delivered.
A request's first query is folded into its start: one that ends there has changed nothing.
What follows is one action per await, the unique index on the address and the
transactions of the link's use and of the provider sign-in included. `shared` is the links
that two requests had found good before either used it. Left out: the log-only mode without
credentials, the mail of an invitation, and the OAuth exchange, which is passport's. An
account is made only if a link is left for it, which is the bound `MaxLinks`.

## 3. Runs

| run | properties | result | bounds |
|---|---|---|---|
| `delivery_overlap` | ClaimsAreTrue, PostsBounded, SettledIsFinal, JobsRunOut, EnqueuedIsSettled | hold | 1 delivery of a digest, 2 workers, 5 tries (the code's), 1 stall (BullMQ's default), 3 faults; locks may expire |
| `pipeline` | TypeOK, PendingIsQueued, KeepsPromise | hold | 1 user, 2 days (one working), 2 generators, 1 resend, 1 worker, 1 try, 1 fault; locks may expire |
| `pipeline_fair` | EarlyStandupsReported, LedgersAgree, UndisturbedIsSettled | hold | 1 user, 1 day, 2 generators, 1 worker, 2 tries, 1 change, 1 fault; locks may expire |
| `scheduler_overlap` | QuietTeamsMatch, SeenThrough | hold | 1 team, 2 calls, 2 settings, 2 faults |
| `scheduler_boot` | BootRepairs | holds | 2 teams, 1 call, 2 settings, 2 faults |
| `teams_races` | TypeOK, SingleOwner, UndisturbedIsRight, PendingBounded | hold | an owner and 2 others, 2 requests at once, 2 invitations |
| `sessions` | TypeOK, EndedStaysEnded, OneLiveToken, SessionSurvives | hold | 3 tokens, 2 families, 1 browser, 3 requests at once, 1 fault |
| `sessions_reload` | ReloadKeepsSession | violated | 3 tokens, 1 family, 1 browser, 2 requests, no fault |
| `exports` | DownloadIsWhole, PendingIsRetried, EndIsFinal, JobsRunOut, UndisturbedEnds | hold | 1 export, 2 standups, 2 workers, 3 tries, 1 stall, 3 faults |
| `reminders` | OnlyDueReminded, PendingIsQueued, StaysInHand, FiredIsQueued | hold | 1 user, 1 kind, 2 firings, 2 workers, 1 try, 2 days (one working), 1 fault |
| `standups` | TypeOK, OnePerDay, OnTimeIsOnTime, PagesComplete, CountsAgree, ParticipationAtMostOne | hold | 2 users, 3 rows, 2 write requests at once, pages of 1, a week of 2 days (1 working, either), 2 days, 1 update of the configuration, 1 request under way beside an open page |
| `accounts` | OneWayIn, LinkWorksOnce, SignupIsMailed | hold | 2 addresses, 2 profiles, 1 link, 2 requests at once, 1 mail worker, 2 tries, 1 stall, 2 faults |

What each run shows, in a sentence, is its "about" in `PROJECT.json`; every property
states, above its definition, the code it is about. The type invariant of the outbox is
part of the pipeline's; those of Scheduler, Exports, Reminders and Accounts are proved and
no longer run.

Why these bounds are enough for the interesting cases:

- Two workers are what an overlap on one row, or one file, takes; a third run needs
  another expired lock, and the theorems below hold for any number. Two faults give a
  crash and one more during the rerun; three give an expired lock, its rerun
  and a failure there. `MaxAttempts` and `JobAttempts` are equal as in the
  code; fewer of both, in the pipeline runs, shorten them without changing
  which ends first.
- Two days, a working one and a free one, are what a job delayed past midnight needs.
  Two generators give two runs of one job, or the jobs of two days, at once.
- Two teams show a boot that fails at its first team; two settings, one with the
  deadline ten minutes after midnight, show the wrap and the stale configuration.
- Three users are an owner, an admin who acts and an admin acted upon; two
  requests are a check and the write that comes between. Two invitations fill
  PendingBounded with two requests: one live, and one about to be inserted.
- Three requests on one browser are a rotation, another that overlaps it and the logout or
  reset between; three tokens are a login's, its successor, and that one's. Two families show
  that ending one leaves the other.
- Pages of one over three rows have a first, a middle and a last page. Two days are a whole week,
  and a member whose working day is moved from the first to the second submits on both, once more
  than the week has working days. One request beside an open page inserts between two pages or two reads;
  what two requests do to each other they do without a page. `MaxShift` is 0: time zones
  that change the day are in the theorems, which cover all the properties of this run, and not in the run.
- One link is issued, expires and is used by two requests at once. More would only add
  links that do not meet. Two addresses and two profiles are a profile that names another
  address next time, and an address two profiles name.
- Symmetry is used where slots, users, invitations or tokens are alike, never with
  liveness. KeepsPromise is a step property without fairness.
- `CHECK_DEADLOCK FALSE` where the bounds run out and nothing is left to do: days, changes and
  faults in the pipeline and reminder runs, exports, tokens, links; and in `teams_races`, where
  nothing starts on a deleted team. The other runs check for deadlock.

**Fairness.** Weak fairness of a worker's polling and of each of its steps: a
BullMQ worker polls while it lives, and every await of `deliver()`,
`generate()`, `send()` and `process()` settles (`fetch` is given no timeout of its own, so
for the POST this rests on the default timeouts of Node's client). Of the stalled-job checker: it is on
a timer. Of a request's next await, once it has started (Scheduler, Accounts, the job an export adds):
the server goes on with it. Never of users, the clock, what the schedulers fire, or
faults. Where a process that dies must come back, its slot is the next process.

**The violation**, a finding in `PROJECT.json`: `sessions_reload`. The web client says that a
reload keeps one signed in, but two tabs that reload together both send the cookie's token;
the second finds it rotated, takes it for stolen and revokes the session. SessionSurvives and
OneLiveToken are what holds: short of that overlap nobody is locked out.

**Known limits** that the models show and their properties therefore name:

- A POST accepted before a crash or a lost answer is posted again; PostsBounded says how
  often at most.
- A success transaction that is committed but not answered lets its run's catch write the
  row again: attempts, and on the last attempt FAILED, while the digest stays SENT. No status check and no
  condition on the update prevents it. SettledIsFinal excuses that run by name
  (`Unheard`); the job, if it runs again, finds a settled row and posts nothing.
- The weekly report measures a week's standups against the working days of now. After a
  change of them, or when a member who submitted has left, the participation it shows may exceed one
  (`missed` is capped at zero, `reports/reports.service.ts:94`, the rates of :95-98 and :129-132 are not).
  ParticipationAtMostOne excuses rows let in under other working days (`LetInOtherwise`) and, for
  the team's rate, departed members. TLC finds it violated without either.
- A PENDING digest, resend or reminder row whose enqueue a fault cut off is never picked up, as no code
  reads PENDING rows; an export may stay PROCESSING after enough faults. PendingIsQueued,
  PendingIsRetried and the liveness properties say what holds short of that.
- A standup of the deadline's minute, or written while the digest is composed, may be in
  no digest although it is not late (EarlyStandupsReported has the rest). A job delayed past midnight
  composes the new day's digest before its deadline, and one that had fired when the deadline
  was moved back composes the day's digest before the new one: standups written in between
  are early and in no digest. So EarlyStandupsReported is about punctual teams (`PunctualSpec`):
  no deadline is moved once the day's job fired, none is unfinished at midnight. In
  `pipeline_fair`, with one day and one job, every team is punctual; with two working days or two jobs
  a day TLC finds it violated under `Spec`, and the theorem is about any number of both.
- Of two overlapping saves the older configuration's schedulers may stay until the next
  save or boot (QuietTeamsMatch, BootRepairs).
- A reminder is skipped when everybody has submitted although somebody joined between
  the reads; CountsAgree names the same gap on the board.
- A logout does not end a rotation past its check (`slipped`), and two overlapping uses of one
  link both succeed (`shared`).

## 4. Proofs

All theorems hold for any sets and bounds that satisfy the named assumptions of the
modules, which say that the bounds are numbers, that a "none" value is not one of its set, and
where a count is taken that the set is finite (`DigestOfAssumption`, `WorkersAssumption`,
`BoundsAssumption`; `PipelineAssumption`, `OutboxAssumption`; `SettingsAssumption`,
`FaultsAssumption`; `OwnerAssumption`, `CallsAssumption`; `SessionsAssumption`;
`ExportsAssumption`; `RemindersAssumption`; `StandupsAssumption`; `AccountsAssumption`). TLC
evaluates these on every run of the module that declares them. `QueuedCorrect` of the pipeline assumes also that a row's
tries do not outnumber its job's, as in the code.

`WebhookDelivery_proofs`:

- `TypeCorrect`.
- `ClaimsCorrect`, `SuccessCorrect`, `PendingCorrect` from the inductive
  `DeliveryInv`: a run is of a row, it got past its read only with tries left,
  and it is at its commit only after an accepted POST. The claims alone are not
  inductive: without the last a commit could claim anything; without the second
  the attempts written from a stale read could leave a PENDING row at the limit.
- `StatusCorrect`: an action property, from types only. No write sets PENDING,
  and the catch writes back the status it finds.
- `SettledCorrect`, from `LocksInv`: until its job's lock expires under a live
  run, a run owns its job, hence is alone on its row, hence the row is PENDING
  from its read to its write, or to its commit if that goes unheard: then only that run
  may write the row (`Unheard`). Once a lock has
  expired so, two runs may write a settled row (StatusAdvances still limits how),
  which is why the property excludes it.
- `PostsCorrect` from `PostsInv`: the posts made and the runs that may still make
  one are at most the tries and stalls spent, plus one for the run in progress.
  It counts runs whose lock expired, so it needs no assumption on locks.
- `RunsOutCorrect`, the half of EnqueuedIsSettled that needs no fairness. Each step does one of
  a few things to a job and its run (`Touched`): nothing, an await, the enqueue, a take, a settlement,
  the loss of the lock, another hand-out; all but the first and the enqueue use up some of what is left.
  It rests on `HeldInv`: the owner of a lock is running that job.
- `EndsSettledCorrect`, the rest of what it says of the row: a job ends only over a settled one, unless
  a fault came, since a job and its row are tried alike often (`UndisturbedInv`). It assumes
  that a row's tries do not outnumber its job's, as in the code.

`Scheduler_proofs`:

- `TypeCorrect`.
- `QuietCorrect` from the inductive `QuietInv`, per team: it is disturbed; or at
  most one call works on it, what that call has done so far stands and what it
  read is current unless a writer waits to read; and if none is at it, its
  schedulers are the wanted ones. A step of a call elsewhere leaves it alone
  (`Elsewhere`), a write makes a waiting call (`Writing`), a read starts afresh
  (`Reading`), a step goes on or finishes (`GoingOn`, `Finishing`).
  `QuarterBefore` is the arithmetic of the wrap, and `RegisteredOnTime` takes
  the wanted schedulers to the times the configuration asks for.
- `SeenThroughCorrect`, an action property from types only: a call that is alone on a team and at
  it stays at it, or leaves the team's schedulers as its configuration asks, or another call comes,
  or a fault. A step of a call that is not on the team leaves its schedulers alone (`OffTeam`), and the
  call's own remove and register what it has yet to (`RemovedOn`, `RegisteredOn`).
- `CallsRunOutCorrect`: every step of a call lowers `StepsLeft`, whatever the other calls do. It
  assumes that there are finitely many teams, which the module else does not need.

`Teams_proofs`:

- `TypeCorrect`, with `AnswersInv`: the invitation a request answers is there.
- `OwnerCorrect` from `OwnerInv`: a change past its checks is not of the owner,
  and a target's role, once read, tells the owner from others. A stale read
  does no harm to that, because ownership never moves.
- `UndisturbedCorrect` from `KnowsInv`: what an undisturbed request knows at
  each await. Every write disturbs all others (`Disturbing`), so only a
  request's own step has to be looked at (`KnowsOwn`).
- `PendingCorrect`: counting the requests about to insert with the live
  invitations makes the bound inductive. A revocation empties one and leaves at
  most every request in the other.

`DigestPipeline_proofs`, from `PipelineInv`, the outbox's `DeliveryInv` beside what
the producers know:

- Every step of the pipeline is a step of the outbox or one it does not see, the commit
  of a digest without a delivery (`QuietDigest`), or a fault elsewhere. So the theorems of `WebhookDelivery_proofs`, by
  `WP == INSTANCE WebhookDelivery_proofs`, say what the outbox keeps, and only the
  producers have to be looked at.
- `TypeCorrect`, the outbox's type invariant included.
- `LedgersCorrect`: one transaction writes digest, statistics and delivery, and a producer at its
  enqueue has written its row (`ProducersInv`).
- `PromiseCorrect`: the refinement. Composing is the commit of a free day, showing an accepted POST
  of a day that has a digest, sending the outbox's commit, which comes only after such a POST.
  Everything else stutters.
- `OutboxPostsCorrect`, `OutboxSettledCorrect`, `OutboxRunsOutCorrect`: PostsBounded,
  SettledIsFinal, StatusAdvances and JobsRunOut of the outbox hold in the pipeline, producers and
  resends included. They do not follow from the theorems of `WebhookDelivery_proofs` by name, as not
  every step of the pipeline is one of the outbox; `OutboxInv` is carried over, step by step
  of the outbox, and a commit without a delivery and a fault elsewhere leave it alone (`QueueFrame`).
- `QueuedCorrect` from `UndisturbedInv`: a row is about to be enqueued by the run that
  inserted it, or its job is there, unless a fault came; and a job ends only over a settled row.
- `EarlyCorrect`, of a punctual team, from `EarlyInv`: a job that fired did so when its day's
  deadline was reached, an unfinished one is today's, so a run's day is its job's, and once it
  has read the standups no early one can be added to that day. Each step touches the clock,
  the standups, the jobs or one run (`EarlyClock`, `EarlyInsert`, `EarlyJobs`, `EarlyLoad`,
  `EarlyCommit`, `EarlyRuns`).

`Sessions_proofs`, about Sessions:

- `TypeCorrect`.
- `EndedCorrect` from `EndedInv`: of an ended family that nothing slipped past, nothing is
  live and no request is at its insert.
- `OneLiveCorrect` from `OneAtWork`: in an undisturbed family at most one request is between its insert
  and its revocation, only one rotates a token, and it owns the live tokens.
- `SurvivesCorrect` from `OneHolder` and `IssuedIsLive`: a fresh token is in nobody's hands until its
  answer arrives, so no answer's order matters and no request can revoke it.

and about Accounts (the two are one module of the API, `auth/`), by `A == INSTANCE Accounts` over
the tables of `AccountTables`, from `AccountsInv`:

- `AccountsTypeCorrect`, the TypeOK of `Accounts`. The history of a link's uses is bounded by the requests there are only
  because its uses and the requests about to use it are counted together (`UsesInv`).
- `OneWayInCorrect` from `WaysInv`: an account without a password is linked to one profile, one
  with a password to none. It is inductive only beside `LinksInv` and `CallsInv`: the transaction of
  a reset writes a password into whatever account its link names, and what says that one is there
  already has to follow the link from the request that asked for it.
- `LinkWorksOnceCorrect` from `UsesInv`: an unshared link has one request past its check, then one use.
- `SignupCorrect`, the safety half of SignupIsMailed: until something fails, an address that signed
  up and is not verified has a link being issued or mailed, a mail in the queue, or a mail that
  arrived. It needs `NothingLost` beside it (`SignupInv`): with no fault an active job is in a
  worker's hands, and a job that ended, like a run that returned, has delivered its mail. That the
  mail does arrive takes fairness and stays with TLC.
- Three frames carry the steps to `AccountsInv`: what moves a request (`OnlyCall`), what the queue, a worker or time
  does (`MailKept`), and what the queue does to its jobs (`QueueKeeps`); the four steps that write
  rows have lemmas of their own.

`Exports_proofs`:

- `TypeCorrect`, with the bounds of tries and hand-outs (`JobInv`).
- `WholeCorrect` from `OwnerInv` and `RunInv`: until a lock is lost, the owner is the one
  run at work, so between its open and its completion nobody truncates the file.
- `RetriedCorrect` from `FaultsPaid`: each try spent and each hand-out is paid for by a fault,
  so a job that ends over a PENDING row has cost as many faults as there are of both.
- `EndCorrect`: a settled row is written again only after an expired lock, or a completion that
  was written and reported as failed.
- `RunsOutCorrect` and `NoneForgottenCorrect`, of UndisturbedEnds what needs no fairness: every step of
  a job uses up some of what is left of it (as in the outbox), and until something fails an
  export is done, or its request is about to add its job, or the job waits or is held.

`Reminders_proofs`, from `JobInv` and `RunInv`:

- `TypeCorrect`.
- `OnlyDueCorrect`: what a run read is between what held when it began and what holds now.
- `QueuedCorrect`: the row in want of its job has a run at its enqueue, and the unique key makes it one.
- `StaysInHandCorrect`: what a fired reminder has in hand (its job waits, its run has not missed the
  member, another run of its key is at the enqueue, or the row is queued) no step drops while nothing
  fails. A run that returns has lost to a row of its key, and `CutInv` says that without a fault
  no such row is cut off, so it is queued or in another's hands (`PassedStays`).
- `RunsOutCorrect`: as of the exports. A newcomer writes into every run at work (`JoinTouches`) but
  leaves it as far from its end as it was.
- `NoFailureCorrect`: without a fault no reminder job fails; the index's refusal is handled.

`Standups_proofs`:

- `TypeCorrect`; `OneCorrect`; `OnTimeCorrect`, from the moment each call carries.
- `PagesCorrect`: the cursor lies between what was shown and what is owed (`Divides`), and an answer
  under way says the same of its own cursor, so a row inserted meanwhile disturbs neither.
- `CountsCorrect`: the counts over finite sets, by inclusion.
- `ParticipationCorrect`: weekdays, in any zone, are a bijection from the working days among any
  `DaysPerWeek` days to the setting a report read (`WeekCounted`, which rests on facts about remainders,
  `ModUnique`, `ModApart`, `ModReached`). A row let in under that setting is on one of those days
  (`LetInOnItsDays`, from `RowsWork`), so days are one-to-one from a user's rows to them, and users
  and days from all rows to members and days. Settings, updates and moves of the time zone are
  unbounded in it: `Settings`, `MaxUpdates` and `MaxShift` are any.

So every invariant and action property that a run checks is proved. Only model-checked is
what is temporal under fairness: these provers reach neither fairness nor ENABLED. Of each such
property the part that needs neither is proved, so what is left to TLC is that a step that stays
enabled is taken, and that one is enabled where something is left to do:

| property | of it, proved |
|---|---|
| EnqueuedIsSettled | JobsRunOut, `EndsSettledCorrect` |
| UndisturbedIsSettled | PendingIsQueued, `OutboxRunsOutCorrect` |
| UndisturbedEnds | JobsRunOut, `NoneForgottenCorrect` |
| BootRepairs | SeenThrough, `CallsRunOutCorrect` |
| FiredIsQueued | StaysInHand, `RunsOutCorrect` of the reminders |
| SignupIsMailed | `SignupCorrect` |

Only proved, and checked by no run now: the type invariants of Scheduler, Exports, Reminders and
Accounts; `SuccessCorrect`, `PendingCorrect`, `StatusCorrect` and `EndsSettledCorrect` of the outbox;
the `Outbox` theorems of the pipeline; `CallsRunOutCorrect`; `NoneForgottenCorrect`; `RunsOutCorrect` and
`NoFailureCorrect` of the reminders; `SignupCorrect`. TLC agreed with each before it was proved.

## 5. Not modelled

- The generated Prisma client, four fifths of the repository's lines of source. It has no logic of
  its own; the models take indexes, defaults and cascades from `schema.prisma`.
- The webhook formatters and the CSV text: layout without state.
- Bootstrap, configuration, health and the error filter: wiring.
- Web pages and components, except the silent refresh and the paged history. Of these the search page
  (`src/apps/web/src/app/(app)/teams/[id]/search/page.tsx`) has races of its own: onSubmit sets the
  applied filters before the search it awaits, so load-more may meanwhile, or after a failed search, send
  the new filters with the old cursor; and the answer of a search or a load-more that onClear overtook
  still fills the list.
- The name of a team (`update()`), which nothing reads back; the search's filters by text and
  date; the dashboard's averages and trends, which are sums of `daily_team_stats`; the mail of an
  invitation.
- What BullMQ does at a firing of a scheduler, and cron's text: the Scheduler has when a team's
  jobs are to fire, the pipeline and Reminders have what a firing does.
- Of a scheduler's removal, the pending delayed job that it discards: a reconcile across the deadline
  minute may lose that day's job (a hazard without a property).

What could come next: the pending job a removal discards, which takes the clock of the pipeline
into the Scheduler; and Teams and Accounts as one model, in which an invitation is for
an address that is still to sign up.
