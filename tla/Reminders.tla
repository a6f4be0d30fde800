------------------------------- MODULE Reminders -------------------------------
(* Reminders of one team: the jobs its schedulers fire, RemindersService.send() *)
(* run by the worker processes while people join, leave and submit, and the    *)
(* one delivery row per day and kind that a job puts on the webhooks queue.    *)
(* What becomes of a queued row is WebhookDelivery.                            *)
EXTENDS Integers, FiniteSets

CONSTANTS
  Users, Kinds,
  Firings, KindOf,   \* bound: jobs the schedulers fire, and the kind of each
  Workers, NoWorker, JobAttempts, MaxStalled,
  LastDay,           \* bound: days that pass
  WorkingDays,
  MaxFaults          \* bound: rejected awaits, lost answers, deaths, expired locks

ASSUME RemindersAssumption ==
  /\ KindOf \in [Firings -> Kinds]
  /\ NoWorker \notin Workers
  /\ JobAttempts \in Nat \ {0}
  /\ MaxStalled \in Nat
  /\ LastDay \in Nat \ {0}
  /\ MaxFaults \in Nat

VARIABLES
  job,        \* jobs of the queue "reminders"
  today,
  on,         \* the team is live, active and has a webhook
  members,
  submitted,  \* standups of each day: their users
  delivery,   \* webhook_deliveries with a reminder's dedupeKey: day and kind
  run,        \* what each run of send() is doing
  cut,        \* history: keys whose row was inserted and whose job a fault cut off
  faults

Q == INSTANCE JobQueue WITH Jobs <- Firings

vars == <<job, today, on, members, submitted, delivery, run, cut, faults>>
team == <<today, on, members, submitted>>

Days == 1..LastDay
Keys == Days \X Kinds

(* A row: who is reminded, and whether its job was added; and of the run that   *)
(* inserted it, who had submitted when it began, and who was a member since.   *)
NoRow == [row |-> "none"]
Rows == [pending : SUBSET Users, queued : BOOLEAN, early : SUBSET Users, seen : SUBSET Users]

Ended == [pc |-> "idle"]
Awaits == {"team", "find", "read", "insert", "enqueue"}
Queries == {"members", "standups"}
Done == [pc : {"returned", "threw"}, firing : Firings]
Runs ==
  [pc : Awaits, firing : Firings, day : Days,
   left : SUBSET Queries, members : SUBSET Users, submitted : SUBSET Users,
   early : SUBSET Users, seen : SUBSET Users]

TypeOK ==
  /\ Q!TypeOK
  /\ today \in Days
  /\ on \in BOOLEAN
  /\ members \subseteq Users
  /\ submitted \in [Days -> SUBSET Users]
  /\ delivery \in [Keys -> {NoRow} \union Rows]
  /\ run \in [Workers -> {Ended} \union Done \union Runs]
  /\ cut \subseteq Keys
  /\ faults \in 0..MaxFaults

Init ==
  /\ Q!Init
  /\ today = 1
  /\ on = TRUE
  /\ members \in SUBSET Users
  /\ submitted = [d \in Days |-> {}]
  /\ delivery = [k \in Keys |-> NoRow]
  /\ run = [w \in Workers |-> Ended]
  /\ cut = {}
  /\ faults = 0

Fault == faults < MaxFaults /\ faults' = faults + 1

-----------------------------------------------------------------------------
(* The team, while jobs run.                                                   *)

NextDay ==
  /\ today < LastDay
  /\ today' = today + 1
  /\ UNCHANGED <<job, on, members, submitted, delivery, run, cut, faults>>

SwitchReminders ==
  /\ on' = ~on
  /\ UNCHANGED <<job, today, members, submitted, delivery, run, cut, faults>>

Join(u) ==
  /\ u \notin members
  /\ members' = members \union {u}
  /\ run' = [w \in Workers |-> IF run[w].pc \in Awaits
                               THEN [run[w] EXCEPT !.seen = @ \union {u}] ELSE run[w]]
  /\ UNCHANGED <<job, today, on, submitted, delivery, cut, faults>>

Leave(u) ==
  /\ u \in members
  /\ members' = members \ {u}
  /\ UNCHANGED <<job, today, on, submitted, delivery, run, cut, faults>>

(* A request past its guard: its user may have left, and its day be over.      *)
Submit(u, d) ==
  /\ d <= today
  /\ u \notin submitted[d]
  /\ submitted' = [submitted EXCEPT ![d] = @ \union {u}]
  /\ UNCHANGED <<job, today, on, members, delivery, run, cut, faults>>

-----------------------------------------------------------------------------
(* The queue.                                                                  *)

FireJob(f) ==
  /\ Q!Add(f)
  /\ UNCHANGED <<team, delivery, run, cut, faults>>

Started(f) ==
  [pc |-> "team", firing |-> f, day |-> today, left |-> Queries, members |-> {},
   submitted |-> {}, early |-> submitted[today], seen |-> members]

TakeJob(w) == \E f \in Firings :
  /\ run[w] = Ended
  /\ Q!Take(f, w)
  /\ run' = [run EXCEPT ![w] = Started(f)]
  /\ UNCHANGED <<team, delivery, cut, faults>>

At(w, pc) == run[w].pc = pc
Key(w) == <<run[w].day, KindOf[run[w].firing]>>
CutOff(w) == cut' = IF At(w, "enqueue") THEN cut \union {Key(w)} ELSE cut

SettleJob(w) ==
  /\ At(w, "returned") \/ At(w, "threw")
  /\ Q!Settle(run[w].firing, w, At(w, "threw"))
  /\ run' = [run EXCEPT ![w] = Ended]
  /\ UNCHANGED <<team, delivery, cut, faults>>

Crash(w) ==
  /\ run[w] # Ended
  /\ Fault
  /\ Q!Release(w)
  /\ CutOff(w)
  /\ run' = [run EXCEPT ![w] = Ended]
  /\ UNCHANGED <<team, delivery>>

LoseLock(f) ==
  /\ Fault
  /\ Q!LoseLock(f)
  /\ UNCHANGED <<team, delivery, run, cut>>

HandOut(f) ==
  /\ Q!HandOut(f)
  /\ UNCHANGED <<team, delivery, run, cut, faults>>

-----------------------------------------------------------------------------
(* send(), one action per await.                                               *)

Goto(w, pc) == run' = [run EXCEPT ![w].pc = pc]
Finished(r, pc) == [pc |-> pc, firing |-> r.firing]
Finish(w, pc) == run' = [run EXCEPT ![w] = Finished(@, pc)]

ReadTeam(w) ==
  /\ At(w, "team")
  /\ IF on /\ run[w].day \in WorkingDays THEN Goto(w, "find") ELSE Finish(w, "returned")
  /\ UNCHANGED <<job, team, delivery, cut, faults>>

FindDelivery(w) ==
  /\ At(w, "find")
  /\ IF delivery[Key(w)] = NoRow THEN Goto(w, "read") ELSE Finish(w, "returned")
  /\ UNCHANGED <<job, team, delivery, cut, faults>>

(* The two queries run in parallel; the second answer decides.                 *)
(* Mutant: nobody is left out of the reminder. *)
PendingAll(r) == r.members
Pending(r) == r.members \ r.submitted
(* Mutant: one person alone is not reminded. *)
DecidedMany(r) ==
  IF r.left # {} THEN r
  ELSE IF Cardinality(Pending(r)) <= 1 THEN Finished(r, "returned")
       ELSE [r EXCEPT !.pc = "insert"]
Decided(r) ==
  IF r.left # {} THEN r
  ELSE IF Pending(r) = {} THEN Finished(r, "returned") ELSE [r EXCEPT !.pc = "insert"]

ReadMembers(w) ==
  /\ At(w, "read") /\ "members" \in run[w].left
  /\ run' = [run EXCEPT ![w] =
       Decided([run[w] EXCEPT !.members = members, !.left = @ \ {"members"}])]
  /\ UNCHANGED <<job, team, delivery, cut, faults>>

ReadStandups(w) ==
  /\ At(w, "read") /\ "standups" \in run[w].left
  /\ run' = [run EXCEPT ![w] =
       Decided([run[w] EXCEPT !.submitted = submitted[run[w].day], !.left = @ \ {"standups"}])]
  /\ UNCHANGED <<job, team, delivery, cut, faults>>

NewRow(w) ==
  [pending |-> Pending(run[w]), queued |-> FALSE, early |-> run[w].early, seen |-> run[w].seen]

(* The dedupeKey is unique: a second insert is refused, and skips.             *)
InsertDelivery(w) ==
  /\ At(w, "insert")
  /\ IF delivery[Key(w)] = NoRow
     THEN delivery' = [delivery EXCEPT ![Key(w)] = NewRow(w)] /\ Goto(w, "enqueue")
     ELSE UNCHANGED delivery /\ Finish(w, "returned")
  /\ UNCHANGED <<job, team, cut, faults>>

(* Mutant: the answer is sent without the job. *)
EnqueueNothing(w) ==
  /\ At(w, "enqueue")
  /\ Finish(w, "returned")
  /\ UNCHANGED <<job, team, delivery, cut, faults>>
EnqueueDelivery(w) ==
  /\ At(w, "enqueue")
  /\ delivery' = [delivery EXCEPT ![Key(w)].queued = TRUE]
  /\ Finish(w, "returned")
  /\ UNCHANGED <<job, team, cut, faults>>

(* A rejected await throws, whether or not its write was made.                 *)
Rejected(w) ==
  /\ run[w].pc \in Awaits
  /\ Fault
  /\ Finish(w, "threw")
  /\ CutOff(w)
  /\ UNCHANGED <<job, team, delivery>>

AnswerLost(w) ==
  /\ Fault
  /\ \/ /\ At(w, "insert") /\ delivery[Key(w)] = NoRow
        /\ delivery' = [delivery EXCEPT ![Key(w)] = NewRow(w)]
        /\ cut' = cut \union {Key(w)}
     \/ /\ At(w, "enqueue")
        /\ delivery' = [delivery EXCEPT ![Key(w)].queued = TRUE]
        /\ UNCHANGED cut
  /\ Finish(w, "threw")
  /\ UNCHANGED <<job, team>>

RunStep(w) ==
  \/ ReadTeam(w) \/ FindDelivery(w) \/ ReadMembers(w) \/ ReadStandups(w)
  \/ InsertDelivery(w) \/ EnqueueDelivery(w) \/ SettleJob(w)

Next ==
  \/ NextDay \/ SwitchReminders
  \/ \E u \in Users : Join(u) \/ Leave(u) \/ \E d \in Days : Submit(u, d)
  \/ \E f \in Firings : FireJob(f) \/ LoseLock(f) \/ HandOut(f)
  \/ \E w \in Workers : TakeJob(w) \/ RunStep(w) \/ Crash(w) \/ Rejected(w) \/ AnswerLost(w)

(* Workers and the stalled-job checker run.                                    *)
Fairness ==
  /\ \A f \in Firings : WF_vars(HandOut(f))
  /\ \A w \in Workers : WF_vars(TakeJob(w)) /\ WF_vars(RunStep(w))

Spec == Init /\ [][Next]_vars
FairSpec == Spec /\ Fairness

-----------------------------------------------------------------------------
(* Properties.                                                                 *)

Queued(k) == delivery[k] # NoRow /\ delivery[k].queued

(* Nobody is reminded who had submitted before the job began, or was no member  *)
(* since (reminders.service.ts:61-78): members and standups are read apart,    *)
(* while people join, leave and submit, and the payload is sent as it is.      *)
OnlyDueReminded ==
  \A k \in Keys : delivery[k] # NoRow =>
    /\ delivery[k].pending # {}
    /\ delivery[k].pending \intersect delivery[k].early = {}
    /\ delivery[k].pending \subseteq delivery[k].seen

(* A reminder's row is queued, or a run is about to queue it, unless a fault cut *)
(* off the run that inserted it (reminders.service.ts:95-105): jobs that        *)
(* overlap never leave a row to each other.                                    *)
PendingIsQueued ==
  \A k \in Keys : delivery[k] # NoRow /\ ~Queued(k) =>
    k \in cut \/ \E w \in Workers : At(w, "enqueue") /\ Key(w) = k

(* Overlapping jobs of one kind and day are harmless (reminders.service.ts:54,  *)
(* :113): without a fault no job fails.                                        *)
NoJobFails == \A f \in Firings : job[f].state = "failed" => faults > 0

(* A reminder that fired for a member who has not submitted stays in hand while *)
(* that member owes a standup and nothing fails (reminders.service.ts:54,       *)
(* :61-78, :113): its job waits, or its run has not missed the member, or a run *)
(* of the same kind and day, which it left the reminder to, is at its enqueue,  *)
(* or the row is queued.                                                       *)
Owes(u, d) == on /\ today = d /\ u \in members \ submitted[d]
Missed(r, u) ==
  \/ "members" \notin r.left /\ u \notin r.members
  \/ "standups" \notin r.left /\ u \in r.submitted
AtWork(w, f, d, u) ==
  /\ job[f].owner = w
  /\ run[w].pc \in Awaits /\ run[w].firing = f /\ run[w].day = d /\ ~Missed(run[w], u)
InHand(f, d, u) == LET k == <<d, KindOf[f]>> IN
  \/ job[f].state = "waiting"
  \/ \E w \in Workers : AtWork(w, f, d, u) \/ (At(w, "enqueue") /\ Key(w) = k)
  \/ Queued(k)
StaysInHand ==
  [][faults' = 0 =>
       \A d \in Days \intersect WorkingDays, u \in Users : Owes(u, d) /\ Owes(u, d)' =>
         \A f \in Firings : InHand(f, d, u) => InHand(f, d, u)']_vars

(* What is left of a job, the run that holds its lock included.                *)
Held(f) == IF job[f].owner = NoWorker THEN Ended ELSE run[job[f].owner]
AwaitsLeft(r) ==
  CASE r.pc = "team" -> 9 [] r.pc = "find" -> 8
    [] r.pc = "read" -> (IF r.left = Queries THEN 7 ELSE 6)
    [] r.pc = "insert" -> 5 [] r.pc = "enqueue" -> 4
    [] r.pc \in {"returned", "threw"} -> 2 [] OTHER -> 1
Left(f) == Q!Left(job[f], AwaitsLeft(Held(f)))

(* No failure keeps a job going for good (reminders.service.ts:21-122): each   *)
(* step of the queue or of the run that holds a job uses up some of what is    *)
(* left of it, and nothing else that happens, a newcomer the run takes note of *)
(* included, gives any back.                                                   *)
RunsOut == \A f \in Firings : job[f].state # "none" =>
  /\ Left(f)' \in 0..Left(f)
  /\ job'[f] # job[f] \/ (Held(f)' # Held(f) /\ members' = members) => Left(f)' < Left(f)
JobsRunOut == [][RunsOut]_vars

(* Liveness: a reminder that fired on a working day, for a member who has not   *)
(* submitted, is queued, unless first the team switched reminders off, that    *)
(* member submitted or left, the day ended or a fault struck                   *)
(* (reminders.service.ts:21-122).                                              *)
FiredIsQueued ==
  \A f \in Firings, d \in Days \intersect WorkingDays, u \in Users :
    job[f].state = "waiting" /\ today = d /\ u \in members \ submitted[d] ~>
      \/ ~on \/ today # d \/ u \notin members \/ u \in submitted[d] \/ faults > 0
      \/ Queued(<<d, KindOf[f]>>)
=============================================================================
