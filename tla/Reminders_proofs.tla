---------------------------- MODULE Reminders_proofs ----------------------------
(* Proofs about Reminders for any users, kinds, firings, workers, days, faults. *)
EXTENDS Reminders, TLAPS

-----------------------------------------------------------------------------
(* The inductive invariant.                                                    *)

(* Only an active job has an owner, and only a fault takes it away.            *)
JobInv == \A f \in Firings :
  /\ job[f].owner # NoWorker => job[f].state = "active"
  /\ ~Q!Over(f) => job[f].made < JobAttempts /\ job[f].stalled <= MaxStalled
  /\ job[f].state = "active" /\ job[f].owner = NoWorker => faults > 0

(* What a run has read is not older than the run.                              *)
RunInv == \A w \in Workers :
  /\ At(w, "threw") => faults > 0
  /\ run[w] \in Runs =>
       /\ members \subseteq run[w].seen
       /\ run[w].early \subseteq submitted[run[w].day]
       /\ "members" \notin run[w].left => run[w].members \subseteq run[w].seen
       /\ "standups" \notin run[w].left => run[w].early \subseteq run[w].submitted
       /\ At(w, "insert") => run[w].left = {} /\ Pending(run[w]) # {}
       /\ At(w, "enqueue") => delivery[Key(w)] # NoRow

RemindersInv == JobInv /\ RunInv /\ NoJobFails /\ OnlyDueReminded /\ PendingIsQueued

-----------------------------------------------------------------------------
(* Types.                                                                      *)

JobRows == [state : Q!JobState, made : 0..JobAttempts, stalled : 0..(MaxStalled + 1),
            owner : Workers \union {NoWorker}, lost : BOOLEAN]

LEMMA Kinds0 ==
  ASSUME TypeOK
  PROVE  /\ job \in [Firings -> JobRows]
         /\ \A f \in Firings : /\ job[f].state \in Q!JobState
                               /\ job[f].made \in Nat /\ job[f].made <= JobAttempts
                               /\ job[f].stalled \in Nat /\ job[f].stalled <= MaxStalled + 1
                               /\ job[f].owner \in Workers \union {NoWorker}
                               /\ job[f].lost \in BOOLEAN
BY RemindersAssumption DEF TypeOK, Q!TypeOK, JobRows, RemindersAssumption

LEMMA RunKinds ==
  ASSUME TypeOK
  PROVE  /\ \A w \in Workers :
              /\ run[w] = Ended \/ run[w] \in Done \/ run[w] \in Runs
              /\ run[w] \in Runs <=> run[w].pc \in Awaits
              /\ run[w] \in Done <=> run[w].pc \in {"returned", "threw"}
              /\ run[w] \in Runs =>
                   /\ run[w].firing \in Firings /\ run[w].day \in Days
                   /\ Key(w) \in Keys
                   /\ run[w].left \subseteq Queries /\ run[w].members \subseteq Users
                   /\ run[w].submitted \subseteq Users
                   /\ run[w].early \subseteq Users /\ run[w].seen \subseteq Users
              /\ run[w] \in Done => run[w].firing \in Firings
         /\ Ended \notin Runs /\ Ended \notin Done
         /\ faults \in Nat /\ members \subseteq Users /\ today \in Days
         /\ submitted \in [Days -> SUBSET Users]
         /\ delivery \in [Keys -> {NoRow} \union Rows] /\ NoRow \notin Rows
         /\ cut \subseteq Keys
<1>1. /\ Ended \notin Runs /\ Ended \notin Done
      /\ \A r \in Runs : r.pc \in Awaits /\ r \notin Done /\ r.firing \in Firings
                         /\ r.day \in Days
      /\ \A r \in Done : r.pc \in {"returned", "threw"} /\ r.firing \in Firings
      /\ Ended.pc \notin Awaits \union {"returned", "threw"}
      /\ NoRow \notin Rows
  BY DEF Ended, Runs, Done, Awaits, NoRow, Rows
<1>2. \A w \in Workers : run[w] \in Runs => Key(w) \in Keys
  BY <1>1, RemindersAssumption DEF Key, Keys, RemindersAssumption
<1>3. /\ run \in [Workers -> {Ended} \union Done \union Runs]
      /\ faults \in Nat /\ members \subseteq Users /\ today \in Days
      /\ submitted \in [Days -> SUBSET Users]
      /\ delivery \in [Keys -> {NoRow} \union Rows] /\ cut \subseteq Keys
  BY DEF TypeOK
<1>4. \A r \in Runs : /\ r.left \subseteq Queries /\ r.members \subseteq Users
                      /\ r.submitted \subseteq Users
                      /\ r.early \subseteq Users /\ r.seen \subseteq Users
  BY DEF Runs
<1>5. Awaits \intersect {"returned", "threw"} = {}
  BY DEF Awaits
<1> QED
  BY <1>1, <1>2, <1>3, <1>4, <1>5

(* What a step of one run does to the runs.                                    *)
LEMMA GotoType ==
  ASSUME TypeOK, NEW w \in Workers, run[w] \in Runs, NEW pc \in Awaits, Goto(w, pc)
  PROVE  /\ run' \in [Workers -> {Ended} \union Done \union Runs]
         /\ run'[w] \in Runs /\ run'[w] = [run[w] EXCEPT !.pc = pc]
         /\ run'[w].pc = pc /\ run'[w].firing = run[w].firing /\ run'[w].day = run[w].day
         /\ run'[w].left = run[w].left /\ run'[w].members = run[w].members
         /\ run'[w].submitted = run[w].submitted
         /\ run'[w].early = run[w].early /\ run'[w].seen = run[w].seen
         /\ \A o \in Workers \ {w} : run'[o] = run[o]
<1>1. [run[w] EXCEPT !.pc = pc] \in Runs
  BY DEF Runs
<1> QED
  BY <1>1 DEF TypeOK, Goto, Runs

LEMMA FinishType ==
  ASSUME TypeOK, NEW w \in Workers, run[w] \in Runs, NEW pc \in {"returned", "threw"},
         Finish(w, pc)
  PROVE  /\ run' \in [Workers -> {Ended} \union Done \union Runs]
         /\ run'[w] \in Done /\ run'[w] \notin Runs
         /\ run'[w].pc = pc /\ run'[w].firing = run[w].firing
         /\ \A o \in Workers \ {w} : run'[o] = run[o]
<1>1. [pc |-> pc, firing |-> run[w].firing] \in Done
  BY RunKinds DEF Done
<1>2. \A r \in Done : r \notin Runs
  BY DEF Done, Runs, Awaits
<1> QED
  BY <1>1, <1>2 DEF TypeOK, Finish, Finished

LEMMA EndType ==
  ASSUME TypeOK, NEW w \in Workers, run' = [run EXCEPT ![w] = Ended]
  PROVE  /\ run' \in [Workers -> {Ended} \union Done \union Runs]
         /\ run'[w] = Ended /\ run'[w] \notin Runs
         /\ run'[w].pc \notin Awaits \union {"returned", "threw"}
         /\ \A o \in Workers \ {w} : run'[o] = run[o]
BY RunKinds DEF TypeOK, Ended, Awaits

(* What the operations of the queue do to the jobs.                            *)
LEMMA TakeType ==
  ASSUME TypeOK, NEW f \in Firings, NEW w \in Workers, Q!Take(f, w)
  PROVE  /\ Q!TypeOK'
         /\ job[f].state = "waiting" /\ job'[f].state = "active" /\ job'[f].owner = w
         /\ job'[f].made = job[f].made /\ job'[f].stalled = job[f].stalled
         /\ job'[f].lost = job[f].lost
         /\ \A d \in Firings \ {f} : job'[d] = job[d]
BY DEF TypeOK, Q!TypeOK, Q!Take, Q!JobState

LEMMA SettleType ==
  ASSUME TypeOK, JobInv, NEW f \in Firings, NEW w \in Workers, NEW threw \in BOOLEAN,
         Q!Settle(f, w, threw)
  PROVE  /\ Q!TypeOK'
         /\ job[f].owner # w => job' = job
         /\ job[f].owner = w =>
              /\ job'[f].owner = NoWorker /\ job'[f].lost = job[f].lost
              /\ job'[f].stalled = job[f].stalled
              /\ job'[f].made = IF threw THEN job[f].made + 1 ELSE job[f].made
              /\ job'[f].state = IF threw THEN Q!AfterThrow(f) ELSE "completed"
         /\ \A d \in Firings \ {f} : job'[d] = job[d]
<1>1. CASE job[f].owner # w
  BY <1>1 DEF TypeOK, Q!TypeOK, Q!Settle
<1>2. CASE job[f].owner = w
  <2>1. job[f].made < JobAttempts
    BY <1>2, RemindersAssumption DEF JobInv, Q!Over, RemindersAssumption
  <2>2. Q!AfterThrow(f) \in Q!JobState
    BY DEF Q!AfterThrow, Q!JobState
  <2>3. /\ (IF threw THEN job[f].made + 1 ELSE job[f].made) \in 0..JobAttempts
        /\ (IF threw THEN Q!AfterThrow(f) ELSE "completed") \in Q!JobState
    BY <2>1, <2>2, Kinds0, RemindersAssumption DEF Q!JobState, RemindersAssumption
  <2>4. job' = [job EXCEPT ![f].owner = NoWorker,
                           ![f].made = IF threw THEN job[f].made + 1 ELSE job[f].made,
                           ![f].state = IF threw THEN Q!AfterThrow(f) ELSE "completed"]
    BY <1>2 DEF Q!Settle
    <2>5. job \in [Firings -> [state : Q!JobState, made : 0..JobAttempts,
                stalled : 0..(MaxStalled + 1), owner : Workers \union {NoWorker},
                lost : BOOLEAN]]
    BY DEF TypeOK, Q!TypeOK
  <2> DEFINE made == IF threw THEN job[f].made + 1 ELSE job[f].made
             state == IF threw THEN Q!AfterThrow(f) ELSE "completed"
             rows == [state : Q!JobState, made : 0..JobAttempts,
                stalled : 0..(MaxStalled + 1), owner : Workers \union {NoWorker},
                lost : BOOLEAN]
  <2>6. [job[f] EXCEPT !.owner = NoWorker, !.made = made, !.state = state] \in rows
    <3> HIDE DEF made, state
    <3>1. made \in 0..JobAttempts /\ state \in Q!JobState
      BY <2>3 DEF made, state
    <3> QED
      BY <3>1, <2>5
  <2>7. job' = [job EXCEPT ![f] =
                  [job[f] EXCEPT !.owner = NoWorker, !.made = made, !.state = state]]
    BY <2>4, <2>5
  <2>8. Q!TypeOK'
    <3> HIDE DEF made, state
    <3>1. job' \in [Firings -> rows]
      BY <2>5, <2>6, <2>7
    <3> QED
      BY <3>1 DEF Q!TypeOK
  <2> QED
    BY <1>2, <2>4, <2>5, <2>8
<1> QED
  BY <1>1, <1>2

LEMMA ReleaseType ==
  ASSUME TypeOK, NEW w \in Workers, Q!Release(w)
  PROVE  /\ Q!TypeOK'
         /\ \A f \in Firings :
              /\ job'[f].owner = IF job[f].owner = w THEN NoWorker ELSE job[f].owner
              /\ job'[f].state = job[f].state /\ job'[f].lost = job[f].lost
              /\ job'[f].made = job[f].made /\ job'[f].stalled = job[f].stalled
BY DEF TypeOK, Q!TypeOK, Q!Release

LEMMA LoseType ==
  ASSUME TypeOK, NEW f \in Firings, Q!LoseLock(f)
  PROVE  /\ Q!TypeOK'
         /\ job[f].owner # NoWorker /\ job'[f].owner = NoWorker /\ job'[f].lost = TRUE
         /\ job'[f].state = job[f].state
         /\ job'[f].made = job[f].made /\ job'[f].stalled = job[f].stalled
         /\ \A d \in Firings \ {f} : job'[d] = job[d]
<1> DEFINE rows == [state : Q!JobState, made : 0..JobAttempts,
              stalled : 0..(MaxStalled + 1), owner : Workers \union {NoWorker},
              lost : BOOLEAN]
<1>0. job[f] \in rows
  BY DEF TypeOK, Q!TypeOK
<1>1. [job[f] EXCEPT !.owner = NoWorker, !.lost = TRUE] \in rows
  <2>1. \A r \in rows, b \in BOOLEAN : [r EXCEPT !.owner = NoWorker, !.lost = b] \in rows
    OBVIOUS
  <2> QED
    BY <1>0, <2>1
<1>2. job' = [job EXCEPT ![f] = [job[f] EXCEPT !.owner = NoWorker, !.lost = TRUE]]
  BY DEF TypeOK, Q!TypeOK, Q!LoseLock
<1> QED
  BY <1>1, <1>2 DEF TypeOK, Q!TypeOK, Q!LoseLock

LEMMA HandOutType ==
  ASSUME TypeOK, JobInv, NEW f \in Firings, Q!HandOut(f)
  PROVE  /\ Q!TypeOK'
         /\ job[f].state = "active" /\ job[f].owner = NoWorker
         /\ job'[f].owner = NoWorker /\ job'[f].lost = job[f].lost
         /\ job'[f].made = job[f].made /\ job'[f].stalled = job[f].stalled + 1
         /\ job'[f].state = IF job[f].stalled < MaxStalled THEN "waiting" ELSE "failed"
         /\ \A d \in Firings \ {f} : job'[d] = job[d]
<1>1. job[f].stalled <= MaxStalled
  BY DEF JobInv, Q!Over, Q!HandOut
<1> QED
  BY <1>1 DEF TypeOK, Q!TypeOK, Q!HandOut, Q!JobState

-----------------------------------------------------------------------------
(* Every step keeps the invariant.                                             *)

LEMMA NextDayKeeps ==
  ASSUME TypeOK, RemindersInv, NextDay
  PROVE  (TypeOK /\ RemindersInv)'
<1>1. TypeOK'
  BY Kinds0, RunKinds, RemindersAssumption DEF NextDay, Days, TypeOK,
     RemindersAssumption, Q!TypeOK
<1>2. JobInv'
  BY Kinds0, RunKinds DEF NextDay, Days, JobInv, Q!Over, RemindersInv
<1>3. RunInv'
  BY Kinds0, RunKinds DEF NextDay, Days, RunInv, At, Key, RemindersInv
<1>4. NoJobFails'
  BY Kinds0, RunKinds DEF NextDay, Days, NoJobFails, RemindersInv
<1>5. OnlyDueReminded'
  BY Kinds0, RunKinds DEF NextDay, Days, OnlyDueReminded, RemindersInv
<1>6. PendingIsQueued'
  BY Kinds0, RunKinds DEF NextDay, Days, PendingIsQueued, At, Key, Queued, RemindersInv
<1> QED
  BY <1>1, <1>2, <1>3, <1>4, <1>5, <1>6 DEF RemindersInv

LEMMA SwitchKeeps ==
  ASSUME TypeOK, RemindersInv, SwitchReminders
  PROVE  (TypeOK /\ RemindersInv)'
<1>1. TypeOK'
  BY Kinds0, RunKinds, RemindersAssumption DEF SwitchReminders, TypeOK,
     RemindersAssumption, Q!TypeOK
<1>2. JobInv'
  BY Kinds0, RunKinds DEF SwitchReminders, JobInv, Q!Over, RemindersInv
<1>3. RunInv'
  BY Kinds0, RunKinds DEF SwitchReminders, RunInv, At, Key, RemindersInv
<1>4. NoJobFails'
  BY Kinds0, RunKinds DEF SwitchReminders, NoJobFails, RemindersInv
<1>5. OnlyDueReminded'
  BY Kinds0, RunKinds DEF SwitchReminders, OnlyDueReminded, RemindersInv
<1>6. PendingIsQueued'
  BY Kinds0, RunKinds DEF SwitchReminders, PendingIsQueued, At, Key, Queued,
     RemindersInv
<1> QED
  BY <1>1, <1>2, <1>3, <1>4, <1>5, <1>6 DEF RemindersInv

LEMMA JoinType ==
  ASSUME TypeOK, NEW u \in Users, Join(u)
  PROVE  /\ run' \in [Workers -> {Ended} \union Done \union Runs]
         /\ \A o \in Workers : /\ run'[o].pc = run[o].pc
                               /\ run[o] \in Done => run'[o] = run[o]
                               /\ run'[o] \in Runs <=> run[o] \in Runs
                               /\ run[o] \in Runs =>
                                    /\ run'[o].seen = run[o].seen \union {u}
                                    /\ run'[o].firing = run[o].firing /\ run'[o].day = run[o].day
                                    /\ run'[o].left = run[o].left
                                    /\ run'[o].members = run[o].members
                                    /\ run'[o].submitted = run[o].submitted
                                    /\ run'[o].early = run[o].early
<1> DEFINE Seen(r) == [r EXCEPT !.seen = @ \union {u}]
<1>1. run' = [o \in Workers |-> IF run[o] \in Runs THEN Seen(run[o]) ELSE run[o]]
  BY RunKinds DEF Join
<1>2. ASSUME NEW r \in Runs
      PROVE  /\ Seen(r) \in Runs /\ Seen(r).pc = r.pc /\ Seen(r).seen = r.seen \union {u}
             /\ Seen(r).firing = r.firing /\ Seen(r).day = r.day /\ Seen(r).left = r.left
             /\ Seen(r).members = r.members /\ Seen(r).submitted = r.submitted
             /\ Seen(r).early = r.early
  BY DEF Runs
<1>3. \A r \in Done : r \notin Runs
  BY DEF Done, Runs, Awaits
<1> HIDE DEF Seen
<1> QED
  BY <1>1, <1>2, <1>3, RunKinds

LEMMA JoinKeeps ==
  ASSUME TypeOK, RemindersInv, NEW u \in Users, Join(u)
  PROVE  (TypeOK /\ RemindersInv)'
<1>1. /\ run' \in [Workers -> {Ended} \union Done \union Runs]
      /\ \A o \in Workers : /\ run'[o].pc = run[o].pc
                            /\ run[o] \in Done => run'[o] = run[o]
                            /\ run'[o] \in Runs <=> run[o] \in Runs
                            /\ run[o] \in Runs =>
                                 /\ run'[o].seen = run[o].seen \union {u}
                                 /\ run'[o].firing = run[o].firing /\ run'[o].day = run[o].day
                                 /\ run'[o].left = run[o].left
                                 /\ run'[o].members = run[o].members
                                 /\ run'[o].submitted = run[o].submitted
                                 /\ run'[o].early = run[o].early
  BY JoinType
<1>2. TypeOK'
  BY <1>1, Kinds0, RunKinds, RemindersAssumption DEF Join, TypeOK, RemindersAssumption,
     Q!TypeOK
<1>3. JobInv'
  BY <1>1, Kinds0, RunKinds DEF Join, JobInv, Q!Over, RemindersInv
<1>4. RunInv'
  BY <1>1, Kinds0, RunKinds DEF Join, RunInv, At, Key, Pending, RemindersInv
<1>5. NoJobFails'
  BY <1>1, Kinds0, RunKinds DEF Join, NoJobFails, RemindersInv
<1>6. OnlyDueReminded'
  BY <1>1, Kinds0, RunKinds DEF Join, OnlyDueReminded, RemindersInv
<1>7. PendingIsQueued'
  BY <1>1, Kinds0, RunKinds DEF Join, PendingIsQueued, At, Key, Queued, RemindersInv
<1> QED
  BY <1>2, <1>3, <1>4, <1>5, <1>6, <1>7 DEF RemindersInv

LEMMA LeaveKeeps ==
  ASSUME TypeOK, RemindersInv, NEW u \in Users, Leave(u)
  PROVE  (TypeOK /\ RemindersInv)'
<1>1. TypeOK'
  BY Kinds0, RunKinds, RemindersAssumption DEF Leave, TypeOK, RemindersAssumption,
     Q!TypeOK
<1>2. JobInv'
  BY Kinds0, RunKinds DEF Leave, JobInv, Q!Over, RemindersInv
<1>3. RunInv'
  BY Kinds0, RunKinds DEF Leave, RunInv, At, Key, RemindersInv
<1>4. NoJobFails'
  BY Kinds0, RunKinds DEF Leave, NoJobFails, RemindersInv
<1>5. OnlyDueReminded'
  BY Kinds0, RunKinds DEF Leave, OnlyDueReminded, RemindersInv
<1>6. PendingIsQueued'
  BY Kinds0, RunKinds DEF Leave, PendingIsQueued, At, Key, Queued, RemindersInv
<1> QED
  BY <1>1, <1>2, <1>3, <1>4, <1>5, <1>6 DEF RemindersInv

LEMMA SubmitKeeps ==
  ASSUME TypeOK, RemindersInv, NEW u \in Users, NEW d \in Days, Submit(u, d)
  PROVE  (TypeOK /\ RemindersInv)'
<1>1. TypeOK'
  BY Kinds0, RunKinds, RemindersAssumption DEF Submit, TypeOK, RemindersAssumption,
     Q!TypeOK
<1>2. JobInv'
  BY Kinds0, RunKinds DEF Submit, JobInv, Q!Over, RemindersInv
<1>3. RunInv'
  BY Kinds0, RunKinds DEF Submit, RunInv, At, Key, RemindersInv
<1>4. NoJobFails'
  BY Kinds0, RunKinds DEF Submit, NoJobFails, RemindersInv
<1>5. OnlyDueReminded'
  BY Kinds0, RunKinds DEF Submit, OnlyDueReminded, RemindersInv
<1>6. PendingIsQueued'
  BY Kinds0, RunKinds DEF Submit, PendingIsQueued, At, Key, Queued, RemindersInv
<1> QED
  BY <1>1, <1>2, <1>3, <1>4, <1>5, <1>6 DEF RemindersInv

LEMMA FireKeeps ==
  ASSUME TypeOK, RemindersInv, NEW f \in Firings, FireJob(f)
  PROVE  (TypeOK /\ RemindersInv)'
<1>1. /\ Q!TypeOK'
      /\ job[f].state = "none" /\ job'[f].state = "waiting" /\ job'[f].owner = job[f].owner
      /\ job'[f].made = job[f].made /\ job'[f].stalled = job[f].stalled
      /\ \A d \in Firings \ {f} : job'[d] = job[d]
  BY Kinds0 DEF FireJob, Q!Add, TypeOK, Q!TypeOK, Q!JobState
<1>2. TypeOK'
  BY <1>1, Kinds0, RunKinds, RemindersAssumption DEF FireJob, team, TypeOK,
     RemindersAssumption
<1>3. JobInv'
  BY <1>1, Kinds0, RunKinds, RemindersAssumption DEF FireJob, team, JobInv, Q!Over,
     RemindersInv, RemindersAssumption
<1>4. RunInv'
  BY <1>1, Kinds0, RunKinds DEF FireJob, team, RunInv, At, Key, RemindersInv
<1>5. NoJobFails'
  BY <1>1, Kinds0, RunKinds DEF FireJob, team, NoJobFails, RemindersInv
<1>6. OnlyDueReminded'
  BY <1>1, Kinds0, RunKinds DEF FireJob, team, OnlyDueReminded, RemindersInv
<1>7. PendingIsQueued'
  BY <1>1, Kinds0, RunKinds DEF FireJob, team, PendingIsQueued, At, Key, Queued,
     RemindersInv
<1> QED
  BY <1>2, <1>3, <1>4, <1>5, <1>6, <1>7 DEF RemindersInv

LEMMA LoseKeeps ==
  ASSUME TypeOK, RemindersInv, NEW f \in Firings, LoseLock(f)
  PROVE  (TypeOK /\ RemindersInv)'
<1>1. /\ Q!TypeOK'
      /\ job[f].owner # NoWorker /\ job'[f].owner = NoWorker /\ job'[f].lost = TRUE
      /\ job'[f].state = job[f].state
      /\ job'[f].made = job[f].made /\ job'[f].stalled = job[f].stalled
      /\ \A d \in Firings \ {f} : job'[d] = job[d]
  BY LoseType DEF LoseLock
<1>2. TypeOK'
  BY <1>1, Kinds0, RunKinds, RemindersAssumption DEF LoseLock, Fault, team, TypeOK,
     RemindersAssumption
<1>3. JobInv'
  BY <1>1, Kinds0, RunKinds, RemindersAssumption DEF LoseLock, Fault, team, JobInv,
     Q!Over, RemindersInv, RemindersAssumption
<1>4. RunInv'
  BY <1>1, Kinds0, RunKinds DEF LoseLock, Fault, team, RunInv, At, Key, RemindersInv
<1>5. NoJobFails'
  BY <1>1, Kinds0, RunKinds DEF LoseLock, Fault, team, NoJobFails, RemindersInv
<1>6. OnlyDueReminded'
  BY <1>1, Kinds0, RunKinds DEF LoseLock, Fault, team, OnlyDueReminded, RemindersInv
<1>7. PendingIsQueued'
  BY <1>1, Kinds0, RunKinds DEF LoseLock, Fault, team, PendingIsQueued, At, Key, Queued,
     RemindersInv
<1> QED
  BY <1>2, <1>3, <1>4, <1>5, <1>6, <1>7 DEF RemindersInv

LEMMA HandOutKeeps ==
  ASSUME TypeOK, RemindersInv, NEW f \in Firings, HandOut(f)
  PROVE  (TypeOK /\ RemindersInv)'
<1>1. /\ Q!TypeOK'
      /\ job[f].state = "active" /\ job[f].owner = NoWorker
      /\ job'[f].owner = NoWorker /\ job'[f].lost = job[f].lost
      /\ job'[f].made = job[f].made /\ job'[f].stalled = job[f].stalled + 1
      /\ job'[f].state = IF job[f].stalled < MaxStalled THEN "waiting" ELSE "failed"
      /\ \A d \in Firings \ {f} : job'[d] = job[d]
  BY HandOutType DEF HandOut, RemindersInv
<1>2. TypeOK'
  BY <1>1, Kinds0, RunKinds, RemindersAssumption DEF HandOut, team, TypeOK,
     RemindersAssumption
<1>3. JobInv'
  BY <1>1, Kinds0, RunKinds, RemindersAssumption DEF HandOut, team, JobInv, Q!Over,
     RemindersInv, RemindersAssumption
<1>4. RunInv'
  BY <1>1, Kinds0, RunKinds DEF HandOut, team, RunInv, At, Key, RemindersInv
<1>5. NoJobFails'
  BY <1>1, Kinds0, RunKinds DEF HandOut, team, NoJobFails, JobInv, RemindersInv
<1>6. OnlyDueReminded'
  BY <1>1, Kinds0, RunKinds DEF HandOut, team, OnlyDueReminded, RemindersInv
<1>7. PendingIsQueued'
  BY <1>1, Kinds0, RunKinds DEF HandOut, team, PendingIsQueued, At, Key, Queued,
     RemindersInv
<1> QED
  BY <1>2, <1>3, <1>4, <1>5, <1>6, <1>7 DEF RemindersInv

LEMMA TakeKeeps ==
  ASSUME TypeOK, RemindersInv, NEW w \in Workers, NEW f \in Firings, run[w] = Ended, Q!Take(f, w),
         run' = [run EXCEPT ![w] = Started(f)], UNCHANGED <<team, delivery, cut, faults>>
  PROVE  (TypeOK /\ RemindersInv)'
<1>1. /\ Q!TypeOK'
      /\ job[f].state = "waiting" /\ job'[f].state = "active" /\ job'[f].owner = w
      /\ job'[f].made = job[f].made /\ job'[f].stalled = job[f].stalled
      /\ job'[f].lost = job[f].lost
      /\ \A d \in Firings \ {f} : job'[d] = job[d]
  BY TakeType
<1>2. /\ run' \in [Workers -> {Ended} \union Done \union Runs]
      /\ run'[w] = Started(f) /\ Started(f) \in Runs
      /\ \A o \in Workers \ {w} : run'[o] = run[o]
  BY RunKinds DEF TypeOK, Started, Runs, Awaits, Queries
<1>3. TypeOK'
  BY <1>1, <1>2, Kinds0, RunKinds, RemindersAssumption DEF Ended, Started, team, TypeOK,
     RemindersAssumption
<1>4. JobInv'
  BY <1>1, <1>2, Kinds0, RunKinds, RemindersAssumption DEF Ended, Started, team, JobInv,
     Q!Over, RemindersInv, RemindersAssumption
<1>5. RunInv'
  BY <1>1, <1>2, Kinds0, RunKinds DEF Ended, Started, team, RunInv, At, Key, Queries,
     RemindersInv
<1>6. NoJobFails'
  BY <1>1, <1>2, Kinds0, RunKinds DEF Ended, Started, team, NoJobFails, RemindersInv
<1>7. OnlyDueReminded'
  BY <1>1, <1>2, Kinds0, RunKinds DEF Ended, Started, team, OnlyDueReminded,
     RemindersInv
<1>8. PendingIsQueued'
  BY <1>1, <1>2, Kinds0, RunKinds DEF Ended, Started, team, PendingIsQueued, At, Key,
     Queued, RemindersInv
<1> QED
  BY <1>3, <1>4, <1>5, <1>6, <1>7, <1>8 DEF RemindersInv

LEMMA SettleKeeps ==
  ASSUME TypeOK, RemindersInv, NEW w \in Workers, SettleJob(w)
  PROVE  (TypeOK /\ RemindersInv)'
<1>1. run[w] \in Done /\ run[w].firing \in Firings
  BY RunKinds DEF SettleJob, At
<1>2. LET f == run[w].firing IN
      /\ Q!TypeOK'
      /\ job[f].owner # w => job' = job
      /\ job[f].owner = w =>
           /\ job'[f].owner = NoWorker
           /\ job'[f].stalled = job[f].stalled
           /\ job'[f].made = IF At(w, "threw") THEN job[f].made + 1 ELSE job[f].made
           /\ job'[f].state = IF At(w, "threw") THEN Q!AfterThrow(f) ELSE "completed"
      /\ \A d \in Firings \ {f} : job'[d] = job[d]
  BY <1>1, SettleType DEF SettleJob, At, RemindersInv
<1>3. /\ run' \in [Workers -> {Ended} \union Done \union Runs]
      /\ run'[w] = Ended /\ run'[w] \notin Runs
      /\ run'[w].pc \notin Awaits \union {"returned", "threw"}
      /\ \A o \in Workers \ {w} : run'[o] = run[o]
  BY EndType DEF SettleJob
<1>4. TypeOK'
  BY <1>1, <1>2, <1>3, Kinds0, RunKinds, RemindersAssumption DEF SettleJob,
     Q!AfterThrow, team, Awaits, TypeOK, RemindersAssumption
<1>5. JobInv'
  BY <1>1, <1>2, <1>3, Kinds0, RunKinds, RemindersAssumption DEF SettleJob,
     Q!AfterThrow, team, Awaits, JobInv, Q!Over, At, RemindersInv, RemindersAssumption
<1>6. RunInv'
  <2>1. UNCHANGED <<team, delivery, cut, faults>>
    BY DEF SettleJob
  <2>2. ~At(w, "threw")' /\ run'[w] \notin Runs
    BY <1>3 DEF At
  <2> QED
    BY <1>3, <2>1, <2>2 DEF team, RunInv, At, Key, Pending, RemindersInv
<1>7. NoJobFails'
  BY <1>1, <1>2, <1>3, Kinds0, RunKinds DEF SettleJob, Q!AfterThrow, team, Awaits,
     NoJobFails, RunInv, At, RemindersInv
<1>8. OnlyDueReminded'
  BY <1>1, <1>2, <1>3, Kinds0, RunKinds DEF SettleJob, Q!AfterThrow, team, Awaits,
     OnlyDueReminded, RemindersInv
<1>9. PendingIsQueued'
  <2>1. delivery' = delivery /\ cut' = cut /\ run[w].pc # "enqueue"
    BY DEF SettleJob, At
  <2>2. \A o \in Workers : run[o].pc = "enqueue" => run'[o] = run[o]
    BY <2>1, <1>3
  <2> QED
    BY <2>1, <2>2 DEF PendingIsQueued, At, Key, Queued, RemindersInv
<1> QED
  BY <1>4, <1>5, <1>6, <1>7, <1>8, <1>9 DEF RemindersInv

LEMMA CrashKeeps ==
  ASSUME TypeOK, RemindersInv, NEW w \in Workers, Crash(w)
  PROVE  (TypeOK /\ RemindersInv)'
<1>1. /\ Q!TypeOK'
      /\ \A f \in Firings :
           /\ job'[f].owner = IF job[f].owner = w THEN NoWorker ELSE job[f].owner
           /\ job'[f].state = job[f].state /\ job'[f].lost = job[f].lost
           /\ job'[f].made = job[f].made /\ job'[f].stalled = job[f].stalled
  BY ReleaseType DEF Crash
<1>2. /\ run' \in [Workers -> {Ended} \union Done \union Runs]
      /\ run'[w] = Ended /\ run'[w] \notin Runs
      /\ run'[w].pc \notin Awaits \union {"returned", "threw"}
      /\ \A o \in Workers \ {w} : run'[o] = run[o]
  BY EndType DEF Crash
<1>3. cut \subseteq cut' /\ cut' \subseteq Keys /\ (At(w, "enqueue") => Key(w) \in cut')
  BY RunKinds DEF Crash, CutOff, At, Awaits
<1>4. TypeOK'
  BY <1>1, <1>2, <1>3, Kinds0, RunKinds, RemindersAssumption DEF Crash, Fault, team,
     Awaits, TypeOK, RemindersAssumption
<1>5. JobInv'
  BY <1>1, <1>2, <1>3, Kinds0, RunKinds, RemindersAssumption DEF Crash, Fault, team,
     Awaits, JobInv, Q!Over, RemindersInv, RemindersAssumption
<1>6. RunInv'
  <2> DEFINE Fits(o) ==
        /\ At(o, "threw") => faults > 0
        /\ run[o] \in Runs =>
             /\ members \subseteq run[o].seen
             /\ run[o].early \subseteq submitted[run[o].day]
             /\ "members" \notin run[o].left => run[o].members \subseteq run[o].seen
             /\ "standups" \notin run[o].left => run[o].early \subseteq run[o].submitted
             /\ At(o, "insert") => run[o].left = {} /\ Pending(run[o]) # {}
             /\ At(o, "enqueue") => delivery[Key(o)] # NoRow
  <2>1. \A o \in Workers : Fits(o)
    BY DEF RemindersInv, RunInv
  <2>2. \A o \in Workers \ {w} : Fits(o)'
    BY <2>1, <1>1, <1>2, <1>3, Kinds0, RunKinds DEF Crash, Fault, team, Awaits, At, Key
  <2>3. Fits(w)'
    BY <2>1, <1>1, <1>2, <1>3, Kinds0, RunKinds DEF Crash, Fault, team, Awaits, At, Key
  <2> QED
    BY <2>2, <2>3 DEF RunInv
<1>7. NoJobFails'
  BY <1>1, <1>2, <1>3, Kinds0, RunKinds DEF Crash, Fault, team, Awaits, NoJobFails,
     RemindersInv
<1>8. OnlyDueReminded'
  BY <1>1, <1>2, <1>3, Kinds0, RunKinds DEF Crash, Fault, team, Awaits, OnlyDueReminded,
     RemindersInv
<1>9. PendingIsQueued'
  BY <1>1, <1>2, <1>3, Kinds0, RunKinds DEF Crash, Fault, team, Awaits, PendingIsQueued,
     At, Key, Queued, RemindersInv
<1> QED
  BY <1>4, <1>5, <1>6, <1>7, <1>8, <1>9 DEF RemindersInv

LEMMA ReadTeamKeeps ==
  ASSUME TypeOK, RemindersInv, NEW w \in Workers, ReadTeam(w)
  PROVE  (TypeOK /\ RemindersInv)'
<1>1. run[w] \in Runs /\ Key(w) \in Keys
  BY RunKinds DEF ReadTeam, At, Awaits
<1>2. ASSUME on /\ run[w].day \in WorkingDays
      PROVE  /\ run' \in [Workers -> {Ended} \union Done \union Runs]
      /\ run'[w] \in Runs
      /\ run'[w].pc = "find" /\ run'[w].firing = run[w].firing /\ run'[w].day = run[w].day
      /\ run'[w].left = run[w].left /\ run'[w].members = run[w].members
      /\ run'[w].submitted = run[w].submitted
      /\ run'[w].early = run[w].early /\ run'[w].seen = run[w].seen
      /\ \A o \in Workers \ {w} : run'[o] = run[o]
  BY <1>1, <1>2, GotoType DEF ReadTeam, Awaits, At
<1>3. ASSUME ~(on /\ run[w].day \in WorkingDays)
      PROVE  /\ run' \in [Workers -> {Ended} \union Done \union Runs]
      /\ run'[w] \in Done /\ run'[w] \notin Runs
      /\ run'[w].pc = "returned"
      /\ \A o \in Workers \ {w} : run'[o] = run[o]
  BY <1>1, <1>3, FinishType DEF ReadTeam, At
<1>4. TypeOK'
  BY <1>1, <1>2, <1>3, Kinds0, RunKinds, RemindersAssumption DEF ReadTeam, team, Awaits,
     TypeOK, RemindersAssumption, Q!TypeOK
<1>5. JobInv'
  BY <1>1, <1>2, <1>3, Kinds0, RunKinds DEF ReadTeam, team, Awaits, JobInv, Q!Over,
     RemindersInv
<1>6. RunInv'
  BY <1>1, <1>2, <1>3, Kinds0, RunKinds DEF ReadTeam, team, Awaits, RunInv, At, Key,
     RemindersInv
<1>7. NoJobFails'
  BY <1>1, <1>2, <1>3, Kinds0, RunKinds DEF ReadTeam, team, Awaits, NoJobFails,
     RemindersInv
<1>8. OnlyDueReminded'
  BY <1>1, <1>2, <1>3, Kinds0, RunKinds DEF ReadTeam, team, Awaits, OnlyDueReminded,
     RemindersInv
<1>9. PendingIsQueued'
  BY <1>1, <1>2, <1>3, Kinds0, RunKinds DEF ReadTeam, team, Awaits, PendingIsQueued, At,
     Key, Queued, RemindersInv
<1> QED
  BY <1>4, <1>5, <1>6, <1>7, <1>8, <1>9 DEF RemindersInv

LEMMA FindDeliveryKeeps ==
  ASSUME TypeOK, RemindersInv, NEW w \in Workers, FindDelivery(w)
  PROVE  (TypeOK /\ RemindersInv)'
<1>1. run[w] \in Runs /\ Key(w) \in Keys
  BY RunKinds DEF FindDelivery, At, Awaits
<1>2. ASSUME delivery[Key(w)] = NoRow
      PROVE  /\ run' \in [Workers -> {Ended} \union Done \union Runs]
      /\ run'[w] \in Runs
      /\ run'[w].pc = "read" /\ run'[w].firing = run[w].firing /\ run'[w].day = run[w].day
      /\ run'[w].left = run[w].left /\ run'[w].members = run[w].members
      /\ run'[w].submitted = run[w].submitted
      /\ run'[w].early = run[w].early /\ run'[w].seen = run[w].seen
      /\ \A o \in Workers \ {w} : run'[o] = run[o]
  BY <1>1, <1>2, GotoType DEF FindDelivery, Awaits, At
<1>3. ASSUME ~(delivery[Key(w)] = NoRow)
      PROVE  /\ run' \in [Workers -> {Ended} \union Done \union Runs]
      /\ run'[w] \in Done /\ run'[w] \notin Runs
      /\ run'[w].pc = "returned"
      /\ \A o \in Workers \ {w} : run'[o] = run[o]
  BY <1>1, <1>3, FinishType DEF FindDelivery, At
<1>4. TypeOK'
  BY <1>1, <1>2, <1>3, Kinds0, RunKinds, RemindersAssumption DEF FindDelivery, team,
     Awaits, TypeOK, RemindersAssumption, Q!TypeOK
<1>5. JobInv'
  BY <1>1, <1>2, <1>3, Kinds0, RunKinds DEF FindDelivery, team, Awaits, JobInv, Q!Over,
     RemindersInv
<1>6. RunInv'
  BY <1>1, <1>2, <1>3, Kinds0, RunKinds DEF FindDelivery, team, Awaits, RunInv, At, Key,
     RemindersInv
<1>7. NoJobFails'
  BY <1>1, <1>2, <1>3, Kinds0, RunKinds DEF FindDelivery, team, Awaits, NoJobFails,
     RemindersInv
<1>8. OnlyDueReminded'
  BY <1>1, <1>2, <1>3, Kinds0, RunKinds DEF FindDelivery, team, Awaits, OnlyDueReminded,
     RemindersInv
<1>9. PendingIsQueued'
  BY <1>1, <1>2, <1>3, Kinds0, RunKinds DEF FindDelivery, team, Awaits, PendingIsQueued,
     At, Key, Queued, RemindersInv
<1> QED
  BY <1>4, <1>5, <1>6, <1>7, <1>8, <1>9 DEF RemindersInv

LEMMA DecidedType ==
  ASSUME NEW r \in Runs, r.pc = "read"
  PROVE  \/ /\ Decided(r) \in Done /\ Decided(r) \notin Runs /\ Decided(r).pc = "returned"
         \/ /\ Decided(r) \in Runs /\ Decided(r).pc \in {"read", "insert"}
            /\ Decided(r).firing = r.firing /\ Decided(r).day = r.day
            /\ Decided(r).members = r.members /\ Decided(r).submitted = r.submitted
            /\ Decided(r).left = r.left
            /\ Decided(r).early = r.early /\ Decided(r).seen = r.seen
            /\ Decided(r).pc = "insert" => Decided(r).left = {} /\ Pending(Decided(r)) # {}
<1>1. CASE r.left # {}
  BY <1>1 DEF Decided
<1>2. CASE r.left = {} /\ Pending(r) = {}
  BY <1>2 DEF Decided, Finished, Done, Runs, Awaits
<1>3. CASE r.left = {} /\ Pending(r) # {}
  <2>1. [r EXCEPT !.pc = "insert"] \in Runs
    BY DEF Runs, Awaits
  <2> QED
    BY <1>3, <2>1 DEF Decided, Pending, Runs
<1> QED
  BY <1>1, <1>2, <1>3

LEMMA ReadMembersKeeps ==
  ASSUME TypeOK, RemindersInv, NEW w \in Workers, ReadMembers(w)
  PROVE  (TypeOK /\ RemindersInv)'
<1>1. run[w] \in Runs /\ Key(w) \in Keys
  BY RunKinds DEF ReadMembers, At, Awaits
<1>2. LET r == [run[w] EXCEPT !.members = members, !.left = @ \ {"members"}] IN
      /\ r \in Runs /\ run' = [run EXCEPT ![w] = Decided(r)]
      /\ r.pc = "read" /\ r.firing = run[w].firing /\ r.day = run[w].day
      /\ r.members = members /\ r.submitted = run[w].submitted
      /\ r.left = run[w].left \ {"members"}
      /\ r.early = run[w].early /\ r.seen = run[w].seen
  BY <1>1, RunKinds DEF ReadMembers, At, Runs
<1>3. /\ run' \in [Workers -> {Ended} \union Done \union Runs]
      /\ \A o \in Workers \ {w} : run'[o] = run[o]
      /\ \/ run'[w] \in Done /\ run'[w] \notin Runs /\ run'[w].pc = "returned"
         \/ /\ run'[w] \in Runs /\ run'[w].pc \in {"read", "insert"}
            /\ run'[w].firing = run[w].firing /\ run'[w].day = run[w].day
            /\ run'[w].members = members
            /\ run'[w].submitted = run[w].submitted
            /\ run'[w].left = run[w].left \ {"members"}
            /\ run'[w].early = run[w].early /\ run'[w].seen = run[w].seen
            /\ run'[w].pc = "insert" => run'[w].left = {} /\ Pending(run'[w]) # {}
  BY <1>1, <1>2, DecidedType DEF TypeOK
<1>4. TypeOK'
  BY <1>1, <1>2, <1>3, Kinds0, RunKinds, RemindersAssumption DEF ReadMembers, team,
     Awaits, TypeOK, RemindersAssumption, Q!TypeOK
<1>5. JobInv'
  BY <1>1, <1>2, <1>3, Kinds0, RunKinds DEF ReadMembers, team, Awaits, JobInv, Q!Over,
     RemindersInv
<1>6. RunInv'
  <2> DEFINE Fits(o) ==
        /\ At(o, "threw") => faults > 0
        /\ run[o] \in Runs =>
             /\ members \subseteq run[o].seen
             /\ run[o].early \subseteq submitted[run[o].day]
             /\ "members" \notin run[o].left => run[o].members \subseteq run[o].seen
             /\ "standups" \notin run[o].left => run[o].early \subseteq run[o].submitted
             /\ At(o, "insert") => run[o].left = {} /\ Pending(run[o]) # {}
             /\ At(o, "enqueue") => delivery[Key(o)] # NoRow
  <2>1. \A o \in Workers : Fits(o)
    BY DEF RemindersInv, RunInv
  <2>2. \A o \in Workers \ {w} : Fits(o)'
    BY <2>1, <1>1, <1>2, <1>3, Kinds0, RunKinds DEF ReadMembers, team, Awaits, At, Key
  <2>3. Fits(w)'
    BY <2>1, <1>1, <1>2, <1>3, Kinds0, RunKinds DEF ReadMembers, team, Awaits, At, Key
  <2> QED
    BY <2>2, <2>3 DEF RunInv
<1>7. NoJobFails'
  BY <1>1, <1>2, <1>3, Kinds0, RunKinds DEF ReadMembers, team, Awaits, NoJobFails,
     RemindersInv
<1>8. OnlyDueReminded'
  BY <1>1, <1>2, <1>3, Kinds0, RunKinds DEF ReadMembers, team, Awaits, OnlyDueReminded,
     RemindersInv
<1>9. PendingIsQueued'
  <2>1. delivery' = delivery /\ cut' = cut /\ run[w].pc = "read"
    BY DEF ReadMembers, At
  <2>2. \A o \in Workers : run[o].pc = "enqueue" => run'[o] = run[o]
    BY <2>1, <1>3
  <2> QED
    BY <2>1, <2>2 DEF PendingIsQueued, At, Key, Queued, RemindersInv
<1> QED
  BY <1>4, <1>5, <1>6, <1>7, <1>8, <1>9 DEF RemindersInv

LEMMA ReadStandupsKeeps ==
  ASSUME TypeOK, RemindersInv, NEW w \in Workers, ReadStandups(w)
  PROVE  (TypeOK /\ RemindersInv)'
<1>1. run[w] \in Runs /\ Key(w) \in Keys
  BY RunKinds DEF ReadStandups, At, Awaits
<1>2. LET r == [run[w] EXCEPT !.submitted = submitted[run[w].day], !.left = @ \ {"standups"}] IN
      /\ r \in Runs /\ run' = [run EXCEPT ![w] = Decided(r)]
      /\ r.pc = "read" /\ r.firing = run[w].firing /\ r.day = run[w].day
      /\ r.submitted = submitted[run[w].day] /\ r.members = run[w].members
      /\ r.left = run[w].left \ {"standups"}
      /\ r.early = run[w].early /\ r.seen = run[w].seen
  BY <1>1, RunKinds DEF ReadStandups, At, Runs
<1>3. /\ run' \in [Workers -> {Ended} \union Done \union Runs]
      /\ \A o \in Workers \ {w} : run'[o] = run[o]
      /\ \/ run'[w] \in Done /\ run'[w] \notin Runs /\ run'[w].pc = "returned"
         \/ /\ run'[w] \in Runs /\ run'[w].pc \in {"read", "insert"}
            /\ run'[w].firing = run[w].firing /\ run'[w].day = run[w].day
            /\ run'[w].submitted = submitted[run[w].day]
            /\ run'[w].members = run[w].members
            /\ run'[w].left = run[w].left \ {"standups"}
            /\ run'[w].early = run[w].early /\ run'[w].seen = run[w].seen
            /\ run'[w].pc = "insert" => run'[w].left = {} /\ Pending(run'[w]) # {}
  BY <1>1, <1>2, DecidedType DEF TypeOK
<1>4. TypeOK'
  BY <1>1, <1>2, <1>3, Kinds0, RunKinds, RemindersAssumption DEF ReadStandups, team,
     Awaits, TypeOK, RemindersAssumption, Q!TypeOK
<1>5. JobInv'
  BY <1>1, <1>2, <1>3, Kinds0, RunKinds DEF ReadStandups, team, Awaits, JobInv, Q!Over,
     RemindersInv
<1>6. RunInv'
  <2> DEFINE Fits(o) ==
        /\ At(o, "threw") => faults > 0
        /\ run[o] \in Runs =>
             /\ members \subseteq run[o].seen
             /\ run[o].early \subseteq submitted[run[o].day]
             /\ "members" \notin run[o].left => run[o].members \subseteq run[o].seen
             /\ "standups" \notin run[o].left => run[o].early \subseteq run[o].submitted
             /\ At(o, "insert") => run[o].left = {} /\ Pending(run[o]) # {}
             /\ At(o, "enqueue") => delivery[Key(o)] # NoRow
  <2>1. \A o \in Workers : Fits(o)
    BY DEF RemindersInv, RunInv
  <2>2. \A o \in Workers \ {w} : Fits(o)'
    <3>1. UNCHANGED <<team, delivery, faults>>
      BY DEF ReadStandups
    <3> QED
      BY <2>1, <1>3, <3>1 DEF team, At, Key, Pending
  <2>3. Fits(w)'
    BY <2>1, <1>1, <1>2, <1>3, Kinds0, RunKinds DEF ReadStandups, team, Awaits, At, Key,
     Queries
  <2> QED
    BY <2>2, <2>3 DEF RunInv
<1>7. NoJobFails'
  BY <1>1, <1>2, <1>3, Kinds0, RunKinds DEF ReadStandups, team, Awaits, NoJobFails,
     RemindersInv
<1>8. OnlyDueReminded'
  BY <1>1, <1>2, <1>3, Kinds0, RunKinds DEF ReadStandups, team, Awaits, OnlyDueReminded,
     RemindersInv
<1>9. PendingIsQueued'
  <2>1. delivery' = delivery /\ cut' = cut /\ run[w].pc = "read"
    BY DEF ReadStandups, At
  <2>2. \A o \in Workers : run[o].pc = "enqueue" => run'[o] = run[o]
    BY <2>1, <1>3
  <2> QED
    BY <2>1, <2>2 DEF PendingIsQueued, At, Key, Queued, RemindersInv
<1> QED
  BY <1>4, <1>5, <1>6, <1>7, <1>8, <1>9 DEF RemindersInv

LEMMA InsertDeliveryKeeps ==
  ASSUME TypeOK, RemindersInv, NEW w \in Workers, InsertDelivery(w)
  PROVE  (TypeOK /\ RemindersInv)'
<1>1. run[w] \in Runs /\ Key(w) \in Keys
  BY RunKinds DEF InsertDelivery, At, Awaits
<1>2. ASSUME delivery[Key(w)] = NoRow
      PROVE  /\ run' \in [Workers -> {Ended} \union Done \union Runs]
      /\ run'[w] \in Runs
      /\ run'[w].pc = "enqueue" /\ run'[w].firing = run[w].firing /\ run'[w].day = run[w].day
      /\ run'[w].left = run[w].left /\ run'[w].members = run[w].members
      /\ run'[w].submitted = run[w].submitted
      /\ run'[w].early = run[w].early /\ run'[w].seen = run[w].seen
      /\ \A o \in Workers \ {w} : run'[o] = run[o]
  BY <1>1, <1>2, GotoType DEF InsertDelivery, Awaits, At
<1>3. ASSUME ~(delivery[Key(w)] = NoRow)
      PROVE  /\ run' \in [Workers -> {Ended} \union Done \union Runs]
      /\ run'[w] \in Done /\ run'[w] \notin Runs
      /\ run'[w].pc = "returned"
      /\ \A o \in Workers \ {w} : run'[o] = run[o]
  BY <1>1, <1>3, FinishType DEF InsertDelivery, At
<1>4. NewRow(w) \in Rows /\ NewRow(w).queued = FALSE
      /\ NewRow(w).pending = Pending(run[w])
      /\ NewRow(w).early = run[w].early /\ NewRow(w).seen = run[w].seen
  BY <1>1, RunKinds DEF NewRow, Rows, Pending
<1>5. TypeOK'
  BY <1>1, <1>2, <1>3, <1>4, Kinds0, RunKinds, RemindersAssumption DEF InsertDelivery,
     team, Awaits, TypeOK, RemindersAssumption, Q!TypeOK
<1>6. JobInv'
  BY <1>1, <1>2, <1>3, <1>4, Kinds0, RunKinds DEF InsertDelivery, team, Awaits, JobInv,
     Q!Over, RemindersInv
<1>7. RunInv'
  BY <1>1, <1>2, <1>3, <1>4, Kinds0, RunKinds DEF InsertDelivery, team, Awaits, RunInv,
     At, Key, RemindersInv
<1>8. NoJobFails'
  BY <1>1, <1>2, <1>3, <1>4, Kinds0, RunKinds DEF InsertDelivery, team, Awaits,
     NoJobFails, RemindersInv
<1>9. OnlyDueReminded'
  BY <1>1, <1>2, <1>3, <1>4, Kinds0, RunKinds DEF InsertDelivery, team, Awaits,
     OnlyDueReminded, RunInv, Pending, RemindersInv
<1>10. PendingIsQueued'
  BY <1>1, <1>2, <1>3, <1>4, Kinds0, RunKinds DEF InsertDelivery, team, Awaits,
     PendingIsQueued, At, Key, Queued, RemindersInv
<1> QED
  BY <1>5, <1>6, <1>7, <1>8, <1>9, <1>10 DEF RemindersInv

LEMMA QueuedType ==
  ASSUME TypeOK, RemindersInv, NEW w \in Workers, run[w] \in Runs, Key(w) \in Keys,
         At(w, "enqueue"), delivery' = [delivery EXCEPT ![Key(w)].queued = TRUE]
  PROVE  /\ delivery[Key(w)] \in Rows
         /\ delivery' \in [Keys -> {NoRow} \union Rows]
         /\ delivery'[Key(w)] \in Rows /\ delivery'[Key(w)].queued = TRUE
         /\ delivery'[Key(w)].pending = delivery[Key(w)].pending
         /\ delivery'[Key(w)].early = delivery[Key(w)].early
         /\ delivery'[Key(w)].seen = delivery[Key(w)].seen
         /\ \A k \in Keys \ {Key(w)} : delivery'[k] = delivery[k]
<1>1. delivery[Key(w)] \in Rows
  BY RunKinds DEF RemindersInv, RunInv
<1>2. \A r \in Rows : LET s == [r EXCEPT !.queued = TRUE] IN
        s \in Rows /\ s.queued = TRUE /\ s.pending = r.pending /\ s.early = r.early /\ s.seen = r.seen
  BY DEF Rows
<1>3. delivery' = [delivery EXCEPT ![Key(w)] = [delivery[Key(w)] EXCEPT !.queued = TRUE]]
  BY RunKinds
<1> QED
  BY <1>1, <1>2, <1>3, RunKinds

LEMMA EnqueueDeliveryKeeps ==
  ASSUME TypeOK, RemindersInv, NEW w \in Workers, EnqueueDelivery(w)
  PROVE  (TypeOK /\ RemindersInv)'
<1>1. run[w] \in Runs /\ Key(w) \in Keys
  BY RunKinds DEF EnqueueDelivery, At, Awaits
<1>2. /\ run' \in [Workers -> {Ended} \union Done \union Runs]
      /\ run'[w] \in Done /\ run'[w] \notin Runs
      /\ run'[w].pc = "returned"
      /\ \A o \in Workers \ {w} : run'[o] = run[o]
  BY <1>1, FinishType DEF EnqueueDelivery, At
<1>3. /\ delivery[Key(w)] \in Rows
      /\ delivery' \in [Keys -> {NoRow} \union Rows]
      /\ delivery'[Key(w)] \in Rows /\ delivery'[Key(w)].queued = TRUE
      /\ delivery'[Key(w)].pending = delivery[Key(w)].pending
      /\ delivery'[Key(w)].early = delivery[Key(w)].early
      /\ delivery'[Key(w)].seen = delivery[Key(w)].seen
      /\ \A k \in Keys \ {Key(w)} : delivery'[k] = delivery[k]
  BY <1>1, QueuedType DEF EnqueueDelivery
<1>4. UNCHANGED <<job, team, cut, faults>> /\ At(w, "enqueue")
  BY  DEF EnqueueDelivery
<1>5. TypeOK'
  BY <1>1, <1>2, <1>3, <1>4, Kinds0, RunKinds, RemindersAssumption DEF team, Awaits,
     TypeOK, RemindersAssumption, Q!TypeOK
<1>6. JobInv'
  BY <1>1, <1>2, <1>3, <1>4, Kinds0, RunKinds DEF team, Awaits, JobInv, Q!Over,
     RemindersInv
<1>7. RunInv'
  <2> DEFINE Fits(o) ==
        /\ At(o, "threw") => faults > 0
        /\ run[o] \in Runs =>
             /\ members \subseteq run[o].seen
             /\ run[o].early \subseteq submitted[run[o].day]
             /\ "members" \notin run[o].left => run[o].members \subseteq run[o].seen
             /\ "standups" \notin run[o].left => run[o].early \subseteq run[o].submitted
             /\ At(o, "insert") => run[o].left = {} /\ Pending(run[o]) # {}
             /\ At(o, "enqueue") => delivery[Key(o)] # NoRow
  <2>1. \A o \in Workers : Fits(o)
    BY DEF RemindersInv, RunInv
  <2>2. \A o \in Workers \ {w} : Fits(o)'
    <3>1. \A k \in Keys : delivery[k] # NoRow => delivery'[k] # NoRow
      BY <1>3, Kinds0 DEF NoRow, Rows
    <3>2. \A o \in Workers \ {w} : run[o] \in Runs => Key(o) \in Keys /\ Key(o)' = Key(o)
      BY <1>2, RunKinds DEF Key
    <3> QED
      BY <2>1, <1>2, <1>4, <3>1, <3>2 DEF team, At, Pending
  <2>3. Fits(w)'
    BY <2>1, <1>1, <1>2, <1>3, <1>4, Kinds0, RunKinds DEF team, Awaits, At, Key
  <2> QED
    BY <2>2, <2>3 DEF RunInv
<1>8. NoJobFails'
  BY <1>1, <1>2, <1>3, <1>4, Kinds0, RunKinds DEF team, Awaits, NoJobFails, RemindersInv
<1>9. OnlyDueReminded'
  BY <1>1, <1>2, <1>3, <1>4, Kinds0, RunKinds DEF team, Awaits, OnlyDueReminded,
     RemindersInv
<1>10. PendingIsQueued'
  <2> SUFFICES ASSUME NEW k \in Keys, delivery'[k] # NoRow, ~Queued(k)', k \notin cut'
               PROVE  \E o \in Workers : At(o, "enqueue")' /\ Key(o)' = k
    BY DEF PendingIsQueued
  <2>1. k # Key(w) /\ delivery'[k] = delivery[k] /\ cut' = cut
    BY <1>1, <1>3, <1>4, RunKinds DEF Queued
  <2>2. PICK o \in Workers : At(o, "enqueue") /\ Key(o) = k
    BY <2>1 DEF RemindersInv, PendingIsQueued, Queued
  <2>3. run'[o] = run[o]
    BY <1>2, <2>1, <2>2
  <2> QED
    BY <2>2, <2>3 DEF At, Key
<1> QED
  BY <1>5, <1>6, <1>7, <1>8, <1>9, <1>10 DEF RemindersInv

LEMMA RejectedKeeps ==
  ASSUME TypeOK, RemindersInv, NEW w \in Workers, Rejected(w)
  PROVE  (TypeOK /\ RemindersInv)'
<1>1. run[w] \in Runs /\ Key(w) \in Keys
  BY RunKinds DEF Rejected, At, Awaits
<1>2. /\ run' \in [Workers -> {Ended} \union Done \union Runs]
      /\ run'[w] \in Done /\ run'[w] \notin Runs
      /\ run'[w].pc = "threw"
      /\ \A o \in Workers \ {w} : run'[o] = run[o]
  BY <1>1, FinishType DEF Rejected, At
<1>3. cut \subseteq cut' /\ cut' \subseteq Keys /\ (At(w, "enqueue") => Key(w) \in cut')
  BY <1>1, RunKinds DEF Rejected, CutOff
<1>4. TypeOK'
  BY <1>1, <1>2, <1>3, Kinds0, RunKinds, RemindersAssumption DEF Rejected, team, Awaits,
     Fault, TypeOK, RemindersAssumption, Q!TypeOK
<1>5. JobInv'
  BY <1>1, <1>2, <1>3, Kinds0, RunKinds DEF Rejected, team, Awaits, Fault, JobInv,
     Q!Over, RemindersInv
<1>6. RunInv'
  BY <1>1, <1>2, <1>3, Kinds0, RunKinds DEF Rejected, team, Awaits, Fault, RunInv, At,
     Key, RemindersInv
<1>7. NoJobFails'
  BY <1>1, <1>2, <1>3, Kinds0, RunKinds DEF Rejected, team, Awaits, Fault, NoJobFails,
     RemindersInv
<1>8. OnlyDueReminded'
  BY <1>1, <1>2, <1>3, Kinds0, RunKinds DEF Rejected, team, Awaits, Fault,
     OnlyDueReminded, RemindersInv
<1>9. PendingIsQueued'
  BY <1>1, <1>2, <1>3, Kinds0, RunKinds DEF Rejected, team, Awaits, Fault,
     PendingIsQueued, At, Key, Queued, RemindersInv
<1> QED
  BY <1>4, <1>5, <1>6, <1>7, <1>8, <1>9 DEF RemindersInv

LEMMA AnswerLostKeeps ==
  ASSUME TypeOK, RemindersInv, NEW w \in Workers, AnswerLost(w)
  PROVE  (TypeOK /\ RemindersInv)'
<1>1. run[w] \in Runs /\ Key(w) \in Keys
  BY RunKinds DEF AnswerLost, At, Awaits
<1>2. /\ run' \in [Workers -> {Ended} \union Done \union Runs]
      /\ run'[w] \in Done /\ run'[w] \notin Runs
      /\ run'[w].pc = "threw"
      /\ \A o \in Workers \ {w} : run'[o] = run[o]
  BY <1>1, FinishType DEF AnswerLost, At
<1>3. NewRow(w) \in Rows /\ NewRow(w).queued = FALSE
      /\ NewRow(w).pending = Pending(run[w])
      /\ NewRow(w).early = run[w].early /\ NewRow(w).seen = run[w].seen
  BY <1>1, RunKinds DEF NewRow, Rows, Pending
<1>4. At(w, "enqueue") =>
      /\ delivery[Key(w)] \in Rows
      /\ delivery' \in [Keys -> {NoRow} \union Rows]
      /\ delivery'[Key(w)] \in Rows /\ delivery'[Key(w)].queued = TRUE
      /\ delivery'[Key(w)].pending = delivery[Key(w)].pending
      /\ delivery'[Key(w)].early = delivery[Key(w)].early
      /\ delivery'[Key(w)].seen = delivery[Key(w)].seen
      /\ \A k \in Keys \ {Key(w)} : delivery'[k] = delivery[k]
  BY <1>1, QueuedType DEF AnswerLost, At
<1>5. ~At(w, "enqueue") => /\ At(w, "insert") /\ delivery[Key(w)] = NoRow
                              /\ delivery' = [delivery EXCEPT ![Key(w)] = NewRow(w)]
                              /\ cut' = cut \union {Key(w)}
  BY  DEF AnswerLost
<1>6. TypeOK'
  BY <1>1, <1>2, <1>3, <1>4, <1>5, Kinds0, RunKinds, RemindersAssumption DEF AnswerLost,
     team, Awaits, Fault, TypeOK, RemindersAssumption, Q!TypeOK
<1>7. JobInv'
  BY <1>1, <1>2, <1>3, <1>4, <1>5, Kinds0, RunKinds DEF AnswerLost, team, Awaits, Fault,
     JobInv, Q!Over, RemindersInv
<1>8. RunInv'
  <2>1. /\ UNCHANGED team /\ faults' > 0 /\ (faults > 0 => faults' > 0)
        /\ \A k \in Keys : delivery[k] # NoRow => delivery'[k] # NoRow
    <3>1. UNCHANGED team /\ faults' = faults + 1
      BY DEF AnswerLost, Fault
    <3>2. NoRow \notin Rows
      BY DEF NoRow, Rows
    <3>3. \A k \in Keys : delivery[k] # NoRow => delivery'[k] # NoRow
      BY <1>1, <1>3, <1>4, <1>5, <3>2 DEF TypeOK
    <3> QED
      BY <3>1, <3>3, RunKinds
  <2>2. \A o \in Workers \ {w} : run[o] \in Runs => Key(o) \in Keys /\ Key(o)' = Key(o)
    BY <1>2, RunKinds DEF Key
  <2>3. run'[w] \notin Runs
    BY <1>2
  <2> QED
    BY <1>2, <2>1, <2>2, <2>3 DEF team, RunInv, At, Pending, RemindersInv
<1>9. NoJobFails'
  BY <1>1, <1>2, <1>3, <1>4, <1>5, Kinds0, RunKinds DEF AnswerLost, team, Awaits, Fault,
     NoJobFails, RemindersInv
<1>10. OnlyDueReminded'
  BY <1>1, <1>2, <1>3, <1>4, <1>5, Kinds0, RunKinds DEF AnswerLost, team, Awaits, Fault,
     OnlyDueReminded, RunInv, Pending, RemindersInv
<1>11. PendingIsQueued'
  <2>1. \A o \in Workers \ {w} : At(o, "enqueue") => At(o, "enqueue")' /\ Key(o)' = Key(o)
    BY <1>2 DEF At, Key
  <2>2. CASE At(w, "enqueue")
    <3>1. cut' = cut
      BY <2>2 DEF AnswerLost, At
    <3>2. delivery'[Key(w)] # NoRow /\ delivery'[Key(w)].queued
      BY <1>4, <2>2 DEF NoRow, Rows
    <3> SUFFICES ASSUME NEW k \in Keys, delivery'[k] # NoRow, ~Queued(k)'
                 PROVE  k \in cut' \/ \E o \in Workers : At(o, "enqueue")' /\ Key(o)' = k
      BY DEF PendingIsQueued
    <3>3. k # Key(w)
      BY <3>2 DEF Queued
    <3>4. delivery[k] # NoRow /\ ~Queued(k)
      BY <1>4, <2>2, <3>3 DEF Queued
    <3>5. k \in cut \/ \E o \in Workers : At(o, "enqueue") /\ Key(o) = k
      BY <3>4 DEF PendingIsQueued, RemindersInv
    <3> QED
      BY <2>1, <3>1, <3>3, <3>5
  <2>3. CASE ~At(w, "enqueue")
    <3>1. \A k \in Keys \ {Key(w)} : delivery'[k] = delivery[k] /\ (Queued(k)' <=> Queued(k))
      BY <1>5, <2>3 DEF TypeOK, Queued
    <3> QED
      BY <1>5, <2>1, <2>3, <3>1 DEF PendingIsQueued, RemindersInv
  <2> QED
    BY <2>2, <2>3
<1> QED
  BY <1>6, <1>7, <1>8, <1>9, <1>10, <1>11 DEF RemindersInv

LEMMA InvInit == Init => TypeOK /\ RemindersInv
<1> SUFFICES ASSUME Init PROVE TypeOK /\ RemindersInv
  OBVIOUS
<1>1. job = [f \in Firings |-> Q!NoJob] /\ Q!NoJob.owner = NoWorker /\ Q!NoJob.lost = FALSE
      /\ Q!NoJob.state = "none" /\ Q!NoJob.made = 0 /\ Q!NoJob.stalled = 0
  BY DEF Init, Q!Init, Q!NoJob
<1>2. Q!TypeOK
  BY <1>1, RemindersAssumption
  DEF Init, Q!Init, Q!TypeOK, Q!NoJob, Q!JobState, RemindersAssumption
<1>3. TypeOK
  BY <1>2, RemindersAssumption DEF Init, TypeOK, Days, RemindersAssumption
<1>4. JobInv /\ NoJobFails
  BY <1>1, RemindersAssumption DEF Init, JobInv, NoJobFails, Q!Over, RemindersAssumption
<1>5. Ended \notin Runs /\ Ended.pc = "idle"
  BY DEF Ended, Runs, Awaits
<1>6. RunInv /\ OnlyDueReminded /\ PendingIsQueued
  BY <1>5 DEF Init, RunInv, At, OnlyDueReminded, PendingIsQueued
<1> QED
  BY <1>3, <1>4, <1>6 DEF RemindersInv

LEMMA StutterKeeps ==
  ASSUME TypeOK, RemindersInv, UNCHANGED vars
  PROVE  (TypeOK /\ RemindersInv)'
<1>1. TypeOK'
  BY DEF vars, TypeOK, Q!TypeOK
<1>2. JobInv' /\ NoJobFails' /\ OnlyDueReminded'
  BY DEF vars, RemindersInv, JobInv, NoJobFails, OnlyDueReminded, Q!Over
<1>3. RunInv' /\ PendingIsQueued'
  BY DEF vars, RemindersInv, RunInv, PendingIsQueued, At, Key, Queued
<1> QED
  BY <1>1, <1>2, <1>3 DEF RemindersInv

LEMMA InvStep == TypeOK /\ RemindersInv /\ [Next]_vars => (TypeOK /\ RemindersInv)'
<1> SUFFICES ASSUME TypeOK, RemindersInv, [Next]_vars
             PROVE  (TypeOK /\ RemindersInv)'
  OBVIOUS
<1>1. ASSUME NEW u \in Users, Join(u) \/ Leave(u) \/ \E d \in Days : Submit(u, d)
      PROVE  (TypeOK /\ RemindersInv)'
  BY <1>1, JoinKeeps, LeaveKeeps, SubmitKeeps
<1>2. ASSUME NEW f \in Firings, FireJob(f) \/ LoseLock(f) \/ HandOut(f)
      PROVE  (TypeOK /\ RemindersInv)'
  BY <1>2, FireKeeps, LoseKeeps, HandOutKeeps
<1>3. ASSUME NEW w \in Workers, TakeJob(w)
      PROVE  (TypeOK /\ RemindersInv)'
  BY <1>3, TakeKeeps DEF TakeJob
<1>4. ASSUME NEW w \in Workers, RunStep(w)
      PROVE  (TypeOK /\ RemindersInv)'
  BY <1>4, ReadTeamKeeps, FindDeliveryKeeps, ReadMembersKeeps, ReadStandupsKeeps,
     InsertDeliveryKeeps, EnqueueDeliveryKeeps, SettleKeeps DEF RunStep
<1>5. ASSUME NEW w \in Workers, Crash(w) \/ Rejected(w) \/ AnswerLost(w)
      PROVE  (TypeOK /\ RemindersInv)'
  BY <1>5, CrashKeeps, RejectedKeeps, AnswerLostKeeps
<1> QED
  BY <1>1, <1>2, <1>3, <1>4, <1>5, NextDayKeeps, SwitchKeeps, StutterKeeps DEF Next

LEMMA InvCorrect == Spec => [](TypeOK /\ RemindersInv)
BY InvInit, InvStep, PTL DEF Spec

-----------------------------------------------------------------------------
(* The theorems.                                                               *)

(* The jobs, rows and runs keep their types (reminders.service.ts:21-122).      *)
THEOREM TypeCorrect == Spec => []TypeOK
BY InvCorrect, PTL

(* Nobody is reminded who had submitted before the job began, or was no member  *)
(* since (reminders.service.ts:61-78).                                         *)
THEOREM OnlyDueCorrect == Spec => []OnlyDueReminded
<1>1. RemindersInv => OnlyDueReminded
  BY DEF RemindersInv
<1> QED
  BY <1>1, InvCorrect, PTL

(* A reminder's row is queued or about to be, unless a fault cut its run off    *)
(* (reminders.service.ts:95-105).                                              *)
THEOREM QueuedCorrect == Spec => []PendingIsQueued
<1>1. RemindersInv => PendingIsQueued
  BY DEF RemindersInv
<1> QED
  BY <1>1, InvCorrect, PTL

(* However many jobs of one kind and day overlap, none fails without a fault    *)
(* (reminders.service.ts:54, :113).                                            *)
THEOREM NoFailureCorrect == Spec => []NoJobFails
<1>1. RemindersInv => NoJobFails
  BY DEF RemindersInv
<1> QED
  BY <1>1, InvCorrect, PTL

-----------------------------------------------------------------------------
(* What fired stays in hand.                                                   *)

(* Only a fault cuts a run off.                                                *)
CutInv == cut = {} \/ faults > 0
LEMMA FaultsGrow ==
  ASSUME [Next]_vars
  PROVE  UNCHANGED <<cut, faults>> \/ Fault
<1>1. ASSUME NEW w \in Workers, RunStep(w) PROVE UNCHANGED <<cut, faults>>
  BY <1>1 DEF RunStep, ReadTeam, FindDelivery, ReadMembers, ReadStandups, InsertDelivery,
     EnqueueDelivery, SettleJob
<1>2. ASSUME NEW w \in Workers, Crash(w) \/ Rejected(w) \/ AnswerLost(w) PROVE Fault
  BY <1>2 DEF Crash, Rejected, AnswerLost
<1> QED
  BY <1>1, <1>2 DEF Next, vars, NextDay, SwitchReminders, Join, Leave, Submit, FireJob, LoseLock,
     HandOut, TakeJob

LEMMA CutStep == TypeOK /\ CutInv /\ [Next]_vars => CutInv'
<1> SUFFICES ASSUME TypeOK, CutInv, [Next]_vars PROVE CutInv'
  OBVIOUS
<1>1. CASE UNCHANGED <<cut, faults>>
  BY <1>1 DEF CutInv
<1>2. CASE Fault
  BY <1>2, RunKinds DEF CutInv, Fault
<1> QED
  BY <1>1, <1>2, FaultsGrow

(* A step without a fault, of whoever it is.                                   *)
Calm == [Next]_vars /\ ~Fault
SameRun(w) ==
  /\ run'[w].pc = run[w].pc /\ run'[w].firing = run[w].firing /\ run'[w].day = run[w].day
  /\ run'[w].left = run[w].left /\ run'[w].members = run[w].members
  /\ run'[w].submitted = run[w].submitted
SendStep(w) ==
  \/ ReadTeam(w) \/ FindDelivery(w) \/ ReadMembers(w) \/ ReadStandups(w)
  \/ InsertDelivery(w) \/ EnqueueDelivery(w)

LEMMA OthersKeep ==
  ASSUME TypeOK, Calm, NEW w \in Workers, run[w] \in Runs, ~SendStep(w)
  PROVE  SameRun(w)
<1>1. run[w].pc \in Awaits /\ run[w] # Ended /\ run[w].pc \notin {"returned", "threw"}
  BY RunKinds DEF Awaits, Done, Ended
<1>2. CASE run'[w] = run[w]
  BY <1>2 DEF SameRun
<1>3. ASSUME NEW u \in Users, Join(u) PROVE SameRun(w)
  BY <1>3, JoinType DEF SameRun
<1>4. ASSUME NEW v \in Workers, TakeJob(v) \/ RunStep(v) PROVE run'[w] = run[w]
  <2>1. v # w
    BY <1>1, <1>4 DEF TakeJob, RunStep, SettleJob, At, SendStep
  <2>2. CASE TakeJob(v) \/ SettleJob(v)
    BY <2>1, <2>2 DEF TakeJob, SettleJob, TypeOK
  <2>3. CASE SendStep(v)
    BY <2>1, <2>3 DEF SendStep, ReadTeam, FindDelivery, ReadMembers, ReadStandups,
       InsertDelivery, EnqueueDelivery, Goto, Finish, TypeOK
  <2> QED
    BY <1>4, <2>2, <2>3 DEF RunStep, SendStep
<1>5. \/ run' = run
      \/ \E u \in Users : Join(u)
      \/ \E v \in Workers : TakeJob(v) \/ RunStep(v)
  BY DEF Calm, Next, vars, NextDay, SwitchReminders, Leave, Submit, FireJob, LoseLock, HandOut,
     Crash, Rejected, AnswerLost
<1> QED
  BY <1>2, <1>3, <1>4, <1>5

(* What a step without a fault leaves of a job that a run holds, or that waits. *)
LEMMA JobKept ==
  ASSUME TypeOK, JobInv, Calm, NEW f \in Firings
  PROVE  /\ \A w \in Workers : job[f].owner = w /\ run[w] \in Runs => job'[f] = job[f]
         /\ job[f].state = "waiting" =>
              \/ job'[f] = job[f]
              \/ \E w \in Workers : job'[f].owner = w /\ run'[w] = Started(f)
<1> DEFINE ByARun == \E w \in Workers : job[f].owner = w /\ run[w] \in Runs
<1>1. ByARun => job[f].state = "active" /\ job[f].owner # NoWorker
  BY RemindersAssumption DEF JobInv, RemindersAssumption
<1>2. job[f].state = "waiting" => job[f].owner = NoWorker
  BY Kinds0 DEF JobInv
<1>3. ASSUME NEW w \in Workers, TakeJob(w)
      PROVE  \/ job'[f] = job[f]
             \/ job[f].state = "waiting" /\ job'[f].owner = w /\ run'[w] = Started(f)
  <2> PICK g \in Firings : Q!Take(g, w) /\ run' = [run EXCEPT ![w] = Started(g)]
    BY <1>3 DEF TakeJob
  <2>1. run'[w] = Started(g)
    BY DEF TypeOK
  <2> QED
    BY <2>1, TakeType
<1>4. ASSUME NEW w \in Workers, SettleJob(w), job'[f] # job[f]
      PROVE  job[f].owner = w /\ run[w] \notin Runs
  <2>1. /\ run[w].firing \in Firings /\ run[w] \notin Runs
        /\ Q!Settle(run[w].firing, w, At(w, "threw"))
    BY <1>4, RunKinds DEF SettleJob, At, Awaits
  <2>2. /\ job[run[w].firing].owner # w => job' = job
        /\ \A d \in Firings \ {run[w].firing} : job'[d] = job[d]
    <3> DEFINE g == run[w].firing
               threw == At(w, "threw")
    <3>1. g \in Firings /\ threw \in BOOLEAN /\ Q!Settle(g, w, threw)
      BY <2>1 DEF At
    <3> HIDE DEF g, threw
    <3>2. /\ job[g].owner # w => job' = job
          /\ \A d \in Firings \ {g} : job'[d] = job[d]
      BY <3>1, SettleType
    <3> QED
      BY <3>2 DEF g
  <2> QED
    BY <1>4, <2>1, <2>2
<1>5. ASSUME NEW g \in Firings, FireJob(g) \/ HandOut(g), ByARun \/ job[f].state = "waiting"
      PROVE  job'[f] = job[f]
  <2>1. g # f
    BY <1>1, <1>5 DEF FireJob, HandOut, Q!Add, Q!HandOut
  <2> QED
    BY <1>5, <2>1 DEF FireJob, HandOut, Q!Add, Q!HandOut, TypeOK, Q!TypeOK
<1>6. ASSUME NEW w \in Workers, SendStep(w) PROVE job' = job
  BY <1>6 DEF SendStep, ReadTeam, FindDelivery, ReadMembers, ReadStandups, InsertDelivery,
     EnqueueDelivery
<1>7. ASSUME NEW w \in Workers PROVE ~Crash(w) /\ ~Rejected(w) /\ ~AnswerLost(w)
  BY DEF Calm, Crash, Rejected, AnswerLost
<1>8. \/ job' = job
      \/ \E g \in Firings : FireJob(g) \/ HandOut(g)
      \/ \E w \in Workers : TakeJob(w) \/ SettleJob(w)
  BY <1>6, <1>7 DEF Calm, Next, vars, RunStep, SendStep, NextDay, SwitchReminders, Join, Leave,
     Submit, LoseLock
<1>9. ByARun => job'[f] = job[f]
  BY <1>1, <1>3, <1>4, <1>5, <1>8
<1>10. job[f].state = "waiting" =>
        \/ job'[f] = job[f]
        \/ \E w \in Workers : job'[f].owner = w /\ run'[w] = Started(f)
  <2> SUFFICES ASSUME job[f].state = "waiting", job'[f] # job[f]
               PROVE  \E w \in Workers : job'[f].owner = w /\ run'[w] = Started(f)
    OBVIOUS
  <2>1. \A w \in Workers : ~SettleJob(w)
    BY <1>2, <1>4, RemindersAssumption DEF RemindersAssumption
  <2> QED
    BY <1>3, <1>5, <1>8, <2>1
<1> QED
  BY <1>9, <1>10

LEMMA QueuedStays ==
  ASSUME TypeOK, Calm, NEW k \in Keys, Queued(k)
  PROVE  Queued(k)'
<1>1. delivery \in [Keys -> {NoRow} \union Rows] /\ delivery[k] \in Rows /\ NoRow \notin Rows
  BY RunKinds DEF Queued
<1>2. CASE delivery' = delivery
  BY <1>2 DEF Queued
<1>3. ASSUME NEW w \in Workers, InsertDelivery(w) PROVE Queued(k)'
  BY <1>1, <1>3 DEF InsertDelivery, Queued
<1>4. ASSUME NEW w \in Workers, EnqueueDelivery(w) PROVE Queued(k)'
  <2>1. delivery' = [delivery EXCEPT ![Key(w)].queued = TRUE]
    BY <1>4 DEF EnqueueDelivery
  <2>2. \A r \in Rows : [r EXCEPT !.queued = TRUE] \in Rows
    BY DEF Rows
  <2>3. delivery'[k].queued = TRUE /\ delivery'[k] \in Rows
    BY <1>1, <2>1, <2>2 DEF Queued, Rows
  <2> QED
    BY <1>1, <2>3 DEF Queued
<1>5. ASSUME NEW w \in Workers, TakeJob(w) \/ ReadTeam(w) \/ FindDelivery(w)
                \/ ReadMembers(w) \/ ReadStandups(w) \/ SettleJob(w) \/ Crash(w) \/ Rejected(w)
      PROVE  delivery' = delivery
  BY <1>5 DEF TakeJob, ReadTeam, FindDelivery, ReadMembers, ReadStandups, SettleJob, Crash,
     Rejected
<1>6. ASSUME NEW w \in Workers PROVE ~AnswerLost(w)
  BY DEF Calm, AnswerLost
<1> QED
  BY <1>2, <1>3, <1>4, <1>5, <1>6 DEF Calm, Next, vars, RunStep, NextDay, SwitchReminders,
     Join, Leave, Submit, FireJob, LoseLock, HandOut

(* A run of f that has not missed u either still has not, or leaves the         *)
(* reminder to the run that is at the enqueue of the row, or has queued it.    *)
Passed(k) == Queued(k) \/ \E w \in Workers : At(w, "enqueue") /\ Key(w) = k

LEMMA PassedStays ==
  ASSUME TypeOK, RunInv, Calm, NEW k \in Keys, Passed(k)
  PROVE  Passed(k)'
<1>1. CASE Queued(k)
  BY <1>1, QueuedStays DEF Passed
<1>2. ASSUME NEW w \in Workers, At(w, "enqueue"), Key(w) = k PROVE Passed(k)'
  <2>1. run[w] \in Runs
    BY <1>2, RunKinds DEF At, Awaits
  <2>2. CASE EnqueueDelivery(w)
    <3>1. /\ delivery' = [delivery EXCEPT ![k] = [delivery[k] EXCEPT !.queued = TRUE]]
          /\ delivery \in [Keys -> {NoRow} \union Rows] /\ delivery[k] \in Rows
      BY <1>2, <2>1, <2>2, RunKinds DEF EnqueueDelivery, RunInv
    <3>2. [delivery[k] EXCEPT !.queued = TRUE] \in Rows
      BY <3>1 DEF Rows
    <3>3. Queued(k)'
      BY <3>1, <3>2, RunKinds DEF Queued, Rows
    <3> QED
      BY <3>3 DEF Passed
  <2>3. CASE SendStep(w) /\ ~EnqueueDelivery(w)
    BY <1>2, <2>3 DEF SendStep, ReadTeam, FindDelivery, ReadMembers, ReadStandups,
       InsertDelivery, At
  <2>4. CASE ~SendStep(w)
    BY <1>2, <2>1, <2>4, OthersKeep DEF SameRun, Passed, At, Key
  <2> QED
    BY <2>2, <2>3, <2>4
<1> QED
  BY <1>1, <1>2 DEF Passed

LEMMA WorkStays ==
  ASSUME TypeOK, RemindersInv, cut = {}, Calm,
         NEW f \in Firings, NEW d \in Days \intersect WorkingDays, NEW u \in Users,
         Owes(u, d), NEW w \in Workers, AtWork(w, f, d, u)
  PROVE  AtWork(w, f, d, u)' \/ Passed(<<d, KindOf[f]>>)'
<1> DEFINE k == <<d, KindOf[f]>>
<1>1. /\ run[w] \in Runs /\ Key(w) = k /\ k \in Keys
      /\ run[w].firing = f /\ run[w].day = d /\ ~Missed(run[w], u)
      /\ u \in members /\ u \notin submitted[d] /\ on
  BY RunKinds DEF AtWork, Key, Owes
<1>2. job'[f].owner = w
  BY <1>1, JobKept DEF AtWork, RemindersInv
<1>3. delivery[k] # NoRow => Passed(k)
  BY <1>1 DEF RemindersInv, PendingIsQueued, Passed
<1>4. CASE ~SendStep(w)
  BY <1>1, <1>2, <1>4, OthersKeep DEF SameRun, AtWork, Missed
<1>5. CASE ReadTeam(w)
  <2>1. Goto(w, "find")
    BY <1>1, <1>5 DEF ReadTeam
  <2> QED
    BY <1>1, <1>2, <2>1, GotoType DEF AtWork, Missed, Awaits
<1>6. CASE FindDelivery(w) \/ InsertDelivery(w)
  <2>1. CASE delivery[k] # NoRow
    BY <1>1, <1>3, <2>1, PassedStays DEF RemindersInv
  <2>2. CASE delivery[k] = NoRow
    <3>1. Goto(w, "read") \/ Goto(w, "enqueue")
      BY <1>1, <1>6, <2>2 DEF FindDelivery, InsertDelivery
    <3> QED
      BY <1>1, <1>2, <3>1, GotoType DEF AtWork, Missed, Awaits
  <2> QED
    BY <2>1, <2>2
<1>7. ASSUME NEW r \in Runs, r.pc = "read", r.firing = f, r.day = d, ~Missed(r, u),
             run' = [run EXCEPT ![w] = Decided(r)]
      PROVE  AtWork(w, f, d, u)'
  <2>1. run'[w] = Decided(r)
    BY <1>7 DEF TypeOK
  <2>2. Decided(r).pc # "returned"
    <3>1. r.left = {} => u \in Pending(r)
      BY <1>7 DEF Missed, Pending
    <3> QED
      BY <1>7, <3>1 DEF Decided
  <2>3. /\ Decided(r).pc \in Awaits /\ Decided(r).firing = f /\ Decided(r).day = d
        /\ ~Missed(Decided(r), u)
    BY <1>7, <2>2, DecidedType DEF Missed, Awaits
  <2> QED
    BY <1>2, <2>1, <2>3 DEF AtWork
<1>8. CASE ReadMembers(w)
  <2> DEFINE r == [run[w] EXCEPT !.members = members, !.left = @ \ {"members"}]
  <2>1. /\ r \in Runs /\ r.pc = "read" /\ r.firing = f /\ r.day = d
        /\ r.members = members /\ r.submitted = run[w].submitted
        /\ r.left = run[w].left \ {"members"}
    BY <1>1, <1>8, RunKinds DEF ReadMembers, At, Runs
  <2>2. ~Missed(r, u)
    <3> HIDE DEF r
    <3> QED
      BY <1>1, <2>1 DEF Missed
  <2>3. run' = [run EXCEPT ![w] = Decided(r)]
    BY <1>8 DEF ReadMembers
  <2> QED
    BY <1>7, <2>1, <2>2, <2>3
<1>9. CASE ReadStandups(w)
  <2> DEFINE r == [run[w] EXCEPT !.submitted = submitted[run[w].day],
                                 !.left = @ \ {"standups"}]
  <2>1. /\ r \in Runs /\ r.pc = "read" /\ r.firing = f /\ r.day = d
        /\ r.members = run[w].members /\ r.submitted = submitted[d]
        /\ r.left = run[w].left \ {"standups"}
    BY <1>1, <1>9, RunKinds DEF ReadStandups, At, Runs
  <2>2. ~Missed(r, u)
    <3> HIDE DEF r
    <3> QED
      BY <1>1, <2>1 DEF Missed
  <2>3. run' = [run EXCEPT ![w] = Decided(r)]
    BY <1>9 DEF ReadStandups
  <2> QED
    BY <1>7, <2>1, <2>2, <2>3
<1>10. CASE EnqueueDelivery(w)
  <2>1. At(w, "enqueue")
    BY <1>10 DEF EnqueueDelivery
  <2> QED
    BY <1>1, <2>1, PassedStays DEF Passed, RemindersInv
<1> QED
  BY <1>4, <1>5, <1>6, <1>8, <1>9, <1>10 DEF SendStep

(* While its member owes a standup and nothing fails, a reminder that fired     *)
(* waits, is worked on by a run that has not missed the member, or is passed to *)
(* a run at the enqueue, until it is queued (reminders.service.ts:54, :61-78,   *)
(* :113): what FiredIsQueued has without fairness.                             *)
THEOREM StaysInHandCorrect == Spec => StaysInHand
<1> DEFINE Kept == faults' = 0 =>
       \A d \in Days \intersect WorkingDays, u \in Users : Owes(u, d) /\ Owes(u, d)' =>
         \A f \in Firings : InHand(f, d, u) => InHand(f, d, u)'
<1>1. Init => CutInv
  BY DEF Init, CutInv
<1>2. TypeOK /\ CutInv /\ [Next]_vars => CutInv'
  BY CutStep
<1>3. ASSUME TypeOK, RemindersInv, CutInv, [Next]_vars, faults' = 0,
             NEW d \in Days \intersect WorkingDays, NEW u \in Users, Owes(u, d), Owes(u, d)',
             NEW f \in Firings, InHand(f, d, u)
      PROVE  InHand(f, d, u)'
  <2> DEFINE k == <<d, KindOf[f]>>
  <2>1. Calm /\ k \in Keys
    BY <1>3, RunKinds, RemindersAssumption DEF Calm, Fault, Keys, RemindersAssumption
  <2>2. cut = {}
    <3>1. faults = 0
      BY <1>3, FaultsGrow, RunKinds DEF Fault
    <3> QED
      BY <1>3, <3>1 DEF CutInv
  <2>3. CASE job[f].state = "waiting"
    <3>1. ASSUME NEW w \in Workers, job'[f].owner = w, run'[w] = Started(f)
          PROVE  AtWork(w, f, d, u)'
      <4>1. today = d
        BY <1>3 DEF Owes
      <4> QED
        BY <3>1, <4>1 DEF AtWork, Started, Missed, Queries, Awaits
    <3> QED
      BY <1>3, <2>1, <2>3, <3>1, JobKept DEF InHand, RemindersInv
  <2>4. CASE Passed(k)
    <3>1. Passed(k)'
      BY <1>3, <2>1, <2>4, PassedStays DEF RemindersInv
    <3> QED
      BY <3>1 DEF Passed, InHand
  <2>5. ASSUME NEW w \in Workers, AtWork(w, f, d, u)
        PROVE  InHand(f, d, u)'
    BY <1>3, <2>1, <2>2, <2>5, WorkStays DEF Passed, InHand
  <2> QED
    BY <1>3, <2>3, <2>4, <2>5 DEF InHand, Passed
<1>4. TypeOK /\ RemindersInv /\ CutInv /\ [Next]_vars => [Kept]_vars
  BY <1>3
<1> QED
  BY <1>1, <1>2, <1>4, InvCorrect, PTL DEF Spec, StaysInHand

-----------------------------------------------------------------------------
(* Jobs run out.                                                               *)
USE RemindersAssumption DEF RemindersAssumption


(* The lock of a job is held by a worker that is running it.                   *)
HeldAt(f) == job[f].owner # NoWorker =>
  /\ job[f].state = "active"
  /\ run[job[f].owner] # Ended /\ run[job[f].owner].firing = f
HeldInv == \A f \in Firings : HeldAt(f)

LEMMA AwaitsKinds ==
  ASSUME NEW r
  PROVE  /\ AwaitsLeft(r) \in 1..9
         /\ r.pc \in Awaits \union {"returned", "threw"} => AwaitsLeft(r) > 1
BY DEF AwaitsLeft, Awaits

(* A job under way has tries left.                                             *)
UnderWay(r) == /\ r.state \in {"waiting", "active"}
               /\ r.made \in Nat /\ r.made < JobAttempts
               /\ r.stalled \in Nat /\ r.stalled <= MaxStalled
LEMMA LeftKinds ==
  ASSUME NEW r, NEW steps, UnderWay(r)
  PROVE  /\ Q!TriesLeft(r) \in Nat \ {0}
         /\ r.state = "waiting" => Q!Left(r, steps) = 12 * Q!TriesLeft(r) + 11
         /\ r.state = "active" => Q!Left(r, steps) = 12 * Q!TriesLeft(r) + steps
BY DEF UnderWay, Q!TriesLeft, Q!Left, Q!Span

LEMMA LeftNat ==
  ASSUME NEW r, NEW steps \in Nat, r.state \in {"waiting", "active"} => UnderWay(r)
  PROVE  Q!Left(r, steps) \in Nat
<1>1. CASE UnderWay(r)
  BY <1>1, LeftKinds DEF UnderWay
<1>2. CASE r.state \notin {"waiting", "active"}
  BY <1>2 DEF Q!Left
<1> QED
  BY <1>1, <1>2

(* A try or a hand-out is spent, or the job is over.                           *)
Spends(r, s) ==
  \/ s.state \in {"completed", "failed"}
  \/ s.state = "waiting" /\ Q!TriesLeft(s) = Q!TriesLeft(r) - 1
LEMMA SpendsLess ==
  ASSUME NEW r, NEW s, NEW left \in 1..9, NEW steps,
         UnderWay(r), r.state = "active", Spends(r, s), s.state = "waiting" => UnderWay(s)
  PROVE  Q!Left(s, steps) \in 0..(Q!Left(r, left) - 1)
<1>1. Q!TriesLeft(r) \in Nat \ {0} /\ Q!Left(r, left) = 12 * Q!TriesLeft(r) + left
  BY LeftKinds
<1>2. CASE s.state \in {"completed", "failed"}
  <2>1. Q!Left(s, steps) = 0
    BY <1>2 DEF Q!Left
  <2> QED
    BY <1>1, <2>1
<1>3. CASE s.state = "waiting" /\ Q!TriesLeft(s) = Q!TriesLeft(r) - 1
  <2>1. Q!Left(s, steps) = 12 * (Q!TriesLeft(r) - 1) + 11
    BY <1>3, LeftKinds
  <2> QED
    BY <1>1, <2>1
<1> QED
  BY <1>2, <1>3 DEF Spends

(* What a step does to one job and its run: nothing, if not to note a newcomer, *)
(* an await, the add, a take, a settlement or another hand-out, the loss of the *)
(* lock.                                                                       *)
Untouched(f) ==
  /\ job'[f] = job[f] /\ HeldAt(f)'
  /\ AwaitsLeft(Held(f)') = AwaitsLeft(Held(f))
  /\ Held(f)' = Held(f) \/ members' # members
Awaited(f) == LET w == job[f].owner IN
  /\ w # NoWorker /\ job'[f] = job[f]
  /\ run'[w] # Ended /\ run'[w].firing = f
  /\ AwaitsLeft(run'[w]) < AwaitsLeft(run[w])
Added(f) == job[f].state = "none" /\ job'[f].owner = NoWorker
Taken(f) ==
  /\ job[f].state = "waiting" /\ job'[f].state = "active"
  /\ Q!TriesLeft(job'[f]) = Q!TriesLeft(job[f])
  /\ job'[f].owner # NoWorker
  /\ run'[job'[f].owner] = Started(f)
Spent(f) ==
  job[f].state = "active" /\ job'[f].owner = NoWorker /\ Spends(job[f], job'[f])
Unlocked(f) ==
  /\ job[f].owner # NoWorker /\ job'[f].owner = NoWorker
  /\ job'[f].state = job[f].state /\ Q!TriesLeft(job'[f]) = Q!TriesLeft(job[f])
Touched(f) ==
  \/ Untouched(f) \/ Awaited(f) \/ Added(f) \/ Taken(f) \/ Spent(f) \/ Unlocked(f)

RunsOutAt(f) == job[f].state # "none" =>
  /\ Left(f)' \in 0..Left(f)
  /\ job'[f] # job[f] \/ (Held(f)' # Held(f) /\ members' = members) => Left(f)' < Left(f)

LEMMA TouchRunsOut ==
  ASSUME TypeOK, JobInv, TypeOK', JobInv', NEW f \in Firings, HeldAt(f), Touched(f)
  PROVE  HeldAt(f)' /\ RunsOutAt(f)
<1> HIDE DEF RemindersAssumption
<1> DEFINE r == job[f]
           s == job'[f]
           left == AwaitsLeft(Held(f))
           steps == AwaitsLeft(Held(f)')
<1>1. /\ r.state \in Q!JobState /\ s.state \in Q!JobState
      /\ r.state \in {"waiting", "active"} => UnderWay(r)
      /\ s.state \in {"waiting", "active"} => UnderWay(s)
  <2>1. /\ r.state \in Q!JobState /\ r.made \in Nat /\ r.stalled \in Nat
        /\ s.state \in Q!JobState /\ s.made \in Nat /\ s.stalled \in Nat
    BY RemindersAssumption DEF TypeOK, Q!TypeOK, RemindersAssumption
  <2>2. /\ ~Q!Over(f) => r.made < JobAttempts /\ r.stalled <= MaxStalled
        /\ ~Q!Over(f)' => s.made < JobAttempts /\ s.stalled <= MaxStalled
    BY DEF JobInv
  <2> QED
    BY <2>1, <2>2 DEF Q!Over, UnderWay
<1>2. /\ Left(f) = Q!Left(r, left) /\ Left(f)' = Q!Left(s, steps)
      /\ left \in 1..9 /\ steps \in 1..9
  BY AwaitsKinds DEF Left
<1>3. Left(f) \in Nat /\ Left(f)' \in Nat
  BY <1>1, <1>2, LeftNat
<1>4. CASE Untouched(f)
  <2>1. Left(f)' = Left(f)
    BY <1>2, <1>4 DEF Untouched
  <2> QED
    BY <1>3, <1>4, <2>1 DEF Untouched, RunsOutAt
<1>5. CASE Awaited(f)
  <2>1. /\ s = r /\ r.state = "active" /\ steps < left
        /\ HeldAt(f)'
    BY <1>5 DEF Awaited, HeldAt, Held
  <2>2. Left(f)' < Left(f)
    <3> HIDE DEF r, s, left, steps
    <3>1. /\ Q!TriesLeft(r) \in Nat
          /\ Left(f) = 12 * Q!TriesLeft(r) + left /\ Left(f)' = 12 * Q!TriesLeft(r) + steps
      BY <1>1, <1>2, <2>1, LeftKinds
    <3> QED
      BY <1>2, <2>1, <3>1
  <2> QED
    BY <1>3, <2>1, <2>2 DEF RunsOutAt
<1>6. CASE Added(f)
  BY <1>6 DEF Added, HeldAt, RunsOutAt
<1>7. CASE Taken(f)
  <2>1. steps = 9 /\ HeldAt(f)'
    BY <1>7 DEF Taken, HeldAt, Held, AwaitsLeft, Ended, Started
  <2>2. Left(f)' < Left(f)
    <3> HIDE DEF steps, left
    <3>1. /\ Q!TriesLeft(r) \in Nat
          /\ Left(f) = 12 * Q!TriesLeft(r) + 11 /\ Left(f)' = 12 * Q!TriesLeft(r) + 9
      BY <1>1, <1>2, <1>7, <2>1, LeftKinds DEF Taken
    <3> QED
      BY <3>1
  <2> QED
    BY <1>3, <2>1, <2>2 DEF RunsOutAt
<1>8. CASE Spent(f)
  <2>1. Q!Left(s, steps) \in 0..(Q!Left(r, left) - 1)
    BY <1>1, <1>2, <1>8, SpendsLess DEF Spent
  <2>2. Left(f)' < Left(f)
    BY <1>2, <1>3, <2>1
  <2> QED
    BY <1>3, <1>8, <2>2 DEF Spent, HeldAt, RunsOutAt
<1>9. CASE Unlocked(f)
  <2>1. /\ HeldAt(f)' /\ r.state = "active" /\ s.state = "active" /\ steps = 1
    BY <1>9 DEF Unlocked, HeldAt, Held, AwaitsLeft, Ended
  <2>2. left > 1
    <3>1. Held(f) = run[r.owner] /\ r.owner \in Workers /\ run[r.owner] # Ended
      BY <1>9, Kinds0 DEF Unlocked, HeldAt, Held
    <3>2. Held(f).pc \in Awaits \union {"returned", "threw"}
      BY <3>1, RunKinds
    <3> QED
      BY <3>2, AwaitsKinds
  <2>3. Left(f)' < Left(f)
    <3> HIDE DEF steps, left
    <3>1. /\ Q!TriesLeft(r) \in Nat
          /\ Left(f) = 12 * Q!TriesLeft(r) + left /\ Left(f)' = 12 * Q!TriesLeft(r) + steps
      BY <1>1, <1>2, <1>9, <2>1, LeftKinds DEF Unlocked
    <3> QED
      BY <1>2, <2>1, <2>2, <3>1
  <2> QED
    BY <1>3, <2>1, <2>3 DEF RunsOutAt
<1> QED
  BY <1>4, <1>5, <1>6, <1>7, <1>8, <1>9 DEF Touched

(* A job that a step leaves alone, with the run that holds it.                 *)
LEMMA LeavesAlone ==
  ASSUME NEW f \in Firings, HeldAt(f), job'[f] = job[f],
         job[f].owner # NoWorker => run'[job[f].owner] = run[job[f].owner]
  PROVE  Touched(f)
<1>1. Held(f)' = Held(f)
  BY DEF Held
<1>2. HeldAt(f)'
  BY DEF HeldAt
<1> QED
  BY <1>1, <1>2 DEF Touched, Untouched

(* A newcomer, whom every run at work takes note of.                           *)
LEMMA JoinTouches ==
  ASSUME TypeOK, HeldInv, NEW u \in Users, Join(u), NEW f \in Firings
  PROVE  Touched(f)
<1>1. HeldAt(f) /\ job[f].owner \in Workers \union {NoWorker} /\ UNCHANGED job
  BY Kinds0 DEF HeldInv, Join
<1>2. ASSUME NEW w \in Workers, run[w] # Ended
      PROVE  /\ run'[w] # Ended /\ run'[w].firing = run[w].firing
             /\ AwaitsLeft(run'[w]) = AwaitsLeft(run[w])
  <2>1. CASE run[w] \in Done
    BY <1>2, <2>1, JoinType
  <2>2. CASE run[w] \in Runs
    <3>1. /\ run'[w].pc = run[w].pc /\ run'[w].left = run[w].left
          /\ run'[w].firing = run[w].firing /\ run'[w] \in Runs
      BY <2>2, JoinType
    <3> QED
      BY <3>1, RunKinds DEF AwaitsLeft
  <2> QED
    BY <1>2, <2>1, <2>2, RunKinds
<1>3. CASE job[f].owner = NoWorker
  BY <1>1, <1>3, LeavesAlone
<1>4. CASE job[f].owner # NoWorker
  <2>1. HeldAt(f)' /\ AwaitsLeft(Held(f)') = AwaitsLeft(Held(f))
    BY <1>1, <1>2, <1>4 DEF HeldAt, Held
  <2>2. members' # members
    BY DEF Join
  <2> QED
    BY <1>1, <2>1, <2>2 DEF Touched, Untouched
<1> QED
  BY <1>3, <1>4

(* An await of the run w: still w's, and still of its firing.                  *)
LEMMA AwaitTouches ==
  ASSUME HeldInv, NEW w \in Workers, UNCHANGED job,
         \A v \in Workers \ {w} : run'[v] = run[v],
         run'[w] # Ended, run'[w].firing = run[w].firing,
         AwaitsLeft(run'[w]) < AwaitsLeft(run[w]), TypeOK
  PROVE  \A f \in Firings : Touched(f)
<1> TAKE f \in Firings
<1>1. HeldAt(f) /\ job[f].owner \in Workers \union {NoWorker}
  BY Kinds0 DEF HeldInv
<1>2. CASE job[f].owner = w
  <2>1. Awaited(f)
    BY <1>1, <1>2 DEF HeldAt, Awaited
  <2> QED
    BY <2>1 DEF Touched
<1>3. CASE job[f].owner # w
  BY <1>1, <1>3, LeavesAlone
<1> QED
  BY <1>2, <1>3

LEMMA AwaitSteps ==
  ASSUME TypeOK, HeldInv, NEW w \in Workers,
         \/ ReadTeam(w) \/ FindDelivery(w) \/ ReadMembers(w) \/ ReadStandups(w)
         \/ InsertDelivery(w) \/ EnqueueDelivery(w) \/ Rejected(w) \/ AnswerLost(w)
  PROVE  \A f \in Firings : Touched(f)
<1>1. run[w] \in Runs /\ run[w].pc \in Awaits /\ UNCHANGED job
  BY RunKinds DEF ReadTeam, FindDelivery, ReadMembers, ReadStandups, InsertDelivery,
     EnqueueDelivery, Rejected, AnswerLost, At, Awaits
<1>2. Ended \notin Runs \union Done
  BY RunKinds
<1>3. ASSUME NEW pc \in {"returned", "threw"}, Finish(w, pc)
      PROVE  \A f \in Firings : Touched(f)
  <2>1. /\ run'[w] \in Done /\ run'[w].pc = pc /\ run'[w].firing = run[w].firing
        /\ \A v \in Workers \ {w} : run'[v] = run[v]
    BY <1>1, <1>3, FinishType
  <2>2. AwaitsLeft(run'[w]) = 2 /\ AwaitsLeft(run[w]) > 2
    BY <1>1, <2>1 DEF AwaitsLeft, Awaits
  <2> QED
    BY <1>1, <1>2, <2>1, <2>2, AwaitTouches
<1>4. ASSUME NEW pc \in Awaits, Goto(w, pc),
             \/ At(w, "team") /\ pc = "find"
             \/ At(w, "find") /\ pc = "read"
             \/ At(w, "insert") /\ pc = "enqueue"
      PROVE  \A f \in Firings : Touched(f)
  <2>1. /\ run'[w] \in Runs /\ run'[w].pc = pc /\ run'[w].firing = run[w].firing
        /\ \A v \in Workers \ {w} : run'[v] = run[v]
    BY <1>1, <1>4, GotoType
  <2>2. AwaitsLeft(run'[w]) < AwaitsLeft(run[w])
    BY <1>4, <2>1 DEF AwaitsLeft, At
  <2> QED
    BY <1>1, <1>2, <2>1, <2>2, AwaitTouches
<1>5. ASSUME NEW r \in Runs, NEW q \in run[w].left, At(w, "read"),
             r.pc = "read", r.left = run[w].left \ {q}, r.firing = run[w].firing,
             run' = [run EXCEPT ![w] = Decided(r)]
      PROVE  \A f \in Firings : Touched(f)
  <2>1. /\ run'[w] = Decided(r) /\ \A v \in Workers \ {w} : run'[v] = run[v]
        /\ run[w].left \subseteq Queries
    BY <1>1, <1>5, RunKinds DEF TypeOK
  <2>2. Decided(r).firing = r.firing
    BY DEF Decided, Finished, Runs
  <2>3. AwaitsLeft(run[w]) = IF run[w].left = Queries THEN 7 ELSE 6
    BY <1>5 DEF AwaitsLeft, At
  <2>4. Decided(r) \in Runs \union Done /\ AwaitsLeft(Decided(r)) < AwaitsLeft(run[w])
    <3>1. CASE Decided(r).pc \in {"returned", "insert"}
      BY <1>5, <2>3, <3>1, DecidedType DEF AwaitsLeft
    <3>2. CASE Decided(r).pc = "read"
      <4>1. Decided(r) \in Runs /\ Decided(r).left = run[w].left \ {q} /\ r.left # {}
        <5>1. Decided(r) \in Runs /\ Decided(r).left = r.left
          BY <1>5, <3>2, DecidedType
        <5>2. r.left # {}
          BY <3>2 DEF Decided, Finished, Runs
        <5> QED
          BY <1>5, <5>1, <5>2
      <4>2. run[w].left = Queries
        BY <1>5, <2>1, <4>1 DEF Queries
      <4>3. Decided(r).left # Queries
        BY <1>5, <2>1, <4>1
      <4> QED
        BY <2>3, <3>2, <4>1, <4>2, <4>3 DEF AwaitsLeft
    <3> QED
      BY <1>5, <3>1, <3>2, DecidedType
  <2> QED
    BY <1>1, <1>2, <1>5, <2>1, <2>2, <2>4, AwaitTouches
<1>6. CASE ReadMembers(w)
  <2> DEFINE r == [run[w] EXCEPT !.members = members, !.left = @ \ {"members"}]
  <2>1. /\ r \in Runs /\ r.pc = "read" /\ r.left = run[w].left \ {"members"}
        /\ r.firing = run[w].firing
    BY <1>1, <1>6, RunKinds DEF ReadMembers, At, Runs
  <2> QED
    BY <1>5, <1>6, <2>1 DEF ReadMembers
<1>7. CASE ReadStandups(w)
  <2> DEFINE r == [run[w] EXCEPT !.submitted = submitted[run[w].day],
                                 !.left = @ \ {"standups"}]
  <2>1. /\ r \in Runs /\ r.pc = "read" /\ r.left = run[w].left \ {"standups"}
        /\ r.firing = run[w].firing
    BY <1>1, <1>7, RunKinds DEF ReadStandups, At, Runs
  <2> QED
    BY <1>5, <1>7, <2>1 DEF ReadStandups
<1>8. CASE ReadTeam(w) \/ FindDelivery(w) \/ InsertDelivery(w)
  BY <1>3, <1>4, <1>8 DEF ReadTeam, FindDelivery, InsertDelivery, Awaits
<1>9. CASE EnqueueDelivery(w) \/ Rejected(w) \/ AnswerLost(w)
  BY <1>3, <1>9 DEF EnqueueDelivery, Rejected, AnswerLost
<1> QED
  BY <1>6, <1>7, <1>8, <1>9

LEMMA NextTouches ==
  ASSUME TypeOK, JobInv, HeldInv, [Next]_vars
  PROVE  \A f \in Firings : Touched(f)
<1>a. DOMAIN run = Workers /\ DOMAIN job = Firings
  BY DEF TypeOK, Q!TypeOK
<1>b. \A f \in Firings : HeldAt(f) /\ job[f].owner \in Workers \union {NoWorker}
  BY Kinds0 DEF HeldInv
<1>1. ASSUME UNCHANGED <<job, run>>, NEW f \in Firings PROVE Touched(f)
  BY <1>1, <1>b, LeavesAlone
<1>2. ASSUME NEW w \in Workers, TakeJob(w), NEW f \in Firings PROVE Touched(f)
  <2> PICK d \in Firings :
        /\ run[w] = Ended /\ Q!Take(d, w)
        /\ run' = [run EXCEPT ![w] = Started(d)]
    BY <1>2 DEF TakeJob
  <2>1. CASE f = d
    <3>1. /\ job[f].state = "waiting" /\ job'[f].state = "active" /\ job'[f].owner = w
          /\ job'[f].made = job[f].made /\ job'[f].stalled = job[f].stalled
      BY <2>1, TakeType
    <3>2. run'[w] = Started(f)
      BY <1>a, <2>1
    <3> QED
      BY <3>1, <3>2 DEF Touched, Taken, Q!TriesLeft
  <2>2. CASE f # d
    <3>1. job'[f] = job[f]
      BY <2>2, TakeType
    <3>2. job[f].owner # NoWorker =>
            job[f].owner # w /\ run'[job[f].owner] = run[job[f].owner]
      BY <1>a, <1>b DEF HeldAt
    <3> QED
      BY <1>b, <3>1, <3>2, LeavesAlone
  <2> QED
    BY <2>1, <2>2
<1>3. ASSUME NEW w \in Workers, SettleJob(w), NEW f \in Firings PROVE Touched(f)
  <2>1. /\ run[w] \in Done /\ run[w].firing \in Firings
        /\ run' = [run EXCEPT ![w] = Ended]
    BY <1>3, RunKinds DEF SettleJob, At
  <2>2. CASE job[f].owner = w
    <3>1. run[w].firing = f /\ job[f].state = "active"
      BY <1>b, <2>2 DEF HeldAt
    <3>2. /\ job'[f].owner = NoWorker /\ job'[f].stalled = job[f].stalled
          /\ job'[f].made = IF At(w, "threw") THEN job[f].made + 1 ELSE job[f].made
          /\ job'[f].state = IF At(w, "threw") THEN Q!AfterThrow(f) ELSE "completed"
      <4>1. At(w, "threw") \in BOOLEAN /\ Q!Settle(f, w, At(w, "threw"))
        BY <1>3, <3>1 DEF SettleJob, At
      <4> QED
        BY <2>2, <4>1, SettleType
    <3>3. Spends(job[f], job'[f])
      BY <3>2, Kinds0 DEF Spends, Q!AfterThrow, Q!TriesLeft
    <3> QED
      BY <3>1, <3>2, <3>3 DEF Touched, Spent
  <2>3. CASE job[f].owner # w
    <3>1. job'[f] = job[f]
      <4> DEFINE d == run[w].firing
      <4>1. /\ job[d].owner # w => job' = job
            /\ \A c \in Firings \ {d} : job'[c] = job[c]
        BY <1>3, <2>1, SettleType DEF SettleJob, At
      <4> QED
        BY <2>3, <4>1
    <3>2. job[f].owner # NoWorker => run'[job[f].owner] = run[job[f].owner]
      BY <1>a, <1>b, <2>1, <2>3
    <3> QED
      BY <1>b, <3>1, <3>2, LeavesAlone
  <2> QED
    BY <2>2, <2>3
<1>4. ASSUME NEW w \in Workers, Crash(w), NEW f \in Firings PROVE Touched(f)
  <2>1. CASE job[f].owner = w
    <3>1. /\ job'[f].owner = NoWorker /\ job'[f].state = job[f].state
          /\ job'[f].made = job[f].made /\ job'[f].stalled = job[f].stalled
      BY <1>4, <2>1, ReleaseType DEF Crash
    <3> QED
      BY <2>1, <3>1 DEF Touched, Unlocked, Q!TriesLeft
  <2>2. CASE job[f].owner # w
    <3>1. job'[f] = job[f]
      BY <1>4, <2>2 DEF Crash, Q!Release
    <3>2. job[f].owner # NoWorker => run'[job[f].owner] = run[job[f].owner]
      BY <1>4, <1>a, <1>b, <2>2 DEF Crash
    <3> QED
      BY <1>b, <3>1, <3>2, LeavesAlone
  <2> QED
    BY <2>1, <2>2
<1>5. ASSUME NEW d \in Firings, FireJob(d) \/ LoseLock(d) \/ HandOut(d), NEW f \in Firings
      PROVE  Touched(f)
  <2>1. UNCHANGED run
    BY <1>5 DEF FireJob, LoseLock, HandOut
  <2>2. CASE f # d
    <3>1. job'[f] = job[f]
      <4>1. CASE FireJob(d)
        BY <1>a, <2>2, <4>1 DEF FireJob, Q!Add
      <4>2. CASE LoseLock(d)
        BY <2>2, <4>2, LoseType DEF LoseLock
      <4>3. CASE HandOut(d)
        BY <2>2, <4>3, HandOutType DEF HandOut
      <4> QED
        BY <1>5, <4>1, <4>2, <4>3
    <3> QED
      BY <1>b, <2>1, <3>1, LeavesAlone
  <2>3. CASE FireJob(d) /\ f = d
    <3>1. job[f].state = "none" /\ job'[f].owner = job[f].owner
      BY <1>a, <2>3, Kinds0 DEF FireJob, Q!Add, TypeOK, Q!TypeOK
    <3>2. job[f].owner = NoWorker
      BY <1>b, <3>1 DEF HeldAt
    <3> QED
      BY <3>1, <3>2 DEF Touched, Added
  <2>4. CASE LoseLock(d) /\ f = d
    BY <2>4, LoseType DEF LoseLock, Touched, Unlocked, Q!TriesLeft
  <2>5. CASE HandOut(d) /\ f = d
    <3>1. /\ job[f].state = "active" /\ job'[f].owner = NoWorker
          /\ job'[f].made = job[f].made /\ job'[f].stalled = job[f].stalled + 1
          /\ job'[f].state \in {"waiting", "failed"}
      BY <2>5, HandOutType DEF HandOut
    <3> QED
      BY <3>1, Kinds0 DEF Touched, Spent, Spends, Q!TriesLeft
  <2> QED
    BY <1>5, <2>2, <2>3, <2>4, <2>5
<1>6. ASSUME NEW w \in Workers, RunStep(w) \/ Rejected(w) \/ AnswerLost(w),
             NEW f \in Firings
      PROVE  Touched(f)
  BY <1>3, <1>6, AwaitSteps DEF RunStep
<1>7. ASSUME NEW u \in Users, Leave(u) \/ \E d \in Days : Submit(u, d)
      PROVE  UNCHANGED <<job, run>>
  BY <1>7 DEF Leave, Submit
<1>8. CASE NextDay \/ SwitchReminders \/ UNCHANGED vars
  BY <1>1, <1>8 DEF NextDay, SwitchReminders, vars
<1> QED
  BY <1>1, <1>2, <1>4, <1>5, <1>6, <1>7, <1>8, JoinTouches DEF Next

LEMMA HeldInvariant == Spec => [](TypeOK /\ RemindersInv /\ HeldInv)
<1>1. Init => HeldInv
  BY DEF Init, Q!Init, Q!NoJob, HeldInv, HeldAt
<1>2. TypeOK /\ RemindersInv /\ HeldInv /\ [Next]_vars => HeldInv'
  <2> SUFFICES ASSUME TypeOK, RemindersInv, HeldInv, [Next]_vars, NEW f \in Firings
               PROVE  HeldAt(f)'
    BY DEF HeldInv
  <2>1. TypeOK' /\ JobInv' /\ JobInv
    BY InvStep DEF RemindersInv
  <2>2. Touched(f) /\ HeldAt(f)
    BY <2>1, NextTouches DEF HeldInv
  <2> QED
    BY <2>1, <2>2, TouchRunsOut
<1> QED
  BY <1>1, <1>2, InvInit, InvStep, PTL DEF Spec

(* Each step of a job uses up some of what is left of it, and nothing gives it  *)
(* back, so no failure keeps a job going for good (reminders.service.ts:21-122).*)
THEOREM RunsOutCorrect == Spec => JobsRunOut
<1>1. TypeOK /\ RemindersInv /\ HeldInv /\ [Next]_vars => [RunsOut]_vars
  <2> SUFFICES ASSUME TypeOK, RemindersInv, HeldInv, [Next]_vars
               PROVE  RunsOut
    OBVIOUS
  <2>1. TypeOK' /\ JobInv' /\ JobInv
    BY InvStep DEF RemindersInv
  <2>2. \A f \in Firings : Touched(f) /\ HeldAt(f)
    BY <2>1, NextTouches DEF HeldInv
  <2>3. \A f \in Firings : RunsOutAt(f)
    BY <2>1, <2>2, TouchRunsOut
  <2> QED
    BY <2>3 DEF RunsOutAt, RunsOut
<1> QED
  BY <1>1, HeldInvariant, PTL DEF Spec, JobsRunOut
=============================================================================
