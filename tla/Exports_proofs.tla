----------------------------- MODULE Exports_proofs -----------------------------
(* Proofs about Exports for any exports, standups, workers and faults.         *)
EXTENDS Exports, TLAPS

USE ExportsAssumption DEF ExportsAssumption

-----------------------------------------------------------------------------
(* The inductive invariant.                                                    *)

(* What the queue keeps: only an active job has an owner, a job is over once a *)
(* limit is reached, and no job completes over a PENDING row.                  *)
JobInv == \A e \in Exports :
  /\ job[e].owner # NoWorker => job[e].state = "active"
  /\ ~Q!Over(e) => job[e].made < JobAttempts /\ job[e].stalled <= MaxStalled
  /\ job[e].state = "failed" => \/ job[e].made = JobAttempts
                                \/ job[e].stalled = MaxStalled + 1
  /\ job[e].state = "completed" => row[e] # "PENDING"

RequestInv == \A e \in Exports :
  /\ asked[e] \subseteq standups
  /\ request[e] = "idle" => row[e] = "none"
  /\ request[e] # "done" => job[e].state = "none"

(* What a run read is enough, and it never returns over a PENDING row.         *)
RunInv == \A w \in Workers : run[w] # Ended =>
  /\ request[run[w].export] = "done"
  /\ job[run[w].export].state # "none"
  /\ run[w].pc \in {"open", "write", "complete"} =>
       asked[run[w].export] \subseteq run[w].read
  /\ At(w, "returned") => row[run[w].export] # "PENDING"

(* Unless its lock expired under a run, a job's only run is its owner's, and   *)
(* the row is where that run put it.                                           *)
Tracks(w) == LET e == run[w].export IN
  /\ At(w, "claim") => row[e] = "PENDING"
  /\ run[w].pc \in {"load", "open", "write", "complete"} => row[e] = "PROCESSING"
  /\ At(w, "fail") => row[e] = "PROCESSING" \/ e \in unheard
  /\ At(w, "complete") => file[e] = Written(run[w].read)
OwnerInv == \A w \in Workers :
  run[w] # Ended /\ ~job[run[w].export].lost =>
    job[run[w].export].owner = w /\ Tracks(w)

(* A fault is behind every try and every hand-out, made or about to be.        *)
Dropped(e) == IF job[e].state = "active" /\ job[e].owner = NoWorker THEN 1 ELSE 0
Throwing(e) ==
  IF job[e].owner \in Workers /\ run[job[e].owner].pc \in {"fail", "threw"} THEN 1 ELSE 0
FaultsPaid == \A e \in Exports :
  job[e].made + job[e].stalled + Dropped(e) + Throwing(e) <= faults

ExportsInv == JobInv /\ RequestInv /\ RunInv /\ OwnerInv /\ FaultsPaid /\ DownloadIsWhole

-----------------------------------------------------------------------------
(* Types.                                                                      *)

LEMMA JobKinds ==
  ASSUME TypeOK, NEW e \in Exports
  PROVE  /\ job[e].state \in Q!JobState /\ job[e].made \in Nat /\ job[e].stalled \in Nat
         /\ job[e].owner \in Workers \union {NoWorker} /\ job[e].lost \in BOOLEAN
         /\ job[e].made <= JobAttempts /\ job[e].stalled <= MaxStalled + 1
BY DEF TypeOK, Q!TypeOK

LEMMA RunKinds ==
  ASSUME TypeOK, NEW w \in Workers
  PROVE  /\ run[w] = Ended \/ run[w] \in Runs
         /\ Ended \notin Runs
         /\ run[w] \in Runs => /\ run[w].pc \in Awaits \union {"returned", "threw"}
                               /\ run[w].export \in Exports
                               /\ run[w].read \subseteq Standups
         /\ run[w].pc \in Awaits \union {"returned", "threw"} => run[w] \in Runs
BY DEF TypeOK, Runs, Ended, Awaits

LEMMA GotoType ==
  ASSUME TypeOK, NEW w \in Workers, run[w] \in Runs,
         NEW pc \in Awaits \union {"returned", "threw"}, Goto(w, pc)
  PROVE  /\ run' \in [Workers -> {Ended} \union Runs]
         /\ run'[w] \in Runs
         /\ run'[w].pc = pc /\ run'[w].export = run[w].export /\ run'[w].read = run[w].read
         /\ \A o \in Workers \ {w} : run'[o] = run[o]
<1>1. [run[w] EXCEPT !.pc = pc] \in Runs
  BY DEF Runs
<1> QED
  BY <1>1 DEF TypeOK, Goto, Runs

LEMMA LoadType ==
  ASSUME TypeOK, NEW w \in Workers, LoadStandups(w)
  PROVE  /\ run' \in [Workers -> {Ended} \union Runs]
         /\ run'[w] \in Runs
         /\ run'[w].pc = "open" /\ run'[w].export = run[w].export /\ run'[w].read = standups
         /\ \A o \in Workers \ {w} : run'[o] = run[o]
<1>1. run[w] \in Runs
  BY RunKinds DEF LoadStandups, At, Awaits
<1>2. [run[w] EXCEPT !.pc = "open", !.read = standups] \in Runs
  BY <1>1 DEF Runs, TypeOK, Awaits
<1> QED
  BY <1>1, <1>2 DEF TypeOK, LoadStandups, Runs

(* What each operation of the queue does to the job rows.                      *)
LEMMA TakeType ==
  ASSUME TypeOK, NEW e \in Exports, NEW w \in Workers, Q!Take(e, w)
  PROVE  /\ Q!TypeOK'
         /\ job[e].state = "waiting" /\ job'[e].state = "active" /\ job'[e].owner = w
         /\ job'[e].made = job[e].made /\ job'[e].stalled = job[e].stalled
         /\ job'[e].lost = job[e].lost
         /\ \A d \in Exports \ {e} : job'[d] = job[d]
<1> DEFINE taken == [job[e] EXCEPT !.state = "active", !.owner = w]
<1>1. job' = [job EXCEPT ![e] = taken] /\ job[e].state = "waiting"
  BY DEF Q!Take, TypeOK, Q!TypeOK
<1>2. /\ taken \in [state : Q!JobState, made : 0..JobAttempts, stalled : 0..(MaxStalled + 1),
                     owner : Workers \union {NoWorker}, lost : BOOLEAN]
      /\ taken.state = "active" /\ taken.owner = w /\ taken.made = job[e].made
      /\ taken.stalled = job[e].stalled /\ taken.lost = job[e].lost
  <2>1. /\ job[e] \in [state : Q!JobState, made : 0..JobAttempts,
                       stalled : 0..(MaxStalled + 1),
                       owner : Workers \union {NoWorker}, lost : BOOLEAN]
        /\ "active" \in Q!JobState /\ w \in Workers \union {NoWorker}
    BY DEF TypeOK, Q!TypeOK, Q!JobState
  <2> QED
    BY <2>1
<1> HIDE DEF taken
<1> QED
  BY <1>1, <1>2 DEF TypeOK, Q!TypeOK

LEMMA SettleType ==
  ASSUME TypeOK, JobInv, NEW e \in Exports, NEW w \in Workers, NEW threw \in BOOLEAN,
         Q!Settle(e, w, threw)
  PROVE  /\ Q!TypeOK'
         /\ job[e].owner # w => job' = job
         /\ job[e].owner = w =>
              /\ job'[e].owner = NoWorker /\ job'[e].lost = job[e].lost
              /\ job'[e].stalled = job[e].stalled
              /\ job'[e].made = IF threw THEN job[e].made + 1 ELSE job[e].made
              /\ job'[e].state = IF threw THEN Q!AfterThrow(e) ELSE "completed"
         /\ \A d \in Exports \ {e} : job'[d] = job[d]
<1>1. CASE job[e].owner # w
  BY <1>1 DEF TypeOK, Q!TypeOK, Q!Settle
<1>2. CASE job[e].owner = w
  <2>1. job[e].made < JobAttempts
    BY <1>2 DEF JobInv, Q!Over
  <2>2. Q!AfterThrow(e) \in Q!JobState
    BY DEF Q!AfterThrow, Q!JobState
  <2>3. /\ (IF threw THEN job[e].made + 1 ELSE job[e].made) \in 0..JobAttempts
        /\ (IF threw THEN Q!AfterThrow(e) ELSE "completed") \in Q!JobState
    BY <2>1, <2>2, JobKinds DEF Q!JobState
  <2>4. job' = [job EXCEPT ![e].owner = NoWorker,
                           ![e].made = IF threw THEN job[e].made + 1 ELSE job[e].made,
                           ![e].state = IF threw THEN Q!AfterThrow(e) ELSE "completed"]
    BY <1>2 DEF Q!Settle
  <2> HIDE DEF ExportsAssumption
  <2>5. job \in [Exports -> [state : Q!JobState, made : 0..JobAttempts,
                stalled : 0..(MaxStalled + 1), owner : Workers \union {NoWorker},
                lost : BOOLEAN]]
    BY DEF TypeOK, Q!TypeOK
  <2> DEFINE made == IF threw THEN job[e].made + 1 ELSE job[e].made
             state == IF threw THEN Q!AfterThrow(e) ELSE "completed"
             rows == [state : Q!JobState, made : 0..JobAttempts,
                stalled : 0..(MaxStalled + 1), owner : Workers \union {NoWorker},
                lost : BOOLEAN]
  <2>6. [job[e] EXCEPT !.owner = NoWorker, !.made = made, !.state = state] \in rows
    <3> HIDE DEF made, state
    <3>1. made \in 0..JobAttempts /\ state \in Q!JobState
      BY <2>3 DEF made, state
    <3> QED
      BY <3>1, <2>5
  <2>7. job' = [job EXCEPT ![e] =
                  [job[e] EXCEPT !.owner = NoWorker, !.made = made, !.state = state]]
    BY <2>4, <2>5
  <2>8. Q!TypeOK'
    <3> HIDE DEF made, state
    <3>1. job' \in [Exports -> rows]
      BY <2>5, <2>6, <2>7
    <3> QED
      BY <3>1 DEF Q!TypeOK
  <2> QED
    BY <1>2, <2>4, <2>5, <2>8
<1> QED
  BY <1>1, <1>2

LEMMA ReleaseType ==
  ASSUME TypeOK, NEW w \in Workers, Q!Release(w)
  PROVE  /\ Q!TypeOK'
         /\ \A e \in Exports :
              /\ job'[e].owner = IF job[e].owner = w THEN NoWorker ELSE job[e].owner
              /\ job'[e].state = job[e].state /\ job'[e].lost = job[e].lost
              /\ job'[e].made = job[e].made /\ job'[e].stalled = job[e].stalled
BY DEF TypeOK, Q!TypeOK, Q!Release

LEMMA LoseType ==
  ASSUME TypeOK, NEW e \in Exports, Q!LoseLock(e)
  PROVE  /\ Q!TypeOK'
         /\ job[e].owner # NoWorker /\ job'[e].owner = NoWorker /\ job'[e].lost = TRUE
         /\ job'[e].state = job[e].state
         /\ job'[e].made = job[e].made /\ job'[e].stalled = job[e].stalled
         /\ \A d \in Exports \ {e} : job'[d] = job[d]
<1> DEFINE rows == [state : Q!JobState, made : 0..JobAttempts,
              stalled : 0..(MaxStalled + 1), owner : Workers \union {NoWorker},
              lost : BOOLEAN]
<1>0. job[e] \in rows
  BY DEF TypeOK, Q!TypeOK
<1>1. [job[e] EXCEPT !.owner = NoWorker, !.lost = TRUE] \in rows
  <2>1. \A r \in rows, b \in BOOLEAN : [r EXCEPT !.owner = NoWorker, !.lost = b] \in rows
    OBVIOUS
  <2> QED
    BY <1>0, <2>1
<1>2. job' = [job EXCEPT ![e] = [job[e] EXCEPT !.owner = NoWorker, !.lost = TRUE]]
  BY DEF TypeOK, Q!TypeOK, Q!LoseLock
<1> QED
  BY <1>1, <1>2 DEF TypeOK, Q!TypeOK, Q!LoseLock

LEMMA HandOutType ==
  ASSUME TypeOK, JobInv, NEW e \in Exports, Q!HandOut(e)
  PROVE  /\ Q!TypeOK'
         /\ job[e].state = "active" /\ job[e].owner = NoWorker
         /\ job'[e].owner = NoWorker /\ job'[e].lost = job[e].lost
         /\ job'[e].made = job[e].made /\ job'[e].stalled = job[e].stalled + 1
         /\ job'[e].state = IF job[e].stalled < MaxStalled THEN "waiting" ELSE "failed"
         /\ \A d \in Exports \ {e} : job'[d] = job[d]
<1>1. job[e].stalled <= MaxStalled
  BY DEF JobInv, Q!Over, Q!HandOut
<1> QED
  BY <1>1 DEF TypeOK, Q!TypeOK, Q!HandOut, Q!JobState

-----------------------------------------------------------------------------
(* Every step keeps the invariant.                                             *)

LEMMA Kinds ==
  ASSUME TypeOK
  PROVE  /\ \A e \in Exports :
              /\ job[e].state \in Q!JobState
              /\ job[e].made \in Nat /\ job[e].stalled \in Nat
              /\ job[e].owner \in Workers \union {NoWorker} /\ job[e].lost \in BOOLEAN
              /\ job[e].made <= JobAttempts /\ job[e].stalled <= MaxStalled + 1
         /\ \A w \in Workers :
              /\ run[w] # Ended <=> run[w] \in Runs
              /\ run[w].pc \in Awaits \union {"returned", "threw"} <=> run[w] \in Runs
              /\ run[w] \in Runs => /\ run[w].export \in Exports
                                    /\ run[w].read \subseteq Standups
         /\ Ended \notin Runs /\ faults \in Nat
         /\ row \in [Exports -> Status] /\ file \in [Exports -> Files]
         /\ request \in [Exports -> {"idle", "add", "done"}]
         /\ asked \in [Exports -> SUBSET Standups]
<1>1. /\ Ended \notin Runs
      /\ \A w \in Workers :
           run[w].pc \in Awaits \union {"returned", "threw"} <=> run[w] \in Runs
  BY RunKinds DEF Ended, Awaits, Runs
<1> QED
  BY <1>1, JobKinds, RunKinds DEF TypeOK

LEMMA InsertKeeps ==
  ASSUME TypeOK, ExportsInv, NEW e \in Exports, InsertExport(e)
  PROVE  (TypeOK /\ ExportsInv)'
<1> HIDE DEF ExportsAssumption
<1>1. TypeOK'
  BY Kinds, ExportsAssumption DEF InsertExport, Status, TypeOK, Q!TypeOK,
     ExportsAssumption
<1>2. JobInv'
  BY Kinds, ExportsAssumption DEF InsertExport, Status, JobInv, Q!Over, RequestInv,
     ExportsInv, ExportsAssumption
<1>3. RequestInv'
  BY Kinds DEF InsertExport, Status, RequestInv, ExportsInv
<1>4. RunInv'
  BY Kinds DEF InsertExport, Status, RunInv, At, RequestInv, ExportsInv
<1>5. OwnerInv'
  BY Kinds DEF InsertExport, Status, OwnerInv, At, Tracks, Written, RunInv, RequestInv,
     ExportsInv
<1>6. FaultsPaid'
  BY Kinds, ExportsAssumption DEF InsertExport, Status, FaultsPaid, Dropped, Throwing,
     Q!Over, ExportsInv, ExportsAssumption
<1>7. DownloadIsWhole'
  BY Kinds DEF InsertExport, Status, DownloadIsWhole, Written, ExportsInv
<1> QED
  BY <1>1, <1>2, <1>3, <1>4, <1>5, <1>6, <1>7 DEF ExportsInv

LEMMA AddKeeps ==
  ASSUME TypeOK, ExportsInv, NEW e \in Exports, AddJob(e)
  PROVE  (TypeOK /\ ExportsInv)'
<1> HIDE DEF ExportsAssumption
<1>1. /\ Q!TypeOK'
      /\ job[e].state = "none" /\ job'[e].state = "waiting" /\ job'[e].owner = job[e].owner
      /\ job'[e].made = job[e].made /\ job'[e].stalled = job[e].stalled
      /\ job'[e].lost = job[e].lost
      /\ \A d \in Exports \ {e} : job'[d] = job[d]
  BY Kinds DEF AddJob, Q!Add, TypeOK, Q!TypeOK, Q!JobState
<1>2. TypeOK'
  BY <1>1, Kinds, ExportsAssumption DEF AddJob, TypeOK, ExportsAssumption
<1>3. JobInv'
  BY <1>1, Kinds, ExportsAssumption DEF AddJob, JobInv, Q!Over, ExportsInv,
     ExportsAssumption
<1>4. RequestInv'
  BY <1>1, Kinds DEF AddJob, RequestInv, ExportsInv
<1>5. RunInv'
  BY <1>1, Kinds DEF AddJob, RunInv, At, ExportsInv
<1>6. OwnerInv'
  BY <1>1, Kinds DEF AddJob, OwnerInv, At, Tracks, Written, RunInv, ExportsInv
<1>7. FaultsPaid'
  BY <1>1, Kinds, ExportsAssumption DEF AddJob, FaultsPaid, Dropped, Throwing, Q!Over,
     ExportsInv, ExportsAssumption
<1>8. DownloadIsWhole'
  BY <1>1, Kinds DEF AddJob, DownloadIsWhole, Written, ExportsInv
<1> QED
  BY <1>2, <1>3, <1>4, <1>5, <1>6, <1>7, <1>8 DEF ExportsInv

LEMMA AddRejectedKeeps ==
  ASSUME TypeOK, ExportsInv, NEW e \in Exports, AddRejected(e)
  PROVE  (TypeOK /\ ExportsInv)'
<1> HIDE DEF ExportsAssumption
<1>1. TypeOK'
  BY Kinds, ExportsAssumption DEF AddRejected, Fault, TypeOK, Q!TypeOK,
     ExportsAssumption
<1>2. JobInv'
  BY Kinds, ExportsAssumption DEF AddRejected, Fault, JobInv, Q!Over, ExportsInv,
     ExportsAssumption
<1>3. RequestInv'
  BY Kinds DEF AddRejected, Fault, RequestInv, ExportsInv
<1>4. RunInv'
  BY Kinds DEF AddRejected, Fault, RunInv, At, ExportsInv
<1>5. OwnerInv'
  BY Kinds DEF AddRejected, Fault, OwnerInv, At, Tracks, Written, ExportsInv
<1>6. FaultsPaid'
  BY Kinds, ExportsAssumption DEF AddRejected, Fault, FaultsPaid, Dropped, Throwing,
     Q!Over, ExportsInv, ExportsAssumption
<1>7. DownloadIsWhole'
  BY Kinds DEF AddRejected, Fault, DownloadIsWhole, Written, ExportsInv
<1> QED
  BY <1>1, <1>2, <1>3, <1>4, <1>5, <1>6, <1>7 DEF ExportsInv

LEMMA SubmitKeeps ==
  ASSUME TypeOK, ExportsInv, NEW s \in Standups, Submit(s)
  PROVE  (TypeOK /\ ExportsInv)'
<1> HIDE DEF ExportsAssumption
<1>1. TypeOK'
  BY Kinds, ExportsAssumption DEF Submit, TypeOK, Q!TypeOK, ExportsAssumption
<1>2. JobInv'
  BY Kinds, ExportsAssumption DEF Submit, JobInv, Q!Over, ExportsInv, ExportsAssumption
<1>3. RequestInv'
  BY Kinds DEF Submit, RequestInv, ExportsInv
<1>4. RunInv'
  BY Kinds DEF Submit, RunInv, At, ExportsInv
<1>5. OwnerInv'
  BY Kinds DEF Submit, OwnerInv, At, Tracks, Written, ExportsInv
<1>6. FaultsPaid'
  BY Kinds, ExportsAssumption DEF Submit, FaultsPaid, Dropped, Throwing, Q!Over,
     ExportsInv, ExportsAssumption
<1>7. DownloadIsWhole'
  BY Kinds DEF Submit, DownloadIsWhole, Written, ExportsInv
<1> QED
  BY <1>1, <1>2, <1>3, <1>4, <1>5, <1>6, <1>7 DEF ExportsInv

LEMMA LoseKeeps ==
  ASSUME TypeOK, ExportsInv, NEW e \in Exports, LoseLock(e)
  PROVE  (TypeOK /\ ExportsInv)'
<1> HIDE DEF ExportsAssumption
<1>1. /\ Q!TypeOK'
      /\ job[e].owner # NoWorker /\ job'[e].owner = NoWorker /\ job'[e].lost = TRUE
      /\ job'[e].state = job[e].state
      /\ job'[e].made = job[e].made /\ job'[e].stalled = job[e].stalled
      /\ \A d \in Exports \ {e} : job'[d] = job[d]
  BY LoseType DEF LoseLock
<1>2. TypeOK'
  BY <1>1, Kinds, ExportsAssumption DEF LoseLock, Fault, TypeOK, ExportsAssumption
<1>3. JobInv'
  BY <1>1, Kinds, ExportsAssumption DEF LoseLock, Fault, JobInv, Q!Over, ExportsInv,
     ExportsAssumption
<1>4. RequestInv'
  BY <1>1, Kinds DEF LoseLock, Fault, RequestInv, ExportsInv
<1>5. RunInv'
  BY <1>1, Kinds DEF LoseLock, Fault, RunInv, At, ExportsInv
<1>6. OwnerInv'
  BY <1>1, Kinds DEF LoseLock, Fault, OwnerInv, At, Tracks, Written, ExportsInv
<1>7. FaultsPaid'
  BY <1>1, Kinds, ExportsAssumption DEF LoseLock, Fault, FaultsPaid, Dropped, Throwing,
     Q!Over, JobInv, ExportsInv, ExportsAssumption
<1>8. DownloadIsWhole'
  BY <1>1, Kinds DEF LoseLock, Fault, DownloadIsWhole, Written, ExportsInv
<1> QED
  BY <1>2, <1>3, <1>4, <1>5, <1>6, <1>7, <1>8 DEF ExportsInv

LEMMA HandOutKeeps ==
  ASSUME TypeOK, ExportsInv, NEW e \in Exports, HandOut(e)
  PROVE  (TypeOK /\ ExportsInv)'
<1> HIDE DEF ExportsAssumption
<1>1. /\ Q!TypeOK'
      /\ job[e].state = "active" /\ job[e].owner = NoWorker
      /\ job'[e].owner = NoWorker /\ job'[e].lost = job[e].lost
      /\ job'[e].made = job[e].made /\ job'[e].stalled = job[e].stalled + 1
      /\ job'[e].state = IF job[e].stalled < MaxStalled THEN "waiting" ELSE "failed"
      /\ \A d \in Exports \ {e} : job'[d] = job[d]
  BY HandOutType DEF HandOut, ExportsInv
<1>2. TypeOK'
  BY <1>1, Kinds, ExportsAssumption DEF HandOut, TypeOK, ExportsAssumption
<1>3. JobInv'
  BY <1>1, Kinds, ExportsAssumption DEF HandOut, JobInv, Q!Over, ExportsInv,
     ExportsAssumption
<1>4. RequestInv'
  BY <1>1, Kinds DEF HandOut, RequestInv, ExportsInv
<1>5. RunInv'
  BY <1>1, Kinds DEF HandOut, RunInv, At, ExportsInv
<1>6. OwnerInv'
  BY <1>1, Kinds DEF HandOut, OwnerInv, At, Tracks, Written, ExportsInv
<1>7. FaultsPaid'
  BY <1>1, Kinds, ExportsAssumption DEF HandOut, FaultsPaid, Dropped, Throwing, Q!Over,
     ExportsInv, ExportsAssumption
<1>8. DownloadIsWhole'
  BY <1>1, Kinds DEF HandOut, DownloadIsWhole, Written, ExportsInv
<1> QED
  BY <1>2, <1>3, <1>4, <1>5, <1>6, <1>7, <1>8 DEF ExportsInv

LEMMA TakeKeeps ==
  ASSUME TypeOK, ExportsInv, NEW w \in Workers, NEW e \in Exports, run[w] = Ended, Q!Take(e, w),
         run' = [run EXCEPT ![w] = [pc |-> "find", export |-> e, read |-> {}]],
         UNCHANGED <<row, file, request, standups, asked, unheard, faults>>
  PROVE  (TypeOK /\ ExportsInv)'
<1> HIDE DEF ExportsAssumption
<1>1. /\ Q!TypeOK'
      /\ job[e].state = "waiting" /\ job'[e].state = "active" /\ job'[e].owner = w
      /\ job'[e].made = job[e].made /\ job'[e].stalled = job[e].stalled
      /\ job'[e].lost = job[e].lost
      /\ \A d \in Exports \ {e} : job'[d] = job[d]
  BY TakeType
<1>2. /\ run' \in [Workers -> {Ended} \union Runs]
      /\ run'[w] = [pc |-> "find", export |-> e, read |-> {}]
      /\ \A o \in Workers \ {w} : run'[o] = run[o]
  BY  DEF TypeOK, Runs, Awaits
<1>3. TypeOK'
  BY <1>1, <1>2, Kinds, ExportsAssumption DEF Ended, TypeOK, ExportsAssumption
<1>4. JobInv'
  BY <1>1, <1>2, Kinds, ExportsAssumption DEF Ended, JobInv, Q!Over, ExportsInv,
     ExportsAssumption
<1>5. RequestInv'
  BY <1>1, <1>2, Kinds DEF Ended, RequestInv, ExportsInv
<1>6. RunInv'
  BY <1>1, <1>2, Kinds DEF Ended, RunInv, At, RequestInv, ExportsInv
<1>7. OwnerInv'
  <2> SUFFICES ASSUME NEW o \in Workers, run'[o] # Ended, ~job'[run'[o].export].lost
               PROVE  job'[run'[o].export].owner = o /\ Tracks(o)'
    BY DEF OwnerInv
  <2>1. CASE o = w
    BY <2>1, <1>1, <1>2, Kinds, ExportsAssumption DEF Ended, OwnerInv, At, Tracks,
     Written, JobInv, RunInv, ExportsAssumption, ExportsInv
  <2>2. CASE o # w
    <3>1. run'[o] = run[o] /\ run[o] \in Runs /\ run[o].export \in Exports
      BY <2>2, <1>1, <1>2, Kinds, ExportsAssumption DEF Ended
    <3>2. job[run[o].export].owner = o /\ Tracks(o)
      BY <3>1, <1>1, <1>2, Kinds, ExportsAssumption DEF ExportsInv, OwnerInv, Ended
    <3> QED
      BY <2>2, <3>1, <3>2, <1>1, <1>2, Kinds, ExportsAssumption DEF Ended, OwnerInv, At,
     Tracks, Written, JobInv, RunInv, ExportsAssumption, ExportsInv
  <2> QED
    BY <2>1, <2>2
<1>8. FaultsPaid'
  BY <1>1, <1>2, Kinds, ExportsAssumption DEF Ended, FaultsPaid, Dropped, Throwing,
     Q!Over, JobInv, ExportsInv, ExportsAssumption
<1>9. DownloadIsWhole'
  BY <1>1, <1>2, Kinds DEF Ended, DownloadIsWhole, Written, ExportsInv
<1> QED
  BY <1>3, <1>4, <1>5, <1>6, <1>7, <1>8, <1>9 DEF ExportsInv

LEMMA SettleKeeps ==
  ASSUME TypeOK, ExportsInv, NEW w \in Workers, SettleJob(w)
  PROVE  (TypeOK /\ ExportsInv)'
<1> HIDE DEF ExportsAssumption
<1>1. run[w] \in Runs /\ run[w].export \in Exports
  BY Kinds DEF SettleJob, At
<1>2. LET e == run[w].export IN
      /\ Q!TypeOK'
      /\ job[e].owner # w => job' = job
      /\ job[e].owner = w =>
           /\ job'[e].owner = NoWorker /\ job'[e].lost = job[e].lost
           /\ job'[e].stalled = job[e].stalled
           /\ job'[e].made = IF At(w, "threw") THEN job[e].made + 1 ELSE job[e].made
           /\ job'[e].state = IF At(w, "threw") THEN Q!AfterThrow(e) ELSE "completed"
      /\ \A d \in Exports \ {e} : job'[d] = job[d]
  BY <1>1, SettleType DEF SettleJob, At, ExportsInv
<1>3. /\ run' \in [Workers -> {Ended} \union Runs] /\ run'[w] = Ended
      /\ \A o \in Workers \ {w} : run'[o] = run[o]
  BY  DEF SettleJob, TypeOK
<1>4. TypeOK'
  BY <1>1, <1>2, <1>3, Kinds, ExportsAssumption DEF SettleJob, At, Ended, Q!AfterThrow,
     TypeOK, ExportsAssumption
<1>5. JobInv'
  <2>1. CASE job[run[w].export].owner # w
    BY <2>1, <1>1, <1>2, <1>3, Kinds, ExportsAssumption DEF SettleJob, At, Ended,
     Q!AfterThrow, JobInv, Q!Over, RunInv, ExportsInv, ExportsAssumption
  <2>2. CASE job[run[w].export].owner = w
    <3>1. job[run[w].export].made < JobAttempts /\ job[run[w].export].stalled <= MaxStalled
      BY <2>2, <1>1, <1>2, <1>3, Kinds, ExportsAssumption DEF JobInv, Q!Over, ExportsInv,
     ExportsAssumption
    <3>2. At(w, "returned") => row[run[w].export] # "PENDING"
      BY <1>1, Kinds, ExportsAssumption DEF ExportsInv, RunInv, SettleJob, Ended
    <3> SUFFICES ASSUME NEW d \in Exports
                 PROVE  /\ job'[d].owner # NoWorker => job'[d].state = "active"
                        /\ ~Q!Over(d)' => /\ job'[d].made < JobAttempts
                                           /\ job'[d].stalled <= MaxStalled
                        /\ job'[d].state = "failed" => \/ job'[d].made = JobAttempts
                                                      \/ job'[d].stalled = MaxStalled + 1
                        /\ job'[d].state = "completed" => row'[d] # "PENDING"
      BY DEF JobInv
    <3>3. CASE d # run[w].export
      BY <3>3, <1>2 DEF ExportsInv, JobInv, Q!Over, SettleJob
    <3>4. CASE d = run[w].export
      <4>1. CASE At(w, "threw")
        <5>1. /\ job'[d].made = job[d].made + 1 /\ job'[d].stalled = job[d].stalled
              /\ job'[d].owner = NoWorker /\ job'[d].state = Q!AfterThrow(d)
          BY <4>1, <3>4, <2>2, <1>2
        <5> QED
          BY SMTT(30), <5>1, <3>1, <3>4, <1>1, Kinds, ExportsAssumption
             DEF Q!AfterThrow, Q!Over, ExportsAssumption
      <4>2. CASE At(w, "returned")
        <5>1. /\ job'[d].state = "completed" /\ job'[d].owner = NoWorker
              /\ row'[d] = row[d]
          BY <4>2, <3>4, <2>2, <1>2 DEF SettleJob, At
        <5> QED
          BY <5>1, <4>2, <3>2, <3>4 DEF Q!Over
      <4> QED
        BY <4>1, <4>2 DEF SettleJob
    <3> QED
      BY <3>3, <3>4
  <2> QED
    BY <2>1, <2>2
<1>6. RequestInv'
  BY <1>1, <1>2, <1>3, Kinds DEF SettleJob, At, Ended, Q!AfterThrow, RequestInv, RunInv,
     ExportsInv
<1>7. RunInv'
  BY <1>1, <1>2, <1>3, Kinds DEF SettleJob, At, Ended, Q!AfterThrow, RunInv, ExportsInv
<1>8. OwnerInv'
  <2> SUFFICES ASSUME NEW o \in Workers, run'[o] # Ended, ~job'[run'[o].export].lost
               PROVE  job'[run'[o].export].owner = o /\ Tracks(o)'
    BY DEF OwnerInv
  <2>1. CASE o = w
    BY <2>1, <1>1, <1>2, <1>3, Kinds DEF SettleJob, At, Ended, Q!AfterThrow, OwnerInv,
     Tracks, Written, JobInv, RunInv, ExportsInv
  <2>2. CASE o # w
    <3>1. run'[o] = run[o] /\ run[o] \in Runs /\ run[o].export \in Exports
      BY <2>2, <1>1, <1>2, <1>3, Kinds DEF SettleJob, At, Ended, Q!AfterThrow
    <3>2. job[run[o].export].owner = o /\ Tracks(o)
      BY <3>1, <1>1, <1>2, <1>3, Kinds DEF ExportsInv, OwnerInv, Ended
    <3> QED
      BY <2>2, <3>1, <3>2, <1>1, <1>2, <1>3, Kinds DEF SettleJob, At, Ended, Q!AfterThrow,
     OwnerInv, Tracks, Written, JobInv, RunInv, ExportsInv
  <2> QED
    BY <2>1, <2>2
<1>9. FaultsPaid'
  BY <1>1, <1>2, <1>3, Kinds, ExportsAssumption DEF SettleJob, At, Ended, Q!AfterThrow,
     FaultsPaid, Dropped, Throwing, Q!Over, JobInv, ExportsInv, ExportsAssumption
<1>10. DownloadIsWhole'
  BY <1>1, <1>2, <1>3, Kinds DEF SettleJob, At, Ended, Q!AfterThrow, DownloadIsWhole,
     Written, ExportsInv
<1> QED
  BY <1>4, <1>5, <1>6, <1>7, <1>8, <1>9, <1>10 DEF ExportsInv

LEMMA CrashKeeps ==
  ASSUME TypeOK, ExportsInv, NEW w \in Workers, Crash(w)
  PROVE  (TypeOK /\ ExportsInv)'
<1> HIDE DEF ExportsAssumption
<1>1. /\ Q!TypeOK'
      /\ \A e \in Exports :
           /\ job'[e].owner = IF job[e].owner = w THEN NoWorker ELSE job[e].owner
           /\ job'[e].state = job[e].state /\ job'[e].lost = job[e].lost
           /\ job'[e].made = job[e].made /\ job'[e].stalled = job[e].stalled
  BY ReleaseType DEF Crash
<1>2. /\ run' \in [Workers -> {Ended} \union Runs] /\ run'[w] = Ended
      /\ \A o \in Workers \ {w} : run'[o] = run[o]
  BY  DEF Crash, TypeOK
<1>3. TypeOK'
  BY <1>1, <1>2, Kinds, ExportsAssumption DEF Crash, Fault, Ended, TypeOK,
     ExportsAssumption
<1>4. JobInv'
  BY <1>1, <1>2, Kinds, ExportsAssumption DEF Crash, Fault, Ended, JobInv, Q!Over,
     ExportsInv, ExportsAssumption
<1>5. RequestInv'
  BY <1>1, <1>2, Kinds DEF Crash, Fault, Ended, RequestInv, ExportsInv
<1>6. RunInv'
  BY <1>1, <1>2, Kinds DEF Crash, Fault, Ended, RunInv, At, ExportsInv
<1>7. OwnerInv'
  <2> SUFFICES ASSUME NEW o \in Workers, run'[o] # Ended, ~job'[run'[o].export].lost
               PROVE  job'[run'[o].export].owner = o /\ Tracks(o)'
    BY DEF OwnerInv
  <2>1. CASE o = w
    BY <2>1, <1>1, <1>2, Kinds DEF Crash, Fault, Ended, OwnerInv, At, Tracks, Written,
     JobInv, RunInv, ExportsInv
  <2>2. CASE o # w
    <3>1. run'[o] = run[o] /\ run[o] \in Runs /\ run[o].export \in Exports
      BY <2>2, <1>1, <1>2, Kinds DEF Crash, Fault, Ended
    <3>2. job[run[o].export].owner = o /\ Tracks(o)
      BY <3>1, <1>1, <1>2, Kinds DEF ExportsInv, OwnerInv, Ended
    <3> QED
      BY <2>2, <3>1, <3>2, <1>1, <1>2, Kinds DEF Crash, Fault, Ended, OwnerInv, At, Tracks,
     Written, JobInv, RunInv, ExportsInv
  <2> QED
    BY <2>1, <2>2
<1>8. FaultsPaid'
  BY <1>1, <1>2, Kinds, ExportsAssumption DEF Crash, Fault, Ended, FaultsPaid, Dropped,
     Throwing, Q!Over, JobInv, ExportsInv, ExportsAssumption
<1>9. DownloadIsWhole'
  BY <1>1, <1>2, Kinds DEF Crash, Fault, Ended, DownloadIsWhole, Written, ExportsInv
<1> QED
  BY <1>3, <1>4, <1>5, <1>6, <1>7, <1>8, <1>9 DEF ExportsInv

LEMMA FindKeeps ==
  ASSUME TypeOK, ExportsInv, NEW w \in Workers, Find(w)
  PROVE  (TypeOK /\ ExportsInv)'
<1> HIDE DEF ExportsAssumption
<1>1. run[w] \in Runs /\ run[w].export \in Exports
  BY Kinds DEF Find, At, Awaits
<1>2. /\ run' \in [Workers -> {Ended} \union Runs] /\ run'[w] \in Runs
      /\ run'[w].pc = (IF row[run[w].export] = "PENDING" THEN "claim" ELSE "returned")
      /\ run'[w].export = run[w].export /\ run'[w].read = run[w].read
      /\ \A o \in Workers \ {w} : run'[o] = run[o]
  BY <1>1, GotoType DEF Find, Awaits
<1>3. /\ job' = job
      /\ ~job[run[w].export].lost => job[run[w].export].owner = w /\ Tracks(w)
  BY <1>1, Kinds DEF Find, ExportsInv, OwnerInv
<1>4. TypeOK'
  BY <1>1, <1>2, <1>3, Kinds, ExportsAssumption DEF Find, Awaits, At, TypeOK, Q!TypeOK,
     ExportsAssumption
<1>5. JobInv'
  BY <1>1, <1>2, <1>3, Kinds, ExportsAssumption DEF Find, Awaits, At, JobInv, Q!Over,
     ExportsInv, ExportsAssumption
<1>6. RequestInv'
  BY <1>1, <1>2, <1>3, Kinds DEF Find, Awaits, At, RequestInv, RunInv, ExportsInv
<1>7. RunInv'
  BY <1>1, <1>2, <1>3, Kinds DEF Find, Awaits, At, RunInv, ExportsInv
<1>8. OwnerInv'
  <2> SUFFICES ASSUME NEW o \in Workers, run'[o] # Ended, ~job'[run'[o].export].lost
               PROVE  job'[run'[o].export].owner = o /\ Tracks(o)'
    BY DEF OwnerInv
  <2>1. CASE o = w
    BY <2>1, <1>1, <1>2, <1>3, Kinds DEF Find, Awaits, At, Tracks, Written
  <2>2. CASE o # w
    <3>1. run'[o] = run[o] /\ run[o] \in Runs /\ run[o].export \in Exports
      BY <2>2, <1>1, <1>2, <1>3, Kinds DEF Find, Awaits, At
    <3>2. job[run[o].export].owner = o /\ Tracks(o)
      BY <3>1, <1>1, <1>2, <1>3, Kinds DEF ExportsInv, OwnerInv
    <3> QED
      BY <2>2, <3>1, <3>2, <1>1, <1>2, <1>3, Kinds DEF Find, Awaits, At, Tracks, Written
  <2> QED
    BY <2>1, <2>2
<1>9. FaultsPaid'
  BY <1>1, <1>2, <1>3, Kinds, ExportsAssumption DEF Find, Awaits, At, FaultsPaid,
     Dropped, Throwing, Q!Over, ExportsInv, ExportsAssumption
<1>10. DownloadIsWhole'
  BY <1>1, <1>2, <1>3, Kinds DEF Find, Awaits, At, DownloadIsWhole, Written, ExportsInv
<1> QED
  BY <1>4, <1>5, <1>6, <1>7, <1>8, <1>9, <1>10 DEF ExportsInv

LEMMA ClaimKeeps ==
  ASSUME TypeOK, ExportsInv, NEW w \in Workers, Claim(w)
  PROVE  (TypeOK /\ ExportsInv)'
<1> HIDE DEF ExportsAssumption
<1>1. run[w] \in Runs /\ run[w].export \in Exports
  BY Kinds DEF Claim, At, Awaits
<1>2. /\ run' \in [Workers -> {Ended} \union Runs] /\ run'[w] \in Runs
      /\ run'[w].pc = "load"
      /\ run'[w].export = run[w].export /\ run'[w].read = run[w].read
      /\ \A o \in Workers \ {w} : run'[o] = run[o]
  BY <1>1, GotoType DEF Claim, Awaits
<1>3. /\ job' = job
      /\ ~job[run[w].export].lost => job[run[w].export].owner = w /\ Tracks(w)
  BY <1>1, Kinds DEF Claim, ExportsInv, OwnerInv
<1>4. TypeOK'
  BY <1>1, <1>2, <1>3, Kinds, ExportsAssumption DEF Claim, Awaits, At, Mark, Status,
     TypeOK, Q!TypeOK, ExportsAssumption
<1>5. JobInv'
  BY <1>1, <1>2, <1>3, Kinds, ExportsAssumption DEF Claim, Awaits, At, Mark, Status,
     JobInv, Q!Over, ExportsInv, ExportsAssumption
<1>6. RequestInv'
  BY <1>1, <1>2, <1>3, Kinds DEF Claim, Awaits, At, Mark, Status, RequestInv, RunInv,
     ExportsInv
<1>7. RunInv'
  BY <1>1, <1>2, <1>3, Kinds DEF Claim, Awaits, At, Mark, Status, RunInv, ExportsInv
<1>8. OwnerInv'
  <2> SUFFICES ASSUME NEW o \in Workers, run'[o] # Ended, ~job'[run'[o].export].lost
               PROVE  job'[run'[o].export].owner = o /\ Tracks(o)'
    BY DEF OwnerInv
  <2>1. CASE o = w
    BY <2>1, <1>1, <1>2, <1>3, Kinds DEF Claim, Awaits, At, Mark, Status, Tracks, Written
  <2>2. CASE o # w
    <3>1. run'[o] = run[o] /\ run[o] \in Runs /\ run[o].export \in Exports
      BY <2>2, <1>1, <1>2, <1>3, Kinds DEF Claim, Awaits, At, Mark, Status
    <3>2. job[run[o].export].owner = o /\ Tracks(o)
      BY <3>1, <1>1, <1>2, <1>3, Kinds DEF ExportsInv, OwnerInv
    <3> QED
      BY <2>2, <3>1, <3>2, <1>1, <1>2, <1>3, Kinds DEF Claim, Awaits, At, Mark, Status,
     Tracks, Written
  <2> QED
    BY <2>1, <2>2
<1>9. FaultsPaid'
  BY <1>1, <1>2, <1>3, Kinds, ExportsAssumption DEF Claim, Awaits, At, Mark, Status,
     FaultsPaid, Dropped, Throwing, Q!Over, ExportsInv, ExportsAssumption
<1>10. DownloadIsWhole'
  BY <1>1, <1>2, <1>3, Kinds DEF Claim, Awaits, At, Mark, Status, DownloadIsWhole,
     Written, ExportsInv
<1> QED
  BY <1>4, <1>5, <1>6, <1>7, <1>8, <1>9, <1>10 DEF ExportsInv

LEMMA OpenFileKeeps ==
  ASSUME TypeOK, ExportsInv, NEW w \in Workers, OpenFile(w)
  PROVE  (TypeOK /\ ExportsInv)'
<1> HIDE DEF ExportsAssumption
<1>1. run[w] \in Runs /\ run[w].export \in Exports
  BY Kinds DEF OpenFile, At, Awaits
<1>2. /\ run' \in [Workers -> {Ended} \union Runs] /\ run'[w] \in Runs
      /\ run'[w].pc = "write"
      /\ run'[w].export = run[w].export /\ run'[w].read = run[w].read
      /\ \A o \in Workers \ {w} : run'[o] = run[o]
  BY <1>1, GotoType DEF OpenFile, Awaits
<1>3. /\ job' = job
      /\ ~job[run[w].export].lost => job[run[w].export].owner = w /\ Tracks(w)
  BY <1>1, Kinds DEF OpenFile, ExportsInv, OwnerInv
<1>4. TypeOK'
  BY <1>1, <1>2, <1>3, Kinds, ExportsAssumption DEF OpenFile, Awaits, At, Files, TypeOK,
     Q!TypeOK, ExportsAssumption
<1>5. JobInv'
  BY <1>1, <1>2, <1>3, Kinds, ExportsAssumption DEF OpenFile, Awaits, At, Files, JobInv,
     Q!Over, ExportsInv, ExportsAssumption
<1>6. RequestInv'
  BY <1>1, <1>2, <1>3, Kinds DEF OpenFile, Awaits, At, Files, RequestInv, RunInv,
     ExportsInv
<1>7. RunInv'
  BY <1>1, <1>2, <1>3, Kinds DEF OpenFile, Awaits, At, Files, RunInv, ExportsInv
<1>8. OwnerInv'
  <2> SUFFICES ASSUME NEW o \in Workers, run'[o] # Ended, ~job'[run'[o].export].lost
               PROVE  job'[run'[o].export].owner = o /\ Tracks(o)'
    BY DEF OwnerInv
  <2>1. CASE o = w
    BY <2>1, <1>1, <1>2, <1>3, Kinds DEF OpenFile, Awaits, At, Files, Tracks, Written
  <2>2. CASE o # w
    <3>1. run'[o] = run[o] /\ run[o] \in Runs /\ run[o].export \in Exports
      BY <2>2, <1>1, <1>2, <1>3, Kinds DEF OpenFile, Awaits, At, Files
    <3>2. job[run[o].export].owner = o /\ Tracks(o)
      BY <3>1, <1>1, <1>2, <1>3, Kinds DEF ExportsInv, OwnerInv
    <3> QED
      BY <2>2, <3>1, <3>2, <1>1, <1>2, <1>3, Kinds DEF OpenFile, Awaits, At, Files, Tracks,
     Written
  <2> QED
    BY <2>1, <2>2
<1>9. FaultsPaid'
  BY <1>1, <1>2, <1>3, Kinds, ExportsAssumption DEF OpenFile, Awaits, At, Files,
     FaultsPaid, Dropped, Throwing, Q!Over, ExportsInv, ExportsAssumption
<1>10. DownloadIsWhole'
  BY <1>1, <1>2, <1>3, Kinds DEF OpenFile, Awaits, At, Files, DownloadIsWhole, Written,
     Tracks, ExportsInv
<1> QED
  BY <1>4, <1>5, <1>6, <1>7, <1>8, <1>9, <1>10 DEF ExportsInv

LEMMA WriteFileKeeps ==
  ASSUME TypeOK, ExportsInv, NEW w \in Workers, WriteFile(w)
  PROVE  (TypeOK /\ ExportsInv)'
<1> HIDE DEF ExportsAssumption
<1>1. run[w] \in Runs /\ run[w].export \in Exports
  BY Kinds DEF WriteFile, At, Awaits
<1>2. /\ run' \in [Workers -> {Ended} \union Runs] /\ run'[w] \in Runs
      /\ run'[w].pc = "complete"
      /\ run'[w].export = run[w].export /\ run'[w].read = run[w].read
      /\ \A o \in Workers \ {w} : run'[o] = run[o]
  BY <1>1, GotoType DEF WriteFile, Awaits
<1>3. /\ job' = job
      /\ ~job[run[w].export].lost => job[run[w].export].owner = w /\ Tracks(w)
  BY <1>1, Kinds DEF WriteFile, ExportsInv, OwnerInv
<1>4. ~job[run[w].export].lost => file'[run[w].export] = Written(run[w].read)
  BY <1>1, <1>3, Kinds DEF WriteFile, ExportsInv, OwnerInv, At, Awaits
<1>5. TypeOK'
  BY <1>1, <1>2, <1>3, <1>4, Kinds, ExportsAssumption DEF WriteFile, Awaits, At, Files,
     Truncated, Written, TypeOK, Q!TypeOK, ExportsAssumption
<1>6. JobInv'
  BY <1>1, <1>2, <1>3, <1>4, Kinds, ExportsAssumption DEF WriteFile, Awaits, At, Files,
     Truncated, Written, JobInv, Q!Over, ExportsInv, ExportsAssumption
<1>7. RequestInv'
  BY <1>1, <1>2, <1>3, <1>4, Kinds DEF WriteFile, Awaits, At, Files, Truncated, Written,
     RequestInv, RunInv, ExportsInv
<1>8. RunInv'
  BY <1>1, <1>2, <1>3, <1>4, Kinds DEF WriteFile, Awaits, At, Files, Truncated, Written,
     RunInv, ExportsInv
<1>9. OwnerInv'
  <2> SUFFICES ASSUME NEW o \in Workers, run'[o] # Ended, ~job'[run'[o].export].lost
               PROVE  job'[run'[o].export].owner = o /\ Tracks(o)'
    BY DEF OwnerInv
  <2>1. CASE o = w
    BY <2>1, <1>1, <1>2, <1>3, <1>4, Kinds DEF WriteFile, Awaits, At, Files, Truncated,
     Written, Tracks
  <2>2. CASE o # w
    <3>1. run'[o] = run[o] /\ run[o] \in Runs /\ run[o].export \in Exports
      BY <2>2, <1>1, <1>2, <1>3, <1>4, Kinds DEF WriteFile, Awaits, At, Files, Truncated,
     Written
    <3>2. job[run[o].export].owner = o /\ Tracks(o)
      BY <3>1, <1>1, <1>2, <1>3, <1>4, Kinds DEF ExportsInv, OwnerInv
    <3> QED
      BY <2>2, <3>1, <3>2, <1>1, <1>2, <1>3, <1>4, Kinds DEF WriteFile, Awaits, At, Files,
     Truncated, Written, Tracks
  <2> QED
    BY <2>1, <2>2
<1>10. FaultsPaid'
  BY <1>1, <1>2, <1>3, <1>4, Kinds, ExportsAssumption DEF WriteFile, Awaits, At, Files,
     Truncated, Written, FaultsPaid, Dropped, Throwing, Q!Over, ExportsInv,
     ExportsAssumption
<1>11. DownloadIsWhole'
  BY <1>1, <1>2, <1>3, <1>4, Kinds DEF WriteFile, Awaits, At, Files, Truncated, Written,
     DownloadIsWhole, Tracks, ExportsInv
<1> QED
  BY <1>5, <1>6, <1>7, <1>8, <1>9, <1>10, <1>11 DEF ExportsInv

LEMMA CompleteKeeps ==
  ASSUME TypeOK, ExportsInv, NEW w \in Workers, Complete(w)
  PROVE  (TypeOK /\ ExportsInv)'
<1> HIDE DEF ExportsAssumption
<1>1. run[w] \in Runs /\ run[w].export \in Exports
  BY Kinds DEF Complete, At, Awaits
<1>2. /\ run' \in [Workers -> {Ended} \union Runs] /\ run'[w] \in Runs
      /\ run'[w].pc = "returned"
      /\ run'[w].export = run[w].export /\ run'[w].read = run[w].read
      /\ \A o \in Workers \ {w} : run'[o] = run[o]
  BY <1>1, GotoType DEF Complete, Awaits
<1>3. /\ job' = job
      /\ ~job[run[w].export].lost => job[run[w].export].owner = w /\ Tracks(w)
  BY <1>1, Kinds DEF Complete, ExportsInv, OwnerInv
<1>4. TypeOK'
  BY <1>1, <1>2, <1>3, Kinds, ExportsAssumption DEF Complete, Awaits, At, Mark, Status,
     TypeOK, Q!TypeOK, ExportsAssumption
<1>5. JobInv'
  BY <1>1, <1>2, <1>3, Kinds, ExportsAssumption DEF Complete, Awaits, At, Mark, Status,
     JobInv, Q!Over, ExportsInv, ExportsAssumption
<1>6. RequestInv'
  BY <1>1, <1>2, <1>3, Kinds DEF Complete, Awaits, At, Mark, Status, RequestInv, RunInv,
     ExportsInv
<1>7. RunInv'
  BY <1>1, <1>2, <1>3, Kinds DEF Complete, Awaits, At, Mark, Status, RunInv, ExportsInv
<1>8. OwnerInv'
  <2> SUFFICES ASSUME NEW o \in Workers, run'[o] # Ended, ~job'[run'[o].export].lost
               PROVE  job'[run'[o].export].owner = o /\ Tracks(o)'
    BY DEF OwnerInv
  <2>1. CASE o = w
    BY <2>1, <1>1, <1>2, <1>3, Kinds DEF Complete, Awaits, At, Mark, Status, Tracks,
     Written
  <2>2. CASE o # w
    <3>1. run'[o] = run[o] /\ run[o] \in Runs /\ run[o].export \in Exports
      BY <2>2, <1>1, <1>2, <1>3, Kinds DEF Complete, Awaits, At, Mark, Status
    <3>2. job[run[o].export].owner = o /\ Tracks(o)
      BY <3>1, <1>1, <1>2, <1>3, Kinds DEF ExportsInv, OwnerInv
    <3> QED
      BY <2>2, <3>1, <3>2, <1>1, <1>2, <1>3, Kinds DEF Complete, Awaits, At, Mark, Status,
     Tracks, Written
  <2> QED
    BY <2>1, <2>2
<1>9. FaultsPaid'
  BY <1>1, <1>2, <1>3, Kinds, ExportsAssumption DEF Complete, Awaits, At, Mark, Status,
     FaultsPaid, Dropped, Throwing, Q!Over, ExportsInv, ExportsAssumption
<1>10. DownloadIsWhole'
  BY <1>1, <1>2, <1>3, Kinds DEF Complete, Awaits, At, Mark, Status, DownloadIsWhole,
     Written, Tracks, RunInv, ExportsInv
<1> QED
  BY <1>4, <1>5, <1>6, <1>7, <1>8, <1>9, <1>10 DEF ExportsInv

LEMMA RecordFailureKeeps ==
  ASSUME TypeOK, ExportsInv, NEW w \in Workers, RecordFailure(w)
  PROVE  (TypeOK /\ ExportsInv)'
<1> HIDE DEF ExportsAssumption
<1>1. run[w] \in Runs /\ run[w].export \in Exports
  BY Kinds DEF RecordFailure, At, Awaits
<1>2. /\ run' \in [Workers -> {Ended} \union Runs] /\ run'[w] \in Runs
      /\ run'[w].pc = "threw"
      /\ run'[w].export = run[w].export /\ run'[w].read = run[w].read
      /\ \A o \in Workers \ {w} : run'[o] = run[o]
  BY <1>1, GotoType DEF RecordFailure, Awaits
<1>3. /\ job' = job
      /\ ~job[run[w].export].lost => job[run[w].export].owner = w /\ Tracks(w)
  BY <1>1, Kinds DEF RecordFailure, ExportsInv, OwnerInv
<1>4. TypeOK'
  BY <1>1, <1>2, <1>3, Kinds, ExportsAssumption DEF RecordFailure, Awaits, At, Mark,
     Status, TypeOK, Q!TypeOK, ExportsAssumption
<1>5. JobInv'
  BY <1>1, <1>2, <1>3, Kinds, ExportsAssumption DEF RecordFailure, Awaits, At, Mark,
     Status, JobInv, Q!Over, ExportsInv, ExportsAssumption
<1>6. RequestInv'
  BY <1>1, <1>2, <1>3, Kinds DEF RecordFailure, Awaits, At, Mark, Status, RequestInv,
     RunInv, ExportsInv
<1>7. RunInv'
  BY <1>1, <1>2, <1>3, Kinds DEF RecordFailure, Awaits, At, Mark, Status, RunInv,
     ExportsInv
<1>8. OwnerInv'
  <2> SUFFICES ASSUME NEW o \in Workers, run'[o] # Ended, ~job'[run'[o].export].lost
               PROVE  job'[run'[o].export].owner = o /\ Tracks(o)'
    BY DEF OwnerInv
  <2>1. CASE o = w
    BY <2>1, <1>1, <1>2, <1>3, Kinds DEF RecordFailure, Awaits, At, Mark, Status, Tracks,
     Written
  <2>2. CASE o # w
    <3>1. run'[o] = run[o] /\ run[o] \in Runs /\ run[o].export \in Exports
      BY <2>2, <1>1, <1>2, <1>3, Kinds DEF RecordFailure, Awaits, At, Mark, Status
    <3>2. job[run[o].export].owner = o /\ Tracks(o)
      BY <3>1, <1>1, <1>2, <1>3, Kinds DEF ExportsInv, OwnerInv
    <3> QED
      BY <2>2, <3>1, <3>2, <1>1, <1>2, <1>3, Kinds DEF RecordFailure, Awaits, At, Mark,
     Status, Tracks, Written
  <2> QED
    BY <2>1, <2>2
<1>9. FaultsPaid'
  BY <1>1, <1>2, <1>3, Kinds, ExportsAssumption DEF RecordFailure, Awaits, At, Mark,
     Status, FaultsPaid, Dropped, Throwing, Q!Over, JobInv, ExportsInv,
     ExportsAssumption
<1>10. DownloadIsWhole'
  BY <1>1, <1>2, <1>3, Kinds DEF RecordFailure, Awaits, At, Mark, Status,
     DownloadIsWhole, Written, ExportsInv
<1> QED
  BY <1>4, <1>5, <1>6, <1>7, <1>8, <1>9, <1>10 DEF ExportsInv

LEMMA LoadKeeps ==
  ASSUME TypeOK, ExportsInv, NEW w \in Workers, LoadStandups(w)
  PROVE  (TypeOK /\ ExportsInv)'
<1> HIDE DEF ExportsAssumption
<1>1. run[w] \in Runs /\ run[w].export \in Exports
  BY Kinds DEF LoadStandups, At, Awaits
<1>2. /\ run' \in [Workers -> {Ended} \union Runs] /\ run'[w] \in Runs
      /\ run'[w].pc = "open"
      /\ run'[w].export = run[w].export /\ run'[w].read = standups
      /\ \A o \in Workers \ {w} : run'[o] = run[o]
  BY LoadType
<1>3. /\ job' = job
      /\ ~job[run[w].export].lost => job[run[w].export].owner = w /\ Tracks(w)
  BY <1>1, Kinds DEF LoadStandups, ExportsInv, OwnerInv
<1>4. TypeOK'
  BY <1>1, <1>2, <1>3, Kinds, ExportsAssumption DEF LoadStandups, At, Awaits, TypeOK,
     Q!TypeOK, ExportsAssumption
<1>5. JobInv'
  BY <1>1, <1>2, <1>3, Kinds, ExportsAssumption DEF LoadStandups, At, Awaits, JobInv,
     Q!Over, ExportsInv, ExportsAssumption
<1>6. RequestInv'
  BY <1>1, <1>2, <1>3, Kinds DEF LoadStandups, At, Awaits, RequestInv, ExportsInv
<1>7. RunInv'
  BY <1>1, <1>2, <1>3, Kinds DEF LoadStandups, At, Awaits, RunInv, RequestInv,
     ExportsInv
<1>8. OwnerInv'
  <2> SUFFICES ASSUME NEW o \in Workers, run'[o] # Ended, ~job'[run'[o].export].lost
               PROVE  job'[run'[o].export].owner = o /\ Tracks(o)'
    BY DEF OwnerInv
  <2>1. CASE o = w
    BY <2>1, <1>1, <1>2, <1>3, Kinds DEF LoadStandups, At, Awaits, Tracks, Written
  <2>2. CASE o # w
    <3>1. run'[o] = run[o] /\ run[o] \in Runs /\ run[o].export \in Exports
      BY <2>2, <1>1, <1>2, <1>3, Kinds DEF LoadStandups, At, Awaits
    <3>2. job[run[o].export].owner = o /\ Tracks(o)
      BY <3>1, <1>1, <1>2, <1>3, Kinds DEF ExportsInv, OwnerInv
    <3> QED
      BY <2>2, <3>1, <3>2, <1>1, <1>2, <1>3, Kinds DEF LoadStandups, At, Awaits, Tracks,
     Written
  <2> QED
    BY <2>1, <2>2
<1>9. FaultsPaid'
  BY <1>1, <1>2, <1>3, Kinds, ExportsAssumption DEF LoadStandups, At, Awaits,
     FaultsPaid, Dropped, Throwing, Q!Over, ExportsInv, ExportsAssumption
<1>10. DownloadIsWhole'
  BY <1>1, <1>2, <1>3, Kinds DEF LoadStandups, At, Awaits, DownloadIsWhole, Written,
     ExportsInv
<1> QED
  BY <1>4, <1>5, <1>6, <1>7, <1>8, <1>9, <1>10 DEF ExportsInv

LEMMA RejectedKeeps ==
  ASSUME TypeOK, ExportsInv, NEW w \in Workers, Rejected(w)
  PROVE  (TypeOK /\ ExportsInv)'
<1> HIDE DEF ExportsAssumption
<1>1. run[w] \in Runs /\ run[w].export \in Exports
  BY Kinds DEF Rejected, At, Awaits
<1>2. /\ run' \in [Workers -> {Ended} \union Runs] /\ run'[w] \in Runs
      /\ run'[w].pc = Caught(w)
      /\ run'[w].export = run[w].export /\ run'[w].read = run[w].read
      /\ \A o \in Workers \ {w} : run'[o] = run[o]
  BY <1>1, GotoType DEF Rejected, Awaits, Caught
<1>3. /\ job' = job
      /\ ~job[run[w].export].lost => job[run[w].export].owner = w /\ Tracks(w)
  BY <1>1, Kinds DEF Rejected, ExportsInv, OwnerInv
<1>4. TypeOK'
  BY <1>1, <1>2, <1>3, Kinds, ExportsAssumption DEF Rejected, Awaits, Caught, Fault,
     TypeOK, Q!TypeOK, ExportsAssumption
<1>5. JobInv'
  BY <1>1, <1>2, <1>3, Kinds, ExportsAssumption DEF Rejected, Awaits, Caught, Fault,
     JobInv, Q!Over, ExportsInv, ExportsAssumption
<1>6. RequestInv'
  BY <1>1, <1>2, <1>3, Kinds DEF Rejected, Awaits, Caught, Fault, RequestInv, RunInv,
     ExportsInv
<1>7. RunInv'
  BY <1>1, <1>2, <1>3, Kinds DEF Rejected, Awaits, Caught, Fault, RunInv, At, ExportsInv
<1>8. OwnerInv'
  <2> SUFFICES ASSUME NEW o \in Workers, run'[o] # Ended, ~job'[run'[o].export].lost
               PROVE  job'[run'[o].export].owner = o /\ Tracks(o)'
    BY DEF OwnerInv
  <2>1. CASE o = w
    BY <2>1, <1>1, <1>2, <1>3, Kinds DEF Rejected, Awaits, Caught, Fault, At, Tracks,
     Written
  <2>2. CASE o # w
    <3>1. run'[o] = run[o] /\ run[o] \in Runs /\ run[o].export \in Exports
      BY <2>2, <1>1, <1>2, <1>3, Kinds DEF Rejected, Awaits, Caught, Fault
    <3>2. job[run[o].export].owner = o /\ Tracks(o)
      BY <3>1, <1>1, <1>2, <1>3, Kinds DEF ExportsInv, OwnerInv
    <3> QED
      BY <2>2, <3>1, <3>2, <1>1, <1>2, <1>3, Kinds DEF Rejected, Awaits, Caught, Fault, At,
     Tracks, Written
  <2> QED
    BY <2>1, <2>2
<1>9. FaultsPaid'
  BY <1>1, <1>2, <1>3, Kinds, ExportsAssumption DEF Rejected, Awaits, Caught, Fault,
     FaultsPaid, Dropped, Throwing, Q!Over, JobInv, ExportsInv, ExportsAssumption
<1>10. DownloadIsWhole'
  BY <1>1, <1>2, <1>3, Kinds DEF Rejected, Awaits, Caught, Fault, DownloadIsWhole,
     Written, Tracks, RunInv, ExportsInv
<1> QED
  BY <1>4, <1>5, <1>6, <1>7, <1>8, <1>9, <1>10 DEF ExportsInv

LEMMA AnswerLostKeeps ==
  ASSUME TypeOK, ExportsInv, NEW w \in Workers, AnswerLost(w)
  PROVE  (TypeOK /\ ExportsInv)'
<1> HIDE DEF ExportsAssumption
<1>1. run[w] \in Runs /\ run[w].export \in Exports
  BY Kinds DEF AnswerLost, At, Awaits
<1>2. /\ run' \in [Workers -> {Ended} \union Runs] /\ run'[w] \in Runs
      /\ run'[w].pc = Caught(w)
      /\ run'[w].export = run[w].export /\ run'[w].read = run[w].read
      /\ \A o \in Workers \ {w} : run'[o] = run[o]
  BY <1>1, GotoType DEF AnswerLost, Awaits, Caught
<1>3. /\ job' = job
      /\ ~job[run[w].export].lost => job[run[w].export].owner = w /\ Tracks(w)
  BY <1>1, Kinds DEF AnswerLost, ExportsInv, OwnerInv
<1>4. TypeOK'
  BY <1>1, <1>2, <1>3, Kinds, ExportsAssumption DEF AnswerLost, Awaits, Caught, At,
     Mark, Status, Fault, TypeOK, Q!TypeOK, ExportsAssumption
<1>5. JobInv'
  BY <1>1, <1>2, <1>3, Kinds, ExportsAssumption DEF AnswerLost, Awaits, Caught, At,
     Mark, Status, Fault, JobInv, Q!Over, ExportsInv, ExportsAssumption
<1>6. RequestInv'
  BY <1>1, <1>2, <1>3, Kinds DEF AnswerLost, Awaits, Caught, At, Mark, Status, Fault,
     RequestInv, RunInv, ExportsInv
<1>7. RunInv'
  BY <1>1, <1>2, <1>3, Kinds DEF AnswerLost, Awaits, Caught, At, Mark, Status, Fault,
     RunInv, ExportsInv
<1>8. OwnerInv'
  <2> SUFFICES ASSUME NEW o \in Workers, run'[o] # Ended, ~job'[run'[o].export].lost
               PROVE  job'[run'[o].export].owner = o /\ Tracks(o)'
    BY DEF OwnerInv
  <2>1. CASE o = w
    BY <2>1, <1>1, <1>2, <1>3, Kinds DEF AnswerLost, Awaits, Caught, At, Mark, Status,
     Fault, Tracks, Written
  <2>2. CASE o # w
    <3>1. run'[o] = run[o] /\ run[o] \in Runs /\ run[o].export \in Exports
      BY <2>2, <1>1, <1>2, <1>3, Kinds DEF AnswerLost, Awaits, Caught, At, Mark, Status,
     Fault
    <3>2. job[run[o].export].owner = o /\ Tracks(o)
      BY <3>1, <1>1, <1>2, <1>3, Kinds DEF ExportsInv, OwnerInv
    <3> QED
      BY <2>2, <3>1, <3>2, <1>1, <1>2, <1>3, Kinds DEF AnswerLost, Awaits, Caught, At, Mark,
     Status, Fault, Tracks, Written
  <2> QED
    BY <2>1, <2>2
<1>9. FaultsPaid'
  BY <1>1, <1>2, <1>3, Kinds, ExportsAssumption DEF AnswerLost, Awaits, Caught, At,
     Mark, Status, Fault, FaultsPaid, Dropped, Throwing, Q!Over, JobInv, ExportsInv,
     ExportsAssumption
<1>10. DownloadIsWhole'
  BY <1>1, <1>2, <1>3, Kinds DEF AnswerLost, Awaits, Caught, At, Mark, Status, Fault,
     DownloadIsWhole, Written, Tracks, RunInv, ExportsInv
<1> QED
  BY <1>4, <1>5, <1>6, <1>7, <1>8, <1>9, <1>10 DEF ExportsInv

LEMMA InvInit == Init => TypeOK /\ ExportsInv
<1> SUFFICES ASSUME Init PROVE TypeOK /\ ExportsInv
  OBVIOUS
<1>1. job = [e \in Exports |-> Q!NoJob] /\ Q!NoJob.owner = NoWorker /\ Q!NoJob.lost = FALSE
      /\ Q!NoJob.state = "none" /\ Q!NoJob.made = 0 /\ Q!NoJob.stalled = 0
  BY DEF Init, Q!Init, Q!NoJob
<1>2. Q!TypeOK
  BY <1>1 DEF Init, Q!Init, Q!TypeOK, Q!NoJob, Q!JobState
<1>3. TypeOK
  BY <1>2 DEF Init, TypeOK, Status, Files, NoFile
<1>4. JobInv /\ RequestInv /\ RunInv /\ OwnerInv /\ DownloadIsWhole
  BY <1>1 DEF Init, JobInv, RequestInv, RunInv, OwnerInv, DownloadIsWhole, Q!Over
<1>5. FaultsPaid
  BY <1>1 DEF Init, FaultsPaid, Dropped, Throwing
<1> QED
  BY <1>3, <1>4, <1>5 DEF ExportsInv

LEMMA StutterKeeps ==
  ASSUME TypeOK, ExportsInv, UNCHANGED vars
  PROVE  (TypeOK /\ ExportsInv)'
<1>1. TypeOK'
  BY DEF vars, TypeOK, Q!TypeOK
<1>2. JobInv' /\ RequestInv' /\ DownloadIsWhole'
  BY DEF vars, ExportsInv, JobInv, RequestInv, DownloadIsWhole, Q!Over
<1>3. RunInv' /\ OwnerInv'
  BY DEF vars, ExportsInv, RunInv, OwnerInv, Tracks, At
<1>4. FaultsPaid'
  BY DEF vars, ExportsInv, FaultsPaid, Dropped, Throwing
<1> QED
  BY <1>1, <1>2, <1>3, <1>4 DEF ExportsInv

LEMMA InvStep == TypeOK /\ ExportsInv /\ [Next]_vars => (TypeOK /\ ExportsInv)'
<1> SUFFICES ASSUME TypeOK, ExportsInv, [Next]_vars
             PROVE  (TypeOK /\ ExportsInv)'
  OBVIOUS
<1>1. ASSUME NEW e \in Exports,
             InsertExport(e) \/ AddJob(e) \/ AddRejected(e) \/ LoseLock(e) \/ HandOut(e)
      PROVE  (TypeOK /\ ExportsInv)'
  BY <1>1, InsertKeeps, AddKeeps, AddRejectedKeeps, LoseKeeps, HandOutKeeps
<1>2. ASSUME NEW s \in Standups, Submit(s)
      PROVE  (TypeOK /\ ExportsInv)'
  BY <1>2, SubmitKeeps
<1>3. ASSUME NEW w \in Workers, TakeJob(w)
      PROVE  (TypeOK /\ ExportsInv)'
  BY <1>3, TakeKeeps DEF TakeJob
<1>4. ASSUME NEW w \in Workers, RunStep(w)
      PROVE  (TypeOK /\ ExportsInv)'
  BY <1>4, FindKeeps, ClaimKeeps, LoadKeeps, OpenFileKeeps, WriteFileKeeps, CompleteKeeps,
     RecordFailureKeeps, SettleKeeps DEF RunStep
<1>5. ASSUME NEW w \in Workers, Crash(w) \/ Rejected(w) \/ AnswerLost(w)
      PROVE  (TypeOK /\ ExportsInv)'
  BY <1>5, CrashKeeps, RejectedKeeps, AnswerLostKeeps
<1> QED
  BY <1>1, <1>2, <1>3, <1>4, <1>5, StutterKeeps DEF Next

LEMMA InvCorrect == Spec => [](TypeOK /\ ExportsInv)
BY InvInit, InvStep, PTL DEF Spec

-----------------------------------------------------------------------------
(* The theorems.                                                               *)

(* The rows, jobs, files and runs keep their types (schema.prisma:273-289,      *)
(* export.service.ts:58-173).                                                  *)
THEOREM TypeCorrect == Spec => []TypeOK
BY InvCorrect, PTL

(* A COMPLETED export's file is whole and has all it was asked for, unless its *)
(* job's lock expired under a run (export.service.ts:148-159).                 *)
THEOREM WholeCorrect == Spec => []DownloadIsWhole
<1>1. ExportsInv => DownloadIsWhole
  BY DEF ExportsInv
<1> QED
  BY <1>1, InvCorrect, PTL

(* A job is over with its row still PENDING only after more faults than the     *)
(* queue's tries and hand-outs make good (export.module.ts:13-16).             *)
THEOREM RetriedCorrect == Spec => []PendingIsRetried
<1>1. TypeOK /\ ExportsInv => PendingIsRetried
  <2> SUFFICES ASSUME TypeOK, ExportsInv, NEW e \in Exports,
                      row[e] = "PENDING", Q!Over(e)
               PROVE  faults > MaxStalled \/ faults >= JobAttempts
    BY DEF PendingIsRetried
  <2>1. job[e].made = JobAttempts \/ job[e].stalled = MaxStalled + 1
    BY DEF ExportsInv, JobInv, Q!Over
  <2>2. job[e].made + job[e].stalled + Dropped(e) + Throwing(e) <= faults
    BY DEF ExportsInv, FaultsPaid
  <2>3. Dropped(e) \in Nat /\ Throwing(e) \in Nat
    BY DEF Dropped, Throwing
  <2> QED
    BY <2>1, <2>2, <2>3, Kinds
<1> QED
  BY <1>1, InvCorrect, PTL

(* A row leaves COMPLETED or FAILED only if its job's lock expired under a run, *)
(* or the answer to COMPLETED was lost (export.service.ts:112-169).            *)
THEOREM EndCorrect == Spec => EndIsFinal
<1> DEFINE Leaves(e) == row[e] \in {"COMPLETED", "FAILED"} /\ row'[e] # row[e]
<1>1. ASSUME TypeOK, ExportsInv, [Next]_vars, NEW e \in Exports, Leaves(e)
      PROVE  job[e].lost \/ e \in unheard
  <2>1. ASSUME NEW w \in Workers, run[w] \in Runs, run[w].export = e, ~job[e].lost
        PROVE  Tracks(w)
    BY <1>1, <2>1, Kinds DEF ExportsInv, OwnerInv
  <2>2. ~InsertExport(e)
    BY <1>1 DEF ExportsInv, RequestInv, InsertExport
  <2>3. \A d \in Exports \ {e} : InsertExport(d) => row'[e] = row[e]
    BY DEF InsertExport
  <2>4. ASSUME NEW w \in Workers, Claim(w) \/ Complete(w) \/ RecordFailure(w) \/ AnswerLost(w)
        PROVE  job[e].lost \/ e \in unheard
    <3>1. run[w] \in Runs /\ run[w].export = e
      BY <1>1, <2>4, Kinds DEF Claim, Complete, RecordFailure, AnswerLost, At, Awaits, Mark
    <3> QED
      BY <1>1, <2>1, <2>4, <3>1
      DEF Claim, Complete, RecordFailure, AnswerLost, At, Tracks, Mark
  <2>5. \/ \E d \in Exports : InsertExport(d)
        \/ \E w \in Workers : Claim(w) \/ Complete(w) \/ RecordFailure(w) \/ AnswerLost(w)
    BY <1>1 DEF Next, vars, RunStep, AddJob, AddRejected, LoseLock, HandOut, Submit, TakeJob,
       Find, LoadStandups, OpenFile, WriteFile, SettleJob, Crash, Rejected
  <2> QED
    BY <1>1, <2>2, <2>3, <2>4, <2>5
<1>2. TypeOK /\ ExportsInv /\ [Next]_vars =>
        [\A e \in Exports : Leaves(e) => job[e].lost \/ e \in unheard]_vars
  BY <1>1
<1> QED
  BY <1>2, InvCorrect, PTL DEF Spec, EndIsFinal

-----------------------------------------------------------------------------
(* Jobs run out.                                                               *)

(* The lock of a job is held by a worker that is running it.                   *)
HeldAt(e) == job[e].owner # NoWorker =>
  /\ job[e].state = "active"
  /\ run[job[e].owner] # Ended /\ run[job[e].owner].export = e
HeldInv == \A e \in Exports : HeldAt(e)

LEMMA AwaitsKinds ==
  ASSUME NEW pc
  PROVE  /\ AwaitsLeft(pc) \in 1..9
         /\ pc \in Awaits \union {"returned", "threw"} => AwaitsLeft(pc) > 1
BY DEF AwaitsLeft, Awaits

(* A job under way has tries left.                                             *)
UnderWay(r) == /\ r.state \in {"waiting", "active"}
               /\ r.made \in Nat /\ r.made < JobAttempts
               /\ r.stalled \in Nat /\ r.stalled <= MaxStalled
LEMMA LeftKinds ==
  ASSUME NEW r, NEW steps, UnderWay(r)
  PROVE  /\ Q!TriesLeft(r) \in Nat \ {0}
         /\ r.state = "waiting" => Q!Left(r, steps) = 12 * Q!TriesLeft(r) + 11
         /\ r.state = "active" => Q!Left(r, steps) = 12 * Q!TriesLeft(r) + steps
BY DEF UnderWay, Q!TriesLeft, Q!Left, Q!Span

LEMMA LeftNat ==
  ASSUME NEW r, NEW steps \in Nat, r.state \in {"waiting", "active"} => UnderWay(r)
  PROVE  Q!Left(r, steps) \in Nat
<1>1. CASE UnderWay(r)
  BY <1>1, LeftKinds DEF UnderWay
<1>2. CASE r.state \notin {"waiting", "active"}
  BY <1>2 DEF Q!Left
<1> QED
  BY <1>1, <1>2

(* A try or a hand-out is spent, or the job is over.                           *)
Spends(r, s) ==
  \/ s.state \in {"completed", "failed"}
  \/ s.state = "waiting" /\ Q!TriesLeft(s) = Q!TriesLeft(r) - 1
LEMMA SpendsLess ==
  ASSUME NEW r, NEW s, NEW left \in 1..9, NEW steps,
         UnderWay(r), r.state = "active", Spends(r, s), s.state = "waiting" => UnderWay(s)
  PROVE  Q!Left(s, steps) \in 0..(Q!Left(r, left) - 1)
<1>1. Q!TriesLeft(r) \in Nat \ {0} /\ Q!Left(r, left) = 12 * Q!TriesLeft(r) + left
  BY LeftKinds
<1>2. CASE s.state \in {"completed", "failed"}
  <2>1. Q!Left(s, steps) = 0
    BY <1>2 DEF Q!Left
  <2> QED
    BY <1>1, <2>1
<1>3. CASE s.state = "waiting" /\ Q!TriesLeft(s) = Q!TriesLeft(r) - 1
  <2>1. Q!Left(s, steps) = 12 * (Q!TriesLeft(r) - 1) + 11
    BY <1>3, LeftKinds
  <2> QED
    BY <1>1, <2>1
<1> QED
  BY <1>2, <1>3 DEF Spends

(* What a step does to one job and its run: nothing, an await, the add, a take, *)
(* a settlement or another hand-out, the loss of the lock.                     *)
Untouched(e) == job'[e] = job[e] /\ Held(e)' = Held(e) /\ HeldAt(e)'
Awaited(e) == LET w == job[e].owner IN
  /\ w # NoWorker /\ job'[e] = job[e]
  /\ run'[w] # Ended /\ run'[w].export = e
  /\ AwaitsLeft(run'[w].pc) < AwaitsLeft(run[w].pc)
Added(e) == job[e].state = "none" /\ job'[e].owner = NoWorker
Taken(e) ==
  /\ job[e].state = "waiting" /\ job'[e].state = "active"
  /\ Q!TriesLeft(job'[e]) = Q!TriesLeft(job[e])
  /\ job'[e].owner # NoWorker
  /\ run'[job'[e].owner] = [pc |-> "find", export |-> e, read |-> {}]
Spent(e) ==
  job[e].state = "active" /\ job'[e].owner = NoWorker /\ Spends(job[e], job'[e])
Unlocked(e) ==
  /\ job[e].owner # NoWorker /\ job'[e].owner = NoWorker
  /\ job'[e].state = job[e].state /\ Q!TriesLeft(job'[e]) = Q!TriesLeft(job[e])
Touched(e) ==
  \/ Untouched(e) \/ Awaited(e) \/ Added(e) \/ Taken(e) \/ Spent(e) \/ Unlocked(e)

RunsOutAt(e) == job[e].state # "none" =>
  /\ Left(e)' \in 0..Left(e)
  /\ job'[e] # job[e] \/ Held(e)' # Held(e) => Left(e)' < Left(e)

LEMMA TouchRunsOut ==
  ASSUME TypeOK, JobInv, TypeOK', JobInv', NEW e \in Exports, HeldAt(e), Touched(e)
  PROVE  HeldAt(e)' /\ RunsOutAt(e)
<1> HIDE DEF ExportsAssumption
<1> DEFINE r == job[e]
           s == job'[e]
           left == AwaitsLeft(Held(e).pc)
           steps == AwaitsLeft(Held(e)'.pc)
<1>1. /\ r.state \in Q!JobState /\ s.state \in Q!JobState
      /\ r.state \in {"waiting", "active"} => UnderWay(r)
      /\ s.state \in {"waiting", "active"} => UnderWay(s)
  <2>1. /\ r.state \in Q!JobState /\ r.made \in Nat /\ r.stalled \in Nat
        /\ s.state \in Q!JobState /\ s.made \in Nat /\ s.stalled \in Nat
    BY ExportsAssumption DEF TypeOK, Q!TypeOK, ExportsAssumption
  <2>2. /\ ~Q!Over(e) => r.made < JobAttempts /\ r.stalled <= MaxStalled
        /\ ~Q!Over(e)' => s.made < JobAttempts /\ s.stalled <= MaxStalled
    BY DEF JobInv
  <2> QED
    BY <2>1, <2>2 DEF Q!Over, UnderWay
<1>2. /\ Left(e) = Q!Left(r, left) /\ Left(e)' = Q!Left(s, steps)
      /\ left \in 1..9 /\ steps \in 1..9
  BY AwaitsKinds DEF Left
<1>3. Left(e) \in Nat /\ Left(e)' \in Nat
  BY <1>1, <1>2, LeftNat
<1>4. CASE Untouched(e)
  BY <1>2, <1>3, <1>4 DEF Untouched, RunsOutAt
<1>5. CASE Awaited(e)
  <2>1. /\ s = r /\ r.state = "active" /\ steps < left
        /\ HeldAt(e)'
    BY <1>5 DEF Awaited, HeldAt, Held
  <2>2. Left(e)' < Left(e)
    <3> HIDE DEF r, s, left, steps
    <3>1. /\ Q!TriesLeft(r) \in Nat
          /\ Left(e) = 12 * Q!TriesLeft(r) + left /\ Left(e)' = 12 * Q!TriesLeft(r) + steps
      BY <1>1, <1>2, <2>1, LeftKinds
    <3> QED
      BY <1>2, <2>1, <3>1
  <2> QED
    BY <1>3, <2>1, <2>2 DEF RunsOutAt
<1>6. CASE Added(e)
  BY <1>6 DEF Added, HeldAt, RunsOutAt
<1>7. CASE Taken(e)
  <2>1. steps = 9 /\ HeldAt(e)'
    BY <1>7 DEF Taken, HeldAt, Held, AwaitsLeft, Ended
  <2>2. Left(e)' < Left(e)
    <3> HIDE DEF steps, left
    <3>1. /\ Q!TriesLeft(r) \in Nat
          /\ Left(e) = 12 * Q!TriesLeft(r) + 11 /\ Left(e)' = 12 * Q!TriesLeft(r) + 9
      BY <1>1, <1>2, <1>7, <2>1, LeftKinds DEF Taken
    <3> QED
      BY <3>1
  <2> QED
    BY <1>3, <2>1, <2>2 DEF RunsOutAt
<1>8. CASE Spent(e)
  <2>1. Q!Left(s, steps) \in 0..(Q!Left(r, left) - 1)
    BY <1>1, <1>2, <1>8, SpendsLess DEF Spent
  <2>2. Left(e)' < Left(e)
    BY <1>2, <1>3, <2>1
  <2> QED
    BY <1>3, <1>8, <2>2 DEF Spent, HeldAt, RunsOutAt
<1>9. CASE Unlocked(e)
  <2>1. /\ HeldAt(e)' /\ r.state = "active" /\ s.state = "active" /\ steps = 1
    BY <1>9 DEF Unlocked, HeldAt, Held, AwaitsLeft, Ended
  <2>2. left > 1
    <3>1. Held(e) = run[r.owner] /\ r.owner \in Workers /\ run[r.owner] # Ended
      BY <1>9, Kinds DEF Unlocked, HeldAt, Held
    <3>2. Held(e).pc \in Awaits \union {"returned", "threw"}
      BY <3>1, Kinds
    <3> QED
      BY <3>2, AwaitsKinds
  <2>3. Left(e)' < Left(e)
    <3> HIDE DEF steps, left
    <3>1. /\ Q!TriesLeft(r) \in Nat
          /\ Left(e) = 12 * Q!TriesLeft(r) + left /\ Left(e)' = 12 * Q!TriesLeft(r) + steps
      BY <1>1, <1>2, <1>9, <2>1, LeftKinds DEF Unlocked
    <3> QED
      BY <1>2, <2>1, <2>2, <3>1
  <2> QED
    BY <1>3, <2>1, <2>3 DEF RunsOutAt
<1> QED
  BY <1>4, <1>5, <1>6, <1>7, <1>8, <1>9 DEF Touched

(* A job that a step leaves alone, with the run that holds it.                 *)
LEMMA LeavesAlone ==
  ASSUME NEW e \in Exports, HeldAt(e), job'[e] = job[e],
         job[e].owner # NoWorker => run'[job[e].owner] = run[job[e].owner]
  PROVE  Touched(e)
<1>1. Held(e)' = Held(e)
  BY DEF Held
<1>2. HeldAt(e)'
  BY DEF HeldAt
<1> QED
  BY <1>1, <1>2 DEF Touched, Untouched

(* An await of the run w: still w's, and still of its export.                  *)
LEMMA AwaitTouches ==
  ASSUME HeldInv, NEW w \in Workers, UNCHANGED job,
         \A v \in Workers \ {w} : run'[v] = run[v],
         run'[w] # Ended, run'[w].export = run[w].export,
         AwaitsLeft(run'[w].pc) < AwaitsLeft(run[w].pc), TypeOK
  PROVE  \A e \in Exports : Touched(e)
<1> TAKE e \in Exports
<1>1. HeldAt(e) /\ job[e].owner \in Workers \union {NoWorker}
  BY Kinds DEF HeldInv
<1>2. CASE job[e].owner = w
  <2>1. Awaited(e)
    BY <1>1, <1>2 DEF HeldAt, Awaited
  <2> QED
    BY <2>1 DEF Touched
<1>3. CASE job[e].owner # w
  BY <1>1, <1>3, LeavesAlone
<1> QED
  BY <1>2, <1>3

LEMMA AwaitSteps ==
  ASSUME TypeOK, HeldInv, NEW w \in Workers,
         \/ Find(w) \/ Claim(w) \/ LoadStandups(w) \/ OpenFile(w) \/ WriteFile(w)
         \/ Complete(w) \/ RecordFailure(w) \/ Rejected(w) \/ AnswerLost(w)
  PROVE  \A e \in Exports : Touched(e)
<1>1. run[w] \in Runs /\ UNCHANGED job
  BY Kinds DEF Find, Claim, LoadStandups, OpenFile, WriteFile, Complete, RecordFailure,
     Rejected, AnswerLost, At, Awaits
<1>2. CASE LoadStandups(w)
  <2>1. /\ run'[w] # Ended /\ run'[w].export = run[w].export
        /\ run'[w].pc = "open" /\ run[w].pc = "load"
        /\ \A v \in Workers \ {w} : run'[v] = run[v]
    BY <1>2, LoadType, Kinds DEF LoadStandups, At
  <2> QED
    BY <1>1, <2>1, AwaitTouches DEF AwaitsLeft
<1>3. ASSUME NEW pc \in Awaits \union {"returned", "threw"}, Goto(w, pc),
             AwaitsLeft(pc) < AwaitsLeft(run[w].pc)
      PROVE  \A e \in Exports : Touched(e)
  <2>1. /\ run'[w] # Ended /\ run'[w].export = run[w].export /\ run'[w].pc = pc
        /\ \A v \in Workers \ {w} : run'[v] = run[v]
    BY <1>1, <1>3, GotoType, Kinds
  <2> QED
    BY <1>1, <1>3, <2>1, AwaitTouches
<1>4. CASE Rejected(w) \/ AnswerLost(w)
  <2>1. /\ Goto(w, Caught(w)) /\ run[w].pc \in Awaits
        /\ Caught(w) \in {"threw", "fail"}
    BY <1>4 DEF Rejected, AnswerLost, Caught, At, Awaits
  <2>2. AwaitsLeft(Caught(w)) < AwaitsLeft(run[w].pc)
    BY <2>1 DEF Caught, Awaits, AwaitsLeft
  <2> QED
    BY <1>3, <2>1, <2>2 DEF Awaits
<1>5. CASE Find(w) \/ Claim(w) \/ OpenFile(w) \/ WriteFile(w) \/ Complete(w) \/ RecordFailure(w)
  <2>1. PICK pc \in Awaits \union {"returned", "threw"} :
          Goto(w, pc) /\ AwaitsLeft(pc) < AwaitsLeft(run[w].pc)
    <3>1. CASE Find(w)
      BY <3>1 DEF Find, At, AwaitsLeft, Awaits
    <3>2. CASE Claim(w)
      BY <3>2 DEF Claim, At, AwaitsLeft, Awaits
    <3>3. CASE OpenFile(w)
      BY <3>3 DEF OpenFile, At, AwaitsLeft, Awaits
    <3>4. CASE WriteFile(w)
      BY <3>4 DEF WriteFile, At, AwaitsLeft, Awaits
    <3>5. CASE Complete(w)
      BY <3>5 DEF Complete, At, AwaitsLeft, Awaits
    <3>6. CASE RecordFailure(w)
      BY <3>6 DEF RecordFailure, At, AwaitsLeft, Awaits
    <3> QED
      BY <1>5, <3>1, <3>2, <3>3, <3>4, <3>5, <3>6
  <2> QED
    BY <1>3, <2>1
<1> QED
  BY <1>2, <1>4, <1>5

LEMMA NextTouches ==
  ASSUME TypeOK, JobInv, HeldInv, [Next]_vars
  PROVE  \A e \in Exports : Touched(e)
<1>a. DOMAIN run = Workers /\ DOMAIN job = Exports
  BY DEF TypeOK, Q!TypeOK
<1>b. \A e \in Exports : HeldAt(e) /\ job[e].owner \in Workers \union {NoWorker}
  BY Kinds DEF HeldInv
<1>1. ASSUME UNCHANGED <<job, run>>, NEW e \in Exports PROVE Touched(e)
  BY <1>1, <1>b, LeavesAlone
<1>2. ASSUME NEW w \in Workers, TakeJob(w), NEW e \in Exports PROVE Touched(e)
  <2> PICK d \in Exports :
        /\ run[w] = Ended /\ Q!Take(d, w)
        /\ run' = [run EXCEPT ![w] = [pc |-> "find", export |-> d, read |-> {}]]
    BY <1>2 DEF TakeJob
  <2>1. CASE e = d
    <3>1. /\ job[e].state = "waiting" /\ job'[e].state = "active" /\ job'[e].owner = w
          /\ job'[e].made = job[e].made /\ job'[e].stalled = job[e].stalled
      BY <2>1, TakeType
    <3>2. run'[w] = [pc |-> "find", export |-> e, read |-> {}]
      BY <1>a, <2>1
    <3> QED
      BY <3>1, <3>2 DEF Touched, Taken, Q!TriesLeft
  <2>2. CASE e # d
    <3>1. job'[e] = job[e]
      BY <2>2, TakeType
    <3>2. job[e].owner # NoWorker =>
            job[e].owner # w /\ run'[job[e].owner] = run[job[e].owner]
      BY <1>a, <1>b DEF HeldAt
    <3> QED
      BY <1>b, <3>1, <3>2, LeavesAlone
  <2> QED
    BY <2>1, <2>2
<1>3. ASSUME NEW w \in Workers, SettleJob(w), NEW e \in Exports PROVE Touched(e)
  <2>1. /\ run[w] \in Runs /\ run[w].export \in Exports
        /\ run' = [run EXCEPT ![w] = Ended]
    BY <1>3, Kinds DEF SettleJob, At, Awaits
  <2>2. CASE job[e].owner = w
    <3>1. run[w].export = e /\ job[e].state = "active"
      BY <1>b, <2>2 DEF HeldAt
    <3>2. /\ job'[e].owner = NoWorker /\ job'[e].stalled = job[e].stalled
          /\ job'[e].made = IF At(w, "threw") THEN job[e].made + 1 ELSE job[e].made
          /\ job'[e].state = IF At(w, "threw") THEN Q!AfterThrow(e) ELSE "completed"
      BY <1>3, <2>1, <2>2, <3>1, SettleType DEF SettleJob, At
    <3>3. Spends(job[e], job'[e])
      BY <3>2, JobKinds DEF Spends, Q!AfterThrow, Q!TriesLeft
    <3> QED
      BY <3>1, <3>2, <3>3 DEF Touched, Spent
  <2>3. CASE job[e].owner # w
    <3>1. job'[e] = job[e]
      <4> DEFINE d == run[w].export
      <4>1. /\ job[d].owner # w => job' = job
            /\ \A c \in Exports \ {d} : job'[c] = job[c]
        BY <1>3, <2>1, SettleType DEF SettleJob, At
      <4> QED
        BY <2>3, <4>1
    <3>2. job[e].owner # NoWorker => run'[job[e].owner] = run[job[e].owner]
      BY <1>a, <1>b, <2>1, <2>3
    <3> QED
      BY <1>b, <3>1, <3>2, LeavesAlone
  <2> QED
    BY <2>2, <2>3
<1>4. ASSUME NEW w \in Workers, Crash(w), NEW e \in Exports PROVE Touched(e)
  <2>1. CASE job[e].owner = w
    <3>1. /\ job'[e].owner = NoWorker /\ job'[e].state = job[e].state
          /\ job'[e].made = job[e].made /\ job'[e].stalled = job[e].stalled
      BY <1>4, <2>1, ReleaseType DEF Crash
    <3> QED
      BY <2>1, <3>1 DEF Touched, Unlocked, Q!TriesLeft
  <2>2. CASE job[e].owner # w
    <3>1. job'[e] = job[e]
      BY <1>4, <2>2 DEF Crash, Q!Release
    <3>2. job[e].owner # NoWorker => run'[job[e].owner] = run[job[e].owner]
      BY <1>4, <1>a, <1>b, <2>2 DEF Crash
    <3> QED
      BY <1>b, <3>1, <3>2, LeavesAlone
  <2> QED
    BY <2>1, <2>2
<1>5. ASSUME NEW d \in Exports, AddJob(d) \/ LoseLock(d) \/ HandOut(d), NEW e \in Exports
      PROVE  Touched(e)
  <2>1. UNCHANGED run
    BY <1>5 DEF AddJob, LoseLock, HandOut
  <2>2. CASE e # d
    <3>1. job'[e] = job[e]
      <4>1. CASE AddJob(d)
        BY <1>a, <2>2, <4>1 DEF AddJob, Q!Add
      <4>2. CASE LoseLock(d)
        BY <2>2, <4>2, LoseType DEF LoseLock
      <4>3. CASE HandOut(d)
        BY <2>2, <4>3, HandOutType DEF HandOut
      <4> QED
        BY <1>5, <4>1, <4>2, <4>3
    <3> QED
      BY <1>b, <2>1, <3>1, LeavesAlone
  <2>3. CASE AddJob(d) /\ e = d
    <3>1. job[e].state = "none" /\ job'[e].owner = job[e].owner
      BY <1>a, <2>3, JobKinds DEF AddJob, Q!Add, TypeOK, Q!TypeOK
    <3>2. job[e].owner = NoWorker
      BY <1>b, <3>1 DEF HeldAt
    <3> QED
      BY <3>1, <3>2 DEF Touched, Added
  <2>4. CASE LoseLock(d) /\ e = d
    BY <2>4, LoseType DEF LoseLock, Touched, Unlocked, Q!TriesLeft
  <2>5. CASE HandOut(d) /\ e = d
    <3>1. /\ job[e].state = "active" /\ job'[e].owner = NoWorker
          /\ job'[e].made = job[e].made /\ job'[e].stalled = job[e].stalled + 1
          /\ job'[e].state \in {"waiting", "failed"}
      BY <2>5, HandOutType DEF HandOut
    <3> QED
      BY <3>1, JobKinds DEF Touched, Spent, Spends, Q!TriesLeft
  <2> QED
    BY <1>5, <2>2, <2>3, <2>4, <2>5
<1>6. ASSUME NEW w \in Workers, RunStep(w) \/ Rejected(w) \/ AnswerLost(w),
             NEW e \in Exports
      PROVE  Touched(e)
  BY <1>3, <1>6, AwaitSteps DEF RunStep
<1>7. ASSUME NEW e \in Exports, InsertExport(e) \/ AddRejected(e)
      PROVE  UNCHANGED <<job, run>>
  BY <1>7 DEF InsertExport, AddRejected
<1>8. ASSUME NEW s \in Standups, Submit(s)
      PROVE  UNCHANGED <<job, run>>
  BY <1>8 DEF Submit
<1> QED
  BY <1>1, <1>2, <1>4, <1>5, <1>6, <1>7, <1>8 DEF Next, vars

LEMMA HeldInvariant == Spec => [](TypeOK /\ ExportsInv /\ HeldInv)
<1>1. Init => HeldInv
  BY DEF Init, Q!Init, Q!NoJob, HeldInv, HeldAt
<1>2. TypeOK /\ ExportsInv /\ HeldInv /\ [Next]_vars => HeldInv'
  <2> SUFFICES ASSUME TypeOK, ExportsInv, HeldInv, [Next]_vars, NEW e \in Exports
               PROVE  HeldAt(e)'
    BY DEF HeldInv
  <2>1. TypeOK' /\ JobInv' /\ JobInv
    BY InvStep DEF ExportsInv
  <2>2. Touched(e) /\ HeldAt(e)
    BY <2>1, NextTouches DEF HeldInv
  <2> QED
    BY <2>1, <2>2, TouchRunsOut
<1> QED
  BY <1>1, <1>2, InvInit, InvStep, PTL DEF Spec

(* Each step of a job uses up some of what is left of it, and nothing gives it  *)
(* back, so no failure keeps a job going for good (export.module.ts:13-16,     *)
(* export.service.ts:107-173).                                                 *)
THEOREM RunsOutCorrect == Spec => JobsRunOut
<1>1. TypeOK /\ ExportsInv /\ HeldInv /\ [Next]_vars => [RunsOut]_vars
  <2> SUFFICES ASSUME TypeOK, ExportsInv, HeldInv, [Next]_vars
               PROVE  RunsOut
    OBVIOUS
  <2>1. TypeOK' /\ JobInv' /\ JobInv
    BY InvStep DEF ExportsInv
  <2>2. \A e \in Exports : Touched(e) /\ HeldAt(e)
    BY <2>1, NextTouches DEF HeldInv
  <2>3. \A e \in Exports : RunsOutAt(e)
    BY <2>1, <2>2, TouchRunsOut
  <2> QED
    BY <2>3 DEF RunsOutAt, RunsOut
<1> QED
  BY <1>1, HeldInvariant, PTL DEF Spec, JobsRunOut

-----------------------------------------------------------------------------
(* Until something fails.                                                      *)

(* A job waits with its row PENDING, is in a worker's hands, or has ended with *)
(* its row COMPLETED.                                                          *)
UndisturbedRow(e) ==
  /\ ~job[e].lost
  /\ request[e] = "add" => row[e] = "PENDING"
  /\ job[e].state = "none" => \/ row[e] = "none"
                              \/ row[e] = "PENDING" /\ request[e] = "add"
  /\ job[e].state = "waiting" => row[e] = "PENDING"
  /\ job[e].state = "active" => job[e].owner # NoWorker
  /\ Q!Over(e) => row[e] = "COMPLETED"
UndisturbedRun(w) ==
  /\ run[w].pc \notin {"fail", "threw"}
  /\ At(w, "find") => row[run[w].export] = "PENDING"
  /\ At(w, "returned") => row[run[w].export] = "COMPLETED"
UndisturbedInv == faults = 0 =>
  (\A e \in Exports : UndisturbedRow(e)) /\ (\A w \in Workers : UndisturbedRun(w))

LEMMA UndisturbedStep ==
  ASSUME TypeOK, ExportsInv, UndisturbedInv, [Next]_vars
  PROVE  UndisturbedInv'
<1> HIDE DEF ExportsAssumption
<1> SUFFICES ASSUME faults' = 0
             PROVE  /\ \A e \in Exports : UndisturbedRow(e)'
                    /\ \A w \in Workers : UndisturbedRun(w)'
  BY DEF UndisturbedInv
<1>1. ~Fault
  BY Kinds DEF Fault
<1>2. faults = 0
  BY <1>1 DEF Next, vars, InsertExport, AddJob, AddRejected, LoseLock, HandOut, Submit, TakeJob,
     RunStep, Find, Claim, LoadStandups, OpenFile, WriteFile, Complete, RecordFailure,
     SettleJob, Crash, Rejected, AnswerLost
<1>3. /\ \A e \in Exports : UndisturbedRow(e)
      /\ \A w \in Workers : UndisturbedRun(w)
  BY <1>2 DEF UndisturbedInv
(* A run is its export's only one.                                             *)
<1>4. \A w \in Workers : run[w] \in Runs =>
        /\ job[run[w].export].owner = w /\ job[run[w].export].state = "active"
        /\ request[run[w].export] = "done" /\ run[w].export \in Exports
        /\ run[w].pc \in {"load", "open", "write", "complete"} =>
             row[run[w].export] = "PROCESSING"
  <2> TAKE w \in Workers
  <2> HAVE run[w] \in Runs
  <2>1. /\ run[w] # Ended /\ run[w].export \in Exports
        /\ job[run[w].export].owner = w /\ Tracks(w)
    BY <1>3, Kinds DEF UndisturbedRow, ExportsInv, OwnerInv
  <2>2. job[run[w].export].owner # NoWorker
    BY <2>1, ExportsAssumption DEF ExportsAssumption
  <2> QED
    BY <2>1, <2>2 DEF ExportsInv, JobInv, RunInv, Tracks
<1>5. ASSUME UNCHANGED <<job, row, request, run>>
      PROVE  /\ \A e \in Exports : UndisturbedRow(e)'
             /\ \A w \in Workers : UndisturbedRun(w)'
  BY <1>3, <1>5 DEF UndisturbedRow, UndisturbedRun, Q!Over, At
<1>6. ASSUME NEW e \in Exports, InsertExport(e)
      PROVE  /\ \A d \in Exports : UndisturbedRow(d)'
             /\ \A w \in Workers : UndisturbedRun(w)'
  <2>1. /\ job' = job /\ run' = run /\ request' = [request EXCEPT ![e] = "add"]
        /\ row' = [row EXCEPT ![e] = "PENDING"] /\ job[e].state = "none"
    BY <1>6 DEF InsertExport, ExportsInv, RequestInv
  <2>2. \A d \in Exports : UndisturbedRow(d)'
    BY <1>3, <2>1, Kinds DEF UndisturbedRow, Q!Over
  <2>3. ASSUME NEW w \in Workers PROVE UndisturbedRun(w)'
    <3>1. run[w] \in Runs => run[w].export # e
      BY <1>4, <2>1
    <3> QED
      BY <1>3, <2>1, <3>1, Kinds DEF UndisturbedRun, At, Awaits
  <2> QED
    BY <2>2, <2>3
<1>7. ASSUME NEW e \in Exports, AddJob(e)
      PROVE  /\ \A d \in Exports : UndisturbedRow(d)'
             /\ \A w \in Workers : UndisturbedRun(w)'
  <2>1. /\ job[e].state = "none" /\ job'[e].state = "waiting" /\ job'[e].lost = job[e].lost
        /\ \A d \in Exports \ {e} : job'[d] = job[d]
        /\ row' = row /\ run' = run /\ request' = [request EXCEPT ![e] = "done"]
        /\ request[e] = "add"
    BY <1>7 DEF AddJob, Q!Add, TypeOK, Q!TypeOK
  <2>2. \A d \in Exports : UndisturbedRow(d)'
    BY <1>3, <2>1, Kinds DEF UndisturbedRow, Q!Over
  <2> QED
    BY <1>3, <2>1, <2>2 DEF UndisturbedRun, At
<1>8. ASSUME NEW e \in Exports, HandOut(e)
      PROVE  FALSE
  BY <1>3, <1>8 DEF HandOut, Q!HandOut, UndisturbedRow
<1>9. ASSUME NEW w \in Workers, TakeJob(w)
      PROVE  /\ \A d \in Exports : UndisturbedRow(d)'
             /\ \A v \in Workers : UndisturbedRun(v)'
  <2> PICK e \in Exports :
        /\ run[w] = Ended /\ Q!Take(e, w)
        /\ run' = [run EXCEPT ![w] = [pc |-> "find", export |-> e, read |-> {}]]
    BY <1>9 DEF TakeJob
  <2>1. /\ job[e].state = "waiting" /\ job'[e].state = "active" /\ job'[e].owner = w
        /\ job'[e].lost = job[e].lost /\ \A d \in Exports \ {e} : job'[d] = job[d]
    BY TakeType
  <2>2. row' = row /\ request' = request /\ w # NoWorker
    BY <1>9, ExportsAssumption DEF TakeJob, ExportsAssumption
  <2>3. \A d \in Exports : UndisturbedRow(d)'
    BY <1>3, <2>1, <2>2 DEF UndisturbedRow, Q!Over
  <2>4. /\ run'[w].pc = "find" /\ run'[w].export = e
        /\ \A v \in Workers \ {w} : run'[v] = run[v]
    BY DEF TypeOK
  <2>5. \A v \in Workers : UndisturbedRun(v)'
    BY <1>3, <2>1, <2>2, <2>4 DEF UndisturbedRow, UndisturbedRun, At
  <2> QED
    BY <2>3, <2>5
<1>10. ASSUME NEW w \in Workers, SettleJob(w)
       PROVE  /\ \A d \in Exports : UndisturbedRow(d)'
             /\ \A v \in Workers : UndisturbedRun(v)'
  <2> DEFINE e == run[w].export
  <2>1. run[w] \in Runs /\ At(w, "returned") /\ ~At(w, "threw") /\ e \in Exports
    BY <1>3, <1>10, Kinds DEF SettleJob, At, UndisturbedRun
  <2>2. /\ job'[e].state = "completed" /\ job'[e].lost = job[e].lost
        /\ \A d \in Exports \ {e} : job'[d] = job[d]
        /\ row[e] = "COMPLETED" /\ job[e].state = "active" /\ request[e] = "done"
    <3>1. /\ job[e].owner = w =>
               /\ job'[e].lost = job[e].lost
               /\ job'[e].state = IF At(w, "threw") THEN Q!AfterThrow(e) ELSE "completed"
          /\ \A d \in Exports \ {e} : job'[d] = job[d]
      BY <1>10, <2>1, SettleType DEF SettleJob, At, ExportsInv
    <3>2. /\ job[e].owner = w => /\ job'[e].lost = job[e].lost
                                /\ job'[e].state = "completed"
          /\ \A d \in Exports \ {e} : job'[d] = job[d]
      BY <2>1, <3>1
    <3>3. row[e] = "COMPLETED"
      BY <1>3, <2>1 DEF UndisturbedRun
    <3> QED
      BY <1>4, <2>1, <3>2, <3>3
  <2>3. /\ row' = row /\ request' = request /\ run'[w] = Ended
        /\ \A v \in Workers \ {w} : run'[v] = run[v]
    BY <1>10 DEF SettleJob, TypeOK
  <2>4. \A d \in Exports : UndisturbedRow(d)'
    BY <1>3, <2>1, <2>2, <2>3 DEF UndisturbedRow, Q!Over
  <2>5. \A v \in Workers : UndisturbedRun(v)'
    BY <1>3, <2>3 DEF UndisturbedRun, At, Ended
  <2> QED
    BY <2>4, <2>5
<1>11. ASSUME NEW w \in Workers, Find(w) \/ OpenFile(w) \/ WriteFile(w) \/ LoadStandups(w)
       PROVE  /\ \A d \in Exports : UndisturbedRow(d)'
             /\ \A v \in Workers : UndisturbedRun(v)'
  <2>1. /\ run[w] \in Runs /\ UNCHANGED <<job, row, request>>
    BY <1>11, Kinds DEF Find, OpenFile, WriteFile, LoadStandups, At, Awaits
  <2>2. /\ run'[w].pc \in {"claim", "open", "write", "complete"}
        /\ \A v \in Workers \ {w} : run'[v] = run[v]
    <3>1. CASE Find(w)
      <4>1. row[run[w].export] = "PENDING"
        BY <1>3, <3>1 DEF Find, UndisturbedRun, At
      <4>2. Goto(w, "claim")
        BY <3>1, <4>1 DEF Find
      <4> QED
        BY <2>1, <4>2, GotoType DEF Awaits
    <3>2. CASE OpenFile(w) \/ WriteFile(w)
      BY <2>1, <3>2, GotoType DEF OpenFile, WriteFile, Awaits
    <3>3. CASE LoadStandups(w)
      BY <3>3, LoadType
    <3> QED
      BY <1>11, <3>1, <3>2, <3>3
  <2>3. \A d \in Exports : UndisturbedRow(d)'
    BY <1>3, <2>1 DEF UndisturbedRow, Q!Over
  <2>4. \A v \in Workers : UndisturbedRun(v)'
    BY <1>3, <2>1, <2>2 DEF UndisturbedRun, At
  <2> QED
    BY <2>3, <2>4
<1>12. ASSUME NEW w \in Workers, Claim(w) \/ Complete(w)
       PROVE  /\ \A d \in Exports : UndisturbedRow(d)'
             /\ \A v \in Workers : UndisturbedRun(v)'
  <2> DEFINE e == run[w].export
  <2>1. /\ run[w] \in Runs /\ e \in Exports /\ UNCHANGED <<job, request>>
    BY <1>12, Kinds DEF Claim, Complete, At, Awaits
  <2>2. job[e].state = "active" /\ job[e].owner = w /\ request[e] = "done"
    BY <1>4, <2>1
  <2>3. /\ run'[w].export = e
        /\ \A v \in Workers \ {w} : run'[v] = run[v]
        /\ \/ run'[w].pc = "load" /\ row' = [row EXCEPT ![e] = "PROCESSING"]
           \/ run'[w].pc = "returned" /\ row' = [row EXCEPT ![e] = "COMPLETED"]
    BY <1>12, <2>1, GotoType DEF Claim, Complete, Mark, Awaits
  <2>4. \A d \in Exports : UndisturbedRow(d)'
    BY <1>3, <2>1, <2>2, <2>3, Kinds DEF UndisturbedRow, Q!Over
  <2>5. ASSUME NEW v \in Workers \ {w} PROVE UndisturbedRun(v)'
    <3>1. run[v] \in Runs => run[v].export # e
      BY <1>4, <2>2, <2>5
    <3> QED
      BY <1>3, <2>1, <2>3, <3>1, Kinds DEF UndisturbedRun, At, Awaits
  <2>6. UndisturbedRun(w)'
    BY <2>1, <2>3, Kinds DEF UndisturbedRun, At
  <2> QED
    BY <2>4, <2>5, <2>6
<1>13. ASSUME NEW w \in Workers, RecordFailure(w)
       PROVE  FALSE
  BY <1>3, <1>13 DEF RecordFailure, UndisturbedRun, At
<1>14. ASSUME NEW s \in Standups, Submit(s)
       PROVE  UNCHANGED <<job, row, request, run>>
  BY <1>14 DEF Submit
<1>15. ASSUME NEW w \in Workers
       PROVE  ~Crash(w) /\ ~Rejected(w) /\ ~AnswerLost(w)
  BY <1>1 DEF Crash, Rejected, AnswerLost
<1>16. ASSUME NEW e \in Exports
       PROVE  ~AddRejected(e) /\ ~LoseLock(e)
  BY <1>1 DEF AddRejected, LoseLock
<1> QED
  BY <1>5, <1>6, <1>7, <1>8, <1>9, <1>10, <1>11, <1>12, <1>13, <1>14, <1>15, <1>16
     DEF Next, RunStep, vars

(* While nothing fails, an export that was asked for is COMPLETED, or about to  *)
(* be added, or its job waits or is in a worker's hands                        *)
(* (export.service.ts:95-173): what UndisturbedEnds has without fairness.      *)
THEOREM NoneForgottenCorrect == Spec => []NoneForgotten
<1>1. Init => UndisturbedInv
  BY DEF Init, Q!Init, Q!NoJob, UndisturbedInv, UndisturbedRow, UndisturbedRun, Q!Over, Ended,
     At
<1>2. TypeOK /\ ExportsInv /\ UndisturbedInv /\ [Next]_vars => UndisturbedInv'
  BY UndisturbedStep
<1>3. TypeOK /\ UndisturbedInv => NoneForgotten
  <2> SUFFICES ASSUME TypeOK, UndisturbedInv, NEW e \in Exports, row[e] # "none", faults = 0
               PROVE  \/ row[e] = "COMPLETED" \/ request[e] = "add"
                      \/ job[e].state = "waiting" \/ job[e].owner # NoWorker
    BY Kinds DEF NoneForgotten
  <2>1. UndisturbedRow(e) /\ job[e].state \in Q!JobState
    BY JobKinds DEF UndisturbedInv
  <2> QED
    BY <2>1 DEF UndisturbedRow, Q!Over, Q!JobState
<1> QED
  BY <1>1, <1>2, <1>3, InvInit, InvStep, PTL DEF Spec
=============================================================================
