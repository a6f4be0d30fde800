--------------------------- MODULE Scheduler_proofs ---------------------------
(* Proofs about Scheduler for any teams, settings, calls and faults.           *)
EXTENDS Scheduler, FiniteSetTheorems, TLAPS

USE SettingsAssumption, FaultsAssumption

Entries == {Registered(s, k) : s \in Settings, k \in Kinds} \union {NoScheduler}
OnTeam == [pc : Reconciling, team : Teams, isActive : BOOLEAN,
           setting : Settings, next : 1..4, rest : SUBSET Teams]

-----------------------------------------------------------------------------
(* Times and kinds.                                                            *)

(* subtractMinutes() stays in the day, and adding the minutes comes back.      *)
LEMMA QuarterBefore ==
  ASSUME NEW time \in Minutes
  PROVE  /\ SubtractMinutes(time, 15) \in Minutes
         /\ (SubtractMinutes(time, 15) + 15) % DayMinutes = time
<1>1. CASE time >= 15
  <2>1. SubtractMinutes(time, 15) = time - 15
    BY SMTT(30), <1>1 DEF SubtractMinutes, Remainder, Minutes, DayMinutes
  <2> QED
    BY <1>1, <2>1 DEF Minutes, DayMinutes
<1>2. CASE time < 15
  <2>1. SubtractMinutes(time, 15) = time + 1425
    BY <1>2 DEF SubtractMinutes, Remainder, Minutes, DayMinutes
  <2> QED
    BY <1>2, <2>1 DEF Minutes, DayMinutes
<1> QED
  BY <1>1, <1>2 DEF Minutes, DayMinutes

(* The order names every kind once.                                            *)
LEMMA OrderOfKinds ==
  /\ \A i \in 1..4 : Order[i] \in Kinds
  /\ \A k \in Kinds : \E i \in 1..4 : Order[i] = k
  /\ \A i, j \in 1..4 : Order[i] = Order[j] => i = j
BY DEF Order, Kinds

(* What is registered for a configuration is what the configuration asks for.  *)
LEMMA RegisteredOnTime ==
  ASSUME TypeOK, NEW t \in Teams,
         \A k \in Kinds : scheduler[t][k] = Wanted(t, k)
  PROVE  Matches(t)
<1>1. config[t].setting \in Settings
  BY DEF TypeOK
<1>2. CASE Active(t)
  <2>1. \A k \in Kinds : /\ scheduler[t][k].tz = config[t].setting.timezone
                         /\ scheduler[t][k].time = TimeOf(config[t].setting, k)
    <3>1. /\ \A k \in Kinds : scheduler[t][k] = Registered(config[t].setting, k)
          /\ \A k \in Kinds :
               /\ Registered(config[t].setting, k).tz = config[t].setting.timezone
               /\ Registered(config[t].setting, k).time = TimeOf(config[t].setting, k)
      BY <1>2 DEF Wanted, Registered
    <3> QED
      BY <3>1
  <2>2. /\ TimeOf(config[t].setting, "digest") = config[t].setting.standupDeadline
        /\ TimeOf(config[t].setting, "final") = config[t].setting.standupDeadline
        /\ TimeOf(config[t].setting, "primary") = config[t].setting.reminderTime
        /\ TimeOf(config[t].setting, "15m")
             = SubtractMinutes(config[t].setting.standupDeadline, 15)
    BY DEF TimeOf
  <2>3. config[t].setting.standupDeadline \in Minutes
    BY <1>1
  <2>4. {"digest", "final", "primary", "15m"} \subseteq Kinds
    BY DEF Kinds
  <2>5. OnTime(t)
    BY <2>1, <2>2, <2>3, <2>4, QuarterBefore DEF OnTime
  <2> QED
    BY <1>2, <2>5 DEF Matches
<1>3. CASE ~Active(t)
  BY <1>3 DEF Matches, Silent, Wanted
<1> QED
  BY <1>2, <1>3

-----------------------------------------------------------------------------
(* Types.                                                                      *)

LEMMA WorkType ==
  ASSUME TypeOK, NEW c \in Calls, call[c].pc \in Reconciling
  PROVE  /\ call[c] \in OnTeam
         /\ call[c].team \in Teams /\ call[c].next \in 1..4
         /\ call[c].rest \in SUBSET Teams
         /\ call[c].isActive \in BOOLEAN /\ call[c].setting \in Settings
         /\ Kind(c) \in Kinds
<1>1. call[c] \in OnTeam
  BY DEF TypeOK, OnTeam, Reconciling, Booting, Asked, Written, Ended
<1> QED
  BY <1>1, OrderOfKinds DEF OnTeam, Kind

LEMMA AskType ==
  ASSUME TypeOK, NEW c \in Calls, call[c].pc \in Asked \union Written
  PROVE  call[c] \in [pc : Asked \union Written, team : Teams] /\ call[c].team \in Teams
BY DEF TypeOK, Reconciling, Booting, Asked, Written, Ended

LEMMA BootType ==
  ASSUME TypeOK, NEW c \in Calls, call[c].pc = "boot"
  PROVE  call[c].rest \in SUBSET Teams
BY DEF TypeOK, Reconciling, Booting, Asked, Written, Ended

CallStates == {Ended}
  \union [pc : Booting, rest : SUBSET Teams]
  \union [pc : Asked \union Written, team : Teams]
  \union OnTeam

LEMMA RestType ==
  ASSUME NEW teams \in SUBSET Teams
  PROVE  Rest(teams) \in CallStates /\ Rest(teams).pc \in {"idle", "boot"}
BY DEF Rest, CallStates, Booting, Ended

(* What a step of a reconciling call makes of the call itself.                 *)
LEMMA WorkStep ==
  ASSUME TypeOK, NEW c \in Calls, call[c].pc \in Reconciling,
         \/ \E pc \in Reconciling, n \in 1..4 : Goto(c, pc, n)
         \/ Finish(c)
  PROVE  /\ call' \in [Calls -> CallStates]
         /\ \A o \in Calls : o # c => call'[o] = call[o]
         /\ \/ /\ Finish(c) /\ call'[c].pc \in {"idle", "boot"}
            \/ /\ call'[c].team = call[c].team
               /\ call'[c].isActive = call[c].isActive
               /\ call'[c].setting = call[c].setting
               /\ \E pc \in Reconciling, n \in 1..4 :
                    Goto(c, pc, n) /\ call'[c].pc = pc /\ call'[c].next = n
<1>1. call[c] \in OnTeam /\ call[c].rest \in SUBSET Teams
  BY WorkType
<1>2. call \in [Calls -> CallStates]
  BY DEF TypeOK, CallStates, OnTeam
<1>3. CASE Finish(c)
  BY <1>1, <1>2, <1>3, RestType DEF Finish
<1>4. ASSUME NEW pc \in Reconciling, NEW n \in 1..4, Goto(c, pc, n)
      PROVE  /\ call' \in [Calls -> CallStates]
             /\ \A o \in Calls : o # c => call'[o] = call[o]
             /\ call'[c].team = call[c].team
             /\ call'[c].isActive = call[c].isActive
             /\ call'[c].setting = call[c].setting
             /\ call'[c].pc = pc /\ call'[c].next = n
  <2>1. [call[c] EXCEPT !.pc = pc, !.next = n] \in OnTeam
    BY <1>1 DEF OnTeam
  <2>2. call'[c] = [call[c] EXCEPT !.pc = pc, !.next = n]
    BY <1>2, <1>4 DEF Goto
  <2>3. /\ call'[c].team = call[c].team
        /\ call'[c].isActive = call[c].isActive
        /\ call'[c].setting = call[c].setting
        /\ call'[c].pc = pc /\ call'[c].next = n
    BY <1>1, <2>2 DEF OnTeam
  <2> QED
    BY <1>2, <1>4, <2>1, <2>3 DEF Goto, CallStates
<1> QED
  BY <1>3, <1>4

LEMMA AfterRemoveStep ==
  ASSUME TypeOK, NEW c \in Calls, At(c, "remove"), AfterRemove(c)
  PROVE  \/ \E pc \in Reconciling, n \in 1..4 : Goto(c, pc, n)
         \/ Finish(c)
BY WorkType DEF AfterRemove, At, Reconciling

LEMMA SetType ==
  ASSUME TypeOK, NEW c \in Calls, call[c].pc \in Reconciling,
         NEW value \in Entries, SetScheduler(c, value)
  PROVE  /\ scheduler' \in [Teams -> [Kinds -> Entries]]
         /\ scheduler'[call[c].team][Kind(c)] = value
         /\ \A k \in Kinds : k # Kind(c) =>
              scheduler'[call[c].team][k] = scheduler[call[c].team][k]
         /\ \A t \in Teams : t # call[c].team => scheduler'[t] = scheduler[t]
<1>1. call[c].team \in Teams /\ Kind(c) \in Kinds
  BY WorkType
<1>2. scheduler \in [Teams -> [Kinds -> Entries]]
  BY DEF TypeOK, Entries
<1> QED
  BY <1>1, <1>2 DEF SetScheduler

LEMMA TypeInit == Init => TypeOK
BY DEF Init, TypeOK, Ended

LEMMA TypeStep == TypeOK /\ [Next]_vars => TypeOK'
<1> SUFFICES ASSUME TypeOK, [Next]_vars PROVE TypeOK'
  OBVIOUS
<1>a. /\ team \in [Teams -> {"none", "live", "deleted"}]
      /\ config \in [Teams -> [isActive : BOOLEAN, setting : Settings]]
      /\ scheduler \in [Teams -> [Kinds -> Entries]]
      /\ call \in [Calls -> CallStates]
      /\ disturbed \in [Teams -> BOOLEAN]
      /\ faults \in 0..MaxFaults
  BY DEF TypeOK, CallStates, OnTeam, Entries
<1>b. ASSUME team' \in [Teams -> {"none", "live", "deleted"}],
             config' \in [Teams -> [isActive : BOOLEAN, setting : Settings]],
             scheduler' \in [Teams -> [Kinds -> Entries]],
             call' \in [Calls -> CallStates],
             disturbed' \in [Teams -> BOOLEAN],
             faults' \in 0..MaxFaults
      PROVE  TypeOK'
  BY <1>b DEF TypeOK, CallStates, OnTeam, Entries
<1>c. Fault => faults' \in 0..MaxFaults
  BY DEF Fault, TypeOK
<1>1. ASSUME NEW c \in Calls, NEW t \in Teams, CreateTeam(c, t) \/ Admit(c, t)
      PROVE  TypeOK'
  <2>1. \A pc \in Asked \union Written : [pc |-> pc, team |-> t] \in CallStates
    BY DEF CallStates
  <2>2. call' \in [Calls -> CallStates]
    <3>1. PICK pc \in Asked \union Written :
            call' = [call EXCEPT ![c] = [pc |-> pc, team |-> t]]
      BY <1>1 DEF CreateTeam, Admit, Written
    <3> QED
      BY <1>a, <2>1, <3>1
  <2>3. team' \in [Teams -> {"none", "live", "deleted"}]
    BY <1>1, <1>a DEF CreateTeam, Admit
  <2> QED
    BY <1>1, <1>a, <1>b, <2>2, <2>3 DEF CreateTeam, Admit
<1>2. ASSUME NEW c \in Calls, UpdateConfig(c) \/ SoftDelete(c) \/ DeleteAgain(c)
      PROVE  TypeOK'
  <2>1. call[c] \in [pc : Asked \union Written, team : Teams]
    BY <1>2, AskType DEF UpdateConfig, SoftDelete, DeleteAgain, At, Asked
  <2>2. [call[c] EXCEPT !.pc = "read"] \in CallStates /\ Ended \in CallStates
    BY <2>1 DEF CallStates, Written
  <2>3. call' \in [Calls -> CallStates]
    BY <1>2, <1>a, <2>2 DEF UpdateConfig, SoftDelete, DeleteAgain
  <2>4. /\ team' \in [Teams -> {"none", "live", "deleted"}]
        /\ config' \in [Teams -> [isActive : BOOLEAN, setting : Settings]]
    <3>1. CASE UpdateConfig(c)
      <4>1. PICK setting \in Settings, isActive \in BOOLEAN :
              config' = [config EXCEPT
                ![call[c].team] = [isActive |-> isActive, setting |-> setting]]
        BY <3>1 DEF UpdateConfig
      <4>2. [isActive |-> isActive, setting |-> setting]
              \in [isActive : BOOLEAN, setting : Settings]
        OBVIOUS
      <4> QED
        BY <1>a, <3>1, <4>1, <4>2 DEF UpdateConfig
    <3>2. CASE SoftDelete(c) \/ DeleteAgain(c)
      BY <1>a, <3>2 DEF SoftDelete, DeleteAgain
    <3> QED
      BY <1>2, <3>1, <3>2
  <2> QED
    BY <1>2, <1>a, <1>b, <2>3, <2>4 DEF UpdateConfig, SoftDelete, DeleteAgain
<1>3. ASSUME NEW c \in Calls, Boot(c) PROVE TypeOK'
  <2>1. Rest({t \in Teams : team[t] = "live"}) \in CallStates
    BY RestType
  <2> QED
    BY <1>3, <1>a, <1>b, <2>1 DEF Boot
<1>4. ASSUME NEW c \in Calls, NEW t \in Teams, NEW rest \in SUBSET Teams,
             ReadTeam(c, t, rest)
      PROVE  TypeOK'
  <2>1. [pc |-> "remove", team |-> t, isActive |-> Active(t),
         setting |-> config[t].setting, next |-> 1, rest |-> rest] \in CallStates
    <3>1. config[t].isActive \in BOOLEAN /\ config[t].setting \in Settings
      BY DEF TypeOK
    <3>2. Active(t) \in BOOLEAN
      BY DEF Active
    <3> QED
      BY <3>1, <3>2 DEF CallStates, OnTeam, Reconciling
  <2>2. disturbed' \in [Teams -> BOOLEAN]
    <3>1. (\E o \in Calls \ {c} : Works(o, t)) \in BOOLEAN
      OBVIOUS
    <3> QED
      BY <1>4, <3>1 DEF ReadTeam, TypeOK
  <2> QED
    BY <1>4, <1>a, <1>b, <2>1, <2>2 DEF ReadTeam
<1>5. ASSUME NEW c \in Calls, ReadForRequest(c) \/ ReadForBoot(c) PROVE TypeOK'
  <2>1. CASE ReadForRequest(c)
    <3>1. call[c].team \in Teams
      BY <2>1, AskType DEF ReadForRequest, At, Written
    <3> QED
      BY <1>4, <2>1, <3>1 DEF ReadForRequest
  <2>2. CASE ReadForBoot(c)
    <3>1. PICK t \in Teams : ReadTeam(c, t, call[c].rest \ {t})
      BY <2>2 DEF ReadForBoot
    <3>2. call[c].rest \ {t} \in SUBSET Teams
      BY <2>2, BootType DEF ReadForBoot, At
    <3> QED
      BY <1>4, <3>1, <3>2
  <2> QED
    BY <1>5, <2>1, <2>2
<1>6. ASSUME NEW c \in Calls, Remove(c) PROVE TypeOK'
  <2>1. call[c].pc \in Reconciling /\ NoScheduler \in Entries
    BY <1>6 DEF Remove, At, Reconciling, Entries
  <2>2. scheduler' \in [Teams -> [Kinds -> Entries]]
    BY <1>6, <2>1, SetType DEF Remove
  <2>3. call' \in [Calls -> CallStates]
    BY <1>6, <2>1, AfterRemoveStep, WorkStep DEF Remove
  <2> QED
    BY <1>6, <1>a, <1>b, <2>2, <2>3 DEF Remove
<1>7. ASSUME NEW c \in Calls, Register(c) PROVE TypeOK'
  <2>1. call[c].pc \in Reconciling
    BY <1>7 DEF Register, At, Reconciling
  <2>2. Registered(call[c].setting, Kind(c)) \in Entries
    BY <2>1, WorkType DEF Entries
  <2>3. scheduler' \in [Teams -> [Kinds -> Entries]]
    BY <1>7, <2>1, <2>2, SetType DEF Register
  <2>4. call' \in [Calls -> CallStates]
    BY <1>7, <2>1, WorkType, WorkStep DEF Register, Reconciling
  <2> QED
    BY <1>7, <1>a, <1>b, <2>3, <2>4 DEF Register
<1>8. ASSUME NEW c \in Calls, RemoveRejected(c) PROVE TypeOK'
  <2>1. call[c].pc \in Reconciling
    BY <1>8 DEF RemoveRejected, At, Reconciling
  <2>2. call' \in [Calls -> CallStates]
    BY <1>8, <2>1, AfterRemoveStep, WorkStep DEF RemoveRejected
  <2>3. disturbed' \in [Teams -> BOOLEAN]
    BY <1>8, <1>a, <2>1, WorkType DEF RemoveRejected, Disturb
  <2> QED
    BY <1>8, <1>a, <1>b, <1>c, <2>2, <2>3 DEF RemoveRejected
<1>9. ASSUME NEW c \in Calls, CallDies(c) PROVE TypeOK'
  <2>1. call' \in [Calls -> CallStates]
    BY <1>9, <1>a DEF CallDies, CallStates
  <2>2. disturbed' \in [Teams -> BOOLEAN]
    BY <1>9, <1>a DEF CallDies, Disturb
  <2> QED
    BY <1>9, <1>a, <1>b, <1>c, <2>1, <2>2 DEF CallDies
<1>10. CASE UNCHANGED vars
  BY <1>10 DEF vars, TypeOK
<1> QED
  BY <1>1, <1>2, <1>3, <1>5, <1>6, <1>7, <1>8, <1>9, <1>10
  DEF Next, Start, CallStep

(* Teams, configurations, schedulers and calls keep their shape.               *)
THEOREM TypeCorrect == Spec => []TypeOK
BY TypeInit, TypeStep, PTL DEF Spec

-----------------------------------------------------------------------------
(* What a team's schedulers are when nobody is at work on it.                  *)

(* The step of a call that is not on the team before nor after it.             *)
LEMMA Elsewhere ==
  ASSUME NEW c \in Calls, NEW u \in Teams, TeamInv(u),
         ~Waits(c, u), ~Works(c, u), ~Waits(c, u)', ~Works(c, u)',
         \A o \in Calls : o # c => call'[o] = call[o],
         scheduler'[u] = scheduler[u], team'[u] = team[u],
         config'[u] = config[u], disturbed'[u] = disturbed[u]
  PROVE  TeamInv(u)'
<1>1. \A o \in Calls : /\ Waits(o, u)' <=> Waits(o, u)
                       /\ Works(o, u)' <=> Works(o, u)
  BY DEF Waits, Works
<1>2. \A o \in Calls : Works(o, u) =>
        /\ Progress(o) => Progress(o)'
        /\ Current(o) => Current(o)'
  <2> SUFFICES ASSUME NEW o \in Calls, Works(o, u)
               PROVE  /\ Progress(o) => Progress(o)'
                      /\ Current(o) => Current(o)'
    OBVIOUS
  <2>1. call'[o] = call[o] /\ call[o].team = u
    BY DEF Works
  <2> QED
    BY <2>1 DEF Progress, Current, Done, Active
<1>3. \A k \in Kinds : Wanted(u, k)' = Wanted(u, k)
  BY DEF Wanted, Active
<1> QED
  BY <1>1, <1>2, <1>3 DEF TeamInv, BeingSet

(* A call writes the team or its configuration, and has yet to read.           *)
LEMMA Writing ==
  ASSUME NEW c \in Calls, NEW u \in Teams, TeamInv(u),
         ~Works(c, u), Waits(c, u)',
         \A o \in Calls : o # c => call'[o] = call[o],
         scheduler'[u] = scheduler[u], disturbed'[u] = disturbed[u]
  PROVE  TeamInv(u)'
<1>1. \A o \in Calls : Works(o, u)' => o # c /\ Works(o, u) /\ call'[o] = call[o]
  BY DEF Waits, Works, Written, Reconciling
<1>2. \A o \in Calls : Works(o, u)' /\ Progress(o) => Progress(o)'
  <2> SUFFICES ASSUME NEW o \in Calls, Works(o, u)', Progress(o) PROVE Progress(o)'
    OBVIOUS
  <2>1. call'[o] = call[o] /\ call[o].team = u
    BY <1>1 DEF Works
  <2> QED
    BY <2>1 DEF Progress, Done
<1> QED
  BY <1>1, <1>2 DEF TeamInv, BeingSet

(* A call that goes on keeps what it read.                                     *)
LEMMA GotoFields ==
  ASSUME TypeOK, NEW c \in Calls, call[c].pc \in Reconciling,
         NEW pc \in Reconciling, NEW n \in 1..4, Goto(c, pc, n)
  PROVE  /\ call'[c].pc = pc /\ call'[c].team = call[c].team
         /\ call'[c].isActive = call[c].isActive
         /\ call'[c].setting = call[c].setting
<1>1. call[c] \in OnTeam
  BY WorkType
<1>2. call'[c] = [call[c] EXCEPT !.pc = pc, !.next = n]
  BY DEF Goto, TypeOK
<1> QED
  BY <1>1, <1>2 DEF OnTeam

(* A reconciling call is alone on an undisturbed team, and what it read is     *)
(* current unless a writer waits.                                              *)
LEMMA Alone ==
  ASSUME TypeOK, NEW c \in Calls, NEW t \in Teams, Works(c, t),
         TeamInv(t), ~disturbed[t]
  PROVE  /\ \A o \in Calls : Works(o, t) => o = c
         /\ ~Waits(c, t)
         /\ Progress(c)
         /\ Current(c) \/ \E o \in Calls : Waits(o, t)
<1>1. ~Waits(c, t)
  BY DEF Works, Waits, Reconciling, Written
<1> QED
  BY <1>1 DEF TeamInv

(* It goes on, with its progress as it should be...                            *)
LEMMA GoingOn ==
  ASSUME TypeOK, NEW c \in Calls, NEW t \in Teams, Works(c, t), TeamInv(t),
         disturbed'[t] = disturbed[t], UNCHANGED <<team, config>>,
         \A o \in Calls : o # c => call'[o] = call[o],
         NEW pc \in Reconciling, NEW n \in 1..4, Goto(c, pc, n),
         ~disturbed[t] => Progress(c)'
  PROVE  TeamInv(t)'
<1> SUFFICES ASSUME ~disturbed[t] PROVE TeamInv(t)'
  BY DEF TeamInv
<1>1. call[c].pc \in Reconciling /\ call[c].team = t
  BY DEF Works
<1>2. /\ call'[c].pc = pc /\ call'[c].team = t
      /\ call'[c].isActive = call[c].isActive
      /\ call'[c].setting = call[c].setting
  BY <1>1, GotoFields
<1>3. Works(c, t)' /\ Progress(c)'
  BY <1>2 DEF Works
<1>4. \A o \in Calls : Works(o, t)' => o = c
  BY Alone DEF Works
<1>5. Current(c) => Current(c)'
  BY <1>1, <1>2 DEF Current, Active
<1>6. \A o \in Calls : Waits(o, t) => Waits(o, t)'
  BY Alone DEF Waits
<1> QED
  BY <1>3, <1>4, <1>5, <1>6, Alone DEF TeamInv, BeingSet

(* ... or ends, with all as it should be if what it read is current.           *)
LEMMA Finishing ==
  ASSUME TypeOK, NEW c \in Calls, NEW t \in Teams, Works(c, t), TeamInv(t),
         disturbed'[t] = disturbed[t], UNCHANGED <<team, config>>,
         \A o \in Calls : o # c => call'[o] = call[o], Finish(c),
         ~disturbed[t] /\ Current(c) =>
           \A k \in Kinds : scheduler'[t][k] = Wanted(t, k)
  PROVE  TeamInv(t)'
<1> SUFFICES ASSUME ~disturbed[t] PROVE TeamInv(t)'
  BY DEF TeamInv
<1>1. call'[c].pc \in {"idle", "boot"}
  <2>1. call[c].rest \in SUBSET Teams
    BY WorkType DEF Works
  <2>2. call'[c] = Rest(call[c].rest)
    BY DEF Finish, TypeOK
  <2> QED
    BY <2>1, <2>2, RestType
<1>2. \A o \in Calls : ~Works(o, t)'
  BY <1>1, Alone DEF Works, Reconciling
<1>3. (\E o \in Calls : Waits(o, t)) => BeingSet(t)'
  BY Alone DEF Waits, BeingSet
<1>4. \A k \in Kinds : Wanted(t, k)' = Wanted(t, k)
  BY DEF Wanted, Active
<1> QED
  BY <1>2, <1>3, <1>4, Alone DEF TeamInv

(* The kinds a call has done are not the one it is at; after the fourth, all   *)
(* are done.                                                                   *)
LEMMA DoneKinds ==
  ASSUME TypeOK, NEW c \in Calls, call[c].pc \in Reconciling
  PROVE  /\ Done(c) \subseteq Kinds /\ Kind(c) \notin Done(c)
         /\ call[c].next = 4 => Kinds \subseteq Done(c) \union {Kind(c)}
         /\ \A pc \in Reconciling : Goto(c, pc, 1) => Done(c)' = {}
         /\ \A pc \in Reconciling :
              call[c].next < 4 /\ Goto(c, pc, call[c].next + 1)
                => Done(c)' \subseteq Done(c) \union {Kind(c)}
<1>1. call[c].next \in 1..4
  BY WorkType
<1>2. Done(c) \subseteq Kinds /\ Kind(c) \notin Done(c)
  BY <1>1, OrderOfKinds DEF Done, Kind
<1>3. call[c].next = 4 => Kinds \subseteq Done(c) \union {Kind(c)}
  BY OrderOfKinds DEF Done, Kind
<1>4. ASSUME NEW pc \in Reconciling, NEW n \in 1..4, Goto(c, pc, n)
      PROVE  call'[c].next = n
  <2>1. call[c] \in OnTeam
    BY WorkType
  <2>2. call'[c] = [call[c] EXCEPT !.pc = pc, !.next = n]
    BY <1>4 DEF Goto, TypeOK
  <2> QED
    BY <2>1, <2>2 DEF OnTeam
<1>5. \A pc \in Reconciling : Goto(c, pc, 1) => Done(c)' = {}
  BY <1>4 DEF Done
<1>6. \A pc \in Reconciling :
        call[c].next < 4 /\ Goto(c, pc, call[c].next + 1)
          => Done(c)' \subseteq Done(c) \union {Kind(c)}
  <2> SUFFICES ASSUME NEW pc \in Reconciling, call[c].next < 4,
                      Goto(c, pc, call[c].next + 1)
               PROVE  Done(c)' \subseteq Done(c) \union {Kind(c)}
    OBVIOUS
  <2>1. call'[c].next = call[c].next + 1
    BY <1>1, <1>4
  <2> QED
    BY <1>1, <2>1 DEF Done, Kind
<1> QED
  BY <1>2, <1>3, <1>5, <1>6

LEMMA QuietInit == Init => QuietInv
<1> SUFFICES ASSUME Init, NEW t \in Teams PROVE TeamInv(t)
  BY DEF QuietInv
<1>1. \A c \in Calls : ~Works(c, t)
  BY DEF Init, Works, Ended, Reconciling
<1>2. \A k \in Kinds : scheduler[t][k] = Wanted(t, k)
  BY DEF Init, Wanted, Active
<1> QED
  BY <1>1, <1>2 DEF TeamInv

(* A call that reads the team: alone, it starts with nothing done; else the    *)
(* team is disturbed.                                                          *)
LEMMA Reading ==
  ASSUME TypeOK, NEW c \in Calls, NEW t \in Teams, NEW rest, TeamInv(t),
         ~Works(c, t), ReadTeam(c, t, rest)
  PROVE  TeamInv(t)'
<1>1. disturbed'[t] = \E o \in Calls \ {c} : Works(o, t)
  BY DEF ReadTeam, TypeOK
<1> SUFFICES ASSUME \A o \in Calls \ {c} : ~Works(o, t) PROVE TeamInv(t)'
  BY <1>1 DEF TeamInv
<1>2. call'[c] = [pc |-> "remove", team |-> t, isActive |-> Active(t),
                  setting |-> config[t].setting, next |-> 1, rest |-> rest]
  BY DEF ReadTeam, TypeOK
<1>3. \A o \in Calls : o # c => call'[o] = call[o]
  BY DEF ReadTeam, TypeOK
<1>4. Works(c, t)' /\ Progress(c)' /\ Current(c)'
  <2>1. Works(c, t)'
    BY <1>2 DEF Works, Reconciling
  <2>2. Progress(c)'
    BY <1>2 DEF Progress, Done
  <2>3. Current(c)'
    BY <1>2 DEF Current, Active, ReadTeam
  <2> QED
    BY <2>1, <2>2, <2>3
<1>5. \A o \in Calls : Works(o, t)' => o = c
  BY <1>3 DEF Works
<1> QED
  BY <1>4, <1>5 DEF TeamInv, BeingSet

(* A removal done for an inactive team stands.                                 *)
LEMMA Removing ==
  ASSUME TypeOK, NEW c \in Calls, NEW t \in Teams, Works(c, t), TeamInv(t), Remove(c)
  PROVE  TeamInv(t)'
<1>1. call[c].pc = "remove" /\ call[c].pc \in Reconciling /\ call[c].team = t
  BY DEF Remove, At, Works
<1>2. /\ UNCHANGED <<team, config>>
      /\ disturbed'[t] = disturbed[t]
      /\ \A o \in Calls : o # c => call'[o] = call[o]
  BY <1>1, AfterRemoveStep, WorkStep DEF Remove
<1>3. /\ scheduler'[t][Kind(c)] = NoScheduler
      /\ \A k \in Kinds : k # Kind(c) => scheduler'[t][k] = scheduler[t][k]
  <2>1. NoScheduler \in Entries
    BY DEF Entries
  <2> QED
    BY <1>1, <2>1, SetType DEF Remove
<1>4. call[c].next \in 1..4 /\ call[c].isActive \in BOOLEAN
  BY <1>1, WorkType
<1>5. Done(c) \subseteq Kinds
  BY <1>1, DoneKinds
<1>6. ~disturbed[t] /\ ~call[c].isActive =>
        \A k \in Done(c) \union {Kind(c)} : scheduler'[t][k] = NoScheduler
  BY <1>1, <1>3, <1>5, Alone DEF Progress
<1>7. CASE call[c].next < 4 /\ Goto(c, "remove", call[c].next + 1)
  <2>1. "remove" \in Reconciling /\ call[c].next + 1 \in 1..4
    BY <1>4, <1>7 DEF Reconciling
  <2>2. /\ call'[c].pc = "remove" /\ call'[c].team = t
        /\ call'[c].isActive = call[c].isActive
    BY <1>1, <1>7, <2>1, GotoFields
  <2>3. Done(c)' \subseteq Done(c) \union {Kind(c)}
    BY <1>1, <1>7, <2>1, DoneKinds
  <2>4. ~disturbed[t] => Progress(c)'
    BY <1>6, <2>2, <2>3 DEF Progress
  <2> QED
    BY <1>2, <1>7, <2>1, <2>4, GoingOn
<1>8. CASE call[c].isActive /\ Goto(c, "register", 1)
  <2>1. "register" \in Reconciling /\ 1 \in 1..4
    BY DEF Reconciling
  <2>2. call'[c].pc = "register" /\ call'[c].isActive = call[c].isActive
    BY <1>1, <1>8, <2>1, GotoFields
  <2>3. Done(c)' = {}
    BY <1>1, <1>8, <2>1, DoneKinds
  <2>4. Progress(c)'
    BY <1>8, <2>2, <2>3 DEF Progress
  <2> QED
    BY <1>2, <1>8, <2>1, <2>4, GoingOn
<1>9. CASE call[c].next = 4 /\ ~call[c].isActive /\ Finish(c)
  <2>1. Kinds \subseteq Done(c) \union {Kind(c)}
    BY <1>1, <1>9, DoneKinds
  <2>2. ~disturbed[t] /\ Current(c) =>
          \A k \in Kinds : scheduler'[t][k] = Wanted(t, k)
    BY <1>1, <1>6, <1>9, <2>1 DEF Current, Wanted
  <2> QED
    BY <1>2, <1>9, <2>2, Finishing
<1> QED
  BY <1>7, <1>8, <1>9 DEF Remove, AfterRemove

(* A registration is the one of the setting that was read.                     *)
LEMMA Registering ==
  ASSUME TypeOK, NEW c \in Calls, NEW t \in Teams, Works(c, t), TeamInv(t), Register(c)
  PROVE  TeamInv(t)'
<1>1. call[c].pc = "register" /\ call[c].pc \in Reconciling /\ call[c].team = t
  BY DEF Register, At, Works
<1>4. call[c].next \in 1..4 /\ Kind(c) \in Kinds /\ call[c].setting \in Settings
  BY <1>1, WorkType
<1>0. "register" \in Reconciling
  BY DEF Reconciling
<1>2. /\ UNCHANGED <<team, config>>
      /\ disturbed'[t] = disturbed[t]
      /\ \A o \in Calls : o # c => call'[o] = call[o]
  <2>1. (\E pc \in Reconciling, n \in 1..4 : Goto(c, pc, n)) \/ Finish(c)
    BY <1>0, <1>4 DEF Register
  <2> QED
    BY <1>1, <2>1, WorkStep DEF Register
<1>3. /\ scheduler'[t][Kind(c)] = Registered(call[c].setting, Kind(c))
      /\ \A k \in Kinds : k # Kind(c) => scheduler'[t][k] = scheduler[t][k]
  <2>1. Registered(call[c].setting, Kind(c)) \in Entries
    BY <1>4 DEF Entries
  <2> QED
    BY <1>1, <2>1, SetType DEF Register
<1>5. Done(c) \subseteq Kinds
  BY <1>1, DoneKinds
<1>6. ~disturbed[t] =>
        /\ call[c].isActive
        /\ \A k \in Done(c) \union {Kind(c)} :
             scheduler'[t][k] = Registered(call[c].setting, k)
  BY <1>1, <1>3, <1>5, Alone DEF Progress
<1>7. CASE call[c].next < 4 /\ Goto(c, "register", call[c].next + 1)
  <2>1. call[c].next + 1 \in 1..4
    BY <1>4, <1>7
  <2>2. /\ call'[c].pc = "register" /\ call'[c].team = t
        /\ call'[c].isActive = call[c].isActive
        /\ call'[c].setting = call[c].setting
    BY <1>0, <1>1, <1>7, <2>1, GotoFields
  <2>3. Done(c)' \subseteq Done(c) \union {Kind(c)}
    BY <1>0, <1>1, <1>7, DoneKinds
  <2>4. ~disturbed[t] => Progress(c)'
    BY <1>6, <2>2, <2>3 DEF Progress
  <2> QED
    BY <1>0, <1>2, <1>7, <2>1, <2>4, GoingOn
<1>8. CASE call[c].next = 4 /\ Finish(c)
  <2>1. Kinds \subseteq Done(c) \union {Kind(c)}
    BY <1>1, <1>8, DoneKinds
  <2>2. ~disturbed[t] /\ Current(c) =>
          \A k \in Kinds : scheduler'[t][k] = Wanted(t, k)
    BY <1>1, <1>6, <2>1 DEF Current, Wanted, Active
  <2> QED
    BY <1>2, <1>8, <2>2, Finishing
<1> QED
  BY <1>7, <1>8 DEF Register

(* The step of a reconciling call leaves the other teams alone.                *)
LEMMA OtherTeam ==
  ASSUME TypeOK, NEW c \in Calls, NEW u \in Teams, TeamInv(u),
         call[c].pc \in Reconciling, call[c].team # u,
         (\E pc \in Reconciling, n \in 1..4 : Goto(c, pc, n)) \/ Finish(c),
         scheduler'[u] = scheduler[u], disturbed'[u] = disturbed[u],
         UNCHANGED <<team, config>>
  PROVE  TeamInv(u)'
<1>1. call[c].pc \notin Written
  BY DEF Reconciling, Written
<1>2. \A o \in Calls : o # c => call'[o] = call[o]
  BY WorkStep
<1>3. ~Waits(c, u)' /\ ~Works(c, u)'
  <2>1. CASE call'[c].pc \in {"idle", "boot"}
    BY <2>1 DEF Waits, Works, Written, Reconciling
  <2>2. CASE call'[c].team = call[c].team
    BY <2>2 DEF Waits, Works
  <2> QED
    BY <2>1, <2>2, WorkStep
<1> QED
  BY <1>1, <1>2, <1>3, Elsewhere DEF Waits, Works

LEMMA QuietStep == TypeOK /\ QuietInv /\ [Next]_vars => QuietInv'
<1> SUFFICES ASSUME TypeOK, [Next]_vars, NEW u \in Teams, TeamInv(u)
             PROVE  TeamInv(u)'
  BY DEF QuietInv
<1>a. /\ team \in [Teams -> {"none", "live", "deleted"}]
      /\ config \in [Teams -> [isActive : BOOLEAN, setting : Settings]]
      /\ call \in [Calls -> CallStates]
      /\ disturbed \in [Teams -> BOOLEAN]
  BY DEF TypeOK, CallStates, OnTeam
<1>1. ASSUME NEW c \in Calls, NEW t \in Teams, CreateTeam(c, t) PROVE TeamInv(u)'
  <2>1. call'[c] = [pc |-> "read", team |-> t]
    BY <1>1, <1>a DEF CreateTeam
  <2>2. ~Waits(c, u) /\ ~Works(c, u)
    BY <1>1 DEF CreateTeam, At, Waits, Works, Written, Reconciling
  <2>3. \A o \in Calls : o # c => call'[o] = call[o]
    BY <1>1, <1>a DEF CreateTeam
  <2>4. CASE u = t
    <3>1. Waits(c, u)'
      BY <2>1, <2>4 DEF Waits, Written
    <3> QED
      BY <1>1, <2>2, <2>3, <3>1, Writing DEF CreateTeam
  <2>5. CASE u # t
    <3>1. ~Waits(c, u)' /\ ~Works(c, u)'
      BY <2>1, <2>5 DEF Waits, Works
    <3>2. team'[u] = team[u]
      BY <1>1, <1>a, <2>5 DEF CreateTeam
    <3> QED
      BY <1>1, <2>2, <2>3, <3>1, <3>2, Elsewhere DEF CreateTeam
  <2> QED
    BY <2>4, <2>5
<1>2. ASSUME NEW c \in Calls, NEW t \in Teams, Admit(c, t) PROVE TeamInv(u)'
  <2>1. ~Waits(c, u) /\ ~Works(c, u)
    BY <1>2 DEF Admit, At, Waits, Works, Written, Reconciling
  <2>2. ~Waits(c, u)' /\ ~Works(c, u)'
    <3>1. PICK what \in Asked : call'[c] = [pc |-> what, team |-> t]
      BY <1>2, <1>a DEF Admit
    <3> QED
      BY <3>1 DEF Waits, Works, Written, Reconciling, Asked
  <2>3. \A o \in Calls : o # c => call'[o] = call[o]
    BY <1>2, <1>a DEF Admit
  <2> QED
    BY <1>2, <2>1, <2>2, <2>3, Elsewhere DEF Admit
<1>3. ASSUME NEW c \in Calls, UpdateConfig(c) \/ SoftDelete(c) PROVE TeamInv(u)'
  <2>1. call[c].pc \in Asked /\ call[c] \in [pc : Asked \union Written, team : Teams]
    BY <1>3, AskType DEF UpdateConfig, SoftDelete, At, Asked
  <2>2. call'[c].pc = "read" /\ call'[c].team = call[c].team
    <3>1. call'[c] = [call[c] EXCEPT !.pc = "read"]
      BY <1>3, <1>a DEF UpdateConfig, SoftDelete
    <3> QED
      BY <2>1, <3>1
  <2>3. ~Waits(c, u) /\ ~Works(c, u)
    BY <2>1 DEF Asked, Waits, Works, Written, Reconciling
  <2>4. \A o \in Calls : o # c => call'[o] = call[o]
    BY <1>3, <1>a DEF UpdateConfig, SoftDelete
  <2>5. CASE u = call[c].team
    <3>1. Waits(c, u)'
      BY <2>2, <2>5 DEF Waits, Written
    <3> QED
      BY <1>3, <2>3, <2>4, <3>1, Writing DEF UpdateConfig, SoftDelete
  <2>6. CASE u # call[c].team
    <3>1. ~Waits(c, u)' /\ ~Works(c, u)'
      BY <2>2, <2>6 DEF Waits, Works
    <3>2. team'[u] = team[u] /\ config'[u] = config[u]
      BY <1>3, <1>a, <2>6 DEF UpdateConfig, SoftDelete
    <3> QED
      BY <1>3, <2>3, <2>4, <3>1, <3>2, Elsewhere DEF UpdateConfig, SoftDelete
  <2> QED
    BY <2>5, <2>6
<1>4. ASSUME NEW c \in Calls, DeleteAgain(c) \/ Boot(c) PROVE TeamInv(u)'
  <2>1. ~Waits(c, u) /\ ~Works(c, u)
    BY <1>4 DEF DeleteAgain, Boot, At, Waits, Works, Written, Reconciling
  <2>2. call'[c].pc \in {"idle", "boot"}
    BY <1>4, <1>a, RestType DEF DeleteAgain, Boot, Ended
  <2>3. ~Waits(c, u)' /\ ~Works(c, u)'
    BY <2>2 DEF Waits, Works, Written, Reconciling
  <2>4. \A o \in Calls : o # c => call'[o] = call[o]
    BY <1>4, <1>a DEF DeleteAgain, Boot
  <2> QED
    BY <1>4, <2>1, <2>3, <2>4, Elsewhere DEF DeleteAgain, Boot
<1>5. ASSUME NEW c \in Calls, ReadForRequest(c) \/ ReadForBoot(c) PROVE TeamInv(u)'
  <2>1. PICK t \in Teams, rest \in SUBSET Teams : ReadTeam(c, t, rest)
    <3>1. CASE ReadForRequest(c)
      BY <3>1, AskType DEF ReadForRequest, At, Written
    <3>2. CASE ReadForBoot(c)
      BY <3>2, BootType DEF ReadForBoot, At
    <3> QED
      BY <1>5, <3>1, <3>2
  <2>2. ~Works(c, u) /\ (Waits(c, u) => u = t)
    <3>1. CASE ReadForRequest(c)
      <4>1. call[c].pc = "read" /\ call[c].team \in Teams
        BY <3>1, AskType DEF ReadForRequest, At, Written
      <4>2. call'[c].team = call[c].team /\ call'[c].team = t
        BY <1>a, <2>1, <3>1 DEF ReadForRequest, ReadTeam
      <4> QED
        BY <4>1, <4>2 DEF Works, Waits, Reconciling
    <3>2. CASE ReadForBoot(c)
      BY <3>2 DEF ReadForBoot, At, Works, Waits, Written, Reconciling
    <3> QED
      BY <1>5, <3>1, <3>2
  <2>3. CASE u = t
    BY <2>1, <2>2, <2>3, Reading
  <2>4. CASE u # t
    <3>1. ~Waits(c, u)' /\ ~Works(c, u)'
      BY <1>a, <2>1, <2>4 DEF ReadTeam, Waits, Works
    <3>2. \A o \in Calls : o # c => call'[o] = call[o]
      BY <1>a, <2>1 DEF ReadTeam
    <3>3. disturbed'[u] = disturbed[u]
      BY <1>a, <2>1, <2>4 DEF ReadTeam
    <3>4. UNCHANGED <<team, config, scheduler>>
      BY <2>1 DEF ReadTeam
    <3> QED
      BY <2>2, <2>4, <3>1, <3>2, <3>3, <3>4, Elsewhere
  <2> QED
    BY <2>3, <2>4
<1>6. ASSUME NEW c \in Calls, Remove(c) PROVE TeamInv(u)'
  <2>1. call[c].pc \in Reconciling /\ NoScheduler \in Entries
    BY <1>6 DEF Remove, At, Reconciling, Entries
  <2>2. CASE u = call[c].team
    BY <1>6, <2>1, <2>2, Removing DEF Works
  <2>3. CASE u # call[c].team
    BY <1>6, <2>1, <2>3, AfterRemoveStep, SetType, OtherTeam DEF Remove
  <2> QED
    BY <2>2, <2>3
<1>7. ASSUME NEW c \in Calls, Register(c) PROVE TeamInv(u)'
  <2>1. call[c].pc \in Reconciling /\ "register" \in Reconciling
    BY <1>7 DEF Register, At, Reconciling
  <2>2. CASE u = call[c].team
    BY <1>7, <2>1, <2>2, Registering DEF Works
  <2>3. CASE u # call[c].team
    <3>1. (\E pc \in Reconciling, n \in 1..4 : Goto(c, pc, n)) \/ Finish(c)
      BY <1>7, <2>1, WorkType DEF Register
    <3>2. scheduler'[u] = scheduler[u]
      <4>1. Registered(call[c].setting, Kind(c)) \in Entries
        BY <2>1, WorkType DEF Entries
      <4> QED
        BY <1>7, <2>1, <2>3, <4>1, SetType DEF Register
    <3> QED
      BY <1>7, <2>1, <2>3, <3>1, <3>2, OtherTeam DEF Register
  <2> QED
    BY <2>2, <2>3
<1>8. ASSUME NEW c \in Calls, RemoveRejected(c) PROVE TeamInv(u)'
  <2>1. call[c].pc = "remove" /\ call[c].pc \in Reconciling
    BY <1>8 DEF RemoveRejected, At, Reconciling
  <2>2. /\ call[c].isActive \in BOOLEAN /\ call[c].next \in 1..4
        /\ call[c].team \in Teams
    BY <2>1, WorkType
  <2>3. CASE u # call[c].team
    <3>1. disturbed'[u] = disturbed[u]
      BY <1>8, <1>a, <2>2, <2>3 DEF RemoveRejected, Disturb
    <3> QED
      BY <1>8, <2>1, <2>3, <3>1, AfterRemoveStep, OtherTeam DEF RemoveRejected
  <2>4. CASE u = call[c].team /\ ~call[c].isActive
    BY <1>8, <1>a, <2>4 DEF RemoveRejected, Disturb, TeamInv
  <2>5. CASE u = call[c].team /\ call[c].isActive
    <3>1. Works(c, u)
      BY <2>1, <2>5 DEF Works
    <3>2. PICK pc \in Reconciling, n \in 1..4 :
            Goto(c, pc, n) /\ (pc = "register" => n = 1)
      <4>1. "remove" \in Reconciling /\ "register" \in Reconciling
        BY DEF Reconciling
      <4> QED
        BY <1>8, <2>2, <2>5, <4>1 DEF RemoveRejected, AfterRemove
    <3>3. call'[c].pc = pc /\ call'[c].isActive = call[c].isActive
      BY <2>1, <3>2, GotoFields
    <3>4. pc = "register" => Done(c)' = {}
      BY <2>1, <3>2, DoneKinds
    <3>5. Progress(c)'
      BY <2>5, <3>3, <3>4 DEF Progress
    <3>6. \A o \in Calls : o # c => call'[o] = call[o]
      BY <1>a, <3>2 DEF Goto
    <3>7. disturbed'[u] = disturbed[u] /\ UNCHANGED <<team, config>>
      BY <1>8, <2>5 DEF RemoveRejected
    <3> QED
      BY <3>1, <3>2, <3>5, <3>6, <3>7, GoingOn
  <2> QED
    BY <2>2, <2>3, <2>4, <2>5
<1>9. ASSUME NEW c \in Calls, CallDies(c) PROVE TeamInv(u)'
  <2>1. call'[c] = Ended /\ \A o \in Calls : o # c => call'[o] = call[o]
    BY <1>9, <1>a DEF CallDies
  <2>2. ~Waits(c, u)' /\ ~Works(c, u)'
    BY <2>1 DEF Waits, Works, Ended, Written, Reconciling
  <2>3. CASE Waits(c, u) \/ Works(c, u)
    BY <1>9, <1>a, <2>3 DEF CallDies, Disturb, Waits, Works, TeamInv
  <2>4. CASE ~Waits(c, u) /\ ~Works(c, u)
    <3>1. disturbed'[u] = disturbed[u]
      BY <1>9, <1>a, <2>4 DEF CallDies, Disturb, Waits, Works
    <3> QED
      BY <1>9, <2>1, <2>2, <2>4, <3>1, Elsewhere DEF CallDies
  <2> QED
    BY <2>3, <2>4
<1>10. CASE UNCHANGED vars
  <2>1. /\ UNCHANGED <<team, config, scheduler, call, disturbed>>
    BY <1>10 DEF vars
  <2>2. \A o \in Calls : (Works(o, u)' <=> Works(o, u)) /\ (Waits(o, u)' <=> Waits(o, u))
    BY <2>1 DEF Works, Waits
  <2>3. \A o \in Calls : (Progress(o)' <=> Progress(o)) /\ (Current(o)' <=> Current(o))
    BY <2>1 DEF Progress, Current, Done, Wanted, Active
  <2> QED
    BY <2>1, <2>2, <2>3 DEF TeamInv, BeingSet, Works, Waits, Wanted, Active
<1> QED
  BY <1>1, <1>2, <1>3, <1>4, <1>5, <1>6, <1>7, <1>8, <1>9, <1>10
  DEF Next, Start, CallStep

(* A team that no call is at work on has the schedulers its configuration asks *)
(* for, unless calls overlapped or failed since one last read the team alone.  *)
THEOREM QuietCorrect == Spec => []QuietTeamsMatch
<1>1. TypeOK /\ QuietInv => QuietTeamsMatch
  <2> SUFFICES ASSUME TypeOK, QuietInv, NEW t \in Teams, ~BeingSet(t), ~disturbed[t]
               PROVE  Matches(t)
    BY DEF QuietTeamsMatch
  <2>1. \A k \in Kinds : scheduler[t][k] = Wanted(t, k)
    BY DEF QuietInv, TeamInv
  <2> QED
    BY <2>1, RegisteredOnTime
<1> QED
  BY <1>1, TypeCorrect, QuietInit, QuietStep, PTL DEF Spec

-----------------------------------------------------------------------------
(* What BootRepairs comes to: a team is seen through, and no call runs for     *)
(* ever.                                                                       *)

(* What is registered is what the configuration asks for, after a step too.    *)
OnTimeSaid == TypeOK => \A t \in Teams :
  (\A k \in Kinds : scheduler[t][k] = Wanted(t, k)) => Matches(t)

LEMMA OnTimeNow == OnTimeSaid
<1> SUFFICES ASSUME TypeOK, NEW t \in Teams,
                    \A k \in Kinds : scheduler[t][k] = Wanted(t, k)
             PROVE  Matches(t)
  BY DEF OnTimeSaid
<1> QED
  BY RegisteredOnTime

LEMMA OnTimeNext == OnTimeSaid'
BY OnTimeNow, PTL

(* A step of a call that is not on the team, and has not come to it, leaves    *)
(* the team, its configuration and its schedulers alone.                       *)
LEMMA OffTeam ==
  ASSUME TypeOK, NEW o \in Calls, NEW t \in Teams, Start(o) \/ CallStep(o),
         ~Waits(o, t), ~Works(o, t), ~Waits(o, t)'
  PROVE  /\ team'[t] = team[t] /\ config'[t] = config[t] /\ scheduler'[t] = scheduler[t]
         /\ \A c \in Calls : c # o => call'[c] = call[c]
<1>a. /\ team \in [Teams -> {"none", "live", "deleted"}]
      /\ config \in [Teams -> [isActive : BOOLEAN, setting : Settings]]
      /\ call \in [Calls -> CallStates]
  BY DEF TypeOK, CallStates, OnTeam
<1>1. ASSUME NEW u \in Teams, CreateTeam(o, u) PROVE u # t
  <2>1. call'[o] = [pc |-> "read", team |-> u]
    BY <1>1, <1>a DEF CreateTeam
  <2> QED
    BY <2>1 DEF Waits, Written
<1>2. ASSUME UpdateConfig(o) \/ SoftDelete(o) PROVE call[o].team # t
  <2>1. call[o] \in [pc : Asked \union Written, team : Teams]
    BY <1>2, AskType DEF UpdateConfig, SoftDelete, At, Asked
  <2>2. call'[o] = [call[o] EXCEPT !.pc = "read"]
    BY <1>2, <1>a DEF UpdateConfig, SoftDelete
  <2>3. call'[o].pc = "read" /\ call'[o].team = call[o].team
    BY <2>1, <2>2
  <2> QED
    BY <2>3 DEF Waits, Written
<1>3. ASSUME Remove(o) \/ Register(o)
      PROVE  /\ scheduler'[t] = scheduler[t]
             /\ \A c \in Calls : c # o => call'[c] = call[c]
  <2>1. call[o].pc \in Reconciling
    BY <1>3 DEF Remove, Register, At, Reconciling
  <2>2. call[o].team # t
    BY <2>1 DEF Works
  <2>3. NoScheduler \in Entries /\ Registered(call[o].setting, Kind(o)) \in Entries
    BY <2>1, WorkType DEF Entries
  <2>4. (\E pc \in Reconciling, n \in 1..4 : Goto(o, pc, n)) \/ Finish(o)
    BY <1>3, <2>1, AfterRemoveStep, WorkType DEF Remove, Register, Reconciling
  <2>5. scheduler'[t] = scheduler[t]
    <3>1. PICK value \in Entries : SetScheduler(o, value)
      BY <1>3, <2>3 DEF Remove, Register
    <3> QED
      BY <2>1, <2>2, <3>1, SetType
  <2> QED
    BY <2>1, <2>4, <2>5, WorkStep
<1>4. ASSUME NEW u \in Teams, Admit(o, u)
      PROVE  /\ UNCHANGED <<team, config, scheduler>>
             /\ \A c \in Calls : c # o => call'[c] = call[c]
  BY <1>4, <1>a DEF Admit
<1>5. ASSUME Boot(o) \/ DeleteAgain(o) \/ ReadForRequest(o) \/ ReadForBoot(o)
      PROVE  /\ UNCHANGED <<team, config, scheduler>>
             /\ \A c \in Calls : c # o => call'[c] = call[c]
  BY <1>5, <1>a DEF Boot, DeleteAgain, ReadForRequest, ReadForBoot, ReadTeam
<1>6. ASSUME NEW u \in Teams, CreateTeam(o, u)
      PROVE  /\ team'[t] = team[t] /\ UNCHANGED <<config, scheduler>>
             /\ \A c \in Calls : c # o => call'[c] = call[c]
  BY <1>1, <1>6, <1>a DEF CreateTeam
<1>7. ASSUME UpdateConfig(o) \/ SoftDelete(o)
      PROVE  /\ team'[t] = team[t] /\ config'[t] = config[t] /\ UNCHANGED scheduler
             /\ \A c \in Calls : c # o => call'[c] = call[c]
  BY <1>2, <1>7, <1>a DEF UpdateConfig, SoftDelete
<1> QED
  BY <1>3, <1>4, <1>5, <1>6, <1>7 DEF Start, CallStep, Remove, Register

(* A call that goes on keeps its list; one that ends a team has it before it.  *)
LEMMA ListKept ==
  ASSUME TypeOK, NEW c \in Calls, NEW t \in Teams, call[c].pc \in Reconciling,
         t \in call[c].rest,
         (\E pc \in Reconciling, n \in 1..4 : Goto(c, pc, n)) \/ Finish(c)
  PROVE  InRest(c, t)'
<1>0. call \in [Calls -> CallStates]
  BY DEF TypeOK, CallStates, OnTeam
<1>1. call[c] \in OnTeam
  BY WorkType
<1>2. CASE Finish(c)
  <2>1. call'[c] = Rest(call[c].rest)
    BY <1>2 DEF Finish, TypeOK
  <2> QED
    BY <2>1 DEF Rest, InRest, Booting
<1>3. ASSUME NEW pc \in Reconciling, NEW n \in 1..4, Goto(c, pc, n) PROVE InRest(c, t)'
  <2>1. call'[c] = [call[c] EXCEPT !.pc = pc, !.next = n]
    BY <1>0, <1>3 DEF Goto
  <2>2. call'[c].pc = pc /\ call'[c].rest = call[c].rest
    BY <1>1, <2>1 DEF OnTeam
  <2> QED
    BY <2>2 DEF InRest
<1> QED
  BY <1>2, <1>3

(* The removals of an undisturbed call are steps towards what is wanted...     *)
LEMMA RemovedOn ==
  ASSUME TypeOK, TypeOK', NEW c \in Calls, NEW t \in Teams, Works(c, t),
         Progress(c), Current(c), Remove(c)
  PROVE  (Works(c, t) /\ Progress(c) /\ Current(c))' \/ Matches(t)'
<1>1. call[c].pc = "remove" /\ call[c].pc \in Reconciling /\ call[c].team = t
  BY DEF Remove, At, Works
<1>2. UNCHANGED <<team, config>>
  BY DEF Remove
<1>3. /\ scheduler'[t][Kind(c)] = NoScheduler
      /\ \A k \in Kinds : k # Kind(c) => scheduler'[t][k] = scheduler[t][k]
  <2>1. NoScheduler \in Entries
    BY DEF Entries
  <2> QED
    BY <1>1, <2>1, SetType DEF Remove
<1>4. call[c].next \in 1..4 /\ call[c].isActive \in BOOLEAN
  BY <1>1, WorkType
<1>5. Done(c) \subseteq Kinds
  BY <1>1, DoneKinds
<1>6. ~call[c].isActive =>
        \A k \in Done(c) \union {Kind(c)} : scheduler'[t][k] = NoScheduler
  BY <1>1, <1>3, <1>5 DEF Progress
<1>7. ASSUME NEW pc \in Reconciling, NEW n \in 1..4, Goto(c, pc, n), Progress(c)'
      PROVE  (Works(c, t) /\ Progress(c) /\ Current(c))'
  <2>1. /\ call'[c].pc = pc /\ call'[c].team = t
        /\ call'[c].isActive = call[c].isActive
        /\ call'[c].setting = call[c].setting
    BY <1>1, <1>7, GotoFields
  <2> QED
    BY <1>1, <1>2, <1>7, <2>1 DEF Works, Current, Active
<1>8. CASE call[c].next < 4 /\ Goto(c, "remove", call[c].next + 1)
  <2>1. "remove" \in Reconciling /\ call[c].next + 1 \in 1..4
    BY <1>4, <1>8 DEF Reconciling
  <2>2. /\ call'[c].pc = "remove" /\ call'[c].team = t
        /\ call'[c].isActive = call[c].isActive
    BY <1>1, <1>8, <2>1, GotoFields
  <2>3. Done(c)' \subseteq Done(c) \union {Kind(c)}
    BY <1>1, <1>8, <2>1, DoneKinds
  <2>4. Progress(c)'
    BY <1>6, <2>2, <2>3 DEF Progress
  <2> QED
    BY <1>7, <1>8, <2>1, <2>4
<1>9. CASE call[c].isActive /\ Goto(c, "register", 1)
  <2>1. "register" \in Reconciling /\ 1 \in 1..4
    BY DEF Reconciling
  <2>2. call'[c].pc = "register" /\ call'[c].isActive = call[c].isActive
    BY <1>1, <1>9, <2>1, GotoFields
  <2>3. Done(c)' = {}
    BY <1>1, <1>9, <2>1, DoneKinds
  <2>4. Progress(c)'
    BY <1>9, <2>2, <2>3 DEF Progress
  <2> QED
    BY <1>7, <1>9, <2>1, <2>4
<1>10. CASE call[c].next = 4 /\ ~call[c].isActive
  <2>1. Kinds \subseteq Done(c) \union {Kind(c)}
    BY <1>1, <1>10, DoneKinds
  <2>2. ~Active(t)'
    BY <1>1, <1>2, <1>10 DEF Current, Active
  <2> QED
    BY <1>6, <1>10, <2>1, <2>2 DEF Matches, Silent
<1> QED
  BY <1>8, <1>9, <1>10 DEF Remove, AfterRemove

(* ... and so are its registrations, of which the fourth is the last.          *)
LEMMA RegisteredOn ==
  ASSUME TypeOK, TypeOK', NEW c \in Calls, NEW t \in Teams, Works(c, t),
         Progress(c), Current(c), Register(c)
  PROVE  (Works(c, t) /\ Progress(c) /\ Current(c))' \/ Matches(t)'
<1>1. call[c].pc = "register" /\ call[c].pc \in Reconciling /\ call[c].team = t
  BY DEF Register, At, Works
<1>2. UNCHANGED <<team, config>>
  BY DEF Register
<1>3. call[c].next \in 1..4 /\ Kind(c) \in Kinds /\ call[c].setting \in Settings
  BY <1>1, WorkType
<1>4. /\ scheduler'[t][Kind(c)] = Registered(call[c].setting, Kind(c))
      /\ \A k \in Kinds : k # Kind(c) => scheduler'[t][k] = scheduler[t][k]
  <2>1. Registered(call[c].setting, Kind(c)) \in Entries
    BY <1>3 DEF Entries
  <2> QED
    BY <1>1, <2>1, SetType DEF Register
<1>5. Done(c) \subseteq Kinds
  BY <1>1, DoneKinds
<1>6. /\ call[c].isActive
      /\ \A k \in Done(c) \union {Kind(c)} :
           scheduler'[t][k] = Registered(call[c].setting, k)
  BY <1>1, <1>4, <1>5 DEF Progress
<1>7. CASE call[c].next < 4 /\ Goto(c, "register", call[c].next + 1)
  <2>1. "register" \in Reconciling /\ call[c].next + 1 \in 1..4
    BY <1>3, <1>7 DEF Reconciling
  <2>2. /\ call'[c].pc = "register" /\ call'[c].team = t
        /\ call'[c].isActive = call[c].isActive
        /\ call'[c].setting = call[c].setting
    BY <1>1, <1>7, <2>1, GotoFields
  <2>3. Done(c)' \subseteq Done(c) \union {Kind(c)}
    BY <1>1, <1>7, <2>1, DoneKinds
  <2>4. Progress(c)'
    BY <1>6, <2>2, <2>3 DEF Progress
  <2>5. Works(c, t)' /\ Current(c)'
    BY <1>1, <1>2, <2>1, <2>2 DEF Works, Current, Active
  <2> QED
    BY <2>4, <2>5
<1>8. CASE call[c].next = 4
  <2>1. Kinds \subseteq Done(c) \union {Kind(c)}
    BY <1>1, <1>8, DoneKinds
  <2>2. \A k \in Kinds : scheduler'[t][k] = Wanted(t, k)'
    BY <1>1, <1>2, <1>6, <2>1 DEF Current, Wanted, Active
  <2> QED
    BY <2>2, OnTimeNext DEF OnTimeSaid
<1> QED
  BY <1>7, <1>8 DEF Register

LEMMA SeenStep ==
  ASSUME TypeOK, TypeOK', [Next]_vars, NEW c \in Calls, NEW t \in Teams,
         AtIt(c, t), ~OthersOn(c, t), ~OthersOn(c, t)', ~(faults' > faults)
  PROVE  AtIt(c, t)' \/ Matches(t)'
<1>1. \A o \in Calls : ~RemoveRejected(o) /\ ~CallDies(o)
  BY DEF RemoveRejected, CallDies, Fault, TypeOK
<1>2. ASSUME UNCHANGED <<call[c], team[t], config[t], scheduler[t]>>
      PROVE  AtIt(c, t)'
  <2>1. InRest(c, t) => InRest(c, t)'
    BY <1>2 DEF InRest
  <2>2. Works(c, t) /\ Progress(c) /\ Current(c) => (Works(c, t) /\ Progress(c) /\ Current(c))'
    BY <1>2 DEF Works, Progress, Current, Done, Active
  <2> QED
    BY <2>1, <2>2 DEF AtIt
<1>3. ASSUME NEW o \in Calls, o # c, Start(o) \/ CallStep(o) PROVE AtIt(c, t)'
  <2>1. ~Waits(o, t) /\ ~Works(o, t) /\ ~Waits(o, t)'
    BY <1>3 DEF OthersOn
  <2> QED
    BY <1>2, <1>3, <2>1, OffTeam
<1>4. ASSUME Start(c) \/ CallStep(c) PROVE AtIt(c, t)' \/ Matches(t)'
  <2>1. CASE call[c].pc = "boot"
    <3>1. InRest(c, t) /\ t \in call[c].rest
      BY <2>1 DEF AtIt, Works, Reconciling, InRest
    <3>2. PICK u \in Teams : u \in call[c].rest /\ ReadTeam(c, u, call[c].rest \ {u})
      BY <1>4, <2>1 DEF Start, CallStep, Boot, CreateTeam, Admit, UpdateConfig, SoftDelete,
         DeleteAgain, ReadForRequest, ReadForBoot, Remove, Register, At
    <3>3. call'[c] = [pc |-> "remove", team |-> u, isActive |-> Active(u),
                      setting |-> config[u].setting, next |-> 1,
                      rest |-> call[c].rest \ {u}]
      BY <3>2 DEF ReadTeam, TypeOK
    <3>4. CASE u = t
      <4>1. Works(c, t)' /\ Progress(c)'
        BY <3>3, <3>4 DEF Works, Reconciling, Progress, Done
      <4>2. Current(c)'
        BY <3>2, <3>3, <3>4 DEF Current, Active, ReadTeam
      <4> QED
        BY <4>1, <4>2 DEF AtIt
    <3>5. CASE u # t
      BY <3>1, <3>3, <3>5 DEF AtIt, InRest, Reconciling
    <3> QED
      BY <3>4, <3>5
  <2>2. CASE call[c].pc \in Reconciling
    <3>1. Remove(c) \/ Register(c)
      BY <1>4, <2>2 DEF Start, CallStep, Boot, CreateTeam, Admit, UpdateConfig, SoftDelete,
         DeleteAgain, ReadForRequest, ReadForBoot, At, Reconciling
    <3>2. (\E pc \in Reconciling, n \in 1..4 : Goto(c, pc, n)) \/ Finish(c)
      BY <2>2, <3>1, AfterRemoveStep, WorkType DEF Remove, Register, Reconciling
    <3>3. CASE InRest(c, t)
      BY <2>2, <3>2, <3>3, ListKept DEF AtIt, InRest
    <3>4. CASE Works(c, t) /\ Progress(c) /\ Current(c)
      BY <3>1, <3>4, RemovedOn, RegisteredOn DEF AtIt
    <3> QED
      BY <3>3, <3>4 DEF AtIt
  <2> QED
    BY <2>1, <2>2 DEF AtIt, InRest, Works, Booting
<1>5. CASE UNCHANGED vars
  BY <1>2, <1>5 DEF vars
<1> QED
  BY <1>1, <1>3, <1>4, <1>5 DEF Next

(* The safety half of BootRepairs: short of a fault and of other calls on the  *)
(* team, what a boot has before it or a call is at work on is not left before  *)
(* its schedulers are those of the configuration.                              *)
THEOREM SeenThroughCorrect == Spec => SeenThrough
<1>1. TypeOK /\ TypeOK' /\ [Next]_vars =>
        [\A c \in Calls, t \in Teams : AtIt(c, t) /\ ~OthersOn(c, t) =>
           (AtIt(c, t) \/ Matches(t) \/ OthersOn(c, t))' \/ faults' > faults]_vars
  BY SeenStep
<1> QED
  BY <1>1, TypeCorrect, PTL DEF Spec, SeenThrough

(* What a call has left to do at each of its awaits, as numbers.               *)
LEMMA LeftAt ==
  ASSUME TypeOK, IsFiniteSet(Teams), NEW c \in Calls
  PROVE  /\ At(c, "idle") => StepsLeft(c) = 0
         /\ call[c].pc \in Asked => StepsLeft(c) = 11
         /\ call[c].pc \in Written => StepsLeft(c) = 10
         /\ At(c, "boot") => /\ Cardinality(call[c].rest) \in Nat
                             /\ StepsLeft(c) = 1 + 9 * Cardinality(call[c].rest)
         /\ call[c].pc \in Reconciling =>
              /\ Cardinality(call[c].rest) \in Nat /\ call[c].next \in 1..4
              /\ At(c, "remove") =>
                   StepsLeft(c) = 10 - call[c].next + 9 * Cardinality(call[c].rest)
              /\ At(c, "register") =>
                   StepsLeft(c) = 6 - call[c].next + 9 * Cardinality(call[c].rest)
<1>1. \A S \in SUBSET Teams : Cardinality(S) \in Nat
  BY FS_Subset, FS_CardinalityType
<1>2. At(c, "boot") => Cardinality(call[c].rest) \in Nat
  BY <1>1, BootType DEF At
<1>3. call[c].pc \in Reconciling =>
        Cardinality(call[c].rest) \in Nat /\ call[c].next \in 1..4
  BY <1>1, WorkType
<1>4. /\ At(c, "idle") => StepsLeft(c) = 0
      /\ call[c].pc \in Asked => StepsLeft(c) = 11
      /\ call[c].pc \in Written => StepsLeft(c) = 10
  BY DEF StepsLeft, PerTeam, At, Asked, Written
<1>5. At(c, "boot") => StepsLeft(c) = 1 + 9 * Cardinality(call[c].rest)
  BY DEF StepsLeft, PerTeam, At, Asked, Written
<1>6. At(c, "remove") => StepsLeft(c) = 10 - call[c].next + 9 * Cardinality(call[c].rest)
  BY DEF StepsLeft, PerTeam, At, Asked, Written
<1>7. At(c, "register") => StepsLeft(c) = 6 - call[c].next + 9 * Cardinality(call[c].rest)
  BY DEF StepsLeft, PerTeam, At, Asked, Written
<1> QED
  BY <1>2, <1>3, <1>4, <1>5, <1>6, <1>7

LeftSaid(c) ==
  /\ At(c, "idle") => StepsLeft(c) = 0
  /\ ~At(c, "idle") => StepsLeft(c) > 0
  /\ call[c].pc \in Written => StepsLeft(c) = 10
  /\ At(c, "boot") => StepsLeft(c) = 1 + 9 * Cardinality(call[c].rest)
  /\ At(c, "remove") => StepsLeft(c) = 10 - call[c].next + 9 * Cardinality(call[c].rest)
  /\ At(c, "register") => StepsLeft(c) = 6 - call[c].next + 9 * Cardinality(call[c].rest)
LeftInv == TypeOK => \A c \in Calls : LeftSaid(c)

LEMMA LeftNow ==
  ASSUME IsFiniteSet(Teams)
  PROVE  LeftInv
<1> SUFFICES ASSUME TypeOK, NEW c \in Calls PROVE LeftSaid(c)
  BY DEF LeftInv
<1>1. call[c].pc \in {"idle", "boot"} \union Asked \union Written \union Reconciling
  BY DEF TypeOK, Ended, Booting
<1> QED
  BY <1>1, LeftAt DEF LeftSaid, At, Asked, Written, Reconciling

LEMMA LeftNext ==
  ASSUME IsFiniteSet(Teams)
  PROVE  LeftInv'
<1>1. LeftInv
  BY LeftNow
<1> QED
  BY <1>1, PTL

(* A call's own step, and its end, leave it fewer; the others' leave it alone. *)
LEMMA LeftStep ==
  ASSUME TypeOK, TypeOK', IsFiniteSet(Teams), [Next]_vars, NEW c \in Calls,
         call'[c] # call[c], ~At(c, "idle")
  PROVE  StepsLeft(c)' < StepsLeft(c)
<1>0. call \in [Calls -> CallStates]
  BY DEF TypeOK, CallStates, OnTeam
<1>a. LeftSaid(c) /\ LeftSaid(c)'
  BY LeftNow, LeftNext DEF LeftInv
<1>1. ASSUME call'[c] = Ended PROVE StepsLeft(c)' < StepsLeft(c)
  BY <1>1, <1>a DEF LeftSaid, At, Ended
<1>2. ASSUME call[c].pc \in Asked, call'[c] = [call[c] EXCEPT !.pc = "read"]
      PROVE  StepsLeft(c)' < StepsLeft(c)
  <2>1. call[c] \in [pc : Asked \union Written, team : Teams]
    BY <1>2, AskType
  <2>2. StepsLeft(c) = 11
    BY <1>2, LeftAt
  <2>3. call'[c].pc = "read"
    BY <1>2, <2>1
  <2> QED
    BY <1>a, <2>2, <2>3 DEF LeftSaid, Written
<1>3. ASSUME NEW t, NEW rest, ReadTeam(c, t, rest)
      PROVE  StepsLeft(c)' = 9 + 9 * Cardinality(rest)
  <2>1. call'[c] = [pc |-> "remove", team |-> t, isActive |-> Active(t),
                    setting |-> config[t].setting, next |-> 1, rest |-> rest]
    BY <1>0, <1>3 DEF ReadTeam
  <2>2. call'[c].pc = "remove" /\ call'[c].next = 1 /\ call'[c].rest = rest
    BY <2>1
  <2> QED
    BY <1>a, <2>2 DEF LeftSaid, At
<1>4. ASSUME call[c].pc \in Reconciling, Finish(c) PROVE StepsLeft(c)' < StepsLeft(c)
  <2>1. call'[c] = Rest(call[c].rest)
    BY <1>0, <1>4 DEF Finish
  <2>2. Cardinality(call[c].rest) \in Nat /\ call[c].next \in 1..4
    BY <1>4, LeftAt
  <2>3. StepsLeft(c) > 1 + 9 * Cardinality(call[c].rest)
    BY <1>4, <1>a, <2>2 DEF LeftSaid, At, Reconciling
  <2>4. CASE call[c].rest # {}
    <3>1. call'[c].pc = "boot" /\ call'[c].rest = call[c].rest
      BY <2>1, <2>4 DEF Rest
    <3> QED
      BY <1>a, <2>3, <3>1 DEF LeftSaid, At
  <2> QED
    BY <1>1, <2>1, <2>4 DEF Rest
<1>5. ASSUME NEW n \in 1..4, NEW pc \in Reconciling, call[c].pc \in Reconciling,
             Goto(c, pc, n)
      PROVE  /\ call'[c].pc = pc /\ call'[c].next = n /\ call'[c].rest = call[c].rest
             /\ Cardinality(call[c].rest) \in Nat /\ call[c].next \in 1..4
  <2>1. call[c] \in OnTeam
    BY <1>5, WorkType
  <2>2. call'[c] = [call[c] EXCEPT !.pc = pc, !.next = n]
    BY <1>0, <1>5 DEF Goto
  <2> QED
    BY <1>5, <2>1, <2>2, LeftAt DEF OnTeam
<1>6. ASSUME At(c, "remove"), AfterRemove(c) PROVE StepsLeft(c)' < StepsLeft(c)
  <2>1. call[c].pc \in Reconciling /\ call[c].next \in 1..4
    BY <1>6, WorkType DEF At, Reconciling
  <2>2. CASE call[c].next < 4 /\ Goto(c, "remove", call[c].next + 1)
    <3>1. /\ call'[c].pc = "remove" /\ call'[c].next = call[c].next + 1
          /\ call'[c].rest = call[c].rest /\ Cardinality(call[c].rest) \in Nat
      BY <1>5, <2>1, <2>2 DEF Reconciling
    <3> QED
      BY <1>6, <1>a, <2>1, <3>1 DEF LeftSaid, At
  <2>3. CASE call[c].next = 4 /\ Goto(c, "register", 1)
    <3>1. /\ call'[c].pc = "register" /\ call'[c].next = 1
          /\ call'[c].rest = call[c].rest /\ Cardinality(call[c].rest) \in Nat
      BY <1>5, <2>1, <2>3 DEF Reconciling
    <3> QED
      BY <1>6, <1>a, <2>3, <3>1 DEF LeftSaid, At
  <2> QED
    BY <1>4, <1>6, <2>1, <2>2, <2>3 DEF AfterRemove
<1>7. ASSUME Register(c) PROVE StepsLeft(c)' < StepsLeft(c)
  <2>1. At(c, "register") /\ call[c].pc \in Reconciling /\ call[c].next \in 1..4
    BY <1>7, WorkType DEF Register, At, Reconciling
  <2>2. CASE call[c].next < 4 /\ Goto(c, "register", call[c].next + 1)
    <3>1. /\ call'[c].pc = "register" /\ call'[c].next = call[c].next + 1
          /\ call'[c].rest = call[c].rest /\ Cardinality(call[c].rest) \in Nat
      BY <1>5, <2>1, <2>2 DEF Reconciling
    <3> QED
      BY <1>a, <2>1, <3>1 DEF LeftSaid, At
  <2> QED
    BY <1>4, <1>7, <2>1, <2>2 DEF Register
<1>8. CASE ReadForRequest(c)
  <2>1. ReadTeam(c, call[c].team, {}) /\ call[c].pc \in Written
    BY <1>8 DEF ReadForRequest, At, Written
  <2>2. StepsLeft(c)' = 9 + 9 * Cardinality({}) /\ Cardinality({}) = 0
    BY <1>3, <2>1, FS_EmptySet
  <2> QED
    BY <1>a, <2>1, <2>2 DEF LeftSaid
<1>9. CASE ReadForBoot(c)
  <2>1. PICK t \in Teams : t \in call[c].rest /\ ReadTeam(c, t, call[c].rest \ {t})
    BY <1>9 DEF ReadForBoot
  <2>2. At(c, "boot") /\ IsFiniteSet(call[c].rest)
    BY <1>9, BootType, FS_Subset DEF ReadForBoot, At
  <2>3. /\ Cardinality(call[c].rest \ {t}) = Cardinality(call[c].rest) - 1
        /\ Cardinality(call[c].rest) \in Nat
    BY <2>1, <2>2, FS_RemoveElement, FS_CardinalityType
  <2>4. StepsLeft(c)' = 9 + 9 * Cardinality(call[c].rest \ {t})
    BY <1>3, <2>1
  <2> QED
    BY <1>a, <2>2, <2>3, <2>4 DEF LeftSaid
<1>10. ASSUME NEW o \in Calls, o # c,
              Start(o) \/ CallStep(o) \/ RemoveRejected(o) \/ CallDies(o)
       PROVE  FALSE
  <2>1. CASE Start(o)
    BY <1>0, <1>10, <2>1 DEF Start, Boot, CreateTeam, Admit
  <2>2. CASE UpdateConfig(o) \/ SoftDelete(o) \/ DeleteAgain(o) \/ ReadForRequest(o)
             \/ ReadForBoot(o) \/ CallDies(o)
    BY <1>0, <1>10, <2>2 DEF UpdateConfig, SoftDelete, DeleteAgain, ReadForRequest,
       ReadForBoot, ReadTeam, CallDies
  <2>3. CASE Remove(o) \/ Register(o) \/ RemoveRejected(o)
    BY <1>0, <1>10, <2>3 DEF Remove, Register, RemoveRejected, AfterRemove, Goto, Finish
  <2> QED
    BY <1>10, <2>1, <2>2, <2>3 DEF CallStep
<1>11. CASE Start(c)
  BY <1>11 DEF Start, Boot, CreateTeam, Admit, At
<1>12. CASE UpdateConfig(c) \/ SoftDelete(c) \/ DeleteAgain(c) \/ CallDies(c)
  BY <1>0, <1>1, <1>2, <1>12 DEF UpdateConfig, SoftDelete, DeleteAgain, CallDies, At, Asked
<1>13. CASE Remove(c) \/ RemoveRejected(c)
  BY <1>6, <1>13 DEF Remove, RemoveRejected
<1>14. ~UNCHANGED vars
  BY DEF vars
<1> QED
  BY <1>7, <1>8, <1>9, <1>10, <1>11, <1>12, <1>13, <1>14 DEF Next, CallStep

(* The measure for the other half: over finitely many teams every step of a    *)
(* call leaves it fewer steps to make, and no other call's step adds to them.  *)
THEOREM CallsRunOutCorrect ==
  ASSUME IsFiniteSet(Teams)
  PROVE  Spec => CallsRunOut
<1>1. TypeOK /\ TypeOK' /\ [Next]_vars =>
        [\A c \in Calls :
           call'[c] # call[c] => At(c, "idle") \/ StepsLeft(c)' < StepsLeft(c)]_vars
  BY LeftStep
<1> QED
  BY <1>1, TypeCorrect, PTL DEF Spec, CallsRunOut

=============================================================================
