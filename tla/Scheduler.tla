------------------------------ MODULE Scheduler ------------------------------
(* SchedulerService: the BullMQ job schedulers of each team, one for its        *)
(* digest and three for its reminders, kept in step with team_configs by        *)
(* reconcileTeam().  It is called after create(), updateConfig() and            *)
(* softDelete() and, for each live team in turn, when an API process boots.     *)
(* Redis and PostgreSQL share no transaction: a call reads the team, removes    *)
(* four schedulers and registers four, one await at a time, while other calls   *)
(* do the same.                                                                 *)
EXTENDS Integers, Sequences, FiniteSets

CONSTANTS
  Teams,
  Settings,     \* the timezone, standupDeadline and reminderTime of a config
  Default,      \* the setting of a config as schema.prisma creates it
  Calls,        \* requests and boots under way at once
  MaxFaults     \* bound on rejected queries and processes that die

DayMinutes == 24 * 60
Minutes == 0..(DayMinutes - 1)

ASSUME SettingsAssumption ==
  /\ \A s \in Settings : s.standupDeadline \in Minutes /\ s.reminderTime \in Minutes
  /\ Default \in Settings
ASSUME FaultsAssumption == MaxFaults \in Nat

VARIABLES
  team,        \* teams: "none" (no row), "live" or "deleted" (deletedAt)
  config,      \* team_configs: isActive and the setting
  scheduler,   \* the job schedulers in Redis, per team and kind
  call,        \* what each call is doing
  disturbed,   \* history: did calls overlap, or fail, since one read the team alone?
  faults       \* faults so far (bounded by MaxFaults)

vars == <<team, config, scheduler, call, disturbed, faults>>

-----------------------------------------------------------------------------
(* When a scheduler fires: minutes of the team's local day, "HH:mm" of the     *)
(* configuration and `m H * * *` of the cron pattern alike.                    *)

Kinds == {"digest", "primary", "15m", "final"}
Order == <<"digest", "primary", "15m", "final">>

(* JavaScript's %: the sign of the dividend.                                   *)
Remainder(a, b) == IF a >= 0 THEN a % b ELSE -((-a) % b)
SubtractMinutes(time, minutes) ==
  Remainder(Remainder(time - minutes, DayMinutes) + DayMinutes, DayMinutes)

TimeOf(setting, kind) ==
  CASE kind = "primary" -> setting.reminderTime
    [] kind = "15m" -> SubtractMinutes(setting.standupDeadline, 15)
    [] OTHER -> setting.standupDeadline

Registered(setting, kind) == [tz |-> setting.timezone, time |-> TimeOf(setting, kind)]
NoScheduler == [tz |-> "none", time |-> -1]

Ended == [pc |-> "idle"]
Booting == {"boot"}             \* between two teams of the boot's list
Asked == {"update", "delete"}   \* past the guard, before the write
Written == {"read"}             \* after the write, before reconcileTeam() reads
Reconciling == {"remove", "register"}

TypeOK ==
  /\ team \in [Teams -> {"none", "live", "deleted"}]
  /\ config \in [Teams -> [isActive : BOOLEAN, setting : Settings]]
  /\ scheduler \in [Teams -> [Kinds ->
       {Registered(s, k) : s \in Settings, k \in Kinds} \union {NoScheduler}]]
  /\ call \in [Calls -> {Ended}
       \union [pc : Booting, rest : SUBSET Teams]
       \union [pc : Asked \union Written, team : Teams]
       \union [pc : Reconciling, team : Teams, isActive : BOOLEAN,
               setting : Settings, next : 1..4, rest : SUBSET Teams]]
  /\ disturbed \in [Teams -> BOOLEAN]
  /\ faults \in 0..MaxFaults

Init ==
  /\ team = [t \in Teams |-> "none"]
  /\ config = [t \in Teams |-> [isActive |-> TRUE, setting |-> Default]]
  /\ scheduler = [t \in Teams |-> [k \in Kinds |-> NoScheduler]]
  /\ call = [c \in Calls |-> Ended]
  /\ disturbed = [t \in Teams |-> FALSE]
  /\ faults = 0

At(c, pc) == call[c].pc = pc
Waits(c, t) == call[c].pc \in Written /\ call[c].team = t
Works(c, t) == call[c].pc \in Reconciling /\ call[c].team = t

-----------------------------------------------------------------------------
(* The requests, up to their call of reconcileTeam().                          *)

CreateTeam(c, t) ==
  /\ At(c, "idle")
  /\ team[t] = "none"
  /\ team' = [team EXCEPT ![t] = "live"]
  /\ call' = [call EXCEPT ![c] = [pc |-> "read", team |-> t]]
  /\ UNCHANGED <<config, scheduler, disturbed, faults>>

(* TeamMembershipGuard lets the request in while the team is live.             *)
Admit(c, t) == \E what \in Asked :
  /\ At(c, "idle")
  /\ team[t] = "live"
  /\ call' = [call EXCEPT ![c] = [pc |-> what, team |-> t]]
  /\ UNCHANGED <<team, config, scheduler, disturbed, faults>>

(* The row is written whether or not the team still lives.                     *)
UpdateConfig(c) == \E setting \in Settings, isActive \in BOOLEAN :
  /\ At(c, "update")
  /\ config' = [config EXCEPT
       ![call[c].team] = [isActive |-> isActive, setting |-> setting]]
  /\ call' = [call EXCEPT ![c].pc = "read"]
  /\ UNCHANGED <<team, scheduler, disturbed, faults>>

SoftDelete(c) ==
  /\ At(c, "delete")
  /\ team[call[c].team] = "live"
  /\ team' = [team EXCEPT ![call[c].team] = "deleted"]
  /\ call' = [call EXCEPT ![c].pc = "read"]
  /\ UNCHANGED <<config, scheduler, disturbed, faults>>

DeleteAgain(c) ==
  /\ At(c, "delete")
  /\ team[call[c].team] # "live"
  /\ call' = [call EXCEPT ![c] = Ended]
  /\ UNCHANGED <<team, config, scheduler, disturbed, faults>>

(* onModuleInit(): the list of live teams is read once.                        *)
Rest(teams) == IF teams = {} THEN Ended ELSE [pc |-> "boot", rest |-> teams]
Boot(c) ==
  /\ At(c, "idle")
  /\ call' = [call EXCEPT ![c] = Rest({t \in Teams : team[t] = "live"})]
  /\ UNCHANGED <<team, config, scheduler, disturbed, faults>>

-----------------------------------------------------------------------------
(* reconcileTeam(), one action per await.                                      *)

Active(t) == team[t] = "live" /\ config[t].isActive

ReadTeam(c, t, rest) ==
  /\ call' = [call EXCEPT ![c] =
       [pc |-> "remove", team |-> t, isActive |-> Active(t),
        setting |-> config[t].setting, next |-> 1, rest |-> rest]]
  /\ disturbed' = [disturbed EXCEPT ![t] = \E o \in Calls \ {c} : Works(o, t)]
  /\ UNCHANGED <<team, config, scheduler, faults>>

ReadForRequest(c) == At(c, "read") /\ ReadTeam(c, call[c].team, {})
ReadForBoot(c) == \E t \in Teams :
  At(c, "boot") /\ t \in call[c].rest /\ ReadTeam(c, t, call[c].rest \ {t})

Kind(c) == Order[call[c].next]
SetScheduler(c, value) ==
  scheduler' = [scheduler EXCEPT ![call[c].team] = [@ EXCEPT ![Kind(c)] = value]]

Goto(c, pc, next) == call' = [call EXCEPT ![c] = [@ EXCEPT !.pc = pc, !.next = next]]
(* Mutant: the boot ends with its first team. *)
FinishBoot(c) == call' = [call EXCEPT ![c] = Ended]
Finish(c) == call' = [call EXCEPT ![c] = Rest(call[c].rest)]

(* Mutant: the last removal is left out. *)
AfterRemoveThree(c) ==
  \/ call[c].next < 3 /\ Goto(c, "remove", call[c].next + 1)
  \/ call[c].next = 3 /\ call[c].isActive /\ Goto(c, "register", 1)
  \/ call[c].next = 3 /\ ~call[c].isActive /\ Finish(c)
AfterRemove(c) ==
  \/ call[c].next < 4 /\ Goto(c, "remove", call[c].next + 1)
  \/ call[c].next = 4 /\ call[c].isActive /\ Goto(c, "register", 1)
  \/ call[c].next = 4 /\ ~call[c].isActive /\ Finish(c)

(* Mutant: an inactive team's reminders are kept. *)
RemoveDigestOnly(c) ==
  /\ At(c, "remove")
  /\ IF Kind(c) = "digest" THEN SetScheduler(c, NoScheduler) ELSE UNCHANGED scheduler
  /\ AfterRemove(c)
  /\ UNCHANGED <<team, config, disturbed, faults>>
Remove(c) ==
  /\ At(c, "remove")
  /\ SetScheduler(c, NoScheduler)
  /\ AfterRemove(c)
  /\ UNCHANGED <<team, config, disturbed, faults>>

Register(c) ==
  /\ At(c, "register")
  /\ SetScheduler(c, Registered(call[c].setting, Kind(c)))
  /\ \/ call[c].next < 4 /\ Goto(c, "register", call[c].next + 1)
     \/ call[c].next = 4 /\ Finish(c)
  /\ UNCHANGED <<team, config, disturbed, faults>>

-----------------------------------------------------------------------------
(* Faults.                                                                     *)

Fault ==
  /\ faults < MaxFaults
  /\ faults' = faults + 1

Disturb(t) == disturbed' = [disturbed EXCEPT ![t] = TRUE]

(* A rejected removal is swallowed, and the call goes on: if it will register, *)
(* nothing is lost.                                                            *)
RemoveRejected(c) ==
  /\ At(c, "remove")
  /\ Fault
  /\ AfterRemove(c)
  /\ IF call[c].isActive THEN UNCHANGED disturbed ELSE Disturb(call[c].team)
  /\ UNCHANGED <<team, config, scheduler>>

(* Any other rejection ends the call, and with it the boot; so does the death  *)
(* of the process.                                                             *)
CallDies(c) ==
  /\ ~At(c, "idle")
  /\ Fault
  /\ call' = [call EXCEPT ![c] = Ended]
  /\ IF call[c].pc \in Written \union Reconciling
     THEN Disturb(call[c].team) ELSE UNCHANGED disturbed
  /\ UNCHANGED <<team, config, scheduler>>

-----------------------------------------------------------------------------

CallStep(c) ==
  \/ UpdateConfig(c) \/ SoftDelete(c) \/ DeleteAgain(c)
  \/ ReadForRequest(c) \/ ReadForBoot(c) \/ Remove(c) \/ Register(c)

Start(c) == Boot(c) \/ \E t \in Teams : CreateTeam(c, t) \/ Admit(c, t)

Next == \E c \in Calls : Start(c) \/ CallStep(c) \/ RemoveRejected(c) \/ CallDies(c)

(* Every await of a call settles; nothing obliges a user, a boot or a fault.   *)
Fairness == \A c \in Calls : WF_vars(CallStep(c))

Spec == Init /\ [][Next]_vars
FairSpec == Spec /\ Fairness

-----------------------------------------------------------------------------
(* Properties.                                                                 *)

(* What the schedulers of a team should be, from its configuration alone: none *)
(* for an inactive or deleted team; else, in the team's timezone, the digest   *)
(* and the last reminder at the deadline, one reminder a quarter of an hour    *)
(* before it, possibly across midnight, and one at the reminder time.          *)
Silent(t) == \A k \in Kinds : scheduler[t][k] = NoScheduler
OnTime(t) == LET s == config[t].setting IN
  /\ \A k \in Kinds : scheduler[t][k].tz = s.timezone
  /\ scheduler[t]["digest"].time = s.standupDeadline
  /\ scheduler[t]["final"].time = s.standupDeadline
  /\ scheduler[t]["primary"].time = s.reminderTime
  /\ scheduler[t]["15m"].time \in Minutes
  /\ (scheduler[t]["15m"].time + 15) % DayMinutes = s.standupDeadline
Matches(t) == IF Active(t) THEN OnTime(t) ELSE Silent(t)

BeingSet(t) == \E c \in Calls : Waits(c, t) \/ Works(c, t)

(* When no call is at work on a team, its schedulers are those its             *)
(* configuration asks for (scheduler.service.ts:34-76), whatever ran before,   *)
(* unless calls overlapped or failed since one last read the team alone: one   *)
(* undisturbed reconcile repairs everything.                                   *)
QuietTeamsMatch == \A t \in Teams : ~BeingSet(t) /\ ~disturbed[t] => Matches(t)

(* A boot comes to every team of its list (scheduler.service.ts:145-162) and   *)
(* leaves it matching, whatever crash or overlap came before, unless something *)
(* fails again or another call is at work on the team.                         *)
InRest(c, t) == call[c].pc \in Booting \union Reconciling /\ t \in call[c].rest
OthersOn(c, t) == \E o \in Calls \ {c} : Waits(o, t) \/ Works(o, t)
BootRepairs ==
  \A c \in Calls, t \in Teams, n \in 0..MaxFaults :
    InRest(c, t) /\ faults = n ~> Matches(t) \/ faults > n \/ OthersOn(c, t)

-----------------------------------------------------------------------------
(* What makes QuietTeamsMatch inductive: in an undisturbed team one call works *)
(* at most; what it has done so far stands; and what it read is current,       *)
(* unless a call that has written waits to read.                               *)

Done(c) == {Order[i] : i \in 1..(call[c].next - 1)}
Progress(c) == LET t == call[c].team IN
  /\ call[c].pc = "remove" /\ ~call[c].isActive =>
       \A k \in Done(c) : scheduler[t][k] = NoScheduler
  /\ call[c].pc = "register" =>
       /\ call[c].isActive
       /\ \A k \in Done(c) : scheduler[t][k] = Registered(call[c].setting, k)

Current(c) == LET t == call[c].team IN
  call[c].isActive = Active(t) /\ call[c].setting = config[t].setting

Wanted(t, k) ==
  IF Active(t) THEN Registered(config[t].setting, k) ELSE NoScheduler

TeamInv(t) ==
  \/ disturbed[t]
  \/ /\ \A c, o \in Calls : Works(c, t) /\ Works(o, t) => c = o
     /\ \A c \in Calls : Works(c, t) =>
          Progress(c) /\ (Current(c) \/ \E o \in Calls : Waits(o, t))
     /\ BeingSet(t) \/ \A k \in Kinds : scheduler[t][k] = Wanted(t, k)

QuietInv == \A t \in Teams : TeamInv(t)

-----------------------------------------------------------------------------
(* What BootRepairs comes to, step by step.                                    *)

(* A call that has a team before it, or is at work on it with all it has done  *)
(* and read still standing, has its schedulers seen through: no step takes it  *)
(* off the team before they match the configuration, unless a step fails or    *)
(* another call comes to the team (scheduler.service.ts:34-76, :145-162).      *)
AtIt(c, t) == InRest(c, t) \/ (Works(c, t) /\ Progress(c) /\ Current(c))
SeenThrough == [][
  \A c \in Calls, t \in Teams : AtIt(c, t) /\ ~OthersOn(c, t) =>
    (AtIt(c, t) \/ Matches(t) \/ OthersOn(c, t))' \/ faults' > faults]_vars

(* And it does not go round for ever: each of its steps leaves it fewer, eight *)
(* and the read for every team of its list, whatever the others do.            *)
PerTeam == 9
StepsLeft(c) ==
  CASE call[c].pc = "idle" -> 0
    [] call[c].pc \in Asked -> PerTeam + 2
    [] call[c].pc \in Written -> PerTeam + 1
    [] call[c].pc = "boot" -> 1 + PerTeam * Cardinality(call[c].rest)
    [] call[c].pc = "remove" -> 10 - call[c].next + PerTeam * Cardinality(call[c].rest)
    [] call[c].pc = "register" -> 6 - call[c].next + PerTeam * Cardinality(call[c].rest)
CallsRunOut == [][\A c \in Calls :
  call'[c] # call[c] => At(c, "idle") \/ StepsLeft(c)' < StepsLeft(c)]_vars
=============================================================================
