------------------------------- MODULE Standups -------------------------------
(* Standups of one team: the requests that write them, the lists that page      *)
(* through them, and the board, the dashboard and the weekly report, which read *)
(* members and standups apart while both change.                               *)
EXTENDS Integers, FiniteSets

CONSTANTS
  Users,
  Ids,          \* bound: rows; they are given out in any order
  Calls,        \* write requests at once
  Limit,        \* rows of a page
  DaysPerWeek,  \* 7 in the code
  Settings,     \* bound: the working days a team is given, of 0 .. DaysPerWeek - 1
  LastDay,      \* bound: days that pass
  MaxUpdates,   \* bound: updates of the configuration
  MaxShift,     \* bound: days that a new time zone moves the team by; 2 in the code
  Beside        \* bound: calls under way while a list or a report is open

ASSUME StandupsAssumption ==
  /\ IsFiniteSet(Users)
  /\ Ids \subseteq Nat /\ IsFiniteSet(Ids)
  /\ Limit \in Nat \ {0}
  /\ DaysPerWeek \in Nat \ {0}
  /\ Settings # {} /\ Settings \subseteq SUBSET (0..(DaysPerWeek - 1))
  /\ LastDay \in Nat \ {0}
  /\ MaxUpdates \in Nat /\ MaxShift \in Nat /\ Beside \in Nat

VARIABLES
  updates,      \* bound: those made
  now,          \* the team's day, and whether the minute of the deadline is over
  workingDays,  \* of the team's configuration
  members,
  standup,      \* rows of standups; none is ever deleted
  call,         \* what each submit or edit is doing
  list,         \* the history page of a browser
  report        \* a board, a dashboard or a weekly report being read

vars == <<updates, now, workingDays, members, standup, call, list, report>>
team == <<updates, now, workingDays, members>>

Days == 1..LastDay
Moments == [day : Days, late : BOOLEAN]
Weekday(d) == d % DaysPerWeek

(* A row, with the moment that what it says was taken at, and the working days *)
(* it was let in under (history).                                              *)
NoRow == [row |-> "none"]
Rows == [user : Users, day : Days, late : BOOLEAN, taken : Moments, setting : Settings]
Stored == {i \in Ids : standup[i] # NoRow}

Idle == [call |-> "none"]
Submits == [user : Users, at : Moments, setting : Settings]
Edits == [id : Ids, at : Moments]

(* A page's filter, on what no edit changes, is a set of users; its cursor the  *)
(* last row shown, if more follow; an answer under way the rows of the next    *)
(* page and its cursor.                                                        *)
TheEnd == [cursor |-> "none"]
Cursors == {TheEnd} \union [day : Days, id : Ids]
NoAnswer == [answer |-> "none"]
Answers == [items : SUBSET Ids, cursor : Cursors]
NoList == [list |-> "none"]
Lists == [filter : SUBSET Users, shown : SUBSET Ids, count : Nat, cursor : Cursors,
          answer : {NoAnswer} \union Answers,
          owed : SUBSET Ids,      \* history: matched when the first page was read, not shown
          mixed : BOOLEAN]        \* history: a first page came while another was awaited

NoReport == [report |-> "none"]
Queries == {"members", "standups"}
Reports == [queries : SUBSET Queries, day : Days, working : Settings,
            members : SUBSET Users, rows : SUBSET Ids]

TypeOK ==
  /\ updates \in 0..MaxUpdates
  /\ now \in Moments
  /\ workingDays \in Settings
  /\ members \subseteq Users
  /\ standup \in [Ids -> {NoRow} \union Rows]
  /\ call \in [Calls -> {Idle} \union Submits \union Edits]
  /\ list \in {NoList} \union Lists
  /\ report \in {NoReport} \union Reports

Init ==
  /\ updates = 0
  /\ now = [day |-> 1, late |-> FALSE]
  /\ workingDays \in Settings
  /\ members = Users
  /\ standup = [i \in Ids |-> NoRow]
  /\ call = [c \in Calls |-> Idle]
  /\ list = NoList
  /\ report = NoReport

-----------------------------------------------------------------------------
(* The clock and the team.                                                     *)

TimePasses ==
  /\ \/ ~now.late /\ now' = [now EXCEPT !.late = TRUE]
     \/ now.late /\ now.day < LastDay /\ now' = [day |-> now.day + 1, late |-> FALSE]
  /\ UNCHANGED <<updates, workingDays, members, standup, call, list, report>>

(* updateConfig(): the working days are set, and what the deadline and the time *)
(* zone are set to may put the team elsewhere in its days.                     *)
UpdateConfig ==
  /\ updates < MaxUpdates
  /\ updates' = updates + 1
  /\ workingDays' \in Settings
  /\ now' \in Moments
  /\ now'.day \in (now.day - MaxShift)..(now.day + MaxShift)
  /\ UNCHANGED <<members, standup, call, list, report>>

Join(u) ==
  /\ u \notin members
  /\ members' = members \union {u}
  /\ UNCHANGED <<updates, now, workingDays, standup, call, list, report>>

Leave(u) ==
  /\ u \in members
  /\ members' = members \ {u}
  /\ UNCHANGED <<updates, now, workingDays, standup, call, list, report>>

-----------------------------------------------------------------------------
(* submit() and update(); the configuration and the moment are taken at the     *)
(* start.                                                                      *)

UnderWay == {k \in Calls : call[k] # Idle}
Room == list # NoList \/ report # NoReport => Cardinality(UnderWay) < Beside
Become(c, s) == call' = [call EXCEPT ![c] = s]

Has(u, d) == \E i \in Stored : standup[i].user = u /\ standup[i].day = d

(* On a working day, by a member who has no row of the day. Found later than    *)
(* here, a row would end the call as it does when the index refuses the second. *)
StartSubmit(c, u) ==
  /\ call[c] = Idle /\ Room
  /\ u \in members
  /\ Weekday(now.day) \in workingDays
  /\ ~Has(u, now.day)
  /\ Become(c, [user |-> u, at |-> now, setting |-> workingDays])
  /\ UNCHANGED <<team, standup, list, report>>

NewRow(s) == [user |-> s.user, day |-> s.at.day, late |-> s.at.late, taken |-> s.at,
              setting |-> s.setting]

(* Mutant: no unique index. *)
CreateTwice(c) ==
  /\ call[c] \in Submits
  /\ \E i \in Ids \ Stored : standup' = [standup EXCEPT ![i] = NewRow(call[c])]
  /\ Become(c, Idle)
  /\ UNCHANGED <<team, list, report>>
(* The unique index refuses a second row of a user and day.                    *)
Create(c) ==
  /\ call[c] \in Submits
  /\ IF Has(call[c].user, call[c].at.day) THEN UNCHANGED standup
     ELSE \E i \in Ids \ Stored : standup' = [standup EXCEPT ![i] = NewRow(call[c])]
  /\ Become(c, Idle)
  /\ UNCHANGED <<team, list, report>>

(* Mutant: the day is checked, the deadline is not. *)
StartEditLate(c, i) ==
  /\ call[c] = Idle /\ Room
  /\ i \in Stored
  /\ standup[i].day = now.day
  /\ Become(c, [id |-> i, at |-> now])
  /\ UNCHANGED <<team, standup, list, report>>
(* By the row's owner, member or not, on its day and before the deadline.        *)
StartEdit(c, i) ==
  /\ call[c] = Idle /\ Room
  /\ i \in Stored
  /\ standup[i].day = now.day
  /\ ~now.late
  /\ Become(c, [id |-> i, at |-> now])
  /\ UNCHANGED <<team, standup, list, report>>

(* Mutant: what was sent replaces the row. *)
EditReplaces(c) ==
  /\ call[c] \in Edits
  /\ standup' = [standup EXCEPT ![call[c].id] = call[c]]
  /\ Become(c, Idle)
  /\ UNCHANGED <<team, list, report>>
Edit(c) ==
  /\ call[c] \in Edits
  /\ standup' = [standup EXCEPT ![call[c].id].taken = call[c].at]
  /\ Become(c, Idle)
  /\ UNCHANGED <<team, list, report>>

-----------------------------------------------------------------------------
(* list() and search(), and the history page, which calls list().               *)

(* Newer days first, and ids downwards within a day.                           *)
Before(i, j) ==
  \/ standup[i].day > standup[j].day
  \/ standup[i].day = standup[j].day /\ i > j

(* Mutant: the cursor skips the rest of its day. *)
AfterDay(i, cursor) == cursor = TheEnd \/ standup[i].day < cursor.day
After(i, cursor) ==
  \/ cursor = TheEnd
  \/ standup[i].day < cursor.day
  \/ standup[i].day = cursor.day /\ i < cursor.id

(* The first page has no cursor.                                               *)
Matching(filter, cursor) == {i \in Stored : standup[i].user \in filter /\ After(i, cursor)}
UpTo(rows, i) == {j \in rows : j = i \/ Before(j, i)}
Cut(rows, i) == [items |-> UpTo(rows, i), cursor |-> [day |-> standup[i].day, id |-> i]]
(* The one page that there is: the last row is a cursor if any are left.       *)
Pages(rows) ==
  IF Cardinality(rows) <= Limit THEN {[items |-> rows, cursor |-> TheEnd]}
  ELSE {Cut(rows, i) : i \in {i \in rows : Cardinality(UpTo(rows, i)) = Limit}}

(* Opened, filtered or refreshed: the first page replaces what was shown, and   *)
(* an answer still awaited will be added to it.                                *)
FirstPage(filter) ==
  /\ report = NoReport
  /\ Cardinality(UnderWay) <= Beside
  /\ \E page \in Pages(Matching(filter, TheEnd)) :
       LET awaited == IF list = NoList THEN NoAnswer ELSE list.answer IN
       list' = [filter |-> filter, shown |-> page.items, count |-> Cardinality(page.items),
                cursor |-> page.cursor, answer |-> awaited,
                owed |-> Matching(filter, TheEnd) \ page.items, mixed |-> awaited # NoAnswer]
  /\ UNCHANGED <<team, standup, call, report>>

LoadMore ==
  /\ list # NoList
  /\ list.cursor # TheEnd
  /\ list.answer = NoAnswer
  /\ \E page \in Pages(Matching(list.filter, list.cursor)) : list' = [list EXCEPT !.answer = page]
  /\ UNCHANGED <<team, standup, call, report>>

ShowMore ==
  /\ list # NoList
  /\ list.answer # NoAnswer
  /\ list' = [list EXCEPT !.shown = @ \union list.answer.items,
                          !.count = @ + Cardinality(list.answer.items),
                          !.cursor = list.answer.cursor, !.answer = NoAnswer,
                          !.owed = @ \ list.answer.items]
  /\ UNCHANGED <<team, standup, call, report>>

LoseMore ==
  /\ list # NoList
  /\ list.answer # NoAnswer
  /\ list' = [list EXCEPT !.answer = NoAnswer]
  /\ UNCHANGED <<team, standup, call, report>>

-----------------------------------------------------------------------------
(* getTodayBoard(), getDashboard() and getWeeklyReport(): the configuration is  *)
(* read, then two queries run in parallel; and what each makes of the answers.  *)

OfWeek(rows, day) == {i \in rows : standup[i].day \in (day - (DaysPerWeek - 1))..day}

(* The browser goes from a list to a report: the list's state is gone.         *)
StartReport ==
  /\ report = NoReport
  /\ Cardinality(UnderWay) <= Beside
  /\ report' = [queries |-> Queries, day |-> now.day, working |-> workingDays,
                members |-> {}, rows |-> {}]
  /\ list' = NoList
  /\ UNCHANGED <<team, standup, call>>

ReadMembers ==
  /\ report # NoReport /\ "members" \in report.queries
  /\ report' = [report EXCEPT !.members = members, !.queries = @ \ {"members"}]
  /\ UNCHANGED <<team, standup, call, list>>

ReadStandups ==
  /\ report # NoReport /\ "standups" \in report.queries
  /\ report' = [report EXCEPT !.rows = OfWeek(Stored, report.day), !.queries = @ \ {"standups"}]
  /\ UNCHANGED <<team, standup, call, list>>

EndReport ==
  /\ report # NoReport /\ report.queries = {}
  /\ report' = NoReport
  /\ UNCHANGED <<team, standup, call, list>>

OfDay(r) == {i \in r.rows : standup[i].day = r.day}
SubmittersOf(rows) == {standup[i].user : i \in rows}
LateOf(rows) == Cardinality({i \in rows : standup[i].late})

WorksToday(r) == Weekday(r.day) \in r.working
DayOff == [submitted |-> 0, pending |-> 0, late |-> 0]
Board(r) ==
  IF ~WorksToday(r) THEN DayOff ELSE
  [submitted |-> Cardinality(r.members \intersect SubmittersOf(OfDay(r))),
   pending |-> Cardinality(r.members \ SubmittersOf(OfDay(r))), late |-> LateOf(OfDay(r))]
(* Mutant: submissions of any day. *)
DashboardAll(r) ==
  [submitted |-> Cardinality(r.rows),
   pending |-> Cardinality(r.members) - Cardinality(r.rows), late |-> LateOf(r.rows)]
Dashboard(r) ==
  IF ~WorksToday(r) THEN DayOff ELSE
  [submitted |-> Cardinality(OfDay(r)),
   pending |-> Cardinality(r.members) - Cardinality(OfDay(r)), late |-> LateOf(OfDay(r))]

(* The weekday of a UTC midnight in the team's zone: west of UTC, the day before's. *)
ZoneWeekday(west, d) == Weekday(d - west)
(* Mutant: the last day is not counted. *)
WorkingDaysShort(west, working, from, to) ==
  Cardinality({d \in from..(to - 1) : ZoneWeekday(west, d) \in working})
WorkingDaysInRange(west, working, from, to) ==
  Cardinality({d \in from..to : ZoneWeekday(west, d) \in working})
Submitted(rows, u) == Cardinality({i \in rows : standup[i].user = u})

-----------------------------------------------------------------------------

Next ==
  \/ TimePasses \/ UpdateConfig
  \/ \E u \in Users : Join(u) \/ Leave(u)
  \/ \E c \in Calls : \/ \E u \in Users : StartSubmit(c, u)
                      \/ \E i \in Ids : StartEdit(c, i)
                      \/ Create(c) \/ Edit(c)
  \/ \E filter \in {Users} \union {{u} : u \in Users} : FirstPage(filter)
  \/ LoadMore \/ ShowMore \/ LoseMore
  \/ StartReport \/ ReadMembers \/ ReadStandups \/ EndReport

Spec == Init /\ [][Next]_vars

-----------------------------------------------------------------------------
(* Properties.                                                                 *)

(* One standup per user and day, however many submits overlap                   *)
(* (standups.service.ts:52-76 and the partial unique index of its migration).  *)
OnePerDay ==
  \A i, j \in Stored :
    standup[i].user = standup[j].user /\ standup[i].day = standup[j].day => i = j

(* A standup that is not late says nothing taken after its day's deadline      *)
(* (standups.service.ts:63, :106-116), as the team's deadline and zone were     *)
(* when it was taken: neither submit nor edit, however late their writes and    *)
(* whatever is configured between.                                             *)
OnTimeIsOnTime ==
  \A i \in Stored : ~standup[i].late =>
    standup[i].taken = [day |-> standup[i].day, late |-> FALSE]

(* Paging shows no row twice and only rows of its filter, and at its end every  *)
(* row that was there when it began (standups.service.ts:302-367,              *)
(* reports.service.ts:151-229), whatever is inserted between two pages, unless *)
(* a first page came while a later one was awaited.                            *)
PagesComplete ==
  list # NoList /\ ~list.mixed =>
    /\ list.count = Cardinality(list.shown)
    /\ \A i \in list.shown : standup[i].user \in list.filter
    /\ list.cursor = TheEnd => list.owed = {}

(* On a working day the dashboard's counts of two populations                  *)
(* (analytics.service.ts:33-48) are the board's, which goes member by member   *)
(* (standups.service.ts:183-246), unless somebody whose standup it counts is   *)
(* not among the members it read, having left or having joined between the     *)
(* queries; then they never are.                                               *)
CountsAgree ==
  report # NoReport /\ report.queries = {} /\ WorksToday(report) =>
    (Dashboard(report) = Board(report) <=> SubmittersOf(OfDay(report)) \subseteq report.members)

(* The week's working days are counted right, east and west of UTC, and nobody  *)
(* took part more often than there were any (reports.service.ts:12-27, :50-60,  *)
(* :89-110), nor all who are members together (:129-132), unless with standups *)
(* let in under other working days than the report read, or of somebody who is *)
(* not among the members it read.                                              *)
LetInOtherwise(r) == {i \in r.rows : standup[i].setting # r.working}
ParticipationAtMostOne ==
  report # NoReport => \A west \in {0, 1} :
    LET days == WorkingDaysInRange(west, report.working,
                                   report.day - (DaysPerWeek - 1), report.day)
        rows == report.rows \ LetInOtherwise(report) IN
    /\ days = Cardinality(report.working)
    /\ \A u \in Users : Submitted(rows, u) <= days
    /\ SubmittersOf(rows) \subseteq report.members =>
         Cardinality(rows) <= Cardinality(report.members) * days
=============================================================================
