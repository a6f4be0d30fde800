--------------------------- MODULE Standups_proofs ---------------------------
(* Proofs about Standups for any users, rows, calls, pages, weeks and days.    *)
EXTENDS Standups, FiniteSetTheorems, TLAPS

-----------------------------------------------------------------------------
(* The inductive invariant.                                                    *)

(* What a call was allowed to write it may write however late: a submit was    *)
(* made on a working day, an edit on its row's day before the deadline.        *)
CallInv == \A c \in Calls :
  /\ call[c] \in Submits => Weekday(call[c].at.day) \in call[c].setting
  /\ call[c] \in Edits => /\ call[c].id \in Stored
                          /\ call[c].at = [day |-> standup[call[c].id].day, late |-> FALSE]

RowsWork == \A i \in Stored : Weekday(standup[i].day) \in standup[i].setting

Fits(items) == \A i \in items : i \in Stored /\ standup[i].user \in list.filter

(* Between what was shown and what is owed lies the cursor.                    *)
Divides(cursor, shown, owed) ==
  /\ cursor = TheEnd => owed = {}
  /\ cursor # TheEnd => /\ \A i \in shown : ~After(i, cursor)
                        /\ \A i \in owed : After(i, cursor)

AnswerInv ==
  list.answer # NoAnswer =>
    /\ list.cursor # TheEnd
    /\ Fits(list.answer.items)
    /\ \A i \in list.answer.items : After(i, list.cursor)
    /\ Divides(list.answer.cursor, list.shown \union list.answer.items,
               list.owed \ list.answer.items)

ListInv ==
  list # NoList /\ ~list.mixed =>
    /\ list.count = Cardinality(list.shown)
    /\ Fits(list.shown) /\ Fits(list.owed)
    /\ Divides(list.cursor, list.shown, list.owed)
    /\ AnswerInv

(* A report's rows are of the week that ends with its day.                     *)
ReportInv == report # NoReport => report.rows \subseteq OfWeek(Stored, report.day)

StandupsInv == CallInv /\ RowsWork /\ OnePerDay /\ OnTimeIsOnTime /\ ListInv /\ ReportInv

-----------------------------------------------------------------------------
(* Types.                                                                      *)

LEMMA Distinct ==
  /\ NoRow \notin Rows /\ Idle \notin Submits /\ Idle \notin Edits
  /\ \A s \in Submits : s \notin Edits
  /\ NoAnswer \notin Answers /\ NoList \notin Lists /\ NoReport \notin Reports
  /\ TheEnd \notin [day : Days, id : Ids]
<1>1. NoRow \notin Rows
  BY DEF NoRow, Rows
<1>2. Idle \notin Submits /\ Idle \notin Edits
  BY DEF Idle, Submits, Edits
<1>3. \A s \in Submits : s \notin Edits
  BY DEF Submits, Edits
<1>4. NoAnswer \notin Answers /\ NoList \notin Lists
  BY DEF NoAnswer, Answers, NoList, Lists
<1>5. NoReport \notin Reports
  BY DEF NoReport, Reports
<1>6. TheEnd \notin [day : Days, id : Ids]
  BY DEF TheEnd
<1> QED
  BY <1>1, <1>2, <1>3, <1>4, <1>5, <1>6

LEMMA RowKinds ==
  ASSUME TypeOK, NEW i \in Stored
  PROVE  /\ i \in Ids /\ i \in Nat /\ standup[i] \in Rows /\ standup[i] # NoRow
         /\ standup[i].user \in Users /\ standup[i].day \in Days /\ standup[i].day \in Nat
         /\ standup[i].late \in BOOLEAN /\ standup[i].taken \in Moments
         /\ standup[i].setting \in Settings
<1>1. i \in Ids /\ i \in Nat /\ standup[i] \in Rows /\ standup[i] # NoRow
  BY StandupsAssumption DEF StandupsAssumption, TypeOK, Stored
<1> QED
  BY <1>1, StandupsAssumption DEF StandupsAssumption, Rows, Days

(* A row of the table keeps all but what it says, in every step.               *)
Keeps == \A i \in Stored :
  /\ i \in Stored'
  /\ standup'[i].user = standup[i].user
  /\ standup'[i].day = standup[i].day
  /\ standup'[i].late = standup[i].late
  /\ standup'[i].setting = standup[i].setting

-----------------------------------------------------------------------------
(* Pages.                                                                      *)

LEMMA PageFacts ==
  ASSUME TypeOK, NEW rows \in SUBSET Stored, NEW page \in Pages(rows)
  PROVE  /\ page \in Answers
         /\ page.items \subseteq rows
         /\ Divides(page.cursor, page.items, rows \ page.items)
         /\ page.cursor # TheEnd =>
              \E i \in page.items : page.cursor = [day |-> standup[i].day, id |-> i]
<1>1. CASE page = [items |-> rows, cursor |-> TheEnd]
  BY <1>1 DEF Divides, Answers, Cursors, Stored
<1>2. CASE \E i \in rows : page = Cut(rows, i)
  <2> PICK i \in rows : page = Cut(rows, i)
    BY <1>2
  <2>1. /\ page.items = UpTo(rows, i)
        /\ page.cursor = [day |-> standup[i].day, id |-> i]
        /\ page \in [items : {UpTo(rows, i)}, cursor : {[day |-> standup[i].day, id |-> i]}]
    BY DEF Cut
  <2>2. i \in UpTo(rows, i) /\ UpTo(rows, i) \subseteq rows /\ UpTo(rows, i) \subseteq Ids
    BY DEF UpTo, Stored
  <2>3. page.cursor \in [day : Days, id : Ids] /\ page.cursor # TheEnd
    BY <2>1, RowKinds, Distinct
  <2>4. \A j \in UpTo(rows, i) : ~After(j, page.cursor)
    BY <2>1, <2>2, <2>3, RowKinds DEF UpTo, Before, After
  <2>5. \A j \in rows \ UpTo(rows, i) : After(j, page.cursor)
    BY <2>1, <2>2, <2>3, RowKinds DEF UpTo, Before, After
  <2>6. page \in Answers
    BY <2>1, <2>2, <2>3 DEF Answers, Cursors
  <2> QED
    BY <2>1, <2>2, <2>3, <2>4, <2>5, <2>6 DEF Divides
<1> QED
  BY <1>1, <1>2 DEF Pages

-----------------------------------------------------------------------------
(* Every step keeps the invariant.                                             *)

(* What steps that leave the table alone keep of it.                           *)
LEMMA SameTable ==
  ASSUME TypeOK, StandupsInv, standup' = standup
  PROVE  /\ RowsWork' /\ OnePerDay' /\ OnTimeIsOnTime'
         /\ Keeps /\ Stored' = Stored
<1>1. Stored' = Stored
  BY DEF Stored
<1>2. RowsWork' /\ OnePerDay' /\ OnTimeIsOnTime'
  BY <1>1 DEF StandupsInv, RowsWork, OnePerDay, OnTimeIsOnTime
<1> QED
  BY <1>1, <1>2 DEF Keeps

LEMMA SameAfter ==
  ASSUME TypeOK, Keeps, NEW i \in Stored, NEW cursor
  PROVE  After(i, cursor)' <=> After(i, cursor)
<1>1. standup'[i].day = standup[i].day
  BY DEF Keeps
<1> QED
  BY <1>1 DEF After

LEMMA CallsEnd ==
  ASSUME TypeOK, CallInv, Keeps, \A c \in Calls : call'[c] = call[c] \/ call'[c] = Idle
  PROVE  CallInv'
<1> SUFFICES ASSUME NEW c \in Calls
             PROVE  /\ call'[c] \in Submits => Weekday(call'[c].at.day) \in call'[c].setting
                    /\ call'[c] \in Edits =>
                         /\ call'[c].id \in Stored'
                         /\ call'[c].at = [day |-> standup'[call'[c].id].day, late |-> FALSE]
  BY DEF CallInv, Weekday
<1>1. CASE call'[c] = Idle
  BY <1>1, Distinct
<1>2. CASE call'[c] = call[c]
  <2>1. call[c] \in Edits => /\ call[c].id \in Stored'
                              /\ standup'[call[c].id].day = standup[call[c].id].day
    BY DEF CallInv, Keeps
  <2> QED
    BY <2>1, <1>2 DEF CallInv
<1> QED
  BY <1>1, <1>2

LEMMA SameList ==
  ASSUME TypeOK, ListInv, Keeps, list' = list
  PROVE  ListInv'
<1> SUFFICES ASSUME list # NoList, ~list.mixed
             PROVE  /\ list.count = Cardinality(list.shown)
                    /\ Fits(list.shown)' /\ Fits(list.owed)'
                    /\ Divides(list.cursor, list.shown, list.owed)'
                    /\ AnswerInv'
  BY DEF ListInv
<1>1. \A items : Fits(items) => \A i \in items : /\ i \in Stored' /\ standup'[i].user \in list.filter
                                               /\ \A cursor : After(i, cursor)' <=> After(i, cursor)
  BY SameAfter DEF Fits, Keeps, After
<1>2. list.count = Cardinality(list.shown) /\ Fits(list.shown)' /\ Fits(list.owed)'
  BY <1>1 DEF ListInv, Fits
<1>3. Divides(list.cursor, list.shown, list.owed)'
  BY <1>1 DEF ListInv, Divides
<1>4. AnswerInv'
  <2> SUFFICES ASSUME list.answer # NoAnswer PROVE AnswerInv'
    BY DEF AnswerInv
  <2>1. /\ list.cursor # TheEnd /\ Fits(list.answer.items) /\ Fits(list.shown)
        /\ Fits(list.owed) /\ \A i \in list.answer.items : After(i, list.cursor)
        /\ Divides(list.answer.cursor, list.shown \union list.answer.items,
                   list.owed \ list.answer.items)
    BY DEF ListInv, AnswerInv
  <2>2. Fits(list.answer.items)' /\ \A i \in list.answer.items : After(i, list.cursor)'
    BY <1>1, <2>1 DEF Fits
  <2>3. Divides(list.answer.cursor, list.shown \union list.answer.items,
                list.owed \ list.answer.items)'
    <3>1. \A i \in list.shown \union list.answer.items \union list.owed : \A cursor :
            After(i, cursor)' <=> After(i, cursor)
      BY <1>1, <2>1
    <3> QED
      BY <2>1, <3>1 DEF Divides
  <2> QED
    BY <2>1, <2>2, <2>3 DEF AnswerInv
<1> QED
  BY <1>2, <1>3, <1>4

LEMMA SameReport ==
  ASSUME TypeOK, ReportInv, Keeps, report' = report
  PROVE  ReportInv'
BY DEF ReportInv, OfWeek, Keeps

LEMMA TeamKeeps ==
  ASSUME TypeOK, StandupsInv, NEW u \in Users, Join(u) \/ Leave(u)
  PROVE  (TypeOK /\ StandupsInv)'
<1>1. /\ members' \subseteq Users /\ updates' = updates /\ now' = now
      /\ workingDays' = workingDays /\ standup' = standup /\ call' = call
      /\ list' = list /\ report' = report
  BY DEF Join, Leave, TypeOK
<1>2. TypeOK'
  BY <1>1 DEF TypeOK
<1> QED
  BY <1>1, <1>2, SameTable, CallsEnd, SameList, SameReport DEF StandupsInv

LEMMA TimeKeeps ==
  ASSUME TypeOK, StandupsInv, TimePasses
  PROVE  (TypeOK /\ StandupsInv)'
<1>1. /\ updates' = updates /\ workingDays' = workingDays /\ members' = members
      /\ standup' = standup /\ call' = call /\ list' = list /\ report' = report
  BY DEF TimePasses
<1>2. now' \in Moments
  <2>1. now.day \in Days /\ now.late \in BOOLEAN /\ now \in Moments
    BY DEF TypeOK, Moments
  <2>2. CASE now' = [now EXCEPT !.late = TRUE]
    BY <2>1, <2>2 DEF Moments
  <2>3. CASE now.day < LastDay /\ now' = [day |-> now.day + 1, late |-> FALSE]
    <3>1. now.day + 1 \in Days
      BY <2>1, <2>3, StandupsAssumption DEF StandupsAssumption, Days
    <3> QED
      BY <2>3, <3>1 DEF Moments
  <2> QED
    BY <2>2, <2>3 DEF TimePasses
<1>3. TypeOK'
  BY <1>1, <1>2 DEF TypeOK
<1> QED
  BY <1>1, <1>3, SameTable, CallsEnd, SameList, SameReport DEF StandupsInv

LEMMA UpdateConfigKeeps ==
  ASSUME TypeOK, StandupsInv, UpdateConfig
  PROVE  (TypeOK /\ StandupsInv)'
<1>1. /\ now' \in Moments /\ workingDays' \in Settings
      /\ members' = members /\ standup' = standup /\ call' = call
      /\ list' = list /\ report' = report
  BY DEF UpdateConfig
<1>2. updates' \in 0..MaxUpdates
  BY StandupsAssumption DEF StandupsAssumption, UpdateConfig, TypeOK
<1>3. TypeOK'
  BY <1>1, <1>2 DEF TypeOK
<1> QED
  BY <1>1, <1>3, SameTable, CallsEnd, SameList, SameReport DEF StandupsInv

LEMMA StartSubmitKeeps ==
  ASSUME TypeOK, StandupsInv, NEW c \in Calls, NEW u \in Users, StartSubmit(c, u)
  PROVE  (TypeOK /\ StandupsInv)'
<1> DEFINE s == [user |-> u, at |-> now, setting |-> workingDays]
<1>1. /\ call' = [call EXCEPT ![c] = s] /\ Weekday(now.day) \in workingDays
      /\ standup' = standup /\ list' = list /\ report' = report
      /\ updates' = updates /\ now' = now /\ workingDays' = workingDays /\ members' = members
  BY DEF StartSubmit, Become, team
<1>2. s \in Submits /\ s.at.day = now.day /\ s.setting = workingDays
  BY DEF TypeOK, Submits
<1>3. TypeOK'
  BY <1>1, <1>2 DEF TypeOK
<1>4. CallInv'
  BY <1>1, <1>2, SameTable, Distinct DEF StandupsInv, CallInv, TypeOK, Weekday, Keeps
<1> QED
  BY <1>1, <1>3, <1>4, SameTable, SameList, SameReport DEF StandupsInv

LEMMA StartEditKeeps ==
  ASSUME TypeOK, StandupsInv, NEW c \in Calls, NEW i \in Ids, StartEdit(c, i)
  PROVE  (TypeOK /\ StandupsInv)'
<1> DEFINE s == [id |-> i, at |-> now]
<1>1. /\ call' = [call EXCEPT ![c] = s]
      /\ i \in Stored /\ standup[i].day = now.day /\ ~now.late
      /\ standup' = standup /\ list' = list /\ report' = report
      /\ updates' = updates /\ now' = now /\ workingDays' = workingDays /\ members' = members
  BY DEF StartEdit, Become, team
<1>2. s \in Edits /\ s.id = i /\ s.at = [day |-> standup[i].day, late |-> FALSE]
  BY <1>1 DEF TypeOK, Edits, Moments
<1>3. TypeOK'
  BY <1>1, <1>2 DEF TypeOK
<1>4. CallInv'
  BY <1>1, <1>2, SameTable, Distinct DEF StandupsInv, CallInv, TypeOK, Weekday, Keeps
<1> QED
  BY <1>1, <1>3, <1>4, SameTable, SameList, SameReport DEF StandupsInv

LEMMA CreateKeeps ==
  ASSUME TypeOK, StandupsInv, NEW c \in Calls, Create(c)
  PROVE  (TypeOK /\ StandupsInv)'
<1> DEFINE s == call[c]  n == NewRow(s)
<1>1. /\ call' = [call EXCEPT ![c] = Idle] /\ s \in Submits
      /\ list' = list /\ report' = report
      /\ updates' = updates /\ now' = now /\ workingDays' = workingDays /\ members' = members
  BY DEF Create, Become, team
<1>2. /\ n \in Rows /\ n.user = s.user /\ n.day = s.at.day /\ n.late = s.at.late
      /\ n.taken = [day |-> n.day, late |-> n.late] /\ n.setting = s.setting
  BY <1>1 DEF NewRow, Submits, Rows, Moments
<1>3. CASE standup' = standup
  <2>1. TypeOK'
    BY <1>1, <1>3 DEF TypeOK
  <2> QED
    BY <1>1, <1>3, <2>1, SameTable, CallsEnd, SameList, SameReport DEF StandupsInv, TypeOK
<1>4. CASE ~Has(s.user, s.at.day) /\ \E i \in Ids \ Stored : standup' = [standup EXCEPT ![i] = n]
  <2> PICK i \in Ids \ Stored : standup' = [standup EXCEPT ![i] = n]
    BY <1>4
  <2>1. /\ standup'[i] = n /\ \A j \in Ids \ {i} : standup'[j] = standup[j]
        /\ Stored' = Stored \union {i}
    BY <1>2, Distinct DEF TypeOK, Stored
  <2>2. TypeOK'
    BY <1>1, <1>2 DEF TypeOK
  <2>3. Keeps
    BY <2>1 DEF Keeps, Stored
  <2>4. RowsWork'
    <3>1. Weekday(s.at.day) \in s.setting
      BY <1>1 DEF StandupsInv, CallInv
    <3>2. \A j \in Stored' :
            \/ standup'[j].day = s.at.day /\ standup'[j].setting = s.setting
            \/ j \in Stored /\ standup'[j] = standup[j]
      <4>1. n.day = s.at.day /\ n.setting = s.setting /\ \A j \in Stored : j \in Ids \ {i}
        BY <1>2 DEF Stored
      <4> HIDE DEF n, s
      <4> QED
        BY <2>1, <4>1
    <3> QED
      BY <3>1, <3>2 DEF StandupsInv, RowsWork, Weekday
  <2>5. OnePerDay'
    BY <1>2, <1>4, <2>1 DEF StandupsInv, OnePerDay, Has, Stored
  <2>6. OnTimeIsOnTime'
    BY <1>2, <2>1 DEF StandupsInv, OnTimeIsOnTime, Stored, Rows
  <2> QED
    BY <1>1, <2>2, <2>3, <2>4, <2>5, <2>6, CallsEnd, SameList, SameReport DEF StandupsInv, TypeOK
<1> QED
  BY <1>3, <1>4 DEF Create

LEMMA EditKeeps ==
  ASSUME TypeOK, StandupsInv, NEW c \in Calls, Edit(c)
  PROVE  (TypeOK /\ StandupsInv)'
<1> DEFINE i == call[c].id  at == call[c].at
<1>1. /\ call' = [call EXCEPT ![c] = Idle] /\ call[c] \in Edits
      /\ standup' = [standup EXCEPT ![i].taken = at]
      /\ list' = list /\ report' = report
      /\ updates' = updates /\ now' = now /\ workingDays' = workingDays /\ members' = members
  BY DEF Edit, Become, team
<1>2. i \in Stored /\ at = [day |-> standup[i].day, late |-> FALSE] /\ at \in Moments
  BY <1>1 DEF StandupsInv, CallInv, Edits
<1>3. /\ standup' = [standup EXCEPT ![i] = [standup[i] EXCEPT !.taken = at]]
      /\ standup[i] \in Rows /\ i \in Ids
  BY <1>1, <1>2, RowKinds
<1>4. /\ standup'[i] \in Rows /\ standup'[i].user = standup[i].user
      /\ standup'[i].day = standup[i].day /\ standup'[i].late = standup[i].late
      /\ standup'[i].setting = standup[i].setting
      /\ standup'[i].taken = at /\ \A j \in Ids \ {i} : standup'[j] = standup[j]
  BY <1>2, <1>3 DEF TypeOK, Rows
<1>5. Stored' = Stored
  BY <1>2, <1>3, <1>4, Distinct DEF Stored, TypeOK
<1>6. TypeOK'
  BY <1>1, <1>3, <1>4 DEF TypeOK
<1>7. Keeps
  BY <1>4, <1>5 DEF Keeps, Stored
<1>8. RowsWork' /\ OnePerDay'
  BY <1>5, <1>7 DEF StandupsInv, RowsWork, OnePerDay, Keeps, Weekday
<1>9. OnTimeIsOnTime'
  BY <1>2, <1>4, <1>5 DEF StandupsInv, OnTimeIsOnTime, Stored
<1> QED
  BY <1>1, <1>6, <1>7, <1>8, <1>9, CallsEnd, SameList, SameReport DEF StandupsInv, TypeOK

LEMMA MatchingFacts ==
  ASSUME TypeOK, NEW filter \in SUBSET Users, NEW cursor
  PROVE  /\ Matching(filter, cursor) \subseteq Stored
         /\ \A i \in Matching(filter, cursor) : standup[i].user \in filter /\ After(i, cursor)
         /\ \A i \in Matching(filter, cursor) : i \in Ids
BY DEF Matching, Stored

LEMMA FirstPageKeeps ==
  ASSUME TypeOK, StandupsInv, NEW filter \in SUBSET Users, FirstPage(filter)
  PROVE  (TypeOK /\ StandupsInv)'
<1> DEFINE rows == Matching(filter, TheEnd)
           awaited == IF list = NoList THEN NoAnswer ELSE list.answer
<1> PICK page \in Pages(rows) :
      list' = [filter |-> filter, shown |-> page.items, count |-> Cardinality(page.items),
               cursor |-> page.cursor, answer |-> awaited, owed |-> rows \ page.items,
               mixed |-> awaited # NoAnswer]
  BY DEF FirstPage
<1>1. /\ standup' = standup /\ call' = call /\ report' = report
      /\ updates' = updates /\ now' = now /\ workingDays' = workingDays /\ members' = members
  BY DEF FirstPage, team
<1>2. /\ page \in Answers /\ page.items \subseteq rows
      /\ Divides(page.cursor, page.items, rows \ page.items)
  BY PageFacts, MatchingFacts
<1>3. /\ page.items \subseteq Ids /\ page.cursor \in Cursors /\ rows \subseteq Ids
      /\ Cardinality(page.items) \in Nat
  BY <1>2, MatchingFacts, FS_Subset, FS_CardinalityType, StandupsAssumption
     DEF StandupsAssumption, Answers
<1>4. awaited \in {NoAnswer} \union Answers
  BY DEF TypeOK, Lists
<1>5. list' \in Lists
  BY <1>3, <1>4 DEF Lists
<1>6. TypeOK'
  BY <1>1, <1>5 DEF TypeOK
<1>7. ListInv'
  <2> SUFFICES ASSUME ~list'.mixed
               PROVE  /\ list'.count = Cardinality(list'.shown)
                      /\ Fits(list.shown)' /\ Fits(list.owed)'
                      /\ Divides(list.cursor, list.shown, list.owed)'
                      /\ AnswerInv'
    BY DEF ListInv
  <2>1. Fits(list.shown)' /\ Fits(list.owed)'
    BY <1>1, <1>2, SameTable, MatchingFacts DEF Fits
  <2>2. Divides(list.cursor, list.shown, list.owed)'
    BY <1>1, <1>2 DEF Divides, After
  <2> QED
    BY <2>1, <2>2 DEF AnswerInv
<1> QED
  BY <1>1, <1>6, <1>7, SameTable, CallsEnd, SameReport DEF StandupsInv

LEMMA LoadMoreKeeps ==
  ASSUME TypeOK, StandupsInv, LoadMore
  PROVE  (TypeOK /\ StandupsInv)'
<1> DEFINE rows == Matching(list.filter, list.cursor)
<1> PICK page \in Pages(rows) : list' = [list EXCEPT !.answer = page]
  BY DEF LoadMore
<1>1. /\ list # NoList /\ list.cursor # TheEnd /\ list.answer = NoAnswer /\ list \in Lists
      /\ standup' = standup /\ call' = call /\ report' = report
      /\ updates' = updates /\ now' = now /\ workingDays' = workingDays /\ members' = members
  BY DEF LoadMore, team, TypeOK
<1>2. /\ page \in Answers /\ page.items \subseteq rows
      /\ Divides(page.cursor, page.items, rows \ page.items)
      /\ page.cursor # TheEnd =>
           \E i \in page.items : page.cursor = [day |-> standup[i].day, id |-> i]
  BY SMTT(30), <1>1, PageFacts, MatchingFacts DEF Lists
<1>3. /\ list' \in Lists /\ list'.answer = page /\ list'.filter = list.filter
      /\ list'.shown = list.shown /\ list'.count = list.count /\ list'.cursor = list.cursor
      /\ list'.owed = list.owed /\ list'.mixed = list.mixed
  BY <1>1, <1>2 DEF Lists
<1>4. TypeOK'
  BY <1>1, <1>3 DEF TypeOK
<1>5. ListInv'
  <2> SUFFICES ASSUME ~list.mixed
               PROVE  /\ list'.count = Cardinality(list'.shown)
                      /\ Fits(list.shown)' /\ Fits(list.owed)'
                      /\ Divides(list.cursor, list.shown, list.owed)'
                      /\ AnswerInv'
    BY <1>3 DEF ListInv
  <2>1. /\ list.count = Cardinality(list.shown) /\ Fits(list.shown) /\ Fits(list.owed)
        /\ Divides(list.cursor, list.shown, list.owed)
    BY <1>1 DEF StandupsInv, ListInv
  <2>2. Fits(list.shown)' /\ Fits(list.owed)'
    BY <1>1, <1>3, <2>1, SameTable DEF Fits
  <2>3. Divides(list.cursor, list.shown, list.owed)'
    BY <1>1, <1>3, <2>1 DEF Divides, After
  <2>4. /\ page.items \subseteq Stored
        /\ \A i \in page.items : standup[i].user \in list.filter /\ After(i, list.cursor)
    BY <1>1, <1>2, MatchingFacts DEF Lists
  <2>5. list.owed \subseteq rows
    BY <1>1, <2>1 DEF Fits, Divides, Matching
  <2>6. page.cursor = TheEnd => list.owed \subseteq page.items
    BY <1>2, <2>5 DEF Divides
  <2>7. ASSUME page.cursor # TheEnd
        PROVE  /\ \A i \in list.shown \union page.items : ~After(i, page.cursor)
               /\ \A i \in list.owed \ page.items : After(i, page.cursor)
    <3>1. PICK k \in page.items : page.cursor = [day |-> standup[k].day, id |-> k]
      BY <1>2, <2>7
    <3>2. After(k, list.cursor) /\ k \in Stored
      BY <2>4
    <3>3. ASSUME NEW i \in list.shown
          PROVE  ~After(i, page.cursor)
      <4>1. i \in Stored /\ ~After(i, list.cursor)
        BY <1>1, <2>1 DEF Fits, Divides
      <4>2. list.cursor \in [day : Days, id : Ids] /\ list.cursor.day \in Nat /\ list.cursor.id \in Nat
        BY <1>1, StandupsAssumption DEF StandupsAssumption, Lists, Cursors, Days
      <4>3. /\ i \in Nat /\ k \in Nat /\ standup[i].day \in Nat /\ standup[k].day \in Nat
        BY <4>1, <3>2, RowKinds
      <4>4. page.cursor.day = standup[k].day /\ page.cursor.id = k
        BY <3>1
      <4> QED
        BY <1>1, <2>7, <3>2, <4>1, <4>2, <4>3, <4>4 DEF After
    <3> QED
      BY <1>2, <2>5, <2>7, <3>3 DEF Divides
  <2>8. AnswerInv'
    BY <1>1, <1>3, <2>4, <2>6, <2>7, SameTable DEF AnswerInv, Fits, Divides, After
  <2> QED
    BY <1>3, <2>1, <2>2, <2>3, <2>8
<1> QED
  BY <1>1, <1>4, <1>5, SameTable, CallsEnd, SameReport DEF StandupsInv

LEMMA ShowMoreKeeps ==
  ASSUME TypeOK, StandupsInv, ShowMore
  PROVE  (TypeOK /\ StandupsInv)'
<1> DEFINE items == list.answer.items
<1>1. /\ list # NoList /\ list \in Lists /\ list.answer # NoAnswer /\ list.answer \in Answers
      /\ standup' = standup /\ call' = call /\ report' = report
      /\ updates' = updates /\ now' = now /\ workingDays' = workingDays /\ members' = members
  BY DEF ShowMore, team, TypeOK, Lists
<1>2. /\ items \subseteq Ids /\ list.answer.cursor \in Cursors
      /\ list.shown \subseteq Ids /\ list.owed \subseteq Ids /\ list.count \in Nat
      /\ IsFiniteSet(items) /\ IsFiniteSet(list.shown) /\ Cardinality(items) \in Nat
  <2>1. /\ items \subseteq Ids /\ list.answer.cursor \in Cursors
        /\ list.shown \subseteq Ids /\ list.owed \subseteq Ids /\ list.count \in Nat
    BY <1>1 DEF Lists, Answers
  <2> QED
    BY <2>1, FS_Subset, FS_CardinalityType, StandupsAssumption DEF StandupsAssumption
<1>3. /\ list' \in Lists /\ list'.answer = NoAnswer /\ list'.filter = list.filter
      /\ list'.shown = list.shown \union items
      /\ list'.count = list.count + Cardinality(items)
      /\ list'.cursor = list.answer.cursor
      /\ list'.owed = list.owed \ items /\ list'.mixed = list.mixed
  <2>1. list' = [list EXCEPT !.shown = list.shown \union items,
                             !.count = list.count + Cardinality(items),
                             !.cursor = list.answer.cursor, !.answer = NoAnswer,
                             !.owed = list.owed \ items]
    BY DEF ShowMore
  <2>2. list.count + Cardinality(items) \in Nat
    BY <1>2
  <2> QED
    BY <1>1, <1>2, <2>1, <2>2 DEF Lists
<1>4. TypeOK'
  BY <1>1, <1>3 DEF TypeOK
<1>5. ListInv'
  <2> SUFFICES ASSUME ~list.mixed
               PROVE  /\ list'.count = Cardinality(list'.shown)
                      /\ Fits(list.shown)' /\ Fits(list.owed)'
                      /\ Divides(list.cursor, list.shown, list.owed)'
                      /\ AnswerInv'
    BY <1>3 DEF ListInv
  <2>1. /\ list.count = Cardinality(list.shown) /\ Fits(list.shown) /\ Fits(list.owed)
        /\ Divides(list.cursor, list.shown, list.owed) /\ AnswerInv
    BY <1>1 DEF StandupsInv, ListInv
  <2>2. items \intersect list.shown = {}
    BY <1>1, <2>1 DEF AnswerInv, Divides
  <2>3. Cardinality(list.shown \union items) = Cardinality(list.shown) + Cardinality(items)
    <3>1. Cardinality(list.shown \union items)
            = Cardinality(list.shown) + Cardinality(items) - Cardinality(list.shown \intersect items)
      BY <1>2, FS_Union
    <3>2. Cardinality(list.shown \intersect items) = 0
      <4>1. list.shown \intersect items = {}
        BY <2>2
      <4> QED
        BY <4>1, FS_EmptySet
    <3>3. Cardinality(list.shown) \in Nat
      BY <1>2, <2>1
    <3> QED
      BY <1>2, <3>1, <3>2, <3>3
  <2>4. Fits(list.shown)' /\ Fits(list.owed)'
    BY <1>1, <1>3, <2>1, SameTable DEF Fits, AnswerInv
  <2>5. Divides(list.cursor, list.shown, list.owed)'
    BY <1>1, <1>3, <2>1 DEF Divides, AnswerInv, After
  <2> QED
    BY <1>3, <2>1, <2>3, <2>4, <2>5 DEF AnswerInv
<1> QED
  BY <1>1, <1>4, <1>5, SameTable, CallsEnd, SameReport DEF StandupsInv

LEMMA LoseMoreKeeps ==
  ASSUME TypeOK, StandupsInv, LoseMore
  PROVE  (TypeOK /\ StandupsInv)'
<1>1. /\ list # NoList /\ list \in Lists /\ list' = [list EXCEPT !.answer = NoAnswer]
      /\ standup' = standup /\ call' = call /\ report' = report
      /\ updates' = updates /\ now' = now /\ workingDays' = workingDays /\ members' = members
  BY DEF LoseMore, team, TypeOK
<1>2. /\ list' \in Lists /\ list'.answer = NoAnswer /\ list'.filter = list.filter
      /\ list'.shown = list.shown /\ list'.count = list.count /\ list'.cursor = list.cursor
      /\ list'.owed = list.owed /\ list'.mixed = list.mixed
  BY <1>1 DEF Lists
<1>3. TypeOK'
  BY <1>1, <1>2 DEF TypeOK
<1>4. ListInv'
  BY <1>1, <1>2, SameTable DEF StandupsInv, ListInv, AnswerInv, Fits, Divides, After
<1> QED
  BY <1>1, <1>3, <1>4, SameTable, CallsEnd, SameReport DEF StandupsInv

LEMMA ReportKeeps ==
  ASSUME TypeOK, StandupsInv, StartReport \/ ReadMembers \/ ReadStandups \/ EndReport
  PROVE  (TypeOK /\ StandupsInv)'
<1>1. /\ updates' = updates /\ now' = now /\ workingDays' = workingDays /\ members' = members
      /\ standup' = standup /\ call' = call
      /\ list' = list \/ list' = NoList
  BY DEF StartReport, ReadMembers, ReadStandups, EndReport, team
<1>2. report' \in {NoReport} \union Reports /\ ReportInv'
  <2>1. CASE StartReport
    BY <2>1 DEF StartReport, Reports, Queries, ReportInv, TypeOK, Moments
  <2>2. CASE ReadMembers
    <3>1. /\ report \in Reports /\ members \subseteq Users
          /\ report' = [report EXCEPT !.members = members, !.queries = @ \ {"members"}]
      BY <2>2 DEF ReadMembers, TypeOK
    <3>2. /\ report' \in Reports /\ report'.rows = report.rows
          /\ report'.day = report.day
      BY <3>1 DEF Reports
    <3> QED
      BY <1>1, <2>2, <3>2, SameTable DEF ReportInv, OfWeek, StandupsInv, ReadMembers
  <2>3. CASE ReadStandups
    <3> DEFINE rows == OfWeek(Stored, report.day)
    <3>1. /\ report \in Reports /\ rows \subseteq Stored /\ rows \subseteq Ids
          /\ report' = [report EXCEPT !.rows = rows, !.queries = @ \ {"standups"}]
      BY <2>3 DEF ReadStandups, TypeOK, OfWeek, Stored
    <3>2. report' \in Reports /\ report'.rows = rows /\ report'.day = report.day
      BY <3>1 DEF Reports
    <3> QED
      BY <1>1, <3>1, <3>2, SameTable DEF ReportInv, OfWeek
  <2>4. CASE EndReport
    BY <2>4 DEF EndReport, ReportInv
  <2> QED
    BY <2>1, <2>2, <2>3, <2>4
<1>3. TypeOK'
  BY <1>1, <1>2 DEF TypeOK
<1>4. ListInv'
  BY <1>1, SameTable, SameList DEF StandupsInv, ListInv
<1> QED
  BY <1>1, <1>2, <1>3, <1>4, SameTable, CallsEnd DEF StandupsInv

-----------------------------------------------------------------------------
(* Theorems.                                                                   *)

THEOREM InvCorrect == Spec => [](TypeOK /\ StandupsInv)
<1>1. Init => TypeOK /\ StandupsInv
  <2> SUFFICES ASSUME Init
               PROVE  TypeOK /\ StandupsInv
    OBVIOUS
  <2>1. now \in Moments
    BY StandupsAssumption DEF StandupsAssumption, Init, Moments, Days
  <2>2. TypeOK
    BY <2>1, StandupsAssumption DEF StandupsAssumption, Init, TypeOK
  <2>3. Stored = {}
    BY DEF Init, Stored
  <2>4. \A c \in Calls : call[c] \notin Submits /\ call[c] \notin Edits
    BY Distinct DEF Init
  <2> QED
    BY <2>2, <2>3, <2>4 DEF Init, StandupsInv, CallInv, RowsWork, OnePerDay, OnTimeIsOnTime,
       ListInv, ReportInv
<1>2. TypeOK /\ StandupsInv /\ [Next]_vars => (TypeOK /\ StandupsInv)'
  <2> SUFFICES ASSUME TypeOK, StandupsInv, [Next]_vars
               PROVE  (TypeOK /\ StandupsInv)'
    OBVIOUS
  <2>1. CASE UNCHANGED vars
    <3>1. /\ updates' = updates /\ now' = now /\ workingDays' = workingDays
          /\ members' = members /\ standup' = standup /\ call' = call
          /\ list' = list /\ report' = report
      BY <2>1 DEF vars
    <3>2. TypeOK'
      BY <3>1 DEF TypeOK
    <3> QED
      BY <3>1, <3>2, SameTable, CallsEnd, SameList, SameReport DEF StandupsInv
  <2>2. CASE \E u \in Users : Join(u) \/ Leave(u)
    BY <2>2, TeamKeeps
  <2>3. CASE TimePasses \/ UpdateConfig
    BY <2>3, TimeKeeps, UpdateConfigKeeps
  <2>4. CASE \E filter \in {Users} \union {{u} : u \in Users} : FirstPage(filter)
    <3>1. \A filter \in {Users} \union {{u} : u \in Users} : filter \in SUBSET Users
      OBVIOUS
    <3> QED
      BY <2>4, <3>1, FirstPageKeeps
  <2> QED
    BY <2>1, <2>2, <2>3, <2>4, StartSubmitKeeps, StartEditKeeps, CreateKeeps, EditKeeps,
       LoadMoreKeeps, ShowMoreKeeps, LoseMoreKeeps, ReportKeeps
       DEF Next
<1> QED
  BY <1>1, <1>2, PTL DEF Spec

(* The table, the calls, the list and the report have their types.             *)
THEOREM TypeCorrect == Spec => []TypeOK
BY InvCorrect, PTL

(* One standup per user and day, however many submits overlap                   *)
(* (standups.service.ts:52-76).                                                *)
THEOREM OneCorrect == Spec => []OnePerDay
<1>1. StandupsInv => OnePerDay
  BY DEF StandupsInv
<1> QED
  BY <1>1, InvCorrect, PTL

(* A standup on time says nothing taken after its deadline                      *)
(* (standups.service.ts:63, :106-116).                                         *)
THEOREM OnTimeCorrect == Spec => []OnTimeIsOnTime
<1>1. StandupsInv => OnTimeIsOnTime
  BY DEF StandupsInv
<1> QED
  BY <1>1, InvCorrect, PTL

(* Whatever is inserted between two pages, paging shows each row of the filter  *)
(* once, and at its end all that were there at its start                       *)
(* (standups.service.ts:302-367, reports.service.ts:151-229).                  *)
THEOREM PagesCorrect == Spec => []PagesComplete
<1>1. StandupsInv => PagesComplete
  BY DEF StandupsInv, ListInv, PagesComplete, Fits, Divides
<1> QED
  BY <1>1, InvCorrect, PTL

(* The dashboard agrees with the board exactly when all whose standups it       *)
(* counts are among the members (analytics.service.ts:33-48).                  *)
THEOREM CountsCorrect == Spec => []CountsAgree
<1>1. TypeOK /\ StandupsInv => CountsAgree
  <2> SUFFICES ASSUME TypeOK, StandupsInv, report # NoReport, WorksToday(report)
               PROVE  Dashboard(report) = Board(report)
                        <=> SubmittersOf(OfDay(report)) \subseteq report.members
    BY DEF CountsAgree
  <2> DEFINE M == report.members
             D == OfDay(report)
             S == SubmittersOf(D)
             f == [i \in D |-> standup[i].user]
  <2>1. /\ D \subseteq Stored /\ D \subseteq Ids /\ M \subseteq Users
        /\ \A i \in D : standup[i].day = report.day
    BY DEF StandupsInv, ReportInv, OfWeek, OfDay, TypeOK, Reports, Stored
  <2>2. f \in Surjection(D, S) /\ f \in Injection(D, S)
    <3>1. f \in [D -> S] /\ \A u \in S : \E i \in D : f[i] = u
      BY DEF SubmittersOf
    <3>2. \A i, j \in D : f[i] = f[j] => i = j
      BY <2>1 DEF StandupsInv, OnePerDay
    <3> QED
      BY <3>1, <3>2 DEF Surjection, Injection, IsInjective
  <2>3. IsFiniteSet(D) /\ IsFiniteSet(M)
    BY <2>1, FS_Subset, StandupsAssumption DEF StandupsAssumption
  <2>4. IsFiniteSet(S) /\ Cardinality(D) = Cardinality(S)
    BY <2>2, <2>3, FS_Surjection
  <2>5. Cardinality(M \ S) = Cardinality(M) - Cardinality(M \intersect S)
    BY <2>3, FS_Difference
  <2>6. Cardinality(M \intersect S) = Cardinality(S) <=> S \subseteq M
    <3>1. M \intersect S \in SUBSET S
      OBVIOUS
    <3>2. Cardinality(S) = Cardinality(M \intersect S) => S = M \intersect S
      BY <2>4, <3>1, FS_Subset
    <3>3. S \subseteq M => S = M \intersect S
      OBVIOUS
    <3> QED
      BY <3>2, <3>3
  <2>7. /\ Cardinality(M) \in Nat /\ Cardinality(S) \in Nat
        /\ Cardinality(M \intersect S) \in Nat
    BY <2>3, <2>4, FS_CardinalityType, FS_Intersection
  <2>8. Dashboard(report) = Board(report)
          <=> /\ Cardinality(D) = Cardinality(M \intersect S)
              /\ Cardinality(M) - Cardinality(D) = Cardinality(M \ S)
    BY DEF Dashboard, Board
  <2> QED
    BY <2>4, <2>5, <2>6, <2>7, <2>8
<1> QED
  BY <1>1, InvCorrect, PTL

-----------------------------------------------------------------------------
(* A week's working days.                                                      *)

LEMMA DivMod ==
  ASSUME NEW a \in Int, NEW n \in Nat \ {0}
  PROVE  /\ a % n \in 0..(n - 1)
         /\ \E q \in Int : a = n * q + (a % n)
<1>1. a % n \in 0..(n - 1)
  OBVIOUS
<1> DEFINE q == a \div n
<1>2. q \in Int /\ a = n * q + (a % n)
  OBVIOUS
<1> HIDE DEF q
<1> QED
  BY <1>1, <1>2

LEMMA ModUnique ==
  ASSUME NEW n \in Nat \ {0}, NEW q \in Int, NEW r \in 0..(n - 1)
  PROVE  (n * q + r) % n = r
OBVIOUS

(* Numbers less than n apart have different remainders.                        *)
LEMMA ModApart ==
  ASSUME NEW n \in Nat \ {0}, NEW a \in Int, NEW b \in Int,
         a % n = b % n, -n < a - b, a - b < n
  PROVE  a = b
<1>1. PICK p \in Int : a = n * p + (a % n)
  BY DivMod
<1>2. PICK q \in Int : b = n * q + (b % n)
  BY DivMod
<1>3. a - b = n * p - n * q
  BY <1>1, <1>2, DivMod
<1>4. CASE p >= q + 1
  <2>1. n * p >= n * (q + 1)
    BY <1>4
  <2> QED
    BY <1>3, <2>1
<1>5. CASE p + 1 <= q
  <2>1. n * q >= n * (p + 1)
    BY <1>5
  <2> QED
    BY <1>3, <2>1
<1>6. CASE p = q
  BY <1>3, <1>6
<1> QED
  BY <1>4, <1>5, <1>6

(* Of n numbers in a row, every remainder has one.                              *)
LEMMA ModReached ==
  ASSUME NEW n \in Nat \ {0}, NEW t \in Int, NEW r \in 0..(n - 1)
  PROVE  \E a \in (t - (n - 1))..t : a % n = r
<1> DEFINE back == (t - r) % n
<1>1. back \in 0..(n - 1) /\ \E q \in Int : t - r = n * q + back
  <2>1. t - r \in Int
    OBVIOUS
  <2> QED
    BY <2>1, DivMod
<1>2. PICK q \in Int : t - r = n * q + back
  BY <1>1
<1> HIDE DEF back
<1>3. t - back = n * q + r /\ t - back \in (t - (n - 1))..t
  BY <1>1, <1>2
<1>4. (n * q + r) % n = r
  BY ModUnique
<1> QED
  BY <1>3, <1>4

(* Any week has the working days of any setting, in any zone.                  *)
LEMMA WeekCounted ==
  ASSUME NEW west \in Int, NEW t \in Int, NEW working \in SUBSET (0..(DaysPerWeek - 1))
  PROVE  WorkingDaysInRange(west, working, t - (DaysPerWeek - 1), t) = Cardinality(working)
<1> DEFINE Week == (t - (DaysPerWeek - 1))..t
           D == {d \in Week : ZoneWeekday(west, d) \in working}
           f == [d \in D |-> ZoneWeekday(west, d)]
<1>1. DaysPerWeek \in Nat \ {0} /\ working \subseteq 0..(DaysPerWeek - 1)
  BY StandupsAssumption DEF StandupsAssumption
<1>2. f \in Injection(D, working)
  <2>1. ASSUME NEW d \in D, NEW e \in D, f[d] = f[e] PROVE d = e
    <3>1. d - west \in Int /\ e - west \in Int
      OBVIOUS
    <3>2. (d - west) % DaysPerWeek = (e - west) % DaysPerWeek
      BY <2>1 DEF ZoneWeekday, Weekday
    <3>3. -DaysPerWeek < (d - west) - (e - west) /\ (d - west) - (e - west) < DaysPerWeek
      BY <1>1
    <3>4. d - west = e - west
      BY <1>1, <3>1, <3>2, <3>3, ModApart
    <3> QED
      BY <3>4
  <2> QED
    BY <2>1 DEF Injection, IsInjective
<1>3. f \in Surjection(D, working)
  <2>1. ASSUME NEW r \in working PROVE \E d \in D : f[d] = r
    <3>1. t - west \in Int /\ r \in 0..(DaysPerWeek - 1)
      BY <1>1
    <3>2. PICK a \in ((t - west) - (DaysPerWeek - 1))..(t - west) : a % DaysPerWeek = r
      BY <1>1, <3>1, ModReached
    <3>3. a + west \in Week /\ (a + west) - west = a
      BY <1>1
    <3>4. a + west \in D /\ f[a + west] = r
      BY <3>2, <3>3 DEF ZoneWeekday, Weekday
    <3> QED
      BY <3>4
  <2> QED
    BY <2>1 DEF Surjection
<1>4. IsFiniteSet(D)
  <2>1. t - (DaysPerWeek - 1) \in Int /\ D \in SUBSET Week
    BY <1>1
  <2> QED
    BY <2>1, FS_Interval, FS_Subset
<1>5. Cardinality(D) = Cardinality(working)
  BY <1>2, <1>3, <1>4, FS_Surjection
<1> QED
  BY <1>5 DEF WorkingDaysInRange

(* A setting has days of the week.                                             *)
LEMMA SettingDays ==
  ASSUME NEW working \in Settings
  PROVE  working \in SUBSET (0..(DaysPerWeek - 1))
BY StandupsAssumption DEF StandupsAssumption

(* The rows of a report that were let in under its working days are on these    *)
(* days of its week.                                                           *)
LEMMA LetInOnItsDays ==
  ASSUME TypeOK, StandupsInv, report # NoReport,
         NEW i \in report.rows \ LetInOtherwise(report)
  PROVE  /\ i \in Stored
         /\ standup[i].day \in (report.day - (DaysPerWeek - 1))..report.day
         /\ ZoneWeekday(0, standup[i].day) \in report.working
<1>1. /\ i \in Stored /\ standup[i].setting = report.working
      /\ standup[i].day \in (report.day - (DaysPerWeek - 1))..report.day
  BY DEF StandupsInv, ReportInv, OfWeek, LetInOtherwise
<1>2. Weekday(standup[i].day) \in report.working
  BY <1>1 DEF StandupsInv, RowsWork
<1>3. standup[i].day - 0 = standup[i].day
  BY <1>1, RowKinds
<1> QED
  BY <1>1, <1>2, <1>3 DEF ZoneWeekday

(* Over a whole week the working days of the setting read are counted right in  *)
(* any zone, and with standups let in under it nobody took part more often than *)
(* there were any (reports.service.ts:12-27, :50-60, :89-110), nor all members  *)
(* together (:129-132) while all who submitted are members: a row is one of a   *)
(* user and a working day of the week.                                         *)
THEOREM ParticipationCorrect == Spec => []ParticipationAtMostOne
<1> DEFINE Week == (report.day - (DaysPerWeek - 1))..report.day
           D == {d \in Week : ZoneWeekday(0, d) \in report.working}
           Rs == report.rows \ LetInOtherwise(report)
<1>1. ASSUME TypeOK, report # NoReport
      PROVE  /\ report.day \in Int /\ report.members \subseteq Users
             /\ report.working \in SUBSET (0..(DaysPerWeek - 1))
             /\ IsFiniteSet(D) /\ Cardinality(D) = Cardinality(report.working)
             /\ IsFiniteSet(report.members)
  <2>1. /\ report.day \in Int /\ report.members \subseteq Users /\ DaysPerWeek \in Int
        /\ report.working \in Settings
    BY <1>1, StandupsAssumption DEF TypeOK, Reports, Days, StandupsAssumption
  <2>2. report.working \in SUBSET (0..(DaysPerWeek - 1))
    BY <2>1, SettingDays
  <2>3. IsFiniteSet(D)
    <3>1. report.day - (DaysPerWeek - 1) \in Int /\ D \in SUBSET Week
      BY <2>1
    <3> QED
      BY <2>1, <3>1, FS_Interval, FS_Subset
  <2>4. Cardinality(D) = Cardinality(report.working)
    <3>1. WorkingDaysInRange(0, report.working, report.day - (DaysPerWeek - 1), report.day)
            = Cardinality(report.working)
      BY <2>1, <2>2, WeekCounted
    <3> QED
      BY <3>1 DEF WorkingDaysInRange
  <2>5. IsFiniteSet(report.members)
    BY <2>1, FS_Subset, StandupsAssumption DEF StandupsAssumption
  <2> QED
    BY <2>1, <2>2, <2>3, <2>4, <2>5
<1>2. ASSUME TypeOK, StandupsInv, report # NoReport, NEW u \in Users
      PROVE  Submitted(Rs, u) <= Cardinality(D)
  <2> DEFINE Us == {i \in Rs : standup[i].user = u}
             f == [i \in Us |-> standup[i].day]
  <2>1. \A i \in Us : i \in Stored /\ standup[i].day \in D
    BY <1>2, LetInOnItsDays
  <2>2. \A i, j \in Us : f[i] = f[j] => i = j
    BY <1>2, <2>1 DEF StandupsInv, OnePerDay
  <2>3. f \in Injection(Us, D)
    BY <2>1, <2>2 DEF Injection, IsInjective
  <2>4. Cardinality(Us) <= Cardinality(D)
    BY <1>1, <1>2, <2>3, FS_Injection
  <2> QED
    BY <2>4 DEF Submitted
<1>3. ASSUME TypeOK, StandupsInv, report # NoReport, SubmittersOf(Rs) \subseteq report.members
      PROVE  Cardinality(Rs) <= Cardinality(report.members) * Cardinality(D)
  <2> DEFINE f == [i \in Rs |-> <<standup[i].user, standup[i].day>>]
  <2>1. \A i \in Rs : /\ i \in Stored /\ standup[i].day \in D
                      /\ standup[i].user \in report.members
    BY <1>3, LetInOnItsDays DEF SubmittersOf
  <2>2. \A i, j \in Rs : f[i] = f[j] => i = j
    BY <1>3, <2>1 DEF StandupsInv, OnePerDay
  <2>3. f \in Injection(Rs, report.members \X D)
    BY <2>1, <2>2 DEF Injection, IsInjective
  <2>4. /\ IsFiniteSet(report.members \X D)
        /\ Cardinality(report.members \X D) = Cardinality(report.members) * Cardinality(D)
    BY <1>1, <1>3, FS_Product
  <2> QED
    BY <2>3, <2>4, FS_Injection
<1>4. TypeOK /\ StandupsInv => ParticipationAtMostOne
  <2> SUFFICES ASSUME TypeOK, StandupsInv, report # NoReport, NEW west \in {0, 1}
               PROVE  LET days == WorkingDaysInRange(west, report.working,
                                                     report.day - (DaysPerWeek - 1),
                                                     report.day) IN
                      /\ days = Cardinality(report.working)
                      /\ \A u \in Users : Submitted(Rs, u) <= days
                      /\ SubmittersOf(Rs) \subseteq report.members =>
                           Cardinality(Rs) <= Cardinality(report.members) * days
    BY DEF ParticipationAtMostOne
  <2>1. WorkingDaysInRange(west, report.working, report.day - (DaysPerWeek - 1), report.day)
          = Cardinality(report.working)
    BY <1>1, WeekCounted
  <2>2. Cardinality(D) = Cardinality(report.working)
    BY <1>1
  <2> HIDE DEF D, Rs
  <2> QED
    BY <1>2, <1>3, <2>1, <2>2
<1> QED
  BY <1>4, InvCorrect, PTL
=============================================================================
