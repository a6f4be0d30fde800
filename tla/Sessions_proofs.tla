---------------------------- MODULE Sessions_proofs ----------------------------
(* Proofs about who is who: Sessions for any tokens, families, browsers,       *)
(* requests and faults, and, from "Accounts" on, Accounts for any addresses,   *)
(* profiles, links, requests, workers and faults.                              *)
EXTENDS Sessions, AccountTables, FiniteSetTheorems, TLAPS

USE SessionsAssumption

-----------------------------------------------------------------------------
(* The inductive invariant.                                                    *)

(* What requests and cookies point to has a row, in the family they name.      *)
PointsToRows ==
  /\ \A b \in Browsers : cookie[b] # NoToken => token[cookie[b]] \in Rows
  /\ \A c \in Calls : call[c] \in Requests =>
       /\ call[c].old # NoToken => /\ token[call[c].old] \in Rows
                                   /\ token[call[c].old].family = call[c].family
       /\ call[c].pc \notin {"insert", "reply"} => call[c].old # NoToken
       /\ IF call[c].pc \in {"retire", "reply"}
          THEN /\ call[c].new \in Tokens
               /\ token[call[c].new] \in Rows
               /\ token[call[c].new].family = call[c].family
          ELSE call[c].new = NoToken

(* A token is in one browser's hands, and one just issued in nobody's yet.     *)
OneHolder ==
  /\ \A b, d \in Browsers : cookie[b] # NoToken /\ cookie[b] = cookie[d] => b = d
  /\ \A c \in Calls, b \in Browsers :
       call[c] \in Requests /\ call[c].old # NoToken /\ call[c].old = cookie[b]
         => call[c].browser = b
  /\ \A c \in Calls : call[c] \in Requests /\ call[c].new # NoToken =>
       /\ \A b \in Browsers : cookie[b] # call[c].new
       /\ \A o \in Calls : call[o] \in Requests =>
            /\ call[o].old # call[c].new
            /\ o # c => call[o].new # call[c].new

(* Of an ended session nothing is good, and nothing good is on its way.        *)
EndedInv == \A f \in ended \ slipped :
  /\ LiveIn(f) = {}
  /\ \A c \in Calls : call[c] \in Requests /\ At(c, "insert") => call[c].family # f

Busy(c, f) ==
  call[c] \in Requests /\ call[c].pc \in {"insert", "retire"} /\ call[c].family = f

(* A family nothing disturbed has one request at work, and its good tokens are  *)
(* that request's; without one, it has one good token.                         *)
OneBusy(f) == \A c, o \in Calls : Busy(c, f) /\ Busy(o, f) => c = o
OneRotates(f) == \A c, o \in Calls : \A k \in Tokens :
  call[c].family = f /\ call[o].family = f /\ Rotates(c, k) /\ Rotates(o, k) => c = o
GoodIsAtWork(f) == \A c \in Calls : Busy(c, f) =>
  LiveIn(f) \subseteq (IF At(c, "insert") THEN {call[c].old}
                                         ELSE {call[c].old, call[c].new})
OneGood(f) == (\A c \in Calls : ~Busy(c, f)) => \A j, k \in LiveIn(f) : j = k
OneAtWork == \A f \in Families \ disturbed :
  OneBusy(f) /\ OneRotates(f) /\ GoodIsAtWork(f) /\ OneGood(f)

(* What a rotation issued is good until its family ends.                       *)
IssuedIsLive == \A c \in Calls :
  call[c] \in Requests /\ call[c].new # NoToken /\ call[c].family \notin ended
    => Live(call[c].new)

SessionsInv == PointsToRows /\ OneHolder /\ EndedInv /\ OneAtWork
                 /\ IssuedIsLive /\ SessionSurvives

-----------------------------------------------------------------------------
(* Types.                                                                      *)

LEMMA CallKinds ==
  ASSUME TypeOK, NEW c \in Calls
  PROVE  /\ call[c] \in Requests \/ call[c] = Idle \/ call[c] = Reset
         /\ call[c].pc \notin {"idle", "reset"} => call[c] \in Requests
         /\ call[c] \in Requests => /\ call[c].pc \notin {"idle", "reset"}
                                    /\ call[c].family \in Families
                                    /\ call[c].browser \in Browsers
                                    /\ call[c].old \in Tokens \union {NoToken}
                                    /\ call[c].new \in Tokens \union {NoToken}
         /\ Idle \notin Requests /\ Reset \notin Requests
BY DEF TypeOK, Requests, Idle, Reset

LEMMA TokenKinds ==
  ASSUME TypeOK, NEW k \in Tokens
  PROVE  /\ token[k] \in Rows \/ token[k] = NoRow
         /\ NoRow \notin Rows
         /\ token[k] \in Rows => token[k].family \in Families /\ token[k].live \in BOOLEAN
         /\ Live(k) => token[k] \in Rows
BY DEF TypeOK, Rows, NoRow, Live

(* What a step of a request changes of the requests.                           *)
LEMMA BecomeType ==
  ASSUME TypeOK, NEW c \in Calls, NEW s \in {Idle, Reset} \union Requests, Become(c, s)
  PROVE  /\ call' \in [Calls -> {Idle, Reset} \union Requests]
         /\ call'[c] = s
         /\ \A o \in Calls : o # c => call'[o] = call[o]
BY DEF TypeOK, Become

LEMMA GotoType ==
  ASSUME TypeOK, NEW c \in Calls, call[c] \in Requests,
         NEW pc \in {"find", "revoke", "insert", "retire", "reply", "logout", "clear"},
         Goto(c, pc)
  PROVE  /\ call' \in [Calls -> {Idle, Reset} \union Requests]
         /\ call'[c] \in Requests
         /\ call'[c].pc = pc
         /\ call'[c].browser = call[c].browser /\ call'[c].family = call[c].family
         /\ call'[c].old = call[c].old /\ call'[c].new = call[c].new
         /\ \A o \in Calls : o # c => call'[o] = call[o]
<1>1. [call[c] EXCEPT !.pc = pc] \in Requests
  BY DEF Requests
<1> QED
  BY <1>1 DEF TypeOK, Goto, Requests

LEMMA InsertType ==
  ASSUME TypeOK, NEW c \in Calls, NEW k \in Tokens, At(c, "insert"),
         call' = [call EXCEPT ![c].new = k, ![c].pc =
                    IF call[c].old = NoToken THEN "reply" ELSE "retire"]
  PROVE  /\ call' \in [Calls -> {Idle, Reset} \union Requests]
         /\ call'[c] \in Requests
         /\ call'[c].pc = IF call[c].old = NoToken THEN "reply" ELSE "retire"
         /\ call'[c].browser = call[c].browser /\ call'[c].family = call[c].family
         /\ call'[c].old = call[c].old /\ call'[c].new = k
         /\ \A o \in Calls : o # c => call'[o] = call[o]
<1>1. call[c] \in Requests
  BY CallKinds DEF At
<1>2. [call[c] EXCEPT !.new = k, !.pc =
         IF call[c].old = NoToken THEN "reply" ELSE "retire"] \in Requests
  BY <1>1 DEF Requests
<1> QED
  BY <1>1, <1>2 DEF TypeOK, Requests

LEMMA RevokeType ==
  ASSUME TypeOK, NEW F \in SUBSET Families, Revoke(F)
  PROVE  /\ token' \in [Tokens -> {NoRow} \union Rows]
         /\ ended' = ended \union F /\ slipped \subseteq slipped'
         /\ ended' \subseteq Families /\ slipped' \subseteq Families
         /\ \A k \in Tokens : /\ Live(k)' <=> Live(k) /\ token[k].family \notin F
                              /\ token'[k] \in Rows <=> token[k] \in Rows
                              /\ token'[k].family = token[k].family
<1>1. \A k \in Tokens : Live(k) => [token[k] EXCEPT !.live = FALSE] \in Rows
  BY TokenKinds DEF Rows
<1>2. \A k \in Tokens : Live(k) => [token[k] EXCEPT !.live = FALSE].live = FALSE
                                   /\ [token[k] EXCEPT !.live = FALSE].family = token[k].family
  BY TokenKinds DEF Rows
<1>3. token' \in [Tokens -> {NoRow} \union Rows]
  BY <1>1 DEF Revoke, TypeOK
<1>4. \A k \in Tokens : /\ Live(k)' <=> Live(k) /\ token[k].family \notin F
                        /\ token'[k] \in Rows <=> token[k] \in Rows
                        /\ token'[k].family = token[k].family
  <2> SUFFICES ASSUME NEW k \in Tokens
               PROVE  /\ Live(k)' <=> Live(k) /\ token[k].family \notin F
                      /\ token'[k] \in Rows <=> token[k] \in Rows
                      /\ token'[k].family = token[k].family
    OBVIOUS
  <2>1. CASE Live(k) /\ token[k].family \in F
    <3>1. token'[k] = [token[k] EXCEPT !.live = FALSE]
      BY <2>1 DEF Revoke
    <3> QED
      BY <2>1, <3>1, <1>1, <1>2, TokenKinds DEF Live
  <2>2. CASE ~(Live(k) /\ token[k].family \in F)
    BY <2>2 DEF Revoke, Live
  <2> QED
    BY <2>1, <2>2
<1> QED
  BY <1>3, <1>4 DEF Revoke, TypeOK

LEMMA RetireType ==
  ASSUME TypeOK, PointsToRows, NEW c \in Calls, Retire(c)
  PROVE  /\ call[c].old \in Tokens
         /\ token' \in [Tokens -> {NoRow} \union Rows]
         /\ \A k \in Tokens : /\ Live(k)' <=> Live(k) /\ k # call[c].old
                              /\ token'[k] \in Rows <=> token[k] \in Rows
                              /\ token'[k].family = token[k].family
<1>1. call[c].old \in Tokens /\ token[call[c].old] \in Rows
  BY CallKinds DEF Retire, At, PointsToRows
<1> DEFINE new == [token[call[c].old] EXCEPT !.live = FALSE]
<1>2. new \in Rows /\ new.live = FALSE /\ new.family = token[call[c].old].family
  BY <1>1 DEF Rows
<1>3. token' = [token EXCEPT ![call[c].old] = new]
  BY <1>1 DEF Retire, TypeOK
<1> HIDE DEF new
<1> QED
  BY <1>1, <1>2, <1>3, TokenKinds DEF TypeOK, Live

LEMMA TypeInit == Init => TypeOK
BY DEF Init, TypeOK, Idle

LEMMA TypeStep == TypeOK /\ PointsToRows /\ [Next]_vars => TypeOK'
<1> SUFFICES ASSUME TypeOK, PointsToRows, [Next]_vars PROVE TypeOK'
  OBVIOUS
<1>1. ASSUME NEW c \in Calls, NEW b \in Browsers, StartLogin(c, b) PROVE TypeOK'
  <2>1. PICK f \in Families :
          Become(c, [pc |-> "insert", browser |-> b, old |-> NoToken,
                     family |-> f, new |-> NoToken])
    BY <1>1 DEF StartLogin
  <2>2. [pc |-> "insert", browser |-> b, old |-> NoToken, family |-> f, new |-> NoToken]
          \in Requests
    BY DEF Requests
  <2> QED
    BY <1>1, <2>1, <2>2, BecomeType DEF StartLogin, history, TypeOK
<1>2. ASSUME NEW c \in Calls, NEW b \in Browsers, StartRefresh(c, b) \/ StartLogout(c, b)
      PROVE  TypeOK'
  <2>1. cookie[b] \in Tokens /\ token[cookie[b]].family \in Families
    BY <1>2, TokenKinds DEF StartRefresh, StartLogout, PointsToRows, TypeOK, Rows
  <2>2. PICK pc \in {"find", "logout"} :
          Become(c, [pc |-> pc, browser |-> b, old |-> cookie[b],
                     family |-> token[cookie[b]].family, new |-> NoToken])
    BY <1>2 DEF StartRefresh, StartLogout
  <2>3. [pc |-> pc, browser |-> b, old |-> cookie[b],
         family |-> token[cookie[b]].family, new |-> NoToken] \in Requests
    BY <2>1 DEF Requests
  <2>4. disturbed' \subseteq Families
    BY <1>2, <2>1 DEF StartRefresh, StartLogout, history, TypeOK
  <2> QED
    BY <1>2, <2>2, <2>3, <2>4, BecomeType DEF StartRefresh, StartLogout, history, TypeOK
<1>3. ASSUME NEW c \in Calls, StartReset(c) PROVE TypeOK'
  BY <1>3, BecomeType DEF StartReset, history, TypeOK
<1>4. ASSUME NEW c \in Calls, Find(c) PROVE TypeOK'
  <2>1. call[c] \in Requests
    BY <1>4, CallKinds DEF Find, At
  <2> QED
    BY <1>4, <2>1, BecomeType, GotoType DEF Find, history, TypeOK
<1>5. ASSUME NEW c \in Calls, Insert(c) PROVE TypeOK'
  <2>1. PICK k \in Tokens : InsertOf(c, k)
    BY <1>5 DEF Insert
  <2>2. [family |-> call[c].family, live |-> TRUE] \in Rows
    BY <2>1, CallKinds DEF InsertOf, At, Rows
  <2> QED
    BY <2>1, <2>2, InsertType DEF InsertOf, history, TypeOK
<1>6. ASSUME NEW c \in Calls, Retire(c) PROVE TypeOK'
  <2>1. call[c] \in Requests
    BY <1>6, CallKinds DEF Retire, At
  <2> QED
    BY <1>6, <2>1, GotoType, RetireType DEF Retire, history, TypeOK
<1>7. ASSUME NEW c \in Calls, Reply(c) \/ ClearCookie(c) PROVE TypeOK'
  <2>1. call[c] \in Requests
    BY <1>7, CallKinds DEF Reply, ClearCookie, At
  <2> QED
    BY <1>7, <2>1, CallKinds, BecomeType DEF Reply, ClearCookie, history, TypeOK
<1>8. ASSUME NEW c \in Calls, RevokeReused(c) \/ Logout(c) PROVE TypeOK'
  <2>1. call[c] \in Requests /\ {call[c].family} \in SUBSET Families
    BY <1>8, CallKinds DEF RevokeReused, Logout, At
  <2>2. Revoke({call[c].family}) /\ (Become(c, Idle) \/ Goto(c, "clear"))
    BY <1>8 DEF RevokeReused, Logout
  <2>3. disturbed' \subseteq Families
    BY <2>2 DEF Revoke, TypeOK
  <2> QED
    BY <1>8, <2>1, <2>2, <2>3, RevokeType, BecomeType, GotoType
    DEF RevokeReused, Logout, TypeOK
<1>9. ASSUME NEW c \in Calls, CommitReset(c) PROVE TypeOK'
  <2>1. PICK F \in SUBSET Families : Revoke(F)
    BY <1>9 DEF CommitReset
  <2>2. disturbed' \subseteq Families
    BY <2>1 DEF Revoke, TypeOK
  <2> QED
    BY <1>9, <2>1, <2>2, RevokeType, BecomeType DEF CommitReset, TypeOK
<1>10. ASSUME NEW c \in Calls, CallDies(c) PROVE TypeOK'
  <2>1. disturbed' \subseteq Families
    BY <1>10, CallKinds DEF CallDies, TypeOK
  <2>2. faults' \in 0..MaxFaults
    BY <1>10 DEF CallDies, TypeOK
  <2> QED
    BY <1>10, <2>1, <2>2, BecomeType DEF CallDies, TypeOK
<1>11. ASSUME NEW k \in Tokens, Expire(k) PROVE TypeOK'
  BY <1>11 DEF Expire, history, TypeOK
<1>12. CASE UNCHANGED vars
  BY <1>12 DEF vars, TypeOK
<1> QED
  BY <1>1, <1>2, <1>3, <1>4, <1>5, <1>6, <1>7, <1>8, <1>9, <1>10, <1>11, <1>12
  DEF Next, CallStep

-----------------------------------------------------------------------------
(* The invariant is preserved.  A request that starts holds the cookie of its   *)
(* browser or nothing; one that ends no longer counts.                         *)

LEMMA InvInit == Init => SessionsInv
<1> SUFFICES ASSUME Init PROVE SessionsInv
  OBVIOUS
<1>1. \A c \in Calls : call[c] = Idle /\ call[c] \notin Requests /\ call[c].pc = "idle"
  BY DEF Init, Idle, Requests
<1>2. \A f : LiveIn(f) = {}
  BY DEF Init, LiveIn, Live
<1> QED
  BY <1>1, <1>2 DEF Init, SessionsInv, PointsToRows, OneHolder, EndedInv, OneAtWork,
     OneBusy, OneRotates, GoodIsAtWork, OneGood, Rotates, Busy, IssuedIsLive, SessionSurvives

(* A step that only ends a request, or starts a reset, keeps what is said of    *)
(* the others.                                                                 *)
LEMMA EndsKeeps ==
  ASSUME TypeOK, SessionsInv, NEW c \in Calls, NEW s \in {Idle, Reset}, Become(c, s),
         UNCHANGED <<token, cookie, ended, slipped>>,
         disturbed' = disturbed \/ (call[c] \in Requests
                                     /\ disturbed' = disturbed \union {call[c].family}),
         At(c, "retire") => call[c].family \in disturbed',
         At(c, "reply") => call[c].family \in disturbed'
  PROVE  SessionsInv'
<1>1. /\ call'[c] \notin Requests
      /\ \A o \in Calls : call'[o] \in Requests => o # c /\ call'[o] = call[o]
      /\ \A o \in Calls : o # c => call'[o] = call[o]
  BY BecomeType, CallKinds
<1>2. \A f : LiveIn(f)' = LiveIn(f)
  BY DEF LiveIn, Live
<1>3. \A o \in Calls : \A f : Busy(o, f)' <=> o # c /\ Busy(o, f)
  BY <1>1 DEF Busy
<1>4. PointsToRows' /\ OneHolder' /\ IssuedIsLive'
  BY <1>1 DEF SessionsInv, PointsToRows, OneHolder, IssuedIsLive, Live
<1>5. EndedInv'
  BY <1>1, <1>2 DEF SessionsInv, EndedInv, At
<1>6. OneAtWork'
  <2> SUFFICES ASSUME NEW f \in Families \ disturbed'
               PROVE  OneBusy(f)' /\ OneRotates(f)' /\ GoodIsAtWork(f)' /\ OneGood(f)'
    BY DEF OneAtWork
  <2>1. f \in Families \ disturbed
    OBVIOUS
  <2>2. OneBusy(f)'
    BY <1>3, <2>1 DEF SessionsInv, OneAtWork, OneBusy
  <2>3. OneRotates(f)'
    <3>1. call'[c].pc \in {"idle", "reset"}
      BY <1>1, BecomeType DEF Idle, Reset
    <3> QED
      BY <1>1, <2>1, <3>1 DEF SessionsInv, OneAtWork, OneRotates, Rotates
  <2>4. GoodIsAtWork(f)'
    BY <1>1, <1>2, <1>3, <2>1 DEF SessionsInv, OneAtWork, GoodIsAtWork, At
  <2>5. ASSUME \A a \in Calls : ~Busy(a, f)' PROVE \A j, k \in LiveIn(f)' : j = k
    <3>1. CASE Busy(c, f)
      <4>1. LiveIn(f) \subseteq {call[c].old}
        BY <2>1, <3>1 DEF SessionsInv, OneAtWork, GoodIsAtWork, Busy, At
      <4> QED
        BY <4>1, <1>2
    <3>2. CASE ~Busy(c, f)
      <4>1. \A a \in Calls : ~Busy(a, f)
        BY <1>3, <2>5, <3>2
      <4> QED
        BY <4>1, <1>2, <2>1 DEF SessionsInv, OneAtWork, OneGood
    <3> QED
      BY <3>1, <3>2
  <2> QED
    BY <2>2, <2>3, <2>4, <2>5 DEF OneGood
<1>7. SessionSurvives'
  <2> SUFFICES ASSUME NEW b \in Browsers, cookie[b] # NoToken,
                      token[cookie[b]].family \notin ended \union disturbed,
                      token[cookie[b]].family \notin disturbed', ~Live(cookie[b])
               PROVE  \E o \in Calls : /\ At(o, "reply")' /\ call'[o].old = cookie[b]
                                       /\ call'[o].browser = b /\ Live(call'[o].new)
    BY DEF SessionSurvives, Live
  <2>1. PICK o \in Calls : /\ At(o, "reply") /\ call[o].old = cookie[b]
                           /\ call[o].browser = b /\ Live(call[o].new)
    BY DEF SessionsInv, SessionSurvives
  <2>2. call[o].family = token[cookie[b]].family
    BY <2>1, CallKinds DEF SessionsInv, PointsToRows, At
  <2>3. o # c
    BY <2>1, <2>2
  <2> QED
    BY <1>1, <2>1, <2>3 DEF At
<1> QED
  BY <1>4, <1>5, <1>6, <1>7 DEF SessionsInv

LEMMA StartKeeps ==
  ASSUME TypeOK, SessionsInv, NEW c \in Calls, NEW b \in Browsers,
         StartLogin(c, b) \/ StartRefresh(c, b) \/ StartLogout(c, b)
  PROVE  SessionsInv'
<1>1. PICK s \in Requests :
        /\ Become(c, s)
        /\ s.browser = b /\ s.new = NoToken
        /\ \/ /\ s.pc = "insert" /\ s.old = NoToken
              /\ \A k \in Tokens : token[k].family # s.family
              /\ \A o \in Calls : call[o] \in Requests => call[o].family # s.family
              /\ s.family \notin ended
              /\ UNCHANGED disturbed
           \/ /\ s.pc \in {"find", "logout"} /\ s.old = cookie[b] /\ s.old # NoToken
              /\ s.family = token[cookie[b]].family
              /\ disturbed' = IF s.pc = "find" /\ (\E o \in Calls : Rotates(o, s.old))
                              THEN disturbed \union {s.family} ELSE disturbed
  <2>1. CASE StartLogin(c, b)
    <3>1. PICK f \in Families :
            /\ \A k \in Tokens : token[k].family # f
            /\ \A o \in Calls : call[o] \in Requests => call[o].family # f
            /\ f \notin ended
            /\ Become(c, [pc |-> "insert", browser |-> b, old |-> NoToken,
                          family |-> f, new |-> NoToken])
      BY <2>1 DEF StartLogin
    <3>2. [pc |-> "insert", browser |-> b, old |-> NoToken, family |-> f, new |-> NoToken]
            \in Requests
      BY DEF Requests
    <3> QED
      BY <2>1, <3>1, <3>2 DEF StartLogin, history
  <2>2. CASE StartRefresh(c, b) \/ StartLogout(c, b)
    <3>1. cookie[b] \in Tokens /\ token[cookie[b]].family \in Families
      BY <2>2, TokenKinds
      DEF StartRefresh, StartLogout, SessionsInv, PointsToRows, TypeOK, Rows
    <3>2. \A pc \in {"find", "logout"} :
            [pc |-> pc, browser |-> b, old |-> cookie[b],
             family |-> token[cookie[b]].family, new |-> NoToken] \in Requests
      BY <3>1 DEF Requests
    <3> QED
      BY <2>2, <3>1, <3>2 DEF StartRefresh, StartLogout, history
  <2> QED
    BY <2>1, <2>2
<1>2. UNCHANGED <<token, cookie, ended, slipped>> /\ At(c, "idle")
  BY DEF StartLogin, StartRefresh, StartLogout, history
<1>3. /\ call'[c] = s /\ call[c] \notin Requests
      /\ \A o \in Calls : o # c => call'[o] = call[o]
  BY <1>1, <1>2, BecomeType, CallKinds DEF At
<1>4. \A f : LiveIn(f)' = LiveIn(f)
  BY <1>2 DEF LiveIn, Live
<1>5. PointsToRows'
  BY <1>1, <1>2, <1>3 DEF SessionsInv, PointsToRows
<1>6. OneHolder'
  BY <1>1, <1>2, <1>3 DEF SessionsInv, OneHolder, PointsToRows
<1>7. EndedInv'
  BY <1>1, <1>2, <1>3, <1>4 DEF SessionsInv, EndedInv, At
<1>8. ASSUME NEW f \in Families \ disturbed'
      PROVE  OneBusy(f)' /\ OneRotates(f)' /\ GoodIsAtWork(f)' /\ OneGood(f)'
  <2>1. f \in Families \ disturbed
    BY <1>1, <1>8
  <2>2. \A o \in Calls : o # c => (Busy(o, f)' <=> Busy(o, f))
    BY <1>3 DEF Busy
  <2>3. ~Busy(c, f)
    BY <1>3 DEF Busy
  <2>4. OneBusy(f)'
    BY <1>1, <1>3, <2>1, <2>2 DEF SessionsInv, OneAtWork, OneBusy, Busy
  <2>5. OneRotates(f)'
    BY <1>1, <1>3, <2>1, <1>8 DEF SessionsInv, OneAtWork, OneRotates, Rotates
  <2>6. GoodIsAtWork(f)'
    <3>1. ASSUME NEW o \in Calls, Busy(o, f)', o # c
          PROVE  LiveIn(f)' \subseteq (IF At(o, "insert") THEN {call[o].old}
                                       ELSE {call[o].old, call[o].new})
      BY <1>4, <2>1, <2>2, <3>1 DEF SessionsInv, OneAtWork, GoodIsAtWork
    <3>2. Busy(c, f)' => LiveIn(f)' = {}
      BY <1>1, <1>3, <1>4 DEF Busy, LiveIn
    <3> QED
      BY <1>3, <3>1, <3>2 DEF GoodIsAtWork, At
  <2>7. OneGood(f)'
    BY <1>4, <2>1, <2>2, <2>3 DEF SessionsInv, OneAtWork, OneGood
  <2> QED
    BY <2>4, <2>5, <2>6, <2>7
<1>9. IssuedIsLive'
  BY <1>1, <1>2, <1>3 DEF SessionsInv, IssuedIsLive, Live
<1>10. SessionSurvives'
  <2>1. \A o \in Calls : At(o, "reply") => o # c
    BY <1>2 DEF At
  <2> QED
    BY <1>1, <1>2, <1>3, <2>1 DEF SessionsInv, SessionSurvives, At, Live
<1> QED
  BY <1>5, <1>6, <1>7, <1>8, <1>9, <1>10 DEF SessionsInv, OneAtWork

LEMMA FindKeeps ==
  ASSUME TypeOK, SessionsInv, NEW c \in Calls, Find(c)
  PROVE  SessionsInv'
<1>1. call[c] \in Requests /\ At(c, "find") /\ call[c].old \in Tokens
      /\ call[c].new = NoToken /\ call[c].old # NoToken
      /\ token[call[c].old].family = call[c].family
      /\ UNCHANGED <<token, cookie, ended, slipped, disturbed>>
  BY CallKinds DEF Find, At, SessionsInv, PointsToRows, history
<1>2. CASE Become(c, Idle)
  BY <1>1, <1>2, EndsKeeps DEF At
<1>3. ASSUME NEW pc \in {"insert", "revoke"}, Goto(c, pc),
             pc = "insert" <=> Live(call[c].old)
      PROVE  SessionsInv'
  <2>1. /\ call'[c] \in Requests
        /\ call'[c].pc = pc
        /\ call'[c].browser = call[c].browser /\ call'[c].family = call[c].family
        /\ call'[c].old = call[c].old /\ call'[c].new = call[c].new
        /\ \A o \in Calls : o # c => call'[o] = call[o]
    BY <1>1, <1>3, GotoType
  <2>2. \A f : LiveIn(f)' = LiveIn(f)
    BY <1>1 DEF LiveIn, Live
  <2>3. PointsToRows' /\ OneHolder'
    BY <1>1, <1>3, <2>1 DEF SessionsInv, PointsToRows, OneHolder, At
  <2>4. EndedInv'
    <3>1. pc = "insert" => call[c].old \in LiveIn(call[c].family)
      BY <1>1, <1>3 DEF LiveIn
    <3> QED
      BY <1>1, <1>3, <2>1, <2>2, <3>1 DEF SessionsInv, EndedInv, At
  <2>5. ASSUME NEW f \in Families \ disturbed
        PROVE  OneBusy(f)' /\ OneRotates(f)' /\ GoodIsAtWork(f)' /\ OneGood(f)'
    <3>1. \A o \in Calls : o # c => (Busy(o, f)' <=> Busy(o, f))
      BY <2>1 DEF Busy
    <3>2. ~Busy(c, f)
      BY <1>1 DEF Busy, At
    <3>3. ASSUME Busy(c, f)' PROVE \A o \in Calls : ~Busy(o, f)
      <4> SUFFICES ASSUME NEW o \in Calls, Busy(o, f) PROVE FALSE
        OBVIOUS
      <4>1. call[c].old \in LiveIn(f) /\ call[c].family = f
        BY <1>1, <1>3, <2>1, <3>3 DEF Busy, LiveIn
      <4>2. call[c].old \in {call[o].old, call[o].new}
        BY <4>1 DEF SessionsInv, OneAtWork, GoodIsAtWork
      <4>3. call[o].old # call[c].old
        BY <1>1, <3>2, <4>1 DEF SessionsInv, OneAtWork, OneRotates, Rotates, Busy, At
      <4>4. call[o].new # call[c].old
        BY <1>1 DEF SessionsInv, OneHolder, Busy
      <4> QED
        BY <4>2, <4>3, <4>4
    <3>4. OneBusy(f)'
      BY <3>1, <3>2, <3>3 DEF SessionsInv, OneAtWork, OneBusy
    <3>5. OneRotates(f)'
      BY <1>1, <2>1 DEF SessionsInv, OneAtWork, OneRotates, Rotates, At
    <3>6. GoodIsAtWork(f)'
      <4>1. ASSUME Busy(c, f)' PROVE LiveIn(f) \subseteq {call[c].old}
        <5>1. call[c].old \in LiveIn(f)
          BY <1>1, <1>3, <2>1, <4>1 DEF Busy, LiveIn
        <5> QED
          BY <3>3, <4>1, <5>1 DEF SessionsInv, OneAtWork, OneGood
      <4>2. Busy(c, f)' => At(c, "insert")'
        BY <1>3, <2>1 DEF Busy, At
      <4> QED
        BY <2>1, <2>2, <3>1, <4>1, <4>2 DEF SessionsInv, OneAtWork, GoodIsAtWork, At
    <3>7. OneGood(f)'
      BY <2>2, <3>1, <3>2 DEF SessionsInv, OneAtWork, OneGood
    <3> QED
      BY <3>4, <3>5, <3>6, <3>7
  <2>6. IssuedIsLive'
    BY <1>1, <2>1 DEF SessionsInv, IssuedIsLive, Live
  <2>7. SessionSurvives'
    BY <1>1, <2>1 DEF SessionsInv, SessionSurvives, At, Live
  <2> QED
    BY <1>1, <2>3, <2>4, <2>5, <2>6, <2>7 DEF SessionsInv, OneAtWork
<1> QED
  BY <1>2, <1>3 DEF Find

(* SessionSurvives after a step, in terms of the tokens' names.                 *)
Covered(k, b, o) ==
  /\ At(o, "reply") /\ call[o].old = k /\ call[o].browser = b
  /\ \E n \in Tokens : call[o].new = n /\ Live(n)

LEMMA SurvivesIf ==
  ASSUME TypeOK, SessionsInv,
         \A b \in Browsers, k \in Tokens :
           k = cookie'[b] /\ token'[k].family \notin (ended \union disturbed)' =>
             Live(k)' \/ \E o \in Calls : Covered(k, b, o)',
         cookie' \in [Browsers -> Tokens \union {NoToken}]
  PROVE  SessionSurvives'
<1> SUFFICES ASSUME NEW b \in Browsers, cookie'[b] # NoToken,
                    token'[cookie'[b]].family \notin (ended \union disturbed)'
             PROVE  \/ token'[cookie'[b]] # NoRow /\ token'[cookie'[b]].live
                    \/ \E o \in Calls : /\ At(o, "reply")' /\ call'[o].old = cookie'[b]
                                        /\ call'[o].browser = b
                                        /\ token'[call'[o].new] # NoRow
                                        /\ token'[call'[o].new].live
  BY DEF SessionSurvives, Live
<1>1. PICK k \in Tokens : k = cookie'[b]
  OBVIOUS
<1>2. Live(k)' \/ \E o \in Calls : Covered(k, b, o)'
  BY <1>1
<1> QED
  BY <1>1, <1>2 DEF Covered, Live

LEMMA SurvivesNow ==
  ASSUME TypeOK, SessionsInv, NEW b \in Browsers, NEW k \in Tokens, k = cookie[b],
         token[k].family \notin ended \union disturbed, ~Live(k)
  PROVE  \E o \in Calls : call[o] \in Requests /\ Covered(k, b, o)
<1>1. PICK o \in Calls : /\ At(o, "reply") /\ call[o].old = k
                         /\ call[o].browser = b /\ Live(call[o].new)
  BY DEF SessionsInv, SessionSurvives
<1>2. call[o] \in Requests /\ call[o].new \in Tokens
  BY <1>1, CallKinds DEF At, SessionsInv, PointsToRows
<1> QED
  BY <1>1, <1>2 DEF Covered

LEMMA InsertKeeps ==
  ASSUME TypeOK, SessionsInv, NEW c \in Calls, NEW n \in Tokens, InsertOf(c, n)
  PROVE  SessionsInv'
<1> DEFINE g == call[c].family
           row == [family |-> g, live |-> TRUE]
<1>1. /\ call[c] \in Requests /\ At(c, "insert") /\ g \in Families
      /\ call[c].new = NoToken /\ call[c].old \in Tokens \union {NoToken}
      /\ token[n] \notin Rows
      /\ UNCHANGED <<cookie, ended, slipped, disturbed>>
  BY CallKinds, TokenKinds DEF InsertOf, At, SessionsInv, PointsToRows, history
<1>2. row \in Rows /\ row.family = g /\ row.live = TRUE /\ row # NoRow
  BY <1>1, TokenKinds DEF Rows, NoRow
<1>3. token'[n] = row /\ \A k \in Tokens : k # n => token'[k] = token[k]
  BY DEF InsertOf, TypeOK
<1>4. /\ call'[c] \in Requests
      /\ call'[c].pc = IF call[c].old = NoToken THEN "reply" ELSE "retire"
      /\ call'[c].browser = call[c].browser /\ call'[c].family = g
      /\ call'[c].old = call[c].old /\ call'[c].new = n
      /\ \A o \in Calls : o # c => call'[o] = call[o]
  BY InsertType DEF InsertOf
<1> HIDE DEF row
<1>5. \A f : LiveIn(f)' = IF f = g THEN LiveIn(f) \union {n} ELSE LiveIn(f)
  <2>1. \A k \in Tokens : k # n => (Live(k)' <=> Live(k))
    BY <1>3 DEF Live
  <2>2. Live(n)' /\ ~Live(n)
    BY <1>1, <1>2, <1>3, TokenKinds DEF Live
  <2> QED
    BY <1>2, <1>3, <2>1, <2>2 DEF LiveIn
<1>6. PointsToRows'
  <2>1. \A k \in Tokens : token[k] \in Rows => k # n /\ token'[k] = token[k]
    BY <1>1, <1>3
  <2>2. \A b \in Browsers : cookie'[b] # NoToken => token'[cookie'[b]] \in Rows
    BY <1>1, <2>1 DEF SessionsInv, PointsToRows, TypeOK
  <2>3. ASSUME NEW o \in Calls, call'[o] \in Requests, call'[o].old # NoToken
        PROVE  /\ token'[call'[o].old] \in Rows
               /\ token'[call'[o].old].family = call'[o].family
    <3>1. /\ call[o] \in Requests /\ call[o].old \in Tokens
          /\ call[o].old = call'[o].old /\ call[o].family = call'[o].family
      BY <1>1, <1>4, <2>3, CallKinds
    <3> QED
      BY <2>1, <2>3, <3>1 DEF SessionsInv, PointsToRows
  <2>4. ASSUME NEW o \in Calls, call'[o] \in Requests
        PROVE  /\ call'[o].pc \notin {"insert", "reply"} => call'[o].old # NoToken
               /\ IF call'[o].pc \in {"retire", "reply"}
                  THEN /\ call'[o].new \in Tokens
                       /\ token'[call'[o].new] \in Rows
                       /\ token'[call'[o].new].family = call'[o].family
                  ELSE call'[o].new = NoToken
    <3>1. CASE o = c
      BY <1>1, <1>2, <1>3, <1>4, <3>1
    <3>2. CASE o # c
      BY <1>4, <2>1, <2>4, <3>2 DEF SessionsInv, PointsToRows
    <3> QED
      BY <3>1, <3>2
  <2> QED
    BY <2>2, <2>3, <2>4 DEF PointsToRows
<1>7. OneHolder'
  BY <1>1, <1>4 DEF SessionsInv, OneHolder, PointsToRows, TypeOK
<1>8. EndedInv'
  BY <1>1, <1>4, <1>5 DEF SessionsInv, EndedInv, At
<1>9. ASSUME NEW f \in Families \ disturbed
      PROVE  OneBusy(f)' /\ OneRotates(f)' /\ GoodIsAtWork(f)' /\ OneGood(f)'
  <2>1. \A o \in Calls : o # c => (Busy(o, f)' <=> Busy(o, f))
    BY <1>4 DEF Busy
  <2>2. Busy(c, f) <=> f = g
    BY <1>1 DEF Busy, At
  <2>3. Busy(c, f)' <=> f = g /\ call[c].old # NoToken
    BY <1>4 DEF Busy
  <2>4. OneBusy(f)'
    BY <2>1, <2>2, <2>3 DEF SessionsInv, OneAtWork, OneBusy
  <2>5. OneRotates(f)'
    BY <1>1, <1>4 DEF SessionsInv, OneAtWork, OneRotates, Rotates, At
  <2>6. f = g => LiveIn(f) \subseteq {call[c].old}
    BY <1>1, <2>2 DEF SessionsInv, OneAtWork, GoodIsAtWork
  <2>7. f = g => \A o \in Calls : o # c => ~Busy(o, f)
    BY <2>2 DEF SessionsInv, OneAtWork, OneBusy
  <2>8. GoodIsAtWork(f)'
    <3>1. ASSUME Busy(c, f)'
          PROVE  ~At(c, "insert")' /\ LiveIn(f)' \subseteq {call[c].old, n}
      BY <1>4, <1>5, <2>3, <2>6, <3>1 DEF At
    <3>2. \A o \in Calls : Busy(o, f)' /\ o # c => f # g
      BY <2>1, <2>7
    <3> QED
      BY <1>4, <1>5, <2>1, <3>1, <3>2 DEF SessionsInv, OneAtWork, GoodIsAtWork, At
  <2>9. OneGood(f)'
    <3> SUFFICES ASSUME \A o \in Calls : ~Busy(o, f)' PROVE \A j, k \in LiveIn(f)' : j = k
      BY DEF OneGood
    <3>1. CASE f = g
      <4>1. call[c].old = NoToken
        BY <2>3, <3>1
      <4>2. LiveIn(f) = {}
        BY <2>6, <3>1, <4>1 DEF LiveIn
      <4> QED
        BY <1>5, <3>1, <4>2
    <3>2. CASE f # g
      <4>1. \A o \in Calls : ~Busy(o, f)
        BY <2>1, <2>2, <3>2
      <4> QED
        BY <1>5, <3>2, <4>1 DEF SessionsInv, OneAtWork, OneGood
    <3> QED
      BY <3>1, <3>2
  <2> QED
    BY <2>4, <2>5, <2>8, <2>9
<1>10. \A k \in Tokens : Live(k) => Live(k)'
  BY <1>1, <1>3, TokenKinds DEF Live
<1>11. IssuedIsLive'
  <2>1. Live(n)'
    BY <1>2, <1>3 DEF Live
  <2> QED
    BY <1>1, <1>4, <1>10, <2>1, CallKinds DEF SessionsInv, IssuedIsLive
<1>12. SessionSurvives'
  <2>1. ASSUME NEW b \in Browsers, NEW k \in Tokens, k = cookie'[b],
               token'[k].family \notin (ended \union disturbed)'
        PROVE  Live(k)' \/ \E o \in Calls : Covered(k, b, o)'
    <3>1. k # n /\ k = cookie[b]
      BY <1>1, <2>1 DEF SessionsInv, PointsToRows
    <3>2. CASE Live(k)
      BY <1>10, <3>2
    <3>3. CASE ~Live(k)
      <4>1. PICK o \in Calls : call[o] \in Requests /\ Covered(k, b, o)
        BY <1>1, <1>3, <2>1, <3>1, <3>3, SurvivesNow
      <4>2. o # c
        BY <1>1, <4>1 DEF Covered, At
      <4> QED
        BY <1>4, <1>10, <4>1, <4>2 DEF Covered, At
    <3> QED
      BY <3>2, <3>3
  <2> QED
    BY <1>1, <2>1, SurvivesIf DEF TypeOK
<1> QED
  BY <1>1, <1>6, <1>7, <1>8, <1>9, <1>11, <1>12 DEF SessionsInv, OneAtWork

LEMMA RetireKeeps ==
  ASSUME TypeOK, SessionsInv, NEW c \in Calls, Retire(c)
  PROVE  SessionsInv'
<1>1. /\ call[c] \in Requests /\ At(c, "retire") /\ call[c].family \in Families
      /\ call[c].old \in Tokens /\ call[c].new \in Tokens /\ call[c].old # call[c].new
      /\ token[call[c].old].family = call[c].family
      /\ UNCHANGED <<cookie, ended, slipped, disturbed>>
  BY CallKinds DEF Retire, At, SessionsInv, PointsToRows, OneHolder, history
<1>2. /\ call'[c] \in Requests /\ call'[c].pc = "reply"
      /\ call'[c].browser = call[c].browser /\ call'[c].family = call[c].family
      /\ call'[c].old = call[c].old /\ call'[c].new = call[c].new
      /\ \A o \in Calls : o # c => call'[o] = call[o]
  BY <1>1, GotoType DEF Retire
<1>3. \A k \in Tokens : /\ Live(k)' <=> Live(k) /\ k # call[c].old
                        /\ token'[k] \in Rows <=> token[k] \in Rows
                        /\ token'[k].family = token[k].family
  BY RetireType DEF SessionsInv
<1>4. \A f : LiveIn(f)' = LiveIn(f) \ {call[c].old}
  BY <1>3 DEF LiveIn, Live
<1>5. PointsToRows'
  BY <1>1, <1>2, <1>3 DEF SessionsInv, PointsToRows, TypeOK, At, Requests
<1>6. OneHolder'
  BY <1>1, <1>2 DEF SessionsInv, OneHolder
<1>7. EndedInv'
  BY <1>1, <1>2, <1>4 DEF SessionsInv, EndedInv, At
<1>8. ASSUME NEW f \in Families \ disturbed
      PROVE  OneBusy(f)' /\ OneRotates(f)' /\ GoodIsAtWork(f)' /\ OneGood(f)'
  <2>1. \A o \in Calls : Busy(o, f)' <=> Busy(o, f) /\ o # c
    BY <1>2 DEF Busy
  <2>2. Busy(c, f) <=> f = call[c].family
    BY <1>1 DEF Busy, At
  <2>3. OneBusy(f)'
    BY <2>1 DEF SessionsInv, OneAtWork, OneBusy
  <2>4. OneRotates(f)'
    BY <1>1, <1>2 DEF SessionsInv, OneAtWork, OneRotates, Rotates, At
  <2>5. GoodIsAtWork(f)'
    BY <1>2, <1>4, <2>1 DEF SessionsInv, OneAtWork, GoodIsAtWork, At
  <2>6. OneGood(f)'
    <3> SUFFICES ASSUME \A o \in Calls : ~Busy(o, f)' PROVE \A j, k \in LiveIn(f)' : j = k
      BY DEF OneGood
    <3>1. CASE Busy(c, f)
      <4>1. LiveIn(f) \subseteq {call[c].old, call[c].new}
        BY <1>1, <3>1 DEF SessionsInv, OneAtWork, GoodIsAtWork, At
      <4> QED
        BY <1>4, <4>1
    <3>2. CASE ~Busy(c, f)
      <4>1. \A o \in Calls : ~Busy(o, f)
        BY <2>1, <3>2
      <4> QED
        BY <1>4, <4>1 DEF SessionsInv, OneAtWork, OneGood
    <3> QED
      BY <3>1, <3>2
  <2> QED
    BY <2>3, <2>4, <2>5, <2>6
<1>9. IssuedIsLive'
  <2>1. \A o \in Calls : call[o] \in Requests /\ call[o].new # NoToken =>
          call[o].new \in Tokens /\ call[o].new # call[c].old
    BY <1>1, CallKinds DEF SessionsInv, OneHolder
  <2> QED
    BY <1>1, <1>2, <1>3, <2>1 DEF SessionsInv, IssuedIsLive, Live
<1>10. SessionSurvives'
  <2>1. ASSUME NEW b \in Browsers, NEW k \in Tokens, k = cookie'[b],
               token'[k].family \notin (ended \union disturbed)'
        PROVE  Live(k)' \/ \E o \in Calls : Covered(k, b, o)'
    <3>1. k = cookie[b] /\ token[k].family \notin ended \union disturbed
      BY <1>1, <1>3, <2>1
    <3>2. CASE k = call[c].old
      <4>1. call[c].browser = b
        BY <1>1, <3>1, <3>2 DEF SessionsInv, OneHolder
      <4>2. PICK n \in Tokens : n = call[c].new
        BY <1>1
      <4>3. Live(n)
        BY <1>1, <3>1, <3>2, <4>2 DEF SessionsInv, IssuedIsLive
      <4>4. Live(n)'
        BY <1>1, <1>3, <4>2, <4>3 DEF Live
      <4> QED
        BY <1>1, <1>2, <3>2, <4>1, <4>2, <4>4 DEF Covered, At
    <3>3. CASE k # call[c].old /\ Live(k)
      BY <1>3, <3>3 DEF Live
    <3>4. CASE ~Live(k) /\ k # call[c].old
      <4>1. PICK o \in Calls : call[o] \in Requests /\ Covered(k, b, o)
        BY <3>1, <3>4, SurvivesNow
      <4>2. PICK n \in Tokens : n = call[o].new /\ Live(n)
        BY <4>1 DEF Covered
      <4>3. o # c
        BY <1>1, <4>1 DEF Covered, At
      <4>4. n # call[c].old
        BY <1>1, <4>1, <4>2 DEF SessionsInv, OneHolder
      <4>5. Live(n)'
        BY <1>3, <4>2, <4>4 DEF Live
      <4> QED
        BY <1>2, <4>1, <4>2, <4>3, <4>5 DEF Covered, At
    <3> QED
      BY <3>2, <3>3, <3>4
  <2> QED
    BY <1>1, <2>1, SurvivesIf DEF TypeOK
<1> QED
  BY <1>1, <1>5, <1>6, <1>7, <1>8, <1>9, <1>10 DEF SessionsInv, OneAtWork

LEMMA RevokeKeeps ==
  ASSUME TypeOK, SessionsInv, NEW c \in Calls, NEW F \in SUBSET Families, Revoke(F),
         call[c].pc \in {"revoke", "logout", "reset"}, UNCHANGED cookie,
         Become(c, Idle) \/ (call[c] \in Requests /\ Goto(c, "clear"))
  PROVE  SessionsInv'
<1>1. /\ \A o \in Calls : o # c => call'[o] = call[o]
      /\ call'[c] \in Requests => /\ call[c] \in Requests /\ call'[c].pc = "clear"
                                  /\ call'[c].browser = call[c].browser
                                  /\ call'[c].family = call[c].family
                                  /\ call'[c].old = call[c].old
                                  /\ call'[c].new = call[c].new
      /\ call'[c].pc \in {"clear", "idle"}
  <2>1. CASE Become(c, Idle)
    <3>1. call'[c] = Idle
      BY <2>1, BecomeType
    <3> QED
      BY <2>1, <3>1, BecomeType, CallKinds DEF Idle
  <2>2. CASE call[c] \in Requests /\ Goto(c, "clear")
    BY <2>2, GotoType
  <2> QED
    BY <2>1, <2>2
<1>2. /\ ended' = ended \union F /\ slipped \subseteq slipped'
      /\ \A k \in Tokens : /\ Live(k)' <=> Live(k) /\ token[k].family \notin F
                           /\ token'[k] \in Rows <=> token[k] \in Rows
                           /\ token'[k].family = token[k].family
  BY RevokeType
<1>3. UNCHANGED disturbed
  BY DEF Revoke
<1>4. \A f : LiveIn(f)' = IF f \in F THEN {} ELSE LiveIn(f)
  BY <1>2 DEF LiveIn, Live
<1>5. PointsToRows'
  <2>1. ASSUME NEW o \in Calls, call'[o] \in Requests
        PROVE  /\ call[o] \in Requests /\ call'[o].family = call[o].family
               /\ call'[o].old = call[o].old /\ call'[o].new = call[o].new
               /\ call[o].old \in Tokens \union {NoToken}
    BY <1>1, <2>1, CallKinds
  <2>2. ASSUME NEW o \in Calls, call'[o] \in Requests, o # c
        PROVE  call'[o].pc = call[o].pc
    BY <1>1, <2>2
  <2> QED
    BY <1>1, <1>2, <2>1, <2>2 DEF SessionsInv, PointsToRows, TypeOK
<1>6. OneHolder'
  BY <1>1 DEF SessionsInv, OneHolder
<1>7. EndedInv'
  <2>1. ASSUME NEW f \in (ended \ slipped)', f \notin F
        PROVE  LiveIn(f)' = {} /\ \A o \in Calls :
                 call'[o] \in Requests /\ At(o, "insert")' => call'[o].family # f
    BY <1>1, <1>2, <1>4, <2>1 DEF SessionsInv, EndedInv, At
  <2>2. ASSUME NEW f \in F, f \notin slipped'
        PROVE  LiveIn(f)' = {} /\ \A o \in Calls :
                 call'[o] \in Requests /\ At(o, "insert")' => call'[o].family # f
    BY <1>1, <1>4, <2>2 DEF Revoke, At
  <2> QED
    BY <2>1, <2>2 DEF EndedInv
<1>8. ASSUME NEW f \in Families \ disturbed
      PROVE  OneBusy(f)' /\ OneRotates(f)' /\ GoodIsAtWork(f)' /\ OneGood(f)'
  <2>1. \A o \in Calls : Busy(o, f)' <=> Busy(o, f)
    BY <1>1 DEF Busy
  <2>2. OneBusy(f)'
    BY <2>1 DEF SessionsInv, OneAtWork, OneBusy
  <2>3. OneRotates(f)'
    BY <1>1 DEF SessionsInv, OneAtWork, OneRotates, Rotates
  <2>4. GoodIsAtWork(f)'
    <3>1. \A o \in Calls : Busy(o, f) => o # c /\ call'[o] = call[o]
      BY <1>1 DEF Busy
    <3>2. GoodIsAtWork(f)
      BY DEF SessionsInv, OneAtWork
    <3> QED
      BY <1>4, <2>1, <3>1, <3>2 DEF GoodIsAtWork, At
  <2>5. OneGood(f)'
    BY <1>4, <2>1 DEF SessionsInv, OneAtWork, OneGood
  <2> QED
    BY <2>2, <2>3, <2>4, <2>5
<1>9. IssuedIsLive'
  <2> SUFFICES ASSUME NEW o \in Calls, call'[o] \in Requests, call'[o].new # NoToken,
                      call'[o].family \notin ended'
               PROVE  token'[call'[o].new] # NoRow /\ token'[call'[o].new].live
    BY DEF IssuedIsLive, Live
  <2>1. /\ call[o] \in Requests /\ call[o].new = call'[o].new
        /\ call[o].family = call'[o].family
    BY <1>1
  <2>2. PICK k \in Tokens : k = call[o].new
    BY <2>1, CallKinds
  <2>3. Live(k) /\ token[k].family = call[o].family
    BY <1>2, <2>1, <2>2 DEF SessionsInv, IssuedIsLive, PointsToRows
  <2> QED
    BY <1>2, <2>1, <2>2, <2>3 DEF Live
<1>10. SessionSurvives'
  <2>1. ASSUME NEW b \in Browsers, NEW k \in Tokens, k = cookie'[b],
               token'[k].family \notin (ended \union disturbed)'
        PROVE  Live(k)' \/ \E o \in Calls : Covered(k, b, o)'
    <3>1. /\ k = cookie[b] /\ token[k].family \notin ended \union disturbed
          /\ token[k].family \notin F
      BY <1>2, <1>3, <2>1
    <3>2. CASE Live(k)
      BY <1>2, <3>1, <3>2 DEF Live
    <3>3. CASE ~Live(k)
      <4>1. PICK o \in Calls : call[o] \in Requests /\ Covered(k, b, o)
        BY <3>1, <3>3, SurvivesNow
      <4>2. PICK n \in Tokens : n = call[o].new /\ Live(n)
        BY <4>1 DEF Covered
      <4>3. o # c
        BY <4>1 DEF Covered, At
      <4>4. token[n].family = token[k].family
        BY <4>1, <4>2 DEF Covered, At, SessionsInv, PointsToRows
      <4>5. Live(n)'
        BY <1>2, <3>1, <4>2, <4>4 DEF Live
      <4> QED
        BY <1>1, <4>1, <4>2, <4>3, <4>5 DEF Covered, At
    <3> QED
      BY <3>2, <3>3
  <2> QED
    BY <2>1, SurvivesIf DEF TypeOK
<1> QED
  BY <1>3, <1>5, <1>6, <1>7, <1>8, <1>9, <1>10 DEF SessionsInv, OneAtWork

(* An answer that sets or clears the cookie ends its request.                  *)
LEMMA AnswerKeeps ==
  ASSUME TypeOK, SessionsInv, NEW c \in Calls, Reply(c) \/ ClearCookie(c)
  PROVE  SessionsInv'
<1>1. PICK k \in Tokens \union {NoToken}, b \in Browsers :
        /\ call[c] \in Requests /\ call[c].pc \in {"reply", "clear"}
        /\ k = call[c].new /\ b = call[c].browser
        /\ k # NoToken => At(c, "reply") /\ token[k] \in Rows
                           /\ token[k].family = call[c].family
        /\ cookie' = [cookie EXCEPT ![b] = k]
        /\ Become(c, Idle)
        /\ UNCHANGED <<token, ended, slipped, disturbed>>
  <2>1. CASE Reply(c)
    BY <2>1, CallKinds DEF Reply, At, history, SessionsInv, PointsToRows
  <2>2. CASE ClearCookie(c)
    BY <2>2, CallKinds DEF ClearCookie, At, history, SessionsInv, PointsToRows
  <2> QED
    BY <2>1, <2>2
<1>2. /\ call'[c] = Idle /\ call'[c] \notin Requests /\ call'[c].pc = "idle"
      /\ \A o \in Calls : o # c => call'[o] = call[o]
  BY <1>1, BecomeType, CallKinds DEF Idle
<1>3. cookie'[b] = k /\ \A d \in Browsers : d # b => cookie'[d] = cookie[d]
  BY <1>1 DEF TypeOK
<1>4. \A f : LiveIn(f)' = LiveIn(f)
  BY <1>1 DEF LiveIn, Live
<1>5. PointsToRows'
  BY <1>1, <1>2, <1>3 DEF SessionsInv, PointsToRows
<1>6. OneHolder'
  BY <1>1, <1>2, <1>3 DEF SessionsInv, OneHolder
<1>7. EndedInv'
  BY <1>1, <1>2, <1>4 DEF SessionsInv, EndedInv, At
<1>8. ASSUME NEW f \in Families \ disturbed
      PROVE  OneBusy(f)' /\ OneRotates(f)' /\ GoodIsAtWork(f)' /\ OneGood(f)'
  <2>1. \A o \in Calls : Busy(o, f)' <=> Busy(o, f)
    BY <1>1, <1>2 DEF Busy
  <2>2. OneBusy(f)'
    BY <2>1 DEF SessionsInv, OneAtWork, OneBusy
  <2>3. OneRotates(f)'
    BY <1>2 DEF SessionsInv, OneAtWork, OneRotates, Rotates
  <2>4. GoodIsAtWork(f)'
    <3>1. \A o \in Calls : Busy(o, f) => o # c /\ call'[o] = call[o]
      BY <1>1, <1>2 DEF Busy
    <3>2. GoodIsAtWork(f)
      BY DEF SessionsInv, OneAtWork
    <3> QED
      BY <1>4, <2>1, <3>1, <3>2 DEF GoodIsAtWork, At
  <2>5. OneGood(f)'
    BY <1>4, <2>1 DEF SessionsInv, OneAtWork, OneGood
  <2> QED
    BY <2>2, <2>3, <2>4, <2>5
<1>9. IssuedIsLive'
  BY <1>1, <1>2 DEF SessionsInv, IssuedIsLive, Live
<1>10. SessionSurvives'
  <2>1. ASSUME NEW d \in Browsers, NEW j \in Tokens, j = cookie'[d],
               token'[j].family \notin (ended \union disturbed)'
        PROVE  Live(j)' \/ \E o \in Calls : Covered(j, d, o)'
    <3>1. CASE d = b
      <4>1. j = k
        BY <1>3, <2>1, <3>1
      <4>2. Live(k)
        BY <1>1, <2>1, <4>1 DEF SessionsInv, IssuedIsLive
      <4> QED
        BY <1>1, <4>1, <4>2 DEF Live
    <3>2. CASE d # b /\ Live(j)
      BY <1>1, <3>2 DEF Live
    <3>3. CASE d # b /\ ~Live(j)
      <4>1. PICK o \in Calls : call[o] \in Requests /\ Covered(j, d, o)
        BY <1>1, <1>3, <2>1, <3>3, SurvivesNow
      <4>2. o # c
        BY <1>1, <3>3, <4>1 DEF Covered
      <4> QED
        BY <1>1, <1>2, <4>1, <4>2 DEF Covered, At, Live
    <3> QED
      BY <3>1, <3>2, <3>3
  <2>2. cookie' \in [Browsers -> Tokens \union {NoToken}]
    BY <1>1 DEF TypeOK
  <2> QED
    BY <2>1, <2>2, SurvivesIf
<1> QED
  BY <1>1, <1>5, <1>6, <1>7, <1>8, <1>9, <1>10 DEF SessionsInv, OneAtWork

LEMMA SameKeeps ==
  ASSUME SessionsInv, UNCHANGED <<token, cookie, call, ended, slipped, disturbed>>
  PROVE  SessionsInv'
BY DEF SessionsInv, PointsToRows, OneHolder, EndedInv, OneAtWork, OneBusy, OneRotates,
       GoodIsAtWork, OneGood, Rotates, Busy, IssuedIsLive, SessionSurvives, LiveIn, Live, At

LEMMA InvStep == TypeOK /\ SessionsInv /\ [Next]_vars => SessionsInv'
<1> SUFFICES ASSUME TypeOK, SessionsInv, [Next]_vars PROVE SessionsInv'
  OBVIOUS
<1>1. ASSUME NEW c \in Calls, NEW b \in Browsers,
             StartLogin(c, b) \/ StartRefresh(c, b) \/ StartLogout(c, b)
      PROVE  SessionsInv'
  BY <1>1, StartKeeps
<1>2. ASSUME NEW c \in Calls, StartReset(c) PROVE SessionsInv'
  BY <1>2, EndsKeeps DEF StartReset, At, history
<1>3. ASSUME NEW c \in Calls, Find(c) PROVE SessionsInv'
  BY <1>3, FindKeeps
<1>4. ASSUME NEW c \in Calls, Insert(c) PROVE SessionsInv'
  BY <1>4, InsertKeeps DEF Insert
<1>5. ASSUME NEW c \in Calls, Retire(c) PROVE SessionsInv'
  BY <1>5, RetireKeeps
<1>6. ASSUME NEW c \in Calls, Reply(c) \/ ClearCookie(c) PROVE SessionsInv'
  BY <1>6, AnswerKeeps
<1>7. ASSUME NEW c \in Calls, RevokeReused(c) \/ Logout(c) PROVE SessionsInv'
  <2>1. call[c] \in Requests /\ {call[c].family} \in SUBSET Families
    BY <1>7, CallKinds DEF RevokeReused, Logout, At
  <2>2. /\ Revoke({call[c].family}) /\ UNCHANGED cookie
        /\ call[c].pc \in {"revoke", "logout", "reset"}
        /\ Become(c, Idle) \/ Goto(c, "clear")
    BY <1>7 DEF RevokeReused, Logout, At
  <2> QED
    BY <2>1, <2>2, RevokeKeeps
<1>8. ASSUME NEW c \in Calls, CommitReset(c) PROVE SessionsInv'
  <2>1. PICK F \in SUBSET Families : Revoke(F)
    BY <1>8 DEF CommitReset
  <2>2. UNCHANGED cookie /\ call[c].pc = "reset" /\ Become(c, Idle)
    BY <1>8 DEF CommitReset, At
  <2> QED
    BY <2>1, <2>2, RevokeKeeps
<1>9. ASSUME NEW c \in Calls, CallDies(c) PROVE SessionsInv'
  <2>1. disturbed' = disturbed \/ (call[c] \in Requests
                                   /\ disturbed' = disturbed \union {call[c].family})
    BY <1>9, CallKinds DEF CallDies
  <2>2. At(c, "retire") \/ At(c, "reply") => call[c].family \in disturbed'
    BY <1>9 DEF CallDies, At
  <2> QED
    BY <1>9, <2>1, <2>2, EndsKeeps DEF CallDies
<1>10. ASSUME NEW k \in Tokens, Expire(k) PROVE SessionsInv'
  BY <1>10, SameKeeps DEF Expire, history
<1>11. CASE UNCHANGED vars
  BY <1>11, SameKeeps DEF vars
<1> QED
  BY <1>1, <1>2, <1>3, <1>4, <1>5, <1>6, <1>7, <1>8, <1>9, <1>10, <1>11 DEF Next, CallStep

-----------------------------------------------------------------------------
(* The theorems.                                                               *)

LEMMA InvCorrect == Spec => [](TypeOK /\ SessionsInv)
<1>1. Init => TypeOK /\ SessionsInv
  BY TypeInit, InvInit
<1>2. TypeOK /\ SessionsInv /\ [Next]_vars => (TypeOK /\ SessionsInv)'
  BY TypeStep, InvStep DEF SessionsInv
<1> QED
  BY <1>1, <1>2, PTL DEF Spec

(* The rows of refresh_tokens, the cookies and the requests keep their types    *)
(* (auth.service.ts:205-325).                                                  *)
THEOREM TypeCorrect == Spec => []TypeOK
BY InvCorrect, PTL

(* A session that a logout, a reset or a reuse ended has no good token ever     *)
(* again, unless a request was past its check (auth.service.ts:261-323).       *)
THEOREM EndedCorrect == Spec => []EndedStaysEnded
<1>1. SessionsInv => EndedStaysEnded
  BY DEF SessionsInv, EndedInv, EndedStaysEnded
<1> QED
  BY <1>1, InvCorrect, PTL

(* Of two good tokens of one session, one is about to be revoked, unless two    *)
(* requests rotated one token at once or a fault cut one off                   *)
(* (auth.service.ts:295-303).                                                  *)
THEOREM OneLiveCorrect == Spec => []OneLiveToken
<1>1. TypeOK /\ SessionsInv => OneLiveToken
  <2> SUFFICES ASSUME TypeOK, SessionsInv, NEW f \in Families \ disturbed,
                      NEW j \in LiveIn(f), NEW k \in LiveIn(f), j # k
               PROVE  \E c \in Calls : At(c, "retire") /\ {call[c].old, call[c].new} = {j, k}
    BY DEF OneLiveToken
  <2>1. PICK c \in Calls : Busy(c, f)
    BY DEF SessionsInv, OneAtWork, OneGood
  <2>2. LiveIn(f) \subseteq (IF At(c, "insert") THEN {call[c].old}
                                              ELSE {call[c].old, call[c].new})
    BY <2>1 DEF SessionsInv, OneAtWork, GoodIsAtWork
  <2>3. ~At(c, "insert")
    BY <2>2
  <2> QED
    BY <2>1, <2>2, <2>3 DEF Busy, At
<1> QED
  BY <1>1, InvCorrect, PTL

(* Rotation never locks a browser out: its cookie is good, or the answer that   *)
(* replaces it is under way (auth.service.ts:295-311, auth.controller.ts:97-99),*)
(* unless its session was ended, refreshed twice at once or hit by a fault.    *)
THEOREM SurvivesCorrect == Spec => []SessionSurvives
<1>1. SessionsInv => SessionSurvives
  BY DEF SessionsInv
<1> QED
  BY <1>1, InvCorrect, PTL

-----------------------------------------------------------------------------
(* Accounts. Its tables are those of AccountTables, its other constants and    *)
(* variables are declared here, except those that it names as Sessions does    *)
(* (Calls, MaxFaults, call, faults): nothing below is about Sessions, so one   *)
(* name can stand for either.                                                  *)

CONSTANTS Workers, NoWorker, JobAttempts, MaxStalled
VARIABLES job, past, inbox, run

A == INSTANCE Accounts

(* The instance has its own copies of these two operators.                     *)
LEMMA SameSizes ==
  /\ \A S : A!Cardinality(S) = Cardinality(S)
  /\ \A S : A!IsFiniteSet(S) <=> IsFiniteSet(S)
<1>1. ASSUME NEW S PROVE A!Cardinality(S) = Cardinality(S)
  BY DEF A!Cardinality, Cardinality
<1>2. ASSUME NEW S PROVE A!IsFiniteSet(S) <=> IsFiniteSet(S)
  BY DEF A!IsFiniteSet, IsFiniteSet
<1> QED
  BY <1>1, <1>2

(* The sizes of a finite set's subsets.                                        *)
LEMMA Sizes ==
  ASSUME NEW T, IsFiniteSet(T), NEW S \in SUBSET T
  PROVE  /\ A!Cardinality(T) \in Nat /\ A!Cardinality(S) \in Nat
         /\ A!Cardinality(S) <= A!Cardinality(T)
         /\ \A x \in T \ S : A!Cardinality(S \union {x}) = A!Cardinality(S) + 1
         /\ \A x \in S : A!Cardinality(S \ {x}) = A!Cardinality(S) - 1
<1>1. IsFiniteSet(S) /\ Cardinality(S) <= Cardinality(T)
  BY FS_Subset
<1>2. Cardinality(S) \in Nat /\ Cardinality(T) \in Nat
  BY <1>1, FS_CardinalityType
<1>3. \A x \in T \ S : Cardinality(S \union {x}) = Cardinality(S) + 1
  BY <1>1, FS_AddElement
<1>4. \A x \in S : Cardinality(S \ {x}) = Cardinality(S) - 1
  BY <1>1, FS_RemoveElement
<1> QED
  BY <1>1, <1>2, <1>3, <1>4, SameSizes

LEMMA CallsFinite ==
  ASSUME A!AccountsAssumption
  PROVE  IsFiniteSet(Calls) /\ A!Cardinality(Calls) \in Nat
<1>1. IsFiniteSet(Calls)
  BY SameSizes DEF A!AccountsAssumption
<1> QED
  BY <1>1, FS_CardinalityType, SameSizes

(* Of links issued in order, the next one is free.                             *)
LEMMA NextLink ==
  ASSUME A!AccountsAssumption, A!LinksInv
  PROVE  /\ A!Cardinality(A!Issued) \in Nat
         /\ A!Issued \union {A!Cardinality(A!Issued) + 1} = 1..(A!Cardinality(A!Issued) + 1)
         /\ A!Cardinality(A!Issued) + 1 \notin A!Issued
         /\ A!Cardinality(1..(A!Cardinality(A!Issued) + 1)) = A!Cardinality(A!Issued) + 1
         /\ A!Cardinality(A!Inserting) \in Nat
         /\ A!Inserting # {} => A!Cardinality(A!Issued) + 1 \in A!Links
<1>1. IsFiniteSet(A!Links) /\ MaxLinks \in Nat
  BY FS_Interval DEF A!Links, A!AccountsAssumption
<1>2. A!Cardinality(A!Issued) \in Nat
  BY <1>1, Sizes DEF A!Issued
<1>3. \A n \in Nat : A!Cardinality(1..n) = n
  BY FS_Interval, SameSizes
<1>4. A!Inserting \in SUBSET Calls
  BY DEF A!Inserting
<1>5. A!Cardinality(A!Inserting) \in Nat
  BY <1>4, CallsFinite, Sizes
<1>6. A!Inserting # {} => A!Cardinality(A!Inserting) >= 1
  <2>1. ASSUME NEW c \in A!Inserting PROVE A!Cardinality(A!Inserting) >= 1
    <3>1. A!Cardinality(A!Inserting \ {c}) = A!Cardinality(A!Inserting) - 1
            /\ A!Cardinality(A!Inserting \ {c}) \in Nat
      BY <1>4, CallsFinite, Sizes
    <3> QED
      BY <1>5, <3>1
  <2> QED
    BY <2>1
<1>7. A!Issued = 1..A!Cardinality(A!Issued)
        /\ A!Cardinality(A!Issued) + A!Cardinality(A!Inserting) <= MaxLinks
  BY DEF A!LinksInv
<1> QED
  BY <1>1, <1>2, <1>3, <1>5, <1>6, <1>7 DEF A!Links

-----------------------------------------------------------------------------
(* The queue "mail".                                                           *)

JobRows == [state : A!Q!JobState, made : 0..JobAttempts, stalled : 0..(MaxStalled + 1),
            owner : Workers \union {NoWorker}, lost : BOOLEAN]
JobFits(l, j) ==
  /\ j.owner # NoWorker => j.state = "active"
  /\ j.state \notin {"completed", "failed"} => j.made < JobAttempts
     /\ j.stalled <= MaxStalled
  /\ j.state # "none" => l \in A!Issued

LEMMA JobKinds ==
  ASSUME A!Q!TypeOK, A!MailInv, NEW l \in A!Links
  PROVE  job[l] \in JobRows /\ JobFits(l, job[l])
BY DEF A!Q!TypeOK, JobRows, JobFits, A!MailInv, A!Q!Over

LEMMA JobsFit ==
  ASSUME A!Q!TypeOK, A!MailInv, link' = link, DOMAIN job' = A!Links,
         job' = [l \in A!Links |-> job'[l]],
         \A l \in A!Links : job'[l] = job[l] \/ (job'[l] \in JobRows
            /\ JobFits(l, job'[l]))
  PROVE  A!Q!TypeOK' /\ A!MailInv'
<1>1. \A l \in A!Links : job'[l] \in JobRows /\ JobFits(l, job'[l])
  BY JobKinds
<1>2. A!Q!TypeOK'
  BY <1>1 DEF A!Q!TypeOK, JobRows
<1> QED
  BY <1>1, <1>2 DEF A!MailInv, JobFits, A!Q!Over, A!Issued

(* Whatever the queue does to its jobs.                                        *)
QueueDoes ==
  \/ \E l \in A!Issued : A!Q!Add(l)
  \/ \E l \in A!Links, w \in Workers, threw \in BOOLEAN :
       A!Q!Take(l, w) \/ A!Q!Settle(l, w, threw)
  \/ \E w \in Workers : A!Q!Release(w)
  \/ \E l \in A!Links : A!Q!LoseLock(l) \/ A!Q!HandOut(l)

LEMMA OneJob ==
  ASSUME A!AccountsAssumption, A!Q!TypeOK, A!MailInv, link' = link, NEW l \in A!Links,
         NEW j \in JobRows, job' = [job EXCEPT ![l] = j], JobFits(l, j)
  PROVE  A!Q!TypeOK' /\ A!MailInv'
<1>1. /\ job'[l] = j /\ \A k \in A!Links \ {l} : job'[k] = job[k]
      /\ DOMAIN job' = A!Links /\ job' = [k \in A!Links |-> job'[k]]
  BY DEF A!Q!TypeOK
<1>2. \A k \in A!Links : job'[k] = job[k] \/ (job'[k] \in JobRows /\ JobFits(k, job'[k]))
  BY <1>1
<1> QED
  BY <1>1, <1>2, JobsFit

LEMMA QueueKeeps ==
  ASSUME A!AccountsAssumption, A!Q!TypeOK, A!MailInv, link' = link, QueueDoes
  PROVE  A!Q!TypeOK' /\ A!MailInv'
<1>a. job \in [A!Links -> JobRows]
  BY DEF A!Q!TypeOK, JobRows
<1>b. A!Issued \subseteq A!Links
  BY DEF A!Issued
<1> DEFINE Goal == A!Q!TypeOK' /\ A!MailInv'
<1>1. ASSUME NEW l \in A!Issued, A!Q!Add(l) PROVE Goal
  <2> DEFINE j == [job[l] EXCEPT !.state = "waiting"]
  <2>1. l \in A!Links /\ job[l] \in JobRows /\ JobFits(l, job[l])
    BY <1>b, JobKinds
  <2>2. /\ j \in JobRows /\ j.state = "waiting" /\ j.owner = job[l].owner
        /\ j.made = job[l].made /\ j.stalled = job[l].stalled
    BY <2>1 DEF JobRows, A!Q!JobState
  <2>3. job' = [job EXCEPT ![l] = j] /\ job[l].state = "none"
    BY <1>1, <1>a DEF A!Q!Add
  <2>4. JobFits(l, j)
    BY <1>1, <2>1, <2>2, <2>3 DEF JobFits
  <2> HIDE DEF j
  <2> QED
    BY <2>1, <2>2, <2>3, <2>4, OneJob
<1>2. ASSUME NEW l \in A!Links, NEW w \in Workers, A!Q!Take(l, w) PROVE Goal
  <2> DEFINE j == [job[l] EXCEPT !.state = "active", !.owner = w]
  <2>1. job[l] \in JobRows /\ JobFits(l, job[l])
    BY JobKinds
  <2>2. /\ j \in JobRows /\ j.state = "active" /\ j.made = job[l].made
        /\ j.stalled = job[l].stalled
    BY <2>1 DEF JobRows, A!Q!JobState
  <2>3. job' = [job EXCEPT ![l] = j] /\ job[l].state = "waiting"
    BY <1>2, <1>a DEF A!Q!Take
  <2>4. JobFits(l, j)
    BY <2>1, <2>2, <2>3 DEF JobFits
  <2> HIDE DEF j
  <2> QED
    BY <2>2, <2>3, <2>4, OneJob
<1>3. ASSUME NEW l \in A!Links, NEW w \in Workers, NEW threw \in BOOLEAN,
             A!Q!Settle(l, w, threw)
      PROVE  Goal
  <2> DEFINE made == IF threw THEN job[l].made + 1 ELSE job[l].made
             state == IF threw THEN A!Q!AfterThrow(l) ELSE "completed"
             j == [job[l] EXCEPT !.owner = NoWorker, !.made = made, !.state = state]
  <2>1. job[l] \in JobRows /\ JobFits(l, job[l])
    BY JobKinds
  <2>2. CASE job[l].owner # w
    <3>1. job' = job
      BY <1>3, <2>2 DEF A!Q!Settle
    <3>2. DOMAIN job' = A!Links /\ job' = [k \in A!Links |-> job'[k]]
      BY <1>a, <3>1
    <3> QED
      BY <3>1, <3>2, JobsFit
  <2>3. CASE job[l].owner = w
    <3>1. job[l].state = "active" /\ job[l].made < JobAttempts /\ job[l].made \in Nat
          /\ job[l].stalled <= MaxStalled /\ l \in A!Issued
      BY <2>1, <2>3 DEF JobRows, JobFits, A!AccountsAssumption
    <3>2. /\ made \in 0..JobAttempts /\ state \in A!Q!JobState
          /\ state \notin {"completed", "failed"} => made < JobAttempts
      BY <3>1 DEF A!Q!AfterThrow, A!Q!JobState, A!AccountsAssumption
    <3>3. job' = [job EXCEPT ![l] = j]
      BY <1>3, <1>a, <2>3 DEF A!Q!Settle
    <3> HIDE DEF made, state
    <3>4. /\ j \in JobRows /\ j.state = state /\ j.made = made /\ j.owner = NoWorker
          /\ j.stalled = job[l].stalled
      BY <2>1, <3>2 DEF JobRows
    <3>5. JobFits(l, j)
      BY <3>1, <3>2, <3>4 DEF JobFits
    <3> HIDE DEF j
    <3> QED
      BY <3>3, <3>4, <3>5, OneJob
  <2> QED
    BY <2>2, <2>3
<1>4. ASSUME NEW w \in Workers, A!Q!Release(w) PROVE Goal
  <2>1. ASSUME NEW l \in A!Links
        PROVE  job'[l] = job[l] \/ (job'[l] \in JobRows /\ JobFits(l, job'[l]))
    <3>1. CASE job[l].owner = w
      <4> DEFINE j == [job[l] EXCEPT !.owner = NoWorker]
      <4>1. job[l] \in JobRows /\ JobFits(l, job[l]) /\ job'[l] = j
        BY <1>4, <3>1, JobKinds DEF A!Q!Release
      <4>2. /\ j \in JobRows /\ j.state = job[l].state /\ j.made = job[l].made
            /\ j.stalled = job[l].stalled /\ j.owner = NoWorker
        BY <4>1 DEF JobRows
      <4> QED
        BY <4>1, <4>2 DEF JobFits
    <3>2. CASE job[l].owner # w
      BY <1>4, <3>2 DEF A!Q!Release
    <3> QED
      BY <3>1, <3>2
  <2>2. DOMAIN job' = A!Links /\ job' = [l \in A!Links |-> job'[l]]
    BY <1>4 DEF A!Q!Release
  <2> QED
    BY <2>1, <2>2, JobsFit
<1>5. ASSUME NEW l \in A!Links, A!Q!LoseLock(l) PROVE Goal
  <2> DEFINE j == [job[l] EXCEPT !.owner = NoWorker, !.lost = TRUE]
  <2>1. job[l] \in JobRows /\ JobFits(l, job[l])
    BY JobKinds
  <2>2. /\ j \in JobRows /\ j.state = job[l].state /\ j.made = job[l].made
        /\ j.stalled = job[l].stalled /\ j.owner = NoWorker
    BY <2>1 DEF JobRows
  <2>3. job' = [job EXCEPT ![l] = j]
    BY <1>5, <1>a DEF A!Q!LoseLock
  <2>4. JobFits(l, j)
    BY <2>1, <2>2 DEF JobFits
  <2> HIDE DEF j
  <2> QED
    BY <2>2, <2>3, <2>4, OneJob
<1>6. ASSUME NEW l \in A!Links, A!Q!HandOut(l) PROVE Goal
  <2> DEFINE state == IF job[l].stalled < MaxStalled THEN "waiting" ELSE "failed"
             j == [job[l] EXCEPT !.stalled = job[l].stalled + 1, !.state = state]
  <2>1. job[l] \in JobRows /\ JobFits(l, job[l]) /\ job[l].state = "active"
    BY <1>6, JobKinds DEF A!Q!HandOut
  <2>2. /\ job[l].stalled \in Nat /\ job[l].stalled <= MaxStalled /\ MaxStalled \in Nat
        /\ job[l].owner = NoWorker /\ job[l].made < JobAttempts /\ l \in A!Issued
    BY <1>6, <2>1 DEF JobRows, JobFits, A!AccountsAssumption, A!Q!HandOut
  <2>3. job[l].stalled + 1 \in 0..(MaxStalled + 1) /\ state \in A!Q!JobState
    BY <2>2 DEF A!Q!JobState
  <2>4. /\ j \in JobRows /\ j.state = state /\ j.made = job[l].made
        /\ j.stalled = job[l].stalled + 1 /\ j.owner = NoWorker
    <3> HIDE DEF state
    <3> QED
      BY <2>1, <2>2, <2>3 DEF JobRows
  <2>5. job' = [job EXCEPT ![l] = j]
    BY <1>6, <1>a DEF A!Q!HandOut
  <2>6. JobFits(l, j)
    BY <2>2, <2>4 DEF JobFits
  <2> HIDE DEF j
  <2> QED
    BY <2>4, <2>5, <2>6, OneJob
<1> QED
  BY <1>1, <1>2, <1>3, <1>4, <1>5, <1>6 DEF QueueDoes

-----------------------------------------------------------------------------
(* What a step must do to keep each part of the invariant.                     *)

Users == {A!NoUser} \union [password : BOOLEAN, verified : BOOLEAN]
LinkRows == [for : {"verify", "reset"}, email : Emails, used : BOOLEAN]
Job == A!Q!TypeOK /\ A!MailInv

(* No account goes away or loses its password.                                 *)
UsersGrow == \A e \in Emails : user[e] # A!NoUser =>
  /\ user'[e] # A!NoUser
  /\ user[e].password => user'[e].password
(* No link goes away or changes what it is for.                                *)
LinksGrow == \A l \in A!Links : link[l] # A!NoLink =>
  /\ link'[l] # A!NoLink
  /\ link'[l].for = link[l].for /\ link'[l].email = link[l].email

(* A row is no missing row.                                                    *)
LEMMA RowsAreThere ==
  /\ \A u \in [password : BOOLEAN, verified : BOOLEAN] : u # A!NoUser
  /\ \A r \in LinkRows : r # A!NoLink
<1>1. ASSUME NEW u \in [password : BOOLEAN, verified : BOOLEAN], u = A!NoUser PROVE FALSE
  <2>1. DOMAIN u = {"password", "verified"} /\ DOMAIN u = {"none"}
    BY <1>1 DEF A!NoUser
  <2> QED
    BY <2>1
<1>2. ASSUME NEW r \in LinkRows, r = A!NoLink PROVE FALSE
  <2>1. DOMAIN r = {"for", "email", "used"} /\ DOMAIN r = {"none"}
    BY <1>2 DEF A!NoLink, LinkRows
  <2> QED
    BY <2>1
<1> QED
  BY <1>1, <1>2

LEMMA MayStill ==
  ASSUME UsersGrow, NEW e \in Emails, NEW for, A!MayHave(for, e)
  PROVE  A!MayHave(for, e)'
BY DEF UsersGrow, A!MayHave

(* What a request must have seen to be where it is.                            *)
CallFits(s) ==
  /\ s.pc = "insert" => A!MayHave(A!Purpose(s.for), s.email)
  /\ s.pc \in {"enqueue", "use"} => s.link \in A!Issued
  /\ s.pc \in {"findEmail", "createLinked"} => s.profile # NoProfile

LEMMA CallChanges ==
  ASSUME A!TypeOK, NEW c \in Calls, NEW s \in {A!Idle} \union A!Requests, A!Become(c, s)
  PROVE  /\ call' \in [Calls -> {A!Idle} \union A!Requests]
         /\ call'[c] = s /\ \A d \in Calls \ {c} : call'[d] = call[d]
         /\ A!Inserting' = IF s.pc = "insert" THEN A!Inserting \union {c} ELSE A!Inserting \ {c}
         /\ \A l \in A!Links : A!Using(l)' =
              IF s.pc = "use" /\ s.link = l THEN A!Using(l) \union {c} ELSE A!Using(l) \ {c}
<1>1. /\ call' \in [Calls -> {A!Idle} \union A!Requests]
      /\ call'[c] = s /\ \A d \in Calls \ {c} : call'[d] = call[d]
  BY DEF A!TypeOK, A!Become
<1>2. A!Inserting' = IF s.pc = "insert" THEN A!Inserting \union {c} ELSE A!Inserting \ {c}
  BY <1>1 DEF A!Inserting, A!At
<1>3. ASSUME NEW l \in A!Links
      PROVE  A!Using(l)' =
               IF s.pc = "use" /\ s.link = l THEN A!Using(l) \union {c} ELSE A!Using(l) \ {c}
  BY <1>1 DEF A!Using, A!At
<1> QED
  BY <1>1, <1>2, <1>3

LEMMA CallsKept ==
  ASSUME A!TypeOK, A!CallsInv, UsersGrow, LinksGrow,
         NEW c \in Calls, NEW s \in {A!Idle} \union A!Requests, A!Become(c, s),
            CallFits(s)'
  PROVE  A!CallsInv'
<1>1. ASSUME NEW d \in Calls \ {c} PROVE CallFits(call[d])'
  <2>1. /\ call'[d] = call[d] /\ CallFits(call[d])
        /\ call[d] \in {A!Idle} \union A!Requests
    BY CallChanges DEF A!CallsInv, CallFits, A!At, A!TypeOK
  <2>2. call[d].pc = "insert" => A!MayHave(A!Purpose(call[d].for), call[d].email)'
    <3>1. SUFFICES ASSUME call[d].pc = "insert"
                   PROVE  A!MayHave(A!Purpose(call[d].for), call[d].email)'
      OBVIOUS
    <3>2. call[d].email \in Emails /\ A!MayHave(A!Purpose(call[d].for), call[d].email)
      BY <2>1, <3>1 DEF CallFits, A!Idle, A!Requests
    <3>3. ASSUME NEW e \in Emails, NEW for, A!MayHave(for, e) PROVE A!MayHave(for, e)'
      BY <3>3, MayStill
    <3> QED
      BY <2>1, <3>2, <3>3 DEF UsersGrow, A!MayHave, A!Purpose
  <2>3. A!Issued \subseteq A!Issued'
    BY DEF A!Issued, LinksGrow
  <2> QED
    BY <2>1, <2>2, <2>3 DEF CallFits
<1>2. call'[c] = s
  BY CallChanges
<1>3. ASSUME NEW d \in Calls PROVE CallFits(call[d])'
  BY <1>1, <1>2
<1> QED
  BY <1>3 DEF A!CallsInv, CallFits, A!At

LEMMA LinksKept ==
  ASSUME A!AccountsAssumption, A!TypeOK, A!LinksInv, UsersGrow, LinksGrow, link' = link,
         UNCHANGED <<run, inbox>>,
         A!Cardinality(A!Issued) + A!Cardinality(A!Inserting') <= MaxLinks
  PROVE  A!LinksInv'
<1>1. A!Issued' = A!Issued
  BY DEF A!Issued
<1>2. ASSUME NEW l \in A!Issued PROVE A!MayHave(link[l].for, link[l].email)'
  <2>1. link[l].email \in Emails /\ A!MayHave(link[l].for, link[l].email)
    BY DEF A!Issued, A!TypeOK, A!LinksInv
  <2> QED
    BY <2>1 DEF UsersGrow, A!MayHave
<1> QED
  BY <1>1, <1>2 DEF A!LinksInv

LEMMA WaysKept ==
  ASSUME A!TypeOK, A!WaysInv, UNCHANGED linked,
         \A e \in Emails : /\ user'[e] # A!NoUser <=> user[e] # A!NoUser
                           /\ user'[e].password = user[e].password
  PROVE  A!WaysInv'
<1>1. \A p \in Profiles : linked[p] # NoEmail => linked[p] \in Emails
  BY DEF A!TypeOK
<1> QED
  BY <1>1 DEF A!WaysInv

LEMMA UsesKept ==
  ASSUME A!AccountsAssumption, A!TypeOK, A!UsesInv, LinksGrow,
         uses' = uses, shared \subseteq shared',
         \A l \in A!Issued : link'[l].used = link[l].used,
         \A l \in A!Links : A!Using(l)' \subseteq A!Using(l)
  PROVE  A!UsesInv'
<1> SUFFICES ASSUME NEW l \in A!Links
             PROVE  /\ uses[l] # 0 => l \in A!Issued' /\ link'[l].used
                    /\ uses[l] + A!Cardinality(A!Using(l)') <= A!Cardinality(Calls)
                    /\ \/ l \in shared'
                       \/ uses[l] = 0 /\ (\A c, d \in A!Using(l)' : c = d)
                       \/ uses[l] = 1 /\ A!Using(l)' = {}
  BY DEF A!UsesInv
<1>1. A!Using(l) \in SUBSET Calls
  BY DEF A!Using
<1>2. IsFiniteSet(A!Using(l)) /\ A!Cardinality(A!Using(l)) \in Nat
  BY <1>1, CallsFinite, Sizes, FS_Subset
<1>3. A!Cardinality(A!Using(l)') <= A!Cardinality(A!Using(l))
        /\ A!Cardinality(A!Using(l)') \in Nat
  BY <1>2, Sizes
<1>4. A!Issued \subseteq A!Issued'
  BY DEF A!Issued, LinksGrow
<1>5. uses[l] \in Nat /\ A!Cardinality(Calls) \in Nat
  BY CallsFinite DEF A!TypeOK
<1> QED
  BY <1>2, <1>3, <1>4, <1>5 DEF A!UsesInv

(* A step that only moves a request, and its mail into the queue.              *)
LEMMA OnlyCall ==
  ASSUME A!AccountsAssumption, A!AccountsInv, Job', UNCHANGED <<user, linked, link, uses,
         past, inbox, run>>,
         faults' \in 0..MaxFaults,
         NEW c \in Calls, NEW s \in {A!Idle} \union A!Requests, A!Become(c, s),
            CallFits(s),
         s.pc = "insert" => A!Room, s.pc # "use", shared' = shared
  PROVE  A!AccountsInv'
<1>a. A!TypeOK /\ A!LinksInv /\ A!CallsInv /\ A!WaysInv /\ A!UsesInv
  BY DEF A!AccountsInv
<1>b. UsersGrow /\ LinksGrow /\ CallFits(s)'
  BY DEF UsersGrow, LinksGrow, CallFits, A!MayHave, A!Issued
<1>1. A!TypeOK'
  <2>1. call' \in [Calls -> {A!Idle} \union A!Requests]
    BY <1>a, CallChanges
  <2> QED
    BY <1>a, <2>1 DEF A!TypeOK, Job
<1>2. A!LinksInv'
  <2>1. A!Inserting \in SUBSET Calls /\ A!Inserting' \in SUBSET Calls
    BY DEF A!Inserting
  <2>2. A!Inserting' = IF s.pc = "insert" THEN A!Inserting \union {c} ELSE A!Inserting \ {c}
    BY <1>a, CallChanges
  <2>3. A!Cardinality(A!Issued) \in Nat /\ MaxLinks \in Nat
          /\ A!Cardinality(A!Issued) + A!Cardinality(A!Inserting) <= MaxLinks
    BY <1>a, NextLink DEF A!LinksInv, A!AccountsAssumption
  <2>4. A!Cardinality(A!Issued) + A!Cardinality(A!Inserting') <= MaxLinks
    <3>1. CASE s.pc = "insert" /\ c \notin A!Inserting
      <4>1. A!Cardinality(A!Inserting') = A!Cardinality(A!Inserting) + 1
              /\ A!Cardinality(A!Inserting) \in Nat
        BY <2>1, <2>2, <3>1, CallsFinite, Sizes
      <4> QED
        BY <2>3, <3>1, <4>1 DEF A!Room
    <3>2. CASE ~(s.pc = "insert" /\ c \notin A!Inserting)
      <4>1. A!Inserting' \subseteq A!Inserting
        BY <2>2, <3>2
      <4>2. IsFiniteSet(A!Inserting)
        BY <2>1, CallsFinite, FS_Subset
      <4>3. A!Cardinality(A!Inserting') <= A!Cardinality(A!Inserting)
              /\ A!Cardinality(A!Inserting') \in Nat /\ A!Cardinality(A!Inserting) \in Nat
        BY <4>1, <4>2, Sizes
      <4> QED
        BY <2>3, <4>3
    <3> QED
      BY <3>1, <3>2
  <2> QED
    BY <1>a, <1>b, <2>4, LinksKept
<1>3. A!CallsInv'
  BY <1>a, <1>b, CallsKept
<1>4. A!WaysInv'
  BY <1>a, WaysKept
<1>5. A!UsesInv'
  <2>1. \A l \in A!Links : A!Using(l)' \subseteq A!Using(l)
    BY <1>a, CallChanges
  <2> QED
    BY <1>a, <1>b, <2>1, UsesKept
<1> QED
  BY <1>1, <1>2, <1>3, <1>4, <1>5 DEF A!AccountsInv, Job

(* The same jobs, the same links.                                              *)
LEMMA JobKept == ASSUME A!AccountsInv, UNCHANGED <<job, link>> PROVE Job'
BY DEF A!AccountsInv, Job, A!TypeOK, A!Q!TypeOK, A!MailInv, A!Q!Over, A!Issued

LEMMA RequestKeeps ==
  ASSUME A!AccountsAssumption, A!AccountsInv, NEW c \in Calls, NEW e \in Emails,
         \/ A!StartRegister(c, e) \/ A!StartResend(c, e) \/ A!StartForgot(c, e)
         \/ \E p \in Profiles : A!StartOAuth(c, p, e)
  PROVE  A!AccountsInv'
<1> DEFINE Request(pc, for, q) ==
      [pc |-> pc, for |-> for, email |-> e, profile |-> q, link |-> 0]
<1>a. /\ Job' /\ faults' \in 0..MaxFaults
      /\ UNCHANGED <<user, linked, link, uses, past, inbox, run, shared>>
  BY JobKept DEF A!StartRegister, A!StartResend, A!StartForgot, A!StartOAuth, A!Start,
     A!mail, A!AccountsInv, A!TypeOK
<1>1. CASE A!StartRegister(c, e)
  <2> DEFINE s == Request("create", "register", NoProfile)
  <2>1. A!Become(c, s) /\ s \in A!Requests /\ CallFits(s) /\ s.pc = "create"
    BY <1>1 DEF A!StartRegister, A!Start, A!Requests, CallFits
  <2> QED
    BY <1>a, <2>1, OnlyCall
<1>2. CASE A!StartResend(c, e)
  <2> DEFINE s == Request("insert", "resend", NoProfile)
  <2>1. A!Become(c, s) /\ s \in A!Requests /\ CallFits(s) /\ s.pc = "insert" /\ A!Room
    BY <1>2 DEF A!StartResend, A!Start, A!Requests, CallFits, A!MayHave, A!Purpose
  <2> QED
    BY <1>a, <2>1, OnlyCall
<1>3. CASE A!StartForgot(c, e)
  <2> DEFINE s == Request("insert", "forgot", NoProfile)
  <2>1. A!Become(c, s) /\ s \in A!Requests /\ CallFits(s) /\ s.pc = "insert" /\ A!Room
    BY <1>3 DEF A!StartForgot, A!Start, A!Requests, CallFits, A!MayHave, A!Purpose
  <2> QED
    BY <1>a, <2>1, OnlyCall
<1>4. ASSUME NEW p \in Profiles, A!StartOAuth(c, p, e) PROVE A!AccountsInv'
  <2>0. p # NoProfile
    BY DEF A!AccountsAssumption
  <2> DEFINE s == Request("findEmail", "oauth", p)
  <2>1. A!Become(c, s) /\ s \in A!Requests /\ CallFits(s) /\ s.pc = "findEmail"
    BY <1>4, <2>0 DEF A!StartOAuth, A!Start, A!Requests, CallFits
  <2> QED
    BY <1>a, <2>1, OnlyCall
<1> QED
  BY <1>1, <1>2, <1>3, <1>4

(* A request that ends, looks, or hands its mail to the queue.                 *)
LEMMA EndKeeps ==
  ASSUME A!AccountsAssumption, A!AccountsInv, NEW c \in Calls,
         A!CallDies(c) \/ A!FindEmail(c) \/ A!EnqueueMail(c)
  PROVE  A!AccountsInv'
<1>a. /\ UNCHANGED <<user, linked, link, uses, past, inbox, run, shared>>
      /\ faults' \in 0..MaxFaults
  BY DEF A!CallDies, A!FindEmail, A!EnqueueMail, A!Fault, A!tables, A!mail,
     A!AccountsInv, A!TypeOK,
         A!AccountsAssumption
<1>b. A!Idle.pc = "idle" /\ CallFits(A!Idle) /\ call[c] \in {A!Idle} \union A!Requests
  BY DEF A!Idle, CallFits, A!AccountsInv, A!TypeOK
<1>1. CASE UNCHANGED job /\ A!Become(c, A!Idle)
  BY <1>a, <1>b, <1>1, JobKept, OnlyCall
<1>2. CASE A!FindEmail(c) /\ A!Goto(c, "createLinked")
  <2> DEFINE s == [call[c] EXCEPT !.pc = "createLinked"]
  <2>1. call[c].pc = "findEmail" /\ call[c] \in A!Requests /\ call[c].profile # NoProfile
    BY <1>2, <1>b DEF A!FindEmail, A!At, A!AccountsInv, A!CallsInv
  <2>2. s \in A!Requests /\ s.pc = "createLinked" /\ s.profile = call[c].profile
    BY <2>1 DEF A!Requests
  <2>3. A!Become(c, s) /\ UNCHANGED job
    BY <1>2 DEF A!FindEmail, A!Become, A!Goto, A!mail
  <2>4. CallFits(s)
    BY <2>1, <2>2 DEF CallFits
  <2> HIDE DEF s
  <2> QED
    BY <1>a, <2>2, <2>3, <2>4, JobKept, OnlyCall
<1>3. CASE A!EnqueueMail(c)
  <2>1. call[c].link \in A!Issued /\ A!Q!Add(call[c].link) /\ A!Become(c, A!Idle)
    BY <1>3 DEF A!EnqueueMail, A!At, A!AccountsInv, A!CallsInv
  <2>2. Job'
    BY <1>a, <2>1, QueueKeeps DEF QueueDoes, Job, A!AccountsInv, A!TypeOK
  <2> QED
    BY <1>a, <1>b, <2>1, <2>2, OnlyCall
<1> QED
  BY <1>1, <1>2, <1>3 DEF A!CallDies, A!FindEmail, A!EnqueueMail, A!mail

LEMMA CreateKeeps ==
  ASSUME A!AccountsAssumption, A!AccountsInv, NEW c \in Calls, A!Create(c)
  PROVE  A!AccountsInv'
<1> DEFINE e == call[c].email
           u == [password |-> TRUE, verified |-> FALSE]
<1>a. A!TypeOK /\ A!LinksInv /\ A!CallsInv /\ A!WaysInv /\ A!UsesInv
  BY DEF A!AccountsInv
<1>b. /\ UNCHANGED <<linked, link, uses, shared, past, job, inbox, run, faults>>
      /\ Job' /\ faults' \in 0..MaxFaults
  BY <1>a, JobKept DEF A!Create, A!mail, A!TypeOK
<1>1. CASE user' = user /\ A!Become(c, A!Idle)
  <2>1. A!Idle.pc = "idle" /\ CallFits(A!Idle)
    BY DEF A!Idle, CallFits
  <2> QED
    BY <1>b, <1>1, <2>1, OnlyCall
<1>2. CASE user[e] = A!NoUser /\ A!Room /\ user' = [user EXCEPT ![e] = u]
        /\ A!Goto(c, "insert")
  <2>0. call[c].pc = "create" /\ call[c] \in A!Requests /\ e \in Emails
    BY <1>a DEF A!Create, A!At, A!TypeOK, A!Idle, A!Requests
  <2>1. PICK s \in A!Requests : s.pc = "insert" /\ s.email = e /\ A!Become(c, s)
    <3>1. [call[c] EXCEPT !.pc = "insert"] \in A!Requests
      BY <2>0 DEF A!Requests
    <3> QED
      BY <1>2, <2>0, <3>1 DEF A!Requests, A!Goto, A!Become
  <2>2. /\ user' \in [Emails -> Users] /\ user'[e] = u /\ u # A!NoUser /\ u.password
        /\ \A f \in Emails \ {e} : user'[f] = user[f]
    BY <1>a, <1>2, <2>0, RowsAreThere DEF A!TypeOK, Users
  <2> HIDE DEF u
  <2>3. UsersGrow /\ LinksGrow
    BY <1>b, <1>2, <2>2 DEF UsersGrow, LinksGrow
  <2>4. CallFits(s)'
    BY <2>0, <2>1, <2>2 DEF CallFits, A!MayHave
  <2>5. A!TypeOK'
    <3>1. call' \in [Calls -> {A!Idle} \union A!Requests]
      BY <1>a, <2>1, CallChanges
    <3> QED
      BY <1>a, <1>b, <2>2, <3>1 DEF A!TypeOK, Job, Users
  <2>6. A!LinksInv'
    <3>1. A!Inserting' = A!Inserting \union {c} /\ A!Inserting \in SUBSET Calls
            /\ c \notin A!Inserting
      BY <1>a, <2>0, <2>1, CallChanges DEF A!Inserting, A!At
    <3>2. A!Cardinality(A!Inserting') = A!Cardinality(A!Inserting) + 1
            /\ A!Cardinality(A!Inserting) \in Nat
      BY <3>1, CallsFinite, Sizes
    <3>3. A!Cardinality(A!Issued) \in Nat /\ MaxLinks \in Nat
      BY <1>a, NextLink DEF A!AccountsAssumption
    <3>4. A!Cardinality(A!Issued) + A!Cardinality(A!Inserting') <= MaxLinks
      BY <1>2, <3>2, <3>3 DEF A!Room
    <3> QED
      BY <1>a, <1>b, <2>3, <3>4, LinksKept
  <2>7. A!CallsInv'
    BY <1>a, <2>1, <2>3, <2>4, CallsKept
  <2>8. A!WaysInv'
    <3>1. \A p \in Profiles : linked[p] # NoEmail => linked[p] \in Emails /\ linked[p] # e
      BY <1>a, <1>2 DEF A!TypeOK, A!WaysInv
    <3> QED
      BY <1>a, <1>b, <1>2, <2>2, <3>1 DEF A!WaysInv
  <2>9. A!UsesInv'
    <3>1. \A l \in A!Links : A!Using(l)' \subseteq A!Using(l)
      BY <1>a, <2>1, CallChanges
    <3> QED
      BY <1>a, <1>b, <2>3, <3>1, UsesKept
  <2> QED
    BY <1>b, <2>5, <2>6, <2>7, <2>8, <2>9 DEF A!AccountsInv, Job
<1> QED
  BY <1>1, <1>2 DEF A!Create

LEMMA InsertLinkKeeps ==
  ASSUME A!AccountsAssumption, A!AccountsInv, NEW c \in Calls, A!InsertLink(c)
  PROVE  A!AccountsInv'
<1> DEFINE l == A!Cardinality(A!Issued) + 1
           r == [for |-> A!Purpose(call[c].for), email |-> call[c].email, used |-> FALSE]
<1>a. A!TypeOK /\ A!MailInv /\ A!LinksInv /\ A!CallsInv /\ A!WaysInv /\ A!UsesInv
  BY DEF A!AccountsInv
<1>b. UNCHANGED <<user, linked, uses, shared, past, job, inbox, run, faults>>
  BY DEF A!InsertLink, A!mail
<1>c. call[c].pc = "insert" /\ call[c] \in A!Requests
        /\ A!MayHave(A!Purpose(call[c].for), call[c].email)
  BY <1>a DEF A!InsertLink, A!At, A!TypeOK, A!Idle, A!CallsInv
<1>d. l \in A!Links /\ l \notin A!Issued /\ A!Issued \union {l} = 1..l
        /\ A!Cardinality(1..l) = l /\ l \in Nat
  <2>1. A!Inserting # {}
    BY <1>c DEF A!Inserting, A!At
  <2> QED
    BY <1>a, <2>1, NextLink
<1>e. /\ r \in LinkRows /\ r # A!NoLink /\ r.for = A!Purpose(call[c].for)
      /\ r.email = call[c].email /\ r.used = FALSE
  <2>1. r \in LinkRows
    BY <1>c DEF LinkRows, A!Requests, A!Purpose
  <2> QED
    BY <2>1, RowsAreThere
<1>f. PICK s \in A!Requests : s.pc = "enqueue" /\ s.link = l /\ A!Become(c, s)
  <2> DEFINE t == [call[c] EXCEPT !.pc = "enqueue", !.link = l]
  <2>1. t \in A!Requests /\ t.pc = "enqueue" /\ t.link = l
    BY <1>c, <1>d DEF A!Requests
  <2>2. call' = [call EXCEPT ![c] = t]
    BY <1>a, <1>c DEF A!InsertLink, A!TypeOK
  <2> QED
    BY <2>1, <2>2 DEF A!Become
<1>g. /\ link' \in [A!Links -> {A!NoLink} \union LinkRows] /\ link'[l] = r
      /\ \A k \in A!Links \ {l} : link'[k] = link[k]
  <2>1. link' = [link EXCEPT ![l] = r]
    BY DEF A!InsertLink
  <2> HIDE DEF r, l
  <2> QED
    BY <1>a, <1>d, <1>e, <2>1 DEF A!TypeOK, LinkRows
<1> HIDE DEF l, r
<1>1. A!Issued' = A!Issued \union {l} /\ A!Cardinality(A!Issued') = l /\ A!Issued' = 1..l
  <2>1. A!Issued' = A!Issued \union {l}
    BY <1>d, <1>e, <1>g DEF A!Issued
  <2> QED
    BY <1>d, <2>1
<1>2. UsersGrow /\ LinksGrow
  BY <1>b, <1>d, <1>g DEF UsersGrow, LinksGrow, A!Issued
<1>3. A!TypeOK'
  <2>1. call' \in [Calls -> {A!Idle} \union A!Requests]
    BY <1>a, <1>f, CallChanges
  <2>2. A!Q!TypeOK'
    BY <1>a, <1>b DEF A!TypeOK, A!Q!TypeOK
  <2> QED
    BY <1>a, <1>b, <1>g, <2>1, <2>2 DEF A!TypeOK, LinkRows
<1>4. A!MailInv'
  BY <1>a, <1>b, <1>1 DEF A!MailInv, A!Q!Over
<1>5. A!LinksInv'
  <2>1. A!Inserting' = A!Inserting \ {c} /\ A!Inserting \in SUBSET Calls
          /\ c \in A!Inserting
    BY <1>a, <1>c, <1>f, CallChanges DEF A!Inserting, A!At
  <2>2. A!Cardinality(A!Inserting') = A!Cardinality(A!Inserting) - 1
          /\ A!Cardinality(A!Inserting) \in Nat
    BY <2>1, CallsFinite, Sizes
  <2>3. A!Cardinality(A!Issued) \in Nat
          /\ A!Cardinality(A!Issued) + A!Cardinality(A!Inserting) <= MaxLinks
        /\ MaxLinks \in Nat
    BY <1>a, NextLink DEF A!LinksInv, A!AccountsAssumption
  <2>4. A!Cardinality(A!Issued') + A!Cardinality(A!Inserting') <= MaxLinks
    BY <1>1, <2>2, <2>3 DEF l
  <2>5. ASSUME NEW k \in A!Issued' PROVE A!MayHave(link[k].for, link[k].email)'
    <3>1. CASE k = l
      BY <1>b, <1>c, <1>e, <1>g, <3>1 DEF A!MayHave
    <3>2. CASE k \in A!Issued /\ k # l
      BY <1>a, <1>b, <1>g, <3>2 DEF A!MayHave, A!LinksInv, A!Issued
    <3> QED
      BY <1>1, <3>1, <3>2
  <2> QED
    BY <1>a, <1>b, <1>1, <2>4, <2>5 DEF A!LinksInv
<1>6. A!CallsInv'
  <2>1. CallFits(s)'
    BY <1>1, <1>f DEF CallFits
  <2> QED
    BY <1>a, <1>2, <1>f, <2>1, CallsKept
<1>7. A!WaysInv'
  BY <1>a, <1>b, WaysKept
<1>8. A!UsesInv'
  <2>1. \A k \in A!Links : A!Using(k)' \subseteq A!Using(k)
    BY <1>a, <1>f, CallChanges
  <2>2. \A k \in A!Issued : link'[k].used = link[k].used
    BY <1>d, <1>g DEF A!Issued
  <2> QED
    BY <1>a, <1>b, <1>2, <2>1, <2>2, UsesKept
<1> QED
  BY <1>3, <1>4, <1>5, <1>6, <1>7, <1>8 DEF A!AccountsInv

LEMMA CreateLinkedKeeps ==
  ASSUME A!AccountsAssumption, A!AccountsInv, NEW c \in Calls, A!CreateLinked(c)
  PROVE  A!AccountsInv'
<1> DEFINE e == call[c].email
           p == call[c].profile
           u == [password |-> FALSE, verified |-> TRUE]
<1>a. A!TypeOK /\ A!LinksInv /\ A!CallsInv /\ A!WaysInv /\ A!UsesInv
  BY DEF A!AccountsInv
<1>b. /\ UNCHANGED <<link, uses, shared, past, job, inbox, run, faults>>
      /\ Job' /\ faults' \in 0..MaxFaults /\ A!Become(c, A!Idle)
  BY <1>a, JobKept DEF A!CreateLinked, A!mail, A!TypeOK
<1>c. /\ call[c].pc = "createLinked" /\ call[c] \in A!Requests
      /\ e \in Emails /\ p \in Profiles
  BY <1>a DEF A!CreateLinked, A!At, A!TypeOK, A!Idle, A!CallsInv, A!Requests
<1>d. A!Idle.pc = "idle"
  BY DEF A!Idle
<1>1. CASE UNCHANGED <<user, linked>>
  BY <1>b, <1>d, <1>1, OnlyCall DEF CallFits
<1>2. CASE /\ user[e] = A!NoUser /\ linked[p] = NoEmail
           /\ user' = [user EXCEPT ![e] = u] /\ linked' = [linked EXCEPT ![p] = e]
  <2>1. /\ user' \in [Emails -> Users] /\ user'[e] = u /\ u # A!NoUser /\ ~u.password
        /\ \A f \in Emails \ {e} : user'[f] = user[f]
    BY <1>a, <1>2, <1>c, RowsAreThere DEF A!TypeOK, Users
  <2>2. /\ linked' \in [Profiles -> Emails \union {NoEmail}] /\ linked'[p] = e
        /\ \A q \in Profiles \ {p} : linked'[q] = linked[q]
    BY <1>a, <1>2, <1>c DEF A!TypeOK
  <2> HIDE DEF u
  <2>3. UsersGrow /\ LinksGrow
    BY <1>b, <1>2, <2>1 DEF UsersGrow, LinksGrow
  <2>4. A!TypeOK'
    <3>1. call' \in [Calls -> {A!Idle} \union A!Requests]
      BY <1>a, <1>b, CallChanges
    <3> QED
      BY <1>a, <1>b, <2>1, <2>2, <3>1 DEF A!TypeOK, Job, Users
  <2>5. A!LinksInv'
    <3>1. A!Inserting' = A!Inserting /\ A!Inserting \in SUBSET Calls
      BY <1>a, <1>b, <1>c, <1>d, CallChanges DEF A!Inserting, A!At
    <3> QED
      BY <1>a, <1>b, <2>3, <3>1, LinksKept DEF A!LinksInv
  <2>6. A!CallsInv'
    <3>1. CallFits(A!Idle)'
      BY <1>d DEF CallFits
    <3> QED
      BY <1>a, <1>b, <2>3, <3>1, CallsKept
  <2>7. A!WaysInv'
    <3>1. e # NoEmail
      BY <1>c DEF A!AccountsAssumption
    <3>2. \A q \in Profiles : linked[q] # NoEmail => linked[q] \in Emails /\ linked[q] # e
      BY <1>a, <1>2 DEF A!TypeOK, A!WaysInv
    <3>3. ASSUME NEW q \in Profiles, linked'[q] # NoEmail
          PROVE  /\ user'[linked'[q]] # A!NoUser /\ ~user'[linked'[q]].password
                 /\ \A o \in Profiles : linked'[o] = linked'[q] => o = q
      <4>1. CASE q = p
        BY <2>1, <2>2, <3>1, <3>2, <4>1
      <4>2. CASE q # p
        <5>1. linked'[q] = linked[q] /\ linked[q] \in Emails /\ linked[q] # e
          BY <2>2, <3>2, <3>3, <4>2
        <5>2. user[linked[q]] # A!NoUser /\ ~user[linked[q]].password
              /\ \A o \in Profiles : linked[o] = linked[q] => o = q
          BY <1>a, <3>3, <5>1 DEF A!WaysInv
        <5> QED
          BY <2>1, <2>2, <5>1, <5>2
      <4> QED
        BY <4>1, <4>2
    <3>4. ASSUME NEW f \in Emails, user'[f] # A!NoUser, ~user'[f].password
          PROVE  \E q \in Profiles : linked'[q] = f
      <4>1. CASE f = e
        BY <1>c, <2>2, <4>1
      <4>2. CASE f # e
        <5>1. PICK q \in Profiles : linked[q] = f
          BY <1>a, <2>1, <3>4, <4>2 DEF A!WaysInv
        <5>2. q # p
          BY <1>2, <5>1 DEF A!AccountsAssumption
        <5> QED
          BY <2>2, <5>1, <5>2
      <4> QED
        BY <4>1, <4>2
    <3> QED
      BY <3>3, <3>4 DEF A!WaysInv
  <2>8. A!UsesInv'
    <3>1. \A k \in A!Links : A!Using(k)' \subseteq A!Using(k)
      BY <1>a, <1>b, <1>d, CallChanges
    <3> QED
      BY <1>a, <1>b, <2>3, <3>1, UsesKept
  <2> QED
    BY <1>b, <2>4, <2>5, <2>6, <2>7, <2>8 DEF A!AccountsInv, Job
<1> QED
  BY <1>1, <1>2 DEF A!CreateLinked

(* A request that uses its link: the one step of a reset that writes a password *)
(* finds one there.                                                            *)
LEMMA UseKeeps ==
  ASSUME A!AccountsAssumption, A!AccountsInv, NEW c \in Calls, A!Use(c)
  PROVE  A!AccountsInv'
<1>a. A!TypeOK /\ A!MailInv /\ A!LinksInv /\ A!CallsInv /\ A!WaysInv /\ A!UsesInv
  BY DEF A!AccountsInv
<1>l. PICK l \in A!Links : l = call[c].link /\ l \in A!Issued
  BY <1>a DEF A!Use, A!At, A!CallsInv, A!Issued
<1> DEFINE e == link[l].email
           u == IF link[l].for = "verify" THEN [user[e] EXCEPT !.verified = TRUE]
                                          ELSE [user[e] EXCEPT !.password = TRUE]
<1>b. /\ UNCHANGED <<linked, shared, past, job, inbox, run, faults>>
      /\ A!Become(c, A!Idle) /\ A!Idle.pc = "idle"
  BY DEF A!Use, A!mail, A!Idle
<1>c. /\ call[c].pc = "use" /\ call[c] \in A!Requests
      /\ link[l] \in LinkRows
  BY <1>a, <1>l DEF A!Use, A!At, A!TypeOK, A!Idle, A!Issued, LinkRows
<1>d. e \in Emails /\ A!MayHave(link[l].for, e) /\ link[l].for \in {"verify", "reset"}
  BY <1>a, <1>c, <1>l DEF A!LinksInv, LinkRows
<1>e. user[e] \in [password : BOOLEAN, verified : BOOLEAN]
  BY <1>a, <1>d DEF A!TypeOK, A!MayHave
<1>f. /\ u \in [password : BOOLEAN, verified : BOOLEAN] /\ u # A!NoUser
      /\ u.password = user[e].password
  <2>1. u \in [password : BOOLEAN, verified : BOOLEAN]
    BY <1>e
  <2>2. u.password = user[e].password
    BY <1>d, <1>e DEF A!MayHave
  <2> QED
    BY <2>1, <2>2, RowsAreThere
<1>g. /\ user' \in [Emails -> Users] /\ user'[e] = u
      /\ \A f \in Emails \ {e} : user'[f] = user[f]
  <2>1. user' = [user EXCEPT ![e] = u]
    BY <1>a, <1>d, <1>l DEF A!Use, A!TypeOK
  <2> HIDE DEF u, e
  <2> QED
    BY <1>a, <1>d, <1>f, <2>1 DEF A!TypeOK, Users
<1>h. /\ link' \in [A!Links -> {A!NoLink} \union LinkRows]
      /\ link'[l] \in LinkRows /\ link'[l].for = link[l].for
         /\ link'[l].email = link[l].email
      /\ link'[l].used /\ \A k \in A!Links \ {l} : link'[k] = link[k]
  <2> DEFINE r == [link[l] EXCEPT !.used = TRUE]
  <2>1. r \in LinkRows /\ r.for = link[l].for /\ r.email = link[l].email /\ r.used
    BY <1>c DEF LinkRows
  <2>2. link' = [link EXCEPT ![l] = r]
    BY <1>a, <1>c, <1>l DEF A!Use, A!TypeOK
  <2> HIDE DEF r
  <2> QED
    BY <1>a, <1>c, <2>1, <2>2 DEF A!TypeOK, LinkRows
<1>i. /\ uses'[l] = uses[l] + 1 /\ DOMAIN uses' = A!Links
         /\ uses' = [k \in A!Links |-> uses'[k]]
      /\ \A k \in A!Links \ {l} : uses'[k] = uses[k]
  BY <1>a, <1>c, <1>l DEF A!Use, A!TypeOK
<1> HIDE DEF u
<1>1. UsersGrow /\ LinksGrow /\ A!Issued' = A!Issued
  <2>1. \A f \in Emails : (user'[f] # A!NoUser <=> user[f] # A!NoUser)
                          /\ user'[f].password = user[f].password
    BY <1>d, <1>f, <1>g DEF A!MayHave
  <2>2. LinksGrow /\ A!Issued' = A!Issued
    BY <1>c, <1>h, RowsAreThere DEF LinksGrow, A!Issued
  <2> QED
    BY <2>1, <2>2 DEF UsersGrow
<1>2. A!UsesInv' /\ uses' \in [A!Links -> 0..A!Cardinality(Calls)]
  <2>0. /\ c \in A!Using(l) /\ A!Using(l)' = A!Using(l) \ {c}
        /\ \A k \in A!Links \ {l} : A!Using(k)' = A!Using(k)
    BY <1>a, <1>b, <1>c, <1>l, CallChanges DEF A!Using, A!At
  <2>1. ASSUME NEW k \in A!Links
        PROVE  /\ uses'[k] \in Nat
               /\ uses'[k] # 0 => k \in A!Issued' /\ link'[k].used
               /\ uses'[k] + A!Cardinality(A!Using(k)') <= A!Cardinality(Calls)
               /\ \/ k \in shared'
                  \/ uses'[k] = 0 /\ (\A a, b \in A!Using(k)' : a = b)
                  \/ uses'[k] = 1 /\ A!Using(k)' = {}
    <3>1. uses[k] \in Nat /\ A!Cardinality(Calls) \in Nat
      BY <1>a, CallsFinite DEF A!TypeOK
    <3>2. CASE k = l
      <4>1. A!Using(l) \in SUBSET Calls
        BY DEF A!Using
      <4>2. A!Cardinality(A!Using(l)') = A!Cardinality(A!Using(l)) - 1
              /\ A!Cardinality(A!Using(l)) \in Nat
        <5>1. IsFiniteSet(A!Using(l))
          BY <4>1, CallsFinite, FS_Subset
        <5> QED
          BY <2>0, <5>1, Sizes
      <4>3. \/ l \in shared
            \/ uses[l] = 0 /\ (\A a, b \in A!Using(l) : a = b)
        BY <1>a, <1>c, <2>0 DEF A!UsesInv
      <4>4. uses[l] + A!Cardinality(A!Using(l)) <= A!Cardinality(Calls)
        BY <1>a, <1>c DEF A!UsesInv
      <4>5. \/ l \in shared'
            \/ uses'[l] = 1 /\ A!Using(l)' = {}
        BY <1>b, <1>i, <2>0, <4>3
      <4> QED
        BY <1>1, <1>l, <1>h, <1>i, <3>1, <3>2, <4>2, <4>4, <4>5
    <3>3. CASE k # l
      <4>1. uses'[k] = uses[k] /\ A!Using(k)' = A!Using(k) /\ link'[k] = link[k]
        BY <1>h, <1>i, <2>0, <3>3
      <4> QED
        BY <1>a, <1>b, <1>1, <3>1, <4>1 DEF A!UsesInv
    <3> QED
      BY <3>2, <3>3
  <2>2. ASSUME NEW k \in A!Links PROVE uses'[k] \in 0..A!Cardinality(Calls)
    <3>1. A!Using(k)' \in SUBSET Calls
      BY DEF A!Using
    <3>2. A!Cardinality(A!Using(k)') \in Nat /\ A!Cardinality(Calls) \in Nat
      BY <3>1, CallsFinite, Sizes
    <3> QED
      BY <2>1, <3>2
  <2> QED
    BY <1>i, <2>1, <2>2 DEF A!UsesInv
<1>3. A!TypeOK'
  <2>1. call' \in [Calls -> {A!Idle} \union A!Requests]
    BY <1>a, <1>b, CallChanges
  <2>2. A!Q!TypeOK'
    BY <1>a, <1>b DEF A!TypeOK, A!Q!TypeOK
  <2> QED
    BY <1>a, <1>b, <1>g, <1>h, <1>2, <2>1, <2>2 DEF A!TypeOK, LinkRows, Users
<1>4. A!MailInv'
  BY <1>a, <1>b, <1>1 DEF A!MailInv, A!Q!Over
<1>5. A!LinksInv'
  <2>1. A!Inserting' = A!Inserting
    BY <1>a, <1>b, <1>c, CallChanges DEF A!Inserting, A!At
  <2>2. ASSUME NEW k \in A!Issued PROVE A!MayHave(link[k].for, link[k].email)'
    <3>1. link[k].email \in Emails /\ A!MayHave(link[k].for, link[k].email)
      BY <1>a DEF A!Issued, A!TypeOK, A!LinksInv
    <3>2. link'[k].for = link[k].for /\ link'[k].email = link[k].email
      BY <1>1 DEF LinksGrow, A!Issued
    <3> QED
      BY <1>1, <3>1, <3>2 DEF UsersGrow, A!MayHave
  <2> QED
    BY <1>a, <1>b, <1>1, <2>1, <2>2 DEF A!LinksInv
<1>6. A!CallsInv'
  <2>1. CallFits(A!Idle)'
    BY <1>b DEF CallFits
  <2> QED
    BY <1>a, <1>b, <1>1, <2>1, CallsKept
<1>7. A!WaysInv'
  <2>1. \A f \in Emails : (user'[f] # A!NoUser <=> user[f] # A!NoUser)
                          /\ user'[f].password = user[f].password
    BY <1>d, <1>f, <1>g DEF A!MayHave
  <2> QED
    BY <1>a, <1>b, <2>1, WaysKept
<1> QED
  BY <1>2, <1>3, <1>4, <1>5, <1>6, <1>7 DEF A!AccountsInv

(* A link that comes back: if another request has found it good, it is shared. *)
LEMMA StartLinkKeeps ==
  ASSUME A!AccountsAssumption, A!AccountsInv, NEW c \in Calls, NEW l \in A!Links,
         A!StartLink(c, l)
  PROVE  A!AccountsInv'
<1>a. A!TypeOK /\ A!LinksInv /\ A!CallsInv /\ A!WaysInv /\ A!UsesInv
  BY DEF A!AccountsInv
<1>b. /\ UNCHANGED <<user, linked, link, uses, past, job, inbox, run, faults>>
      /\ Job' /\ faults' \in 0..MaxFaults /\ shared \subseteq shared'
         /\ shared' \subseteq A!Links
  BY <1>a, JobKept DEF A!StartLink, A!Start, A!mail, A!TypeOK
<1>c. l \in A!Issued /\ ~link[l].used /\ link[l] \in LinkRows /\ call[c].pc = "idle"
  BY <1>a DEF A!StartLink, A!Start, A!At, A!LinksInv, A!Issued, A!TypeOK, LinkRows
<1>d. PICK s \in A!Requests : s.pc = "use" /\ s.link = l /\ A!Become(c, s)
  <2> DEFINE t == [pc |-> "use", for |-> link[l].for, email |-> link[l].email,
                   profile |-> NoProfile, link |-> l]
  <2>1. t \in A!Requests /\ t.pc = "use" /\ t.link = l
    BY <1>c DEF A!Requests, LinkRows
  <2> QED
    BY <2>1 DEF A!StartLink, A!Start
<1>1. UsersGrow /\ LinksGrow
  BY <1>b DEF UsersGrow, LinksGrow
<1>2. A!TypeOK'
  <2>1. call' \in [Calls -> {A!Idle} \union A!Requests]
    BY <1>a, <1>d, CallChanges
  <2> QED
    BY <1>a, <1>b, <2>1 DEF A!TypeOK, Job
<1>3. A!LinksInv'
  <2>1. A!Inserting' = A!Inserting
    BY <1>a, <1>c, <1>d, CallChanges DEF A!Inserting, A!At
  <2> QED
    BY <1>a, <1>b, <1>1, <2>1, LinksKept DEF A!LinksInv
<1>4. A!CallsInv'
  <2>1. CallFits(s)'
    BY <1>b, <1>c, <1>d DEF CallFits, A!Issued
  <2> QED
    BY <1>a, <1>d, <1>1, <2>1, CallsKept
<1>5. A!WaysInv'
  BY <1>a, <1>b, WaysKept
<1>6. A!UsesInv'
  <2>1. A!Using(l)' = A!Using(l) \union {c} /\ c \notin A!Using(l)
          /\ A!Using(l) \in SUBSET Calls
    BY <1>a, <1>c, <1>d, CallChanges DEF A!Using, A!At
  <2>2. ASSUME NEW k \in A!Links \ {l} PROVE A!Using(k)' = A!Using(k)
    <3>1. c \notin A!Using(k)
      BY <1>c DEF A!Using, A!At
    <3>2. A!Using(k)' = A!Using(k) \ {c}
      BY <1>a, <1>d, CallChanges
    <3> QED
      BY <3>1, <3>2
  <2>3. uses[l] = 0
    BY <1>a, <1>c DEF A!UsesInv
  <2>4. A!Cardinality(A!Using(l)') <= A!Cardinality(Calls)
          /\ A!Cardinality(A!Using(l)') \in Nat
    <3>1. A!Using(l)' \in SUBSET Calls
      BY DEF A!Using
    <3> QED
      BY <3>1, CallsFinite, Sizes
  <2>5. l \in shared' \/ \A a, b \in A!Using(l)' : a = b
    BY <2>1 DEF A!StartLink
  <2>6. ASSUME NEW k \in A!Links
        PROVE  /\ uses'[k] # 0 => k \in A!Issued' /\ link'[k].used
               /\ uses'[k] + A!Cardinality(A!Using(k)') <= A!Cardinality(Calls)
               /\ \/ k \in shared'
                  \/ uses'[k] = 0 /\ (\A a, b \in A!Using(k)' : a = b)
                  \/ uses'[k] = 1 /\ A!Using(k)' = {}
    <3>1. CASE k = l
      <4>1. uses'[k] = 0
        BY <1>b, <2>3, <3>1
      <4> QED
        BY <2>4, <2>5, <3>1, <4>1
    <3>2. CASE k # l
      BY <1>a, <1>b, <2>2, <3>2 DEF A!UsesInv, A!Issued
    <3> QED
      BY <3>1, <3>2
  <2> QED
    BY <2>6 DEF A!UsesInv
<1> QED
  BY <1>b, <1>2, <1>3, <1>4, <1>5, <1>6 DEF A!AccountsInv, Job

(* A step of the queue, of a worker, or of time.                               *)
LEMMA MailKept ==
  ASSUME A!AccountsAssumption, A!AccountsInv, Job', UNCHANGED <<user, linked, link, uses,
         shared, call>>,
         past' \subseteq A!Links, inbox' \subseteq A!Issued,
         run' \in [Workers -> {A!Rests} \union A!Runs],
         \A w \in Workers : run'[w] # A!Rests => run'[w].link \in A!Issued,
         faults' \in 0..MaxFaults
  PROVE  A!AccountsInv'
<1>1. A!Issued' = A!Issued /\ A!Inserting' = A!Inserting
        /\ \A l \in A!Links : A!Using(l)' = A!Using(l)
  BY DEF A!Issued, A!Inserting, A!Using, A!At
<1>2. A!TypeOK'
  BY DEF A!AccountsInv, A!TypeOK, Job, A!Issued
<1>3. A!LinksInv'
  BY <1>1 DEF A!AccountsInv, A!LinksInv, A!MayHave
<1>4. A!CallsInv'
  BY <1>1 DEF A!AccountsInv, A!CallsInv, A!MayHave, A!At
<1>5. A!WaysInv'
  BY DEF A!AccountsInv, A!WaysInv
<1>6. A!UsesInv'
  BY <1>1 DEF A!AccountsInv, A!UsesInv
<1> QED
  BY <1>2, <1>3, <1>4, <1>5, <1>6 DEF A!AccountsInv, Job

LEMMA MailKeeps ==
  ASSUME A!AccountsAssumption, A!AccountsInv, NEW w \in Workers,
         A!TakeMail(w) \/ A!RunStep(w) \/ A!SendRejected(w) \/ A!CrashMailer(w)
  PROVE  A!AccountsInv'
<1>a. UNCHANGED <<user, linked, link, uses, shared, call, past>>
  BY DEF A!TakeMail, A!RunStep, A!Send, A!SettleMail, A!SendRejected, A!CrashMailer,
     A!tables
<1>b. /\ A!Q!TypeOK /\ A!MailInv /\ inbox \subseteq A!Issued /\ past \subseteq A!Links
      /\ run \in [Workers -> {A!Rests} \union A!Runs]
      /\ \A x \in Workers : run[x] # A!Rests => run[x].link \in A!Issued
      /\ faults \in 0..MaxFaults /\ MaxFaults \in Nat
  BY DEF A!AccountsInv, A!TypeOK, A!LinksInv, A!AccountsAssumption
<1>c. faults' \in 0..MaxFaults
  BY <1>b DEF A!TakeMail, A!RunStep, A!Send, A!SettleMail, A!SendRejected, A!CrashMailer,
     A!Fault
<1>d. A!Rests.pc = "idle"
  BY DEF A!Rests
<1>e. ASSUME NEW r \in {A!Rests} \union A!Runs, run' = [run EXCEPT ![w] = r],
             r # A!Rests => r.link \in A!Issued
      PROVE  /\ run' \in [Workers -> {A!Rests} \union A!Runs]
             /\ \A x \in Workers : run'[x] # A!Rests => run'[x].link \in A!Issued
  BY <1>b, <1>e
<1>f. ASSUME run[w].pc = "send", NEW pc \in {"returned", "threw"},
        run' = [run EXCEPT ![w].pc = pc]
      PROVE  /\ run' \in [Workers -> {A!Rests} \union A!Runs]
             /\ \A x \in Workers : run'[x] # A!Rests => run'[x].link \in A!Issued
             /\ run[w].link \in A!Issued
  <2>1. run[w] \in A!Runs /\ run[w].link \in A!Issued
    BY <1>b, <1>d, <1>f
  <2>2. [run[w] EXCEPT !.pc = pc] \in A!Runs
          /\ [run[w] EXCEPT !.pc = pc].link = run[w].link
    BY <2>1 DEF A!Runs
  <2>3. run' = [run EXCEPT ![w] = [run[w] EXCEPT !.pc = pc]]
    BY <1>b, <1>f
  <2> QED
    BY <1>e, <2>1, <2>2, <2>3
<1>1. CASE A!TakeMail(w)
  <2>1. PICK l \in A!Links : A!Q!Take(l, w)
          /\ run' = [run EXCEPT ![w] = [pc |-> "send", link |-> l]]
    BY <1>1 DEF A!TakeMail
  <2>2. l \in A!Issued /\ [pc |-> "send", link |-> l] \in A!Runs
    BY <1>b, <2>1 DEF A!MailInv, A!Q!Take, A!Runs
  <2>3. Job'
    BY <1>a, <1>b, <2>1, QueueKeeps DEF QueueDoes, Job
  <2>4. inbox' = inbox
    BY <1>1 DEF A!TakeMail
  <2> QED
    BY <1>a, <1>b, <1>c, <1>e, <2>1, <2>2, <2>3, <2>4, MailKept
<1>2. CASE A!Send(w)
  <2>1. Job'
    BY <1>2, <1>a, JobKept DEF A!Send
  <2> QED
    BY <1>2, <1>a, <1>b, <1>c, <1>f, <2>1, MailKept DEF A!Send
<1>3. CASE A!SendRejected(w)
  <2>1. Job'
    BY <1>3, <1>a, JobKept DEF A!SendRejected
  <2> QED
    BY <1>3, <1>a, <1>b, <1>c, <1>f, <2>1, MailKept DEF A!SendRejected
<1>4. CASE A!SettleMail(w)
  <2>1. run[w].link \in A!Links /\ inbox' = inbox /\ run' = [run EXCEPT ![w] = A!Rests]
    BY <1>4, <1>b, <1>d DEF A!SettleMail, A!Runs
  <2>2. PICK l \in A!Links, threw \in BOOLEAN : A!Q!Settle(l, w, threw)
    BY <1>4, <2>1 DEF A!SettleMail
  <2>3. Job'
    BY <1>a, <1>b, <2>2, QueueKeeps DEF QueueDoes, Job
  <2> QED
    BY <1>a, <1>b, <1>c, <1>e, <2>1, <2>3, MailKept
<1>5. CASE A!CrashMailer(w)
  <2>1. Job'
    BY <1>5, <1>a, <1>b, QueueKeeps DEF A!CrashMailer, QueueDoes, Job
  <2> QED
    BY <1>5, <1>a, <1>b, <1>c, <1>e, <2>1, MailKept DEF A!CrashMailer
<1> QED
  BY <1>1, <1>2, <1>3, <1>4, <1>5 DEF A!RunStep

LEMMA TimeKeeps ==
  ASSUME A!AccountsAssumption, A!AccountsInv, NEW l \in A!Links,
         A!Expire(l) \/ A!LoseLock(l) \/ A!HandOut(l)
  PROVE  A!AccountsInv'
<1>a. UNCHANGED <<user, linked, link, uses, shared, call, inbox, run>>
  BY DEF A!Expire, A!LoseLock, A!HandOut, A!tables, A!mail
<1>b. /\ A!Q!TypeOK /\ A!MailInv /\ inbox \subseteq A!Issued /\ past \subseteq A!Links
      /\ run \in [Workers -> {A!Rests} \union A!Runs]
      /\ \A x \in Workers : run[x] # A!Rests => run[x].link \in A!Issued
      /\ faults \in 0..MaxFaults /\ MaxFaults \in Nat
  BY DEF A!AccountsInv, A!TypeOK, A!LinksInv, A!AccountsAssumption
<1>c. faults' \in 0..MaxFaults /\ past' \subseteq A!Links
  BY <1>b DEF A!Expire, A!LoseLock, A!HandOut, A!Fault
<1>1. Job'
  <2>1. CASE A!Expire(l)
    BY <2>1, <1>a, JobKept DEF A!Expire, A!mail
  <2>2. CASE A!LoseLock(l) \/ A!HandOut(l)
    BY <2>2, <1>a, <1>b, QueueKeeps DEF A!LoseLock, A!HandOut, QueueDoes, Job
  <2> QED
    BY <2>1, <2>2
<1> QED
  BY <1>a, <1>b, <1>c, <1>1, MailKept

(* Before the first request the invariant holds, and every step keeps it.      *)
LEMMA AccountsStart == ASSUME A!AccountsAssumption, A!Init PROVE A!AccountsInv
<1> USE DEF A!Init
<1>1. /\ A!Issued = {} /\ A!Inserting = {} /\ \A l \in A!Links : A!Using(l) = {}
  BY DEF A!Issued, A!Inserting, A!Using, A!At, A!Idle
<1>2. A!Cardinality({}) = 0 /\ A!Cardinality(Calls) \in Nat
  BY FS_EmptySet, SameSizes, CallsFinite
<1>3. A!TypeOK
  BY <1>2 DEF A!TypeOK, A!Q!Init, A!Q!TypeOK, A!Q!JobState, A!Q!NoJob, A!Links,
     A!AccountsAssumption
<1>4. A!MailInv
  BY DEF A!MailInv, A!Q!Init, A!Q!NoJob, A!AccountsAssumption
<1>5. A!LinksInv
  BY <1>1, <1>2 DEF A!LinksInv, A!AccountsAssumption
<1>6. A!CallsInv
  BY DEF A!CallsInv, A!At, A!Idle
<1>7. A!WaysInv
  BY DEF A!WaysInv
<1>8. A!UsesInv
  BY <1>1, <1>2 DEF A!UsesInv
<1> HIDE DEF A!Init
<1> QED
  BY <1>3, <1>4, <1>5, <1>6, <1>7, <1>8 DEF A!AccountsInv

LEMMA AccountsStep == ASSUME A!AccountsAssumption, A!AccountsInv, [A!Next]_(A!vars)
   PROVE A!AccountsInv'
<1>1. CASE UNCHANGED A!vars
  BY <1>1, JobKept, MailKept DEF A!vars, A!tables, A!AccountsInv, A!TypeOK, A!LinksInv
<1>2. ASSUME NEW c \in Calls, NEW e \in Emails,
             A!StartRegister(c, e) \/ A!StartResend(c, e) \/ A!StartForgot(c, e)
      PROVE  A!AccountsInv'
  BY <1>2, RequestKeeps
<1>3. ASSUME NEW c \in Calls, NEW e \in Emails, NEW p \in Profiles, A!StartOAuth(c, p, e)
      PROVE  A!AccountsInv'
  BY <1>3, RequestKeeps
<1>4. ASSUME NEW c \in Calls, NEW l \in A!Links, A!StartLink(c, l) PROVE A!AccountsInv'
  BY <1>4, StartLinkKeeps
<1>5. ASSUME NEW c \in Calls, A!CallStep(c) \/ A!CallDies(c) PROVE A!AccountsInv'
  BY <1>5, CreateKeeps, InsertLinkKeeps, UseKeeps, CreateLinkedKeeps, EndKeeps
     DEF A!CallStep
<1>6. ASSUME NEW w \in Workers,
        A!TakeMail(w) \/ A!RunStep(w) \/ A!SendRejected(w) \/ A!CrashMailer(w)
      PROVE  A!AccountsInv'
  BY <1>6, MailKeeps
<1>7. ASSUME NEW l \in A!Links, A!Expire(l) \/ A!LoseLock(l) \/ A!HandOut(l)
        PROVE A!AccountsInv'
  BY <1>7, TimeKeeps
<1> QED
  BY <1>1, <1>2, <1>3, <1>4, <1>5, <1>6, <1>7 DEF A!Next

-----------------------------------------------------------------------------
(* What a sign-up is owed, until something fails.                              *)

Fresh == [password |-> TRUE, verified |-> FALSE]

(* A request that has no link to issue or to mail moves.                       *)
LEMMA OtherCall ==
  ASSUME A!TypeOK, A!SignupInv, LinksGrow, UNCHANGED <<job, inbox, run, faults>>,
         NEW c \in Calls, NEW s \in {A!Idle} \union A!Requests, A!Become(c, s),
         call[c].pc \notin {"insert", "enqueue"},
         s.pc = "create" => A!Purpose(s.for) = "verify",
         \A e \in Emails : user'[e] = Fresh =>
           \/ user[e] = Fresh
           \/ s.pc = "insert" /\ A!Purpose(s.for) = "verify" /\ s.email = e
  PROVE  A!SignupInv'
<1>1. call'[c] = s /\ \A d \in Calls \ {c} : call'[d] = call[d]
  BY CallChanges
<1>2. ASSUME NEW e \in Emails, A!OnItsWay(e) PROVE A!OnItsWay(e)'
  <2>1. CASE \E d \in Calls :
               A!At(d, "insert") /\ A!Purpose(call[d].for) = "verify" /\ call[d].email = e
    <3>1. PICK d \in Calls \ {c} :
            call[d].pc = "insert" /\ A!Purpose(call[d].for) = "verify"
               /\ call[d].email = e
      BY <2>1 DEF A!At
    <3>2. call'[d] = call[d]
      BY <1>1
    <3> QED
      BY <3>1, <3>2 DEF A!OnItsWay, A!At
  <2>2. ASSUME NEW l \in A!Issued, link[l].for = "verify", link[l].email = e,
               \/ \E d \in Calls : A!At(d, "enqueue") /\ call[d].link = l
               \/ job[l].state \in {"waiting", "active"}
               \/ l \in inbox
        PROVE  A!OnItsWay(e)'
    <3>1. l \in A!Issued' /\ link'[l].for = "verify" /\ link'[l].email = e
      BY <2>2 DEF LinksGrow, A!Issued
    <3>2. CASE \E d \in Calls : A!At(d, "enqueue") /\ call[d].link = l
      <4>1. PICK d \in Calls \ {c} : call[d].pc = "enqueue" /\ call[d].link = l
        BY <3>2 DEF A!At
      <4>2. call'[d] = call[d]
        BY <1>1
      <4> QED
        BY <3>1, <4>1, <4>2 DEF A!OnItsWay, A!At
    <3>3. CASE job[l].state \in {"waiting", "active"} \/ l \in inbox
      BY <3>1, <3>3 DEF A!OnItsWay
    <3> QED
      BY <2>2, <3>2, <3>3
  <2> QED
    BY <1>2, <2>1, <2>2 DEF A!OnItsWay
<1>3. A!SignupOnItsWay'
  <2> SUFFICES ASSUME faults = 0, NEW e \in Emails, user'[e] = Fresh PROVE A!OnItsWay(e)'
    BY DEF A!SignupOnItsWay, Fresh
  <2>1. CASE user[e] = Fresh
    BY <1>2, <2>1 DEF A!SignupInv, A!SignupOnItsWay, Fresh
  <2>2. CASE s.pc = "insert" /\ A!Purpose(s.for) = "verify" /\ s.email = e
    BY <1>1, <2>2 DEF A!OnItsWay, A!At
  <2> QED
    BY <2>1, <2>2
<1>4. faults = 0 => A!NothingLost'
  BY DEF A!SignupInv, A!NothingLost
<1>5. \A d \in Calls : A!At(d, "create")' => A!Purpose(call[d].for)' = "verify"
  <2>1. \A d \in Calls : call'[d].pc = "create" => A!Purpose(call'[d].for) = "verify"
    BY <1>1 DEF A!SignupInv, A!At
  <2> QED
    BY <2>1 DEF A!At, A!Purpose
<1> QED
  BY <1>3, <1>4, <1>5 DEF A!SignupInv

(* Once something fails nothing is owed.                                       *)
LEMMA FaultOwesNothing ==
  ASSUME A!TypeOK, A!SignupInv, A!Fault,
         UNCHANGED call \/ \E c \in Calls : A!Become(c, A!Idle)
  PROVE  A!SignupInv'
<1>1. faults' # 0
  BY DEF A!Fault, A!TypeOK
<1>2. \A d \in Calls : call'[d] = call[d] \/ call'[d] = A!Idle
  BY DEF A!Become, A!TypeOK
<1>3. \A d \in Calls : call'[d].pc = "create" => A!Purpose(call'[d].for) = "verify"
  BY <1>2 DEF A!SignupInv, A!At, A!Idle
<1>4. \A d \in Calls : A!At(d, "create")' => A!Purpose(call[d].for)' = "verify"
  BY <1>3 DEF A!At, A!Purpose
<1> QED
  BY <1>1, <1>4 DEF A!SignupInv, A!SignupOnItsWay

(* A step of the queue, of a worker, or of time that loses nothing.            *)
LEMMA QueueLosesNothing ==
  ASSUME A!TypeOK, A!SignupInv, UNCHANGED <<user, link, call, faults>>, A!Q!TypeOK',
         inbox \subseteq inbox', faults = 0 => A!NothingLost',
         \A l \in A!Links : job[l].state # "none" => job'[l].state # "none"
  PROVE  A!SignupInv'
<1>1. \A d \in Calls : A!At(d, "create")' => A!Purpose(call[d].for)' = "verify"
  BY DEF A!SignupInv, A!At, A!Purpose
<1>2. ASSUME faults = 0, NEW e \in Emails, A!OnItsWay(e) PROVE A!OnItsWay(e)'
  <2>1. A!Issued' = A!Issued /\ A!Issued \subseteq A!Links
    BY DEF A!Issued
  <2>2. ASSUME NEW l \in A!Links, job[l].state \in {"waiting", "active"}
        PROVE  job'[l].state \in {"waiting", "active"} \/ l \in inbox'
    <3>1. job'[l].state \in A!Q!JobState /\ job'[l].state # "none"
      BY <2>2 DEF A!Q!TypeOK
    <3> QED
      BY <1>2, <3>1 DEF A!NothingLost, A!Q!JobState
  <2> QED
    BY <1>2, <2>1, <2>2 DEF A!OnItsWay, A!At, A!Purpose
<1>3. A!SignupOnItsWay'
  BY <1>2 DEF A!SignupInv, A!SignupOnItsWay
<1> QED
  BY <1>1, <1>3 DEF A!SignupInv

LEMMA SignupRequest ==
  ASSUME A!AccountsAssumption, A!AccountsInv, A!SignupInv, NEW c \in Calls,
         \/ \E e \in Emails :
              \/ A!StartRegister(c, e)
              \/ A!StartResend(c, e)
              \/ A!StartForgot(c, e)
              \/ \E p \in Profiles : A!StartOAuth(c, p, e)
         \/ \E l \in A!Links : A!StartLink(c, l)
  PROVE  A!SignupInv'
<1> DEFINE Starts ==
      /\ call[c].pc = "idle" /\ UNCHANGED <<user, link, job, inbox, run, faults>>
      /\ \E s \in A!Requests :
           A!Become(c, s) /\ (s.pc = "create" => A!Purpose(s.for) = "verify")
<1>1. Starts
  <2>1. ASSUME NEW e \in Emails,
               \/ A!StartRegister(c, e)
               \/ A!StartResend(c, e)
               \/ A!StartForgot(c, e)
        PROVE  Starts
    BY <2>1 DEF A!StartRegister, A!StartResend, A!StartForgot, A!Start, A!At, A!mail,
       A!Requests, A!Purpose
  <2>2. ASSUME NEW e \in Emails, NEW p \in Profiles, A!StartOAuth(c, p, e) PROVE Starts
    BY <2>2 DEF A!StartOAuth, A!Start, A!At, A!mail, A!Requests
  <2>3. ASSUME NEW l \in A!Links, A!StartLink(c, l) PROVE Starts
    <3>1. link[l] \in LinkRows
      BY <2>3 DEF A!StartLink, A!AccountsInv, A!LinksInv, A!Issued, A!TypeOK, LinkRows
    <3> QED
      BY <2>3, <3>1 DEF A!StartLink, A!Start, A!At, A!mail, A!Requests, LinkRows
  <2> QED
    BY <2>1, <2>2, <2>3
<1>2. PICK s \in A!Requests :
        A!Become(c, s) /\ (s.pc = "create" => A!Purpose(s.for) = "verify")
  BY <1>1
<1> QED
  BY <1>1, <1>2, OtherCall DEF A!AccountsInv, LinksGrow

LEMMA SignupCall ==
  ASSUME A!AccountsAssumption, A!AccountsInv, A!SignupInv, NEW c \in Calls,
         A!Create(c) \/ A!Use(c) \/ A!FindEmail(c) \/ A!CreateLinked(c)
  PROVE  A!SignupInv'
<1>a. A!TypeOK /\ A!LinksInv /\ A!CallsInv
  BY DEF A!AccountsInv
<1>b. UNCHANGED <<job, inbox, run, faults>> /\ A!Idle.pc = "idle"
  BY DEF A!Create, A!Use, A!FindEmail, A!CreateLinked, A!mail, A!Idle
<1>c. call[c].pc \in {"create", "use", "findEmail", "createLinked"}
        /\ call[c] \in A!Requests
  BY <1>a DEF A!Create, A!Use, A!FindEmail, A!CreateLinked, A!At, A!TypeOK, A!Idle
<1>d. LinksGrow
  <2>1. CASE UNCHANGED link
    BY <2>1 DEF LinksGrow
  <2>2. CASE A!Use(c)
    <3> DEFINE l == call[c].link
               r == [link[l] EXCEPT !.used = TRUE]
    <3>1. l \in A!Links /\ link[l] \in LinkRows
      BY <1>a, <2>2 DEF A!Use, A!At, A!CallsInv, A!Issued, A!TypeOK, LinkRows
    <3>2. r \in LinkRows /\ r.for = link[l].for /\ r.email = link[l].email
      BY <3>1 DEF LinkRows
    <3>3. link' = [link EXCEPT ![l] = r]
      BY <1>a, <2>2, <3>1 DEF A!Use, A!TypeOK
    <3> HIDE DEF l, r
    <3>4. link'[l] = r /\ \A k \in A!Links \ {l} : link'[k] = link[k]
      BY <1>a, <3>1, <3>3 DEF A!TypeOK
    <3> QED
      BY <3>2, <3>4, RowsAreThere DEF LinksGrow
  <2> QED
    BY <2>1, <2>2 DEF A!Create, A!FindEmail, A!CreateLinked, A!tables
<1>1. CASE UNCHANGED user /\ A!Become(c, A!Idle)
  BY <1>a, <1>b, <1>c, <1>d, <1>1, OtherCall
<1>2. CASE A!Goto(c, "createLinked") /\ UNCHANGED user
  <2>1. PICK s \in A!Requests : s.pc = "createLinked" /\ A!Become(c, s)
    <3>1. [call[c] EXCEPT !.pc = "createLinked"] \in A!Requests
      BY <1>c DEF A!Requests
    <3> QED
      BY <1>2, <3>1 DEF A!Requests, A!Goto, A!Become
  <2> QED
    BY <1>a, <1>b, <1>c, <1>d, <1>2, <2>1, OtherCall
<1>3. CASE A!Create(c) /\ A!Goto(c, "insert")
        /\ user' = [user EXCEPT ![call[c].email] = Fresh]
  <2>1. PICK s \in A!Requests : /\ s.pc = "insert" /\ s.for = call[c].for
                              /\ s.email = call[c].email /\ A!Become(c, s)
    <3>1. [call[c] EXCEPT !.pc = "insert"] \in A!Requests
      BY <1>c DEF A!Requests
    <3> QED
      BY <1>3, <1>c, <3>1 DEF A!Requests, A!Goto, A!Become
  <2>2. A!Purpose(s.for) = "verify"
    BY <1>3, <2>1 DEF A!Create, A!SignupInv, A!At
  <2>3. \A e \in Emails : user'[e] = Fresh => user[e] = Fresh \/ s.email = e
    BY <1>a, <1>3, <2>1 DEF A!TypeOK
  <2> QED
    BY <1>a, <1>b, <1>c, <1>d, <2>1, <2>2, <2>3, OtherCall
<1>4. CASE A!CreateLinked(c) /\ user' = [user EXCEPT ![call[c].email] =
                                         [password |-> FALSE, verified |-> TRUE]]
  <2>1. \A e \in Emails : user'[e] = Fresh => user[e] = Fresh
    BY <1>a, <1>4 DEF A!TypeOK, Fresh
  <2>2. A!Become(c, A!Idle)
    BY <1>4 DEF A!CreateLinked
  <2> QED
    BY <1>a, <1>b, <1>c, <1>d, <2>1, <2>2, OtherCall
<1>5. CASE A!Use(c)
  <2> DEFINE l == call[c].link
             f == link[l].email
             u == IF link[l].for = "verify" THEN [user[f] EXCEPT !.verified = TRUE]
                                            ELSE [user[f] EXCEPT !.password = TRUE]
  <2>1. /\ link[l] \in LinkRows /\ A!MayHave(link[l].for, f)
        /\ user[f] \in [password : BOOLEAN, verified : BOOLEAN]
    BY <1>a, <1>5 DEF A!Use, A!At, A!CallsInv, A!LinksInv, A!Issued, A!TypeOK, LinkRows,
       A!MayHave
  <2>2. user' = [user EXCEPT ![f] = u] /\ A!Become(c, A!Idle)
    BY <1>a, <1>5 DEF A!Use, A!TypeOK
  <2>3. u = Fresh => user[f] = Fresh
    <3>1. CASE link[l].for = "verify"
      <4>1. u.verified = TRUE
        BY <2>1, <3>1
      <4>2. Fresh.verified = FALSE
        BY DEF Fresh
      <4> HIDE DEF u
      <4> QED
        BY <4>1, <4>2
    <3>2. CASE link[l].for = "reset"
      <4>1. u = user[f]
        BY <2>1, <3>2 DEF A!MayHave
      <4> HIDE DEF u
      <4> QED
        BY <4>1
    <3> QED
      BY <2>1, <3>1, <3>2 DEF LinkRows
  <2> HIDE DEF u, f
  <2>4. \A e \in Emails : user'[e] = Fresh => user[e] = Fresh
    BY <1>a, <2>2, <2>3 DEF A!TypeOK
  <2> QED
    BY <1>a, <1>b, <1>c, <1>d, <2>2, <2>4, OtherCall
<1> QED
  BY <1>1, <1>2, <1>3, <1>4, <1>5
     DEF A!Create, A!FindEmail, A!CreateLinked, A!tables, Fresh

(* The link of an address is issued, and its mail queued.                      *)
LEMMA SignupLink ==
  ASSUME A!AccountsAssumption, A!AccountsInv, A!SignupInv, NEW c \in Calls,
         A!InsertLink(c) \/ A!EnqueueMail(c)
  PROVE  A!SignupInv'
<1>a. A!TypeOK /\ A!LinksInv /\ A!CallsInv
  BY DEF A!AccountsInv
<1>b. UNCHANGED <<user, inbox, run, faults>> /\ A!Idle.pc = "idle"
  BY DEF A!InsertLink, A!EnqueueMail, A!mail, A!tables, A!Idle
<1>1. CASE A!InsertLink(c)
  <2>0. PICK l \in A!Links : l \notin A!Issued /\ l = A!Cardinality(A!Issued) + 1
    <3>1. c \in A!Inserting
      BY <1>1 DEF A!InsertLink, A!Inserting
    <3> QED
      BY <1>a, <3>1, NextLink
  <2> DEFINE r == [for |-> A!Purpose(call[c].for), email |-> call[c].email,
     used |-> FALSE]
  <2>1. call[c].pc = "insert" /\ call[c] \in A!Requests
    BY <1>a, <1>1 DEF A!InsertLink, A!At, A!TypeOK, A!Idle
  <2>2. r \in LinkRows /\ r.for = A!Purpose(call[c].for) /\ r.email = call[c].email
    BY <2>1 DEF LinkRows, A!Requests, A!Purpose
  <2>3. link' = [link EXCEPT ![l] = r] /\ UNCHANGED job
    BY <1>1, <2>0 DEF A!InsertLink, A!mail
  <2>4. PICK s \in A!Requests : s.pc = "enqueue" /\ s.link = l /\ A!Become(c, s)
    <3> DEFINE t == [call[c] EXCEPT !.pc = "enqueue", !.link = l]
    <3>1. t \in A!Requests /\ t.pc = "enqueue" /\ t.link = l
      BY <2>1 DEF A!Requests
    <3>2. call' = [call EXCEPT ![c] = t]
      BY <1>a, <1>1, <2>0, <2>1 DEF A!InsertLink, A!TypeOK
    <3> QED
      BY <3>1, <3>2 DEF A!Become
  <2> HIDE DEF r
  <2>5. /\ link'[l] = r /\ r # A!NoLink /\ l \in A!Issued'
        /\ \A k \in A!Issued : k \in A!Issued' /\ link'[k] = link[k]
    BY <1>a, <2>0, <2>2, <2>3, RowsAreThere DEF A!TypeOK, A!Issued
  <2>6. call'[c] = s /\ \A d \in Calls \ {c} : call'[d] = call[d]
    BY <1>a, <2>4, CallChanges
  <2>7. ASSUME NEW e \in Emails, A!OnItsWay(e) PROVE A!OnItsWay(e)'
    <3>1. CASE A!Purpose(call[c].for) = "verify" /\ call[c].email = e
      BY <2>2, <2>4, <2>5, <2>6, <3>1 DEF A!OnItsWay, A!At
    <3>2. ASSUME NEW d \in Calls \ {c}, call[d].pc = "insert",
                 A!Purpose(call[d].for) = "verify", call[d].email = e
          PROVE  A!OnItsWay(e)'
      <4>1. call'[d] = call[d]
        BY <2>6
      <4> QED
        BY <3>2, <4>1 DEF A!OnItsWay, A!At, A!Purpose
    <3>3. ASSUME NEW k \in A!Issued, link[k].for = "verify", link[k].email = e,
                 \/ \E d \in Calls : call[d].pc = "enqueue" /\ call[d].link = k
                 \/ job[k].state \in {"waiting", "active"}
                 \/ k \in inbox
          PROVE  A!OnItsWay(e)'
      <4>1. \A d \in Calls : call[d].pc = "enqueue" => call'[d] = call[d]
        BY <2>1, <2>6
      <4> QED
        BY <1>b, <2>3, <2>5, <3>3, <4>1 DEF A!OnItsWay, A!At
    <3> QED
      BY <2>7, <3>1, <3>2, <3>3 DEF A!OnItsWay, A!At
  <2>8. A!SignupOnItsWay'
    BY <1>b, <2>7 DEF A!SignupInv, A!SignupOnItsWay
  <2>9. faults = 0 => A!NothingLost'
    BY <1>b, <2>3 DEF A!SignupInv, A!NothingLost
  <2>10. \A d \in Calls : call'[d].pc = "create" => A!Purpose(call'[d].for) = "verify"
    BY <2>4, <2>6 DEF A!SignupInv, A!At
  <2> QED
    BY <1>b, <2>8, <2>9, <2>10 DEF A!SignupInv, A!At, A!Purpose
<1>2. CASE A!EnqueueMail(c)
  <2>1. PICK l \in A!Issued : l = call[c].link /\ A!Q!Add(l)
    BY <1>a, <1>2 DEF A!EnqueueMail, A!At, A!CallsInv
  <2>2. call[c].pc = "enqueue" /\ A!Become(c, A!Idle) /\ UNCHANGED link /\ l \in A!Links
    BY <1>2 DEF A!EnqueueMail, A!At, A!tables, A!Issued
  <2>3. /\ job[l].state = "none" /\ job'[l].state = "waiting"
        /\ \A k \in A!Links \ {l} : job'[k] = job[k]
    BY <1>a, <2>1, <2>2 DEF A!Q!Add, A!TypeOK, A!Q!TypeOK
  <2>4. call'[c] = A!Idle /\ \A d \in Calls \ {c} : call'[d] = call[d]
    BY <1>a, <2>2, CallChanges
  <2>5. A!Issued' = A!Issued
    BY <2>2 DEF A!Issued
  <2>6. ASSUME NEW e \in Emails, A!OnItsWay(e) PROVE A!OnItsWay(e)'
    <3>1. ASSUME NEW d \in Calls, call[d].pc = "insert",
                 A!Purpose(call[d].for) = "verify", call[d].email = e
          PROVE  A!OnItsWay(e)'
      <4>1. call'[d] = call[d]
        BY <2>2, <2>4, <3>1
      <4> QED
        BY <3>1, <4>1 DEF A!OnItsWay, A!At, A!Purpose
    <3>2. ASSUME NEW k \in A!Issued, link[k].for = "verify", link[k].email = e,
                 \/ \E d \in Calls : call[d].pc = "enqueue" /\ call[d].link = k
                 \/ job[k].state \in {"waiting", "active"}
                 \/ k \in inbox
          PROVE  A!OnItsWay(e)'
      <4>1. CASE k = l
        BY <2>2, <2>3, <2>5, <3>2, <4>1 DEF A!OnItsWay
      <4>2. CASE k # l
        <5>1. job'[k] = job[k]
          BY <2>3, <4>2 DEF A!Issued
        <5>2. \A d \in Calls : call[d].pc = "enqueue"
                /\ call[d].link = k => call'[d] = call[d]
          BY <2>1, <2>4, <4>2
        <5> QED
          BY <1>b, <2>2, <2>5, <3>2, <5>1, <5>2 DEF A!OnItsWay, A!At
      <4> QED
        BY <4>1, <4>2
    <3> QED
      BY <2>6, <3>1, <3>2 DEF A!OnItsWay, A!At
  <2>7. A!SignupOnItsWay'
    BY <1>b, <2>6 DEF A!SignupInv, A!SignupOnItsWay
  <2>8. faults = 0 => A!NothingLost'
    <3>1. \A k \in A!Links : job'[k] = job[k] \/ job'[k].state = "waiting"
      BY <2>3
    <3> QED
      BY <1>b, <3>1 DEF A!SignupInv, A!NothingLost
  <2>9. \A d \in Calls : call'[d].pc = "create" => A!Purpose(call'[d].for) = "verify"
    BY <1>b, <2>4 DEF A!SignupInv, A!At
  <2> QED
    BY <1>b, <2>7, <2>8, <2>9 DEF A!SignupInv, A!At, A!Purpose
<1> QED
  BY <1>1, <1>2

LEMMA SignupMail ==
  ASSUME A!AccountsAssumption, A!AccountsInv, A!SignupInv, NEW w \in Workers,
         A!TakeMail(w) \/ A!RunStep(w)
  PROVE  A!SignupInv'
<1>a. /\ A!TypeOK /\ A!MailInv /\ A!Q!TypeOK
         /\ run \in [Workers -> {A!Rests} \union A!Runs]
      /\ job \in [A!Links -> JobRows] /\ A!Rests.pc = "idle"
  BY DEF A!AccountsInv, A!TypeOK, A!Q!TypeOK, JobRows, A!Rests
<1>b. UNCHANGED <<user, link, call, faults>>
  BY DEF A!TakeMail, A!RunStep, A!Send, A!SettleMail, A!tables
<1>c. A!Q!TypeOK'
  <2>1. A!AccountsInv'
    BY MailKeeps
  <2> QED
    BY <2>1 DEF A!AccountsInv, A!TypeOK
<1>d. \A x \in Workers : run[x] # A!Rests => run[x] \in A!Runs
  BY <1>a
<1>1. CASE A!TakeMail(w)
  <2>1. PICK l \in A!Links : /\ run[w] = A!Rests /\ A!Q!Take(l, w)
                           /\ run' = [run EXCEPT ![w] = [pc |-> "send", link |-> l]]
    BY <1>1 DEF A!TakeMail
  <2>2. /\ job[l].state = "waiting" /\ job'[l].state = "active" /\ job'[l].owner = w
        /\ \A k \in A!Links \ {l} : job'[k] = job[k]
    BY <1>a, <2>1 DEF A!Q!Take, JobRows
  <2>3. /\ run'[w].pc = "send" /\ run'[w].link = l /\ run'[w] # A!Rests
        /\ \A x \in Workers \ {w} : run'[x] = run[x]
    BY <1>a, <2>1
  <2>4. UNCHANGED inbox
    BY <1>1 DEF A!TakeMail
  <2>5. faults = 0 => A!NothingLost'
    <3> SUFFICES ASSUME A!NothingLost PROVE A!NothingLost'
      BY DEF A!SignupInv
    <3>1. ASSUME NEW k \in A!Links
          PROVE  /\ job'[k].state = "active" => \E x \in Workers :
                      job'[k].owner = x /\ run'[x] # A!Rests /\ run'[x].link = k
                 /\ job'[k].state = "completed" => k \in inbox'
                 /\ job'[k].state # "failed"
      <4>1. CASE k = l
        BY <2>2, <2>3, <4>1
      <4>2. CASE k # l
        <5>1. job'[k] = job[k]
          BY <2>2, <4>2
        <5>2. \A x \in Workers : run[x] # A!Rests => run'[x] = run[x]
          BY <2>1, <2>3
        <5> QED
          BY <2>4, <5>1, <5>2 DEF A!NothingLost
      <4> QED
        BY <4>1, <4>2
    <3>2. \A x \in Workers : run'[x] # A!Rests =>
             run'[x].pc # "threw" /\ (run'[x].pc = "returned" => run'[x].link \in inbox')
      BY <2>3, <2>4 DEF A!NothingLost
    <3> QED
      BY <3>1, <3>2 DEF A!NothingLost
  <2>6. \A k \in A!Links : job[k].state # "none" => job'[k].state # "none"
    BY <2>2
  <2> QED
    BY <1>a, <1>b, <1>c, <2>4, <2>5, <2>6, QueueLosesNothing
<1>2. CASE A!Send(w)
  <2>1. run[w] \in A!Runs /\ run[w].pc = "send" /\ inbox' = inbox \union {run[w].link}
        /\ UNCHANGED job
    BY <1>2, <1>a DEF A!Send
  <2>2. /\ run'[w].pc = "returned" /\ run'[w].link = run[w].link /\ run'[w] # A!Rests
        /\ \A x \in Workers \ {w} : run'[x] = run[x]
    BY <1>2, <1>a, <2>1 DEF A!Send, A!Runs
  <2>3. faults = 0 => A!NothingLost'
    <3> SUFFICES ASSUME A!NothingLost PROVE A!NothingLost'
      BY DEF A!SignupInv
    <3>1. \A x \in Workers : run[x] # A!Rests => run'[x] # A!Rests
            /\ run'[x].link = run[x].link
      BY <2>2
    <3>2. \A x \in Workers : run'[x] # A!Rests =>
             run'[x].pc # "threw" /\ (run'[x].pc = "returned" => run'[x].link \in inbox')
      BY <2>1, <2>2 DEF A!NothingLost
    <3> QED
      BY <2>1, <3>1, <3>2 DEF A!NothingLost
  <2> QED
    BY <1>a, <1>b, <1>c, <2>1, <2>3, QueueLosesNothing
<1>3. CASE A!SettleMail(w)
  <2> DEFINE threw == run[w].pc = "threw"
  <2>1. /\ run[w] \in A!Runs /\ run[w].pc \in {"returned", "threw"}
        /\ A!Q!Settle(run[w].link, w, threw) /\ run' = [run EXCEPT ![w] = A!Rests]
           /\ UNCHANGED inbox
    BY <1>3, <1>a DEF A!SettleMail
  <2>2. PICK l \in A!Links : l = run[w].link
    BY <2>1 DEF A!Runs
  <2>3. /\ \A k \in A!Links \ {l} : job'[k] = job[k]
        /\ job[l].owner # w => job'[l] = job[l]
        /\ job[l].owner = w /\ ~threw => job'[l].state = "completed"
        /\ job[l].owner = w => job'[l].state # "none"
    <3>1. CASE job[l].owner # w
      <4>1. job' = job
        BY <2>1, <2>2, <3>1 DEF A!Q!Settle
      <4> QED
        BY <3>1, <4>1
    <3>2. CASE job[l].owner = w
      <4> DEFINE made == IF threw THEN job[l].made + 1 ELSE job[l].made
                 state == IF threw THEN A!Q!AfterThrow(l) ELSE "completed"
                 j == [job[l] EXCEPT !.owner = NoWorker, !.made = made, !.state = state]
      <4>1. job' = [job EXCEPT ![l] = j]
        BY <1>a, <2>1, <2>2, <3>2 DEF A!Q!Settle
      <4>2. state # "none" /\ (~threw => state = "completed")
        BY DEF A!Q!AfterThrow
      <4> HIDE DEF state, made, threw
      <4>3. j.state = state
        BY <1>a DEF JobRows
      <4> HIDE DEF j
      <4> QED
        BY <1>a, <3>2, <4>1, <4>2, <4>3
    <3> QED
      BY <3>1, <3>2
  <2>4. /\ run'[w] = A!Rests /\ \A x \in Workers \ {w} : run'[x] = run[x]
    BY <1>a, <2>1
  <2>5. faults = 0 => A!NothingLost'
    <3> SUFFICES ASSUME A!NothingLost PROVE A!NothingLost'
      BY DEF A!SignupInv
    <3>0. ~threw /\ l \in inbox
      BY <1>a, <2>1, <2>2 DEF A!NothingLost
    <3>1. ASSUME NEW k \in A!Links
          PROVE  /\ job'[k].state = "active" => \E x \in Workers :
                      job'[k].owner = x /\ run'[x] # A!Rests /\ run'[x].link = k
                 /\ job'[k].state = "completed" => k \in inbox'
                 /\ job'[k].state # "failed"
      <4>1. CASE k = l /\ job[l].owner = w
        BY <2>1, <2>3, <3>0, <4>1
      <4>2. CASE ~(k = l /\ job[l].owner = w)
        <5>1. job'[k] = job[k]
          BY <2>3, <4>2
        <5>2. \A x \in Workers : run[x].link = k /\ job[k].owner = x => run'[x] = run[x]
          BY <2>2, <2>4, <4>2
        <5> QED
          BY <2>1, <5>1, <5>2 DEF A!NothingLost
      <4> QED
        BY <4>1, <4>2
    <3>2. \A x \in Workers : run'[x] # A!Rests =>
             run'[x].pc # "threw" /\ (run'[x].pc = "returned" => run'[x].link \in inbox')
      BY <2>1, <2>4 DEF A!NothingLost
    <3> QED
      BY <3>1, <3>2 DEF A!NothingLost
  <2>6. \A k \in A!Links : job[k].state # "none" => job'[k].state # "none"
    BY <2>3
  <2> QED
    BY <1>a, <1>b, <1>c, <2>1, <2>5, <2>6, QueueLosesNothing
<1> QED
  BY <1>1, <1>2, <1>3 DEF A!RunStep

LEMMA SignupTime ==
  ASSUME A!AccountsAssumption, A!AccountsInv, A!SignupInv, NEW l \in A!Links,
         A!Expire(l) \/ A!HandOut(l)
  PROVE  A!SignupInv'
<1>a. UNCHANGED <<user, link, call, faults, inbox, run>> /\ A!TypeOK
  BY DEF A!Expire, A!HandOut, A!tables, A!mail, A!AccountsInv
<1>b. A!Q!TypeOK'
  <2>1. A!AccountsInv'
    BY TimeKeeps
  <2> QED
    BY <2>1 DEF A!AccountsInv, A!TypeOK
<1>1. CASE A!Expire(l)
  <2>1. UNCHANGED job
    BY <1>1 DEF A!Expire, A!mail
  <2> QED
    BY <1>a, <1>b, <2>1, QueueLosesNothing DEF A!SignupInv, A!NothingLost
<1>2. CASE A!HandOut(l)
  <2>1. job[l].state = "active" /\ job[l].owner = NoWorker
    BY <1>2 DEF A!HandOut, A!Q!HandOut
  <2>2. ~A!NothingLost
    BY <2>1 DEF A!NothingLost, A!AccountsAssumption
  <2>3. \A k \in A!Links : job[k].state # "none" => job'[k].state # "none"
    <3> DEFINE state == IF job[l].stalled < MaxStalled THEN "waiting" ELSE "failed"
               j == [job[l] EXCEPT !.stalled = job[l].stalled + 1, !.state = state]
    <3>1. job \in [A!Links -> JobRows]
      BY <1>a DEF A!TypeOK, A!Q!TypeOK, JobRows
    <3>2. job' = [job EXCEPT ![l] = j]
      BY <1>2, <3>1 DEF A!HandOut, A!Q!HandOut
    <3>3. state # "none"
      OBVIOUS
    <3> HIDE DEF state
    <3>4. j.state # "none"
      BY <3>1, <3>3 DEF JobRows
    <3> HIDE DEF j
    <3> QED
      BY <3>1, <3>2, <3>4
  <2> QED
    BY <1>a, <1>b, <2>2, <2>3, QueueLosesNothing DEF A!SignupInv
<1> QED
  BY <1>1, <1>2

LEMMA SignupStep ==
  ASSUME A!AccountsAssumption, A!AccountsInv, A!SignupInv, [A!Next]_(A!vars)
  PROVE  A!SignupInv'
<1>a. A!TypeOK
  BY DEF A!AccountsInv
<1>1. CASE UNCHANGED A!vars
  <2>1. UNCHANGED <<user, link, call, faults, inbox, run, job>> /\ A!Q!TypeOK'
    BY <1>1, <1>a DEF A!vars, A!tables, A!TypeOK, A!Q!TypeOK
  <2> QED
    BY <1>a, <2>1, QueueLosesNothing DEF A!SignupInv, A!NothingLost
<1>2. ASSUME NEW c \in Calls,
             \/ \E e \in Emails :
                  \/ A!StartRegister(c, e)
                  \/ A!StartResend(c, e)
                  \/ A!StartForgot(c, e)
                  \/ \E p \in Profiles : A!StartOAuth(c, p, e)
             \/ \E l \in A!Links : A!StartLink(c, l)
      PROVE  A!SignupInv'
  BY <1>2, SignupRequest
<1>3. ASSUME NEW c \in Calls, A!CallStep(c) PROVE A!SignupInv'
  BY <1>3, SignupCall, SignupLink DEF A!CallStep
<1>4. ASSUME NEW w \in Workers, A!TakeMail(w) \/ A!RunStep(w) PROVE A!SignupInv'
  BY <1>4, SignupMail
<1>5. ASSUME \/ \E c \in Calls : A!CallDies(c)
             \/ \E w \in Workers : A!SendRejected(w) \/ A!CrashMailer(w)
             \/ \E l \in A!Links : A!LoseLock(l)
      PROVE  A!SignupInv'
  BY <1>a, <1>5, FaultOwesNothing
     DEF A!CallDies, A!SendRejected, A!CrashMailer, A!LoseLock
<1>6. ASSUME NEW l \in A!Links, A!Expire(l) \/ A!HandOut(l) PROVE A!SignupInv'
  BY <1>6, SignupTime
<1> QED
  BY <1>1, <1>2, <1>3, <1>4, <1>5, <1>6 DEF A!Next

-----------------------------------------------------------------------------
(* The theorems. OneWayIn and LinkWorksOnce are said of the tables, as this     *)
(* module has them from AccountTables, which the instance extends too.         *)

LEMMA AccountsInvariant ==
  ASSUME A!AccountsAssumption PROVE A!Spec => [](A!AccountsInv /\ A!SignupInv)
<1>1. A!Init => A!AccountsInv /\ A!SignupInv
  <2>1. ASSUME A!Init PROVE A!SignupInv
    BY <2>1 DEF A!Init, A!SignupInv, A!SignupOnItsWay, A!NothingLost, A!Q!Init,
       A!Q!NoJob, A!At, A!Idle, A!NoUser
  <2> QED
    BY <2>1, AccountsStart
<1>2. A!AccountsInv /\ A!SignupInv /\ [A!Next]_(A!vars) => (A!AccountsInv /\ A!SignupInv)'
  BY AccountsStep, SignupStep
<1> QED
  BY <1>1, <1>2, PTL DEF A!Spec

(* Every variable keeps its type; above all, a link is used no more often than *)
(* there are requests to use it.                                               *)
THEOREM AccountsTypeCorrect == ASSUME A!AccountsAssumption PROVE A!Spec => []A!TypeOK
<1>1. A!AccountsInv => A!TypeOK
  BY DEF A!AccountsInv
<1> QED
  BY <1>1, AccountsInvariant, PTL

(* No overlap of sign-ups, sign-ins with a provider, verifications and resets   *)
(* gives an account a second way in or leaves it without its first             *)
(* (auth.service.ts:130-139): the check and the insert of two requests may     *)
(* interleave, but the rows that matter are inserted under unique indexes, and *)
(* the one write to a password that is no insert finds a password there.       *)
THEOREM OneWayInCorrect == ASSUME A!AccountsAssumption PROVE A!Spec => []OneWayIn
<1>1. A!Cardinality({}) = 0 /\ \A x : A!Cardinality({x}) = 1
  BY FS_EmptySet, FS_Singleton, SameSizes
<1>2. ASSUME A!AccountsInv, NEW e \in Emails
      PROVE  A!Cardinality(A!WaysIn(e)) = IF user[e] = A!NoUser THEN 0 ELSE 1
  <2>a. A!TypeOK /\ A!WaysInv /\ e # NoEmail
    BY <1>2 DEF A!AccountsInv, A!AccountsAssumption
  <2> DEFINE linkedTo == {p \in Profiles : linked[p] = e}
  <2>1. CASE user[e] = A!NoUser
    <3>1. A!WaysIn(e) = {}
      BY <2>a, <2>1 DEF A!WaysIn, A!WaysInv
    <3> QED
      BY <1>1, <2>1, <3>1
  <2>2. CASE user[e] # A!NoUser /\ user[e].password
    <3>1. linkedTo = {}
      BY <2>a, <2>2 DEF A!WaysInv
    <3>2. A!WaysIn(e) = {NoProfile}
      BY <2>2, <3>1 DEF A!WaysIn
    <3> QED
      BY <1>1, <2>2, <3>2
  <2>3. CASE user[e] # A!NoUser /\ ~user[e].password
    <3>1. PICK p \in Profiles : linked[p] = e
      BY <2>a, <2>3 DEF A!WaysInv
    <3>2. linkedTo = {p}
      BY <2>a, <3>1 DEF A!WaysInv
    <3>3. A!WaysIn(e) = {p}
      BY <2>3, <3>2 DEF A!WaysIn
    <3> QED
      BY <1>1, <2>3, <3>3
  <2> QED
    BY <2>1, <2>2, <2>3
<1>3. A!AccountsInv => OneWayIn
  BY <1>2, SameSizes DEF OneWayIn, WaysIn, A!WaysIn, NoUser, A!NoUser
<1> QED
  BY <1>3, AccountsInvariant, PTL

(* A link works once, unless two requests had found it good before either used *)
(* it (auth.service.ts:327-349, :414-442): its uses and the requests that will *)
(* still use it are at most one together.                                      *)
THEOREM LinkWorksOnceCorrect == ASSUME A!AccountsAssumption
   PROVE A!Spec => []LinkWorksOnce
<1>1. A!AccountsInv => LinkWorksOnce
  BY DEF A!AccountsInv, A!UsesInv, LinkWorksOnce, Links, A!Links
<1> QED
  BY <1>1, AccountsInvariant, PTL

(* Until something fails, whoever has signed up and is not verified has a link  *)
(* to verify the address with that is about to be issued or mailed, whose mail *)
(* is queued, or that has arrived (auth.service.ts:51-55, :70-89): no overlap   *)
(* of requests and no order of the workers' steps loses it. SignupIsMailed says *)
(* that it does arrive.                                                        *)
THEOREM SignupCorrect == ASSUME A!AccountsAssumption PROVE A!Spec => []A!SignupOnItsWay
<1>1. A!SignupInv => A!SignupOnItsWay
  BY DEF A!SignupInv
<1> QED
  BY <1>1, AccountsInvariant, PTL
=============================================================================
