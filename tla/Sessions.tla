------------------------------- MODULE Sessions -------------------------------
(* One user's sessions: refresh tokens that rotate in families, the cookies of *)
(* the user's browsers, and the requests that read a token's row, write awaits *)
(* later and answer with a cookie, while other requests do the same.           *)
(* Access tokens are stateless and left out.                                   *)
EXTENDS Integers, FiniteSets

CONSTANTS
  Tokens,     \* bound: refresh tokens issued
  Families,   \* bound: logins
  Browsers,
  Calls,      \* requests under way at once
  NoToken,
  MaxFaults   \* bound: rejected awaits, dying processes, lost answers

ASSUME SessionsAssumption == NoToken \notin Tokens /\ MaxFaults \in Nat

VARIABLES
  token,      \* refresh_tokens: each row's family, and whether revokedAt is null
  expired,    \* the tokens whose expiresAt has passed
  cookie,     \* the refresh cookie of each browser
  call,       \* what each request is doing
  faults,     \* faults so far (bounded by MaxFaults)
  ended,      \* history: families a logout, a reset or a reuse revoked
  slipped,    \* history: of them, those a request past its check wrote to later
  disturbed   \* history: families refreshed twice at once, or cut off midway

vars == <<token, expired, cookie, call, faults, ended, slipped, disturbed>>
history == <<ended, slipped, disturbed>>

NoRow == [family |-> "none"]
Rows == [family : Families, live : BOOLEAN]
Idle == [pc |-> "idle"]

(* A request: its browser, the token it came with (none for a login), that      *)
(* token's family or the one a login opens, and the token it issued.           *)
Requests ==
  [pc : {"find", "revoke", "insert", "retire", "reply", "logout", "clear"},
   browser : Browsers, old : Tokens \union {NoToken}, family : Families,
   new : Tokens \union {NoToken}]
Reset == [pc |-> "reset"]

TypeOK ==
  /\ token \in [Tokens -> {NoRow} \union Rows]
  /\ expired \subseteq Tokens
  /\ cookie \in [Browsers -> Tokens \union {NoToken}]
  /\ call \in [Calls -> {Idle, Reset} \union Requests]
  /\ faults \in 0..MaxFaults
  /\ ended \subseteq Families
  /\ slipped \subseteq Families
  /\ disturbed \subseteq Families

Init ==
  /\ token = [k \in Tokens |-> NoRow]
  /\ expired = {}
  /\ cookie = [b \in Browsers |-> NoToken]
  /\ call = [c \in Calls |-> Idle]
  /\ faults = 0
  /\ ended = {} /\ slipped = {} /\ disturbed = {}

At(c, pc) == call[c].pc = pc
Live(k) == token[k] # NoRow /\ token[k].live
LiveIn(f) == {k \in Tokens : Live(k) /\ token[k].family = f}

Become(c, state) == call' = [call EXCEPT ![c] = state]
Goto(c, pc) == call' = [call EXCEPT ![c].pc = pc]

-----------------------------------------------------------------------------
(* Requests arrive.                                                            *)

(* login(): the password is right; the family's id is random.                  *)
StartLogin(c, b) == \E f \in Families :
  /\ At(c, "idle")
  /\ \A k \in Tokens : token[k].family # f
  /\ \A o \in Calls : call[o] \in Requests => call[o].family # f
  /\ f \notin ended
  /\ Become(c, [pc |-> "insert", browser |-> b, old |-> NoToken,
                family |-> f, new |-> NoToken])
  /\ UNCHANGED <<token, expired, cookie, faults, history>>

Rotates(c, k) == call[c].pc \in {"find", "insert", "retire", "reply"} /\ call[c].old = k

(* Tabs refresh on their own, with the one cookie of their browser; a token     *)
(* that has expired is refused before any row is read.                         *)
StartRefresh(c, b) == LET k == cookie[b] IN
  /\ At(c, "idle")
  /\ k # NoToken
  /\ k \notin expired
  /\ Become(c, [pc |-> "find", browser |-> b, old |-> k,
                family |-> token[k].family, new |-> NoToken])
  /\ disturbed' = IF \E o \in Calls : Rotates(o, k)
                  THEN disturbed \union {token[k].family} ELSE disturbed
  /\ UNCHANGED <<token, expired, cookie, faults, ended, slipped>>

(* logout() finds the family of its token, which is for good: what it reads    *)
(* cannot change before it revokes.                                            *)
StartLogout(c, b) == LET k == cookie[b] IN
  /\ At(c, "idle")
  /\ k # NoToken
  /\ Become(c, [pc |-> "logout", browser |-> b, old |-> k,
                family |-> token[k].family, new |-> NoToken])
  /\ UNCHANGED <<token, expired, cookie, faults, history>>

(* resetPassword() has found its link good and hashes the new password.        *)
StartReset(c) ==
  /\ At(c, "idle")
  /\ Become(c, Reset)
  /\ UNCHANGED <<token, expired, cookie, faults, history>>

Expire(k) ==
  /\ token[k] # NoRow
  /\ k \notin expired
  /\ expired' = expired \union {k}
  /\ UNCHANGED <<token, cookie, call, faults, history>>

-----------------------------------------------------------------------------
(* What they do, one action per await.                                         *)

(* rotateRefreshToken(): a revoked token is a reuse, one that expired since the *)
(* request came is refused.  The user's row, read next, is there: users stay.   *)
Find(c) == LET k == call[c].old IN
  /\ At(c, "find")
  /\ CASE ~Live(k)                    -> Goto(c, "revoke")
       [] Live(k) /\ k \notin expired -> Goto(c, "insert")
       [] Live(k) /\ k \in expired    -> Become(c, Idle)
  /\ UNCHANGED <<token, expired, cookie, faults, history>>

(* signRefreshToken(): a random token, in the family of the old one.           *)
(* Mutant: the row is given the old token's id for its family. *)
InsertUnderToken(c, k) ==
  /\ At(c, "insert")
  /\ token[k] = NoRow
  /\ token' = [token EXCEPT ![k] = [live |-> TRUE, family |->
       IF call[c].old = NoToken THEN call[c].family ELSE call[c].old]]
  /\ call' = [call EXCEPT ![c].new = k, ![c].pc =
                IF call[c].old = NoToken THEN "reply" ELSE "retire"]
  /\ UNCHANGED <<expired, cookie, faults, history>>
InsertOf(c, k) ==
  /\ At(c, "insert")
  /\ token[k] = NoRow
  /\ token' = [token EXCEPT ![k] = [family |-> call[c].family, live |-> TRUE]]
  /\ call' = [call EXCEPT ![c].new = k, ![c].pc =
                IF call[c].old = NoToken THEN "reply" ELSE "retire"]
  /\ UNCHANGED <<expired, cookie, faults, history>>
Insert(c) == \E k \in Tokens : InsertOf(c, k)

(* The old token is revoked by its id, whatever happened to it meanwhile.      *)
(* Mutant: the new token's id is written to. *)
RetireNew(c) ==
  /\ At(c, "retire")
  /\ token' = [token EXCEPT ![call[c].new].live = FALSE]
  /\ Goto(c, "reply")
  /\ UNCHANGED <<expired, cookie, faults, history>>
(* Mutant: the old token stays valid. *)
RetireNothing(c) ==
  /\ At(c, "retire")
  /\ Goto(c, "reply")
  /\ UNCHANGED <<token, expired, cookie, faults, history>>
Retire(c) ==
  /\ At(c, "retire")
  /\ token' = [token EXCEPT ![call[c].old].live = FALSE]
  /\ Goto(c, "reply")
  /\ UNCHANGED <<expired, cookie, faults, history>>

(* setRefreshCookie(): the browser keeps the last answer's cookie.             *)
Reply(c) ==
  /\ At(c, "reply")
  /\ cookie' = [cookie EXCEPT ![call[c].browser] = call[c].new]
  /\ Become(c, Idle)
  /\ UNCHANGED <<token, expired, faults, history>>

(* updateMany(): the live rows of the families F, with revokedAt = null, are   *)
(* revoked in one statement.  A request past its check is not seen by it.      *)
Revoke(F) ==
  /\ token' = [k \in Tokens |->
       IF Live(k) /\ token[k].family \in F THEN [token[k] EXCEPT !.live = FALSE]
                                           ELSE token[k]]
  /\ ended' = ended \union F
  /\ slipped' = slipped \union
       {f \in F : \E c \in Calls : At(c, "insert") /\ call[c].family = f}
  /\ UNCHANGED disturbed

(* A reuse answers 401, which leaves the cookie alone.                         *)
(* Mutant: only the token that came is revoked. *)
RevokeOne(c) ==
  /\ At(c, "revoke")
  /\ token' = [token EXCEPT ![call[c].old].live = FALSE]
  /\ ended' = ended \union {call[c].family}
  /\ Become(c, Idle)
  /\ UNCHANGED <<expired, cookie, faults, slipped, disturbed>>
RevokeReused(c) ==
  /\ At(c, "revoke")
  /\ Revoke({call[c].family})
  /\ Become(c, Idle)
  /\ UNCHANGED <<expired, cookie, faults>>

Logout(c) ==
  /\ At(c, "logout")
  /\ Revoke({call[c].family})
  /\ Goto(c, "clear")
  /\ UNCHANGED <<expired, cookie, faults>>

ClearCookie(c) ==
  /\ At(c, "clear")
  /\ cookie' = [cookie EXCEPT ![call[c].browser] = NoToken]
  /\ Become(c, Idle)
  /\ UNCHANGED <<token, expired, faults, history>>

(* resetPassword()'s transaction revokes every token of the user.              *)
CommitReset(c) ==
  /\ At(c, "reset")
  /\ Revoke({f \in Families : \/ \E k \in Tokens : token[k].family = f
                              \/ \E o \in Calls : At(o, "insert") /\ call[o].family = f})
  /\ Become(c, Idle)
  /\ UNCHANGED <<expired, cookie, faults>>

(* An await is rejected, the process dies, or the answer is lost.              *)
CallDies(c) ==
  /\ call[c].pc # "idle"
  /\ faults < MaxFaults
  /\ faults' = faults + 1
  /\ disturbed' = IF call[c].pc \in {"retire", "reply"}
                  THEN disturbed \union {call[c].family} ELSE disturbed
  /\ Become(c, Idle)
  /\ UNCHANGED <<token, expired, cookie, ended, slipped>>

CallStep(c) ==
  \/ Find(c) \/ Insert(c) \/ Retire(c) \/ Reply(c)
  \/ RevokeReused(c) \/ Logout(c) \/ ClearCookie(c) \/ CommitReset(c)

Next ==
  \/ \E c \in Calls :
       \/ \E b \in Browsers : StartLogin(c, b) \/ StartRefresh(c, b) \/ StartLogout(c, b)
       \/ StartReset(c) \/ CallStep(c) \/ CallDies(c)
  \/ \E k \in Tokens : Expire(k)

Spec == Init /\ [][Next]_vars

-----------------------------------------------------------------------------
(* Safety.                                                                     *)

(* A session ended by a logout, a password reset or the reuse of a token stays *)
(* ended (auth.service.ts:261-272, :319-323, :431-435): no token of its family *)
(* is ever good again, unless a login or rotation was past its check when the  *)
(* rows were revoked.                                                          *)
EndedStaysEnded == \A f \in ended \ slipped : LiveIn(f) = {}

(* A session has one token that is good (auth.service.ts:296-308): of two, one *)
(* is the old one of a rotation about to revoke it, unless two requests        *)
(* rotated one token at once or one was cut off.                               *)
OneLiveToken ==
  \A f \in Families \ disturbed : \A j, k \in LiveIn(f) :
    j # k => \E c \in Calls : At(c, "retire") /\ {call[c].old, call[c].new} = {j, k}

(* Rotation never locks a browser out (auth.service.ts:296-308 with            *)
(* auth.controller.ts:97-99): its cookie is a good token, or the answer that   *)
(* brings one is under way, until a logout, a reset, two refreshes at once or  *)
(* a fault.                                                                    *)
SessionSurvives ==
  \A b \in Browsers : LET k == cookie[b] IN
    k # NoToken /\ token[k].family \notin ended \union disturbed =>
      Live(k) \/ \E c \in Calls : /\ At(c, "reply")
                                  /\ call[c].old = k
                                  /\ call[c].browser = b
                                  /\ Live(call[c].new)

(* auth-context.tsx:39-40 "if a session exists, hydrate the user so a page      *)
(* reload keeps you signed in": while nothing fails and nobody logs out or     *)
(* resets the password, no refresh is taken for the reuse of a token.          *)
ReloadKeepsSession ==
  \A c \in Calls : At(c, "revoke") => faults > 0 \/ call[c].family \in ended
=============================================================================
