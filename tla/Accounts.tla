------------------------------ MODULE Accounts ------------------------------
(* Accounts: sign-up with a password, sign-in with a provider, and the links   *)
(* that verify an address or reset a password, from the request that inserts   *)
(* one over the queue "mail" to the mailbox and back.                          *)
(* Every path lowers an address before it looks or writes (auth.service.ts:33, *)
(* :164, :356, :376, both strategies): an address is its lower-case form here. *)
EXTENDS AccountTables

CONSTANTS
  Calls,       \* requests under way at once
  Workers, NoWorker, JobAttempts, MaxStalled,
  MaxFaults    \* bound: rejected awaits, lost answers, deaths, expired locks

ASSUME AccountsAssumption ==
  /\ NoEmail \notin Emails /\ NoProfile \notin Profiles /\ NoWorker \notin Workers
  /\ {MaxLinks, MaxStalled, MaxFaults} \subseteq Nat
  /\ JobAttempts \in Nat \ {0}
  /\ IsFiniteSet(Calls)

VARIABLES
  job,        \* jobs of the queue "mail", one per link
  past,       \* links whose expiresAt has passed
  inbox,      \* links that have reached their mailbox
  call,       \* what each request is doing
  run,        \* what each worker does with a mail job
  faults      \* faults so far (bounded by MaxFaults)

vars == <<job, tables, past, inbox, call, run, faults>>

Q == INSTANCE JobQueue WITH Jobs <- Links

Idle == [pc |-> "idle"]
Rests == [pc |-> "idle"]

(* A request: what it is for, the address it names or its link belongs to, the  *)
(* profile that signs in, the link that came or was issued (0: none yet).       *)
Requests ==
  [pc : {"create", "insert", "enqueue", "use", "findEmail", "createLinked"},
   for : {"register", "resend", "forgot", "verify", "reset", "oauth"},
   email : Emails, profile : Profiles \union {NoProfile}, link : Links \union {0}]
Runs == [pc : {"send", "returned", "threw"}, link : Links]

TypeOK ==
  /\ Q!TypeOK
  /\ user \in [Emails -> {NoUser} \union [password : BOOLEAN, verified : BOOLEAN]]
  /\ linked \in [Profiles -> Emails \union {NoEmail}]
  /\ link \in [Links -> {NoLink} \union
       [for : {"verify", "reset"}, email : Emails, used : BOOLEAN]]
  /\ past \subseteq Links
  /\ inbox \subseteq Links
  /\ call \in [Calls -> {Idle} \union Requests]
  /\ run \in [Workers -> {Rests} \union Runs]
  /\ uses \in [Links -> 0..Cardinality(Calls)]
  /\ shared \subseteq Links
  /\ faults \in 0..MaxFaults

Init ==
  /\ Q!Init
  /\ user = [e \in Emails |-> NoUser]
  /\ linked = [p \in Profiles |-> NoEmail]
  /\ link = [l \in Links |-> NoLink]
  /\ past = {}
  /\ inbox = {}
  /\ call = [c \in Calls |-> Idle]
  /\ run = [w \in Workers |-> Rests]
  /\ uses = [l \in Links |-> 0]
  /\ shared = {}
  /\ faults = 0

mail == <<job, inbox, run>>

At(c, pc) == call[c].pc = pc
Become(c, state) == call' = [call EXCEPT ![c] = state]
Goto(c, pc) == call' = [call EXCEPT ![c].pc = pc]
Fault == faults < MaxFaults /\ faults' = faults + 1

-----------------------------------------------------------------------------
(* Requests arrive, and their first query is answered: until then they have   *)
(* seen nothing, and one that ends there has changed nothing.                  *)

Inserting == {c \in Calls : At(c, "insert")}
Using(l) == {c \in Calls : At(c, "use") /\ call[c].link = l}
Room == Cardinality(Issued) + Cardinality(Inserting) < MaxLinks

Start(c, pc, for, e, p, l) ==
  /\ At(c, "idle")
  /\ Become(c, [pc |-> pc, for |-> for, email |-> e, profile |-> p, link |-> l])
  /\ UNCHANGED <<user, linked, link, uses, past, mail, faults>>

(* register(): the address is free.                                            *)
StartRegister(c, e) ==
  /\ user[e] = NoUser
  /\ Start(c, "create", "register", e, NoProfile, 0)
  /\ UNCHANGED shared

(* resendVerification(): it has an account and is not verified.                *)
StartResend(c, e) ==
  /\ user[e] # NoUser /\ ~user[e].verified
  /\ Room
  /\ Start(c, "insert", "resend", e, NoProfile, 0)
  /\ UNCHANGED shared

(* forgotPassword(): it has an account with a password.                        *)
StartForgot(c, e) ==
  /\ user[e] # NoUser /\ user[e].password
  /\ Room
  /\ Start(c, "insert", "forgot", e, NoProfile, 0)
  /\ UNCHANGED shared

(* verifyEmail(), resetPassword(): a link from the mailbox, good so far.       *)
StartLink(c, l) ==
  /\ l \in inbox \ past
  /\ ~link[l].used
  /\ Start(c, "use", link[l].for, link[l].email, NoProfile, l)
  /\ shared' = IF Using(l) # {} THEN shared \union {l} ELSE shared

(* handleOAuthLogin(): the provider vouches for a profile and names an address,*)
(* perhaps another one than last time; the profile is not linked yet.          *)
StartOAuth(c, p, e) ==
  /\ linked[p] = NoEmail
  /\ Start(c, "findEmail", "oauth", e, p, 0)
  /\ UNCHANGED shared

Expire(l) ==
  /\ link[l] # NoLink
  /\ l \notin past
  /\ past' = past \union {l}
  /\ UNCHANGED <<tables, call, mail, faults>>

-----------------------------------------------------------------------------
(* What they do next, one action per await.                                    *)

(* register(): bcrypt, then the row, unless the unique index on email refuses.  *)
(* Mutant: the row of an address that is taken is given the password. *)
CreateUpserts(c) == LET e == call[c].email IN
  /\ At(c, "create")
  /\ Room
  /\ user' = [user EXCEPT ![e] = [password |-> TRUE, verified |-> FALSE]]
  /\ Goto(c, "insert")
  /\ UNCHANGED <<linked, link, uses, shared, past, mail, faults>>
Create(c) == LET e == call[c].email IN
  /\ At(c, "create")
  /\ \/ /\ user[e] = NoUser
        /\ Room
        /\ user' = [user EXCEPT ![e] = [password |-> TRUE, verified |-> FALSE]]
        /\ Goto(c, "insert")
     \/ /\ user[e] # NoUser
        /\ Become(c, Idle)
        /\ UNCHANGED user
  /\ UNCHANGED <<linked, link, uses, shared, past, mail, faults>>

(* sendEmailVerification() and forgotPassword(): the row of a random token ...  *)
Purpose(for) == IF for = "forgot" THEN "reset" ELSE "verify"
InsertLink(c) == LET l == Cardinality(Issued) + 1 IN
  /\ At(c, "insert")
  /\ link' = [link EXCEPT ![l] =
       [for |-> Purpose(call[c].for), email |-> call[c].email, used |-> FALSE]]
  /\ call' = [call EXCEPT ![c].pc = "enqueue", ![c].link = l]
  /\ UNCHANGED <<user, linked, uses, shared, past, mail, faults>>

(* ... and the mail that carries it.                                           *)
(* Mutant: only a repeated request adds the mail. *)
EnqueueResent(c) ==
  /\ At(c, "enqueue")
  /\ IF call[c].for = "register" THEN UNCHANGED job ELSE Q!Add(call[c].link)
  /\ Become(c, Idle)
  /\ UNCHANGED <<tables, past, inbox, run, faults>>
EnqueueMail(c) ==
  /\ At(c, "enqueue")
  /\ Q!Add(call[c].link)
  /\ Become(c, Idle)
  /\ UNCHANGED <<tables, past, inbox, run, faults>>

(* verifyEmail(), resetPassword(): one transaction, without a second look.     *)
(* Mutant: the transaction leaves out usedAt. *)
UseUnmarked(c) == LET l == call[c].link IN
  /\ At(c, "use")
  /\ user' = [user EXCEPT ![link[l].email] =
       IF link[l].for = "verify" THEN [@ EXCEPT !.verified = TRUE]
                                 ELSE [@ EXCEPT !.password = TRUE]]
  /\ uses' = [uses EXCEPT ![l] = @ + 1]
  /\ Become(c, Idle)
  /\ UNCHANGED <<linked, link, shared, past, mail, faults>>
Use(c) == LET l == call[c].link IN
  /\ At(c, "use")
  /\ user' = [user EXCEPT ![link[l].email] =
       IF link[l].for = "verify" THEN [@ EXCEPT !.verified = TRUE]
                                 ELSE [@ EXCEPT !.password = TRUE]]
  /\ link' = [link EXCEPT ![l].used = TRUE]
  /\ uses' = [uses EXCEPT ![l] = @ + 1]
  /\ Become(c, Idle)
  /\ UNCHANGED <<linked, shared, past, mail, faults>>

(* handleOAuthLogin(): the address may belong to an account.                   *)
FindEmail(c) ==
  /\ At(c, "findEmail")
  /\ IF user[call[c].email] = NoUser THEN Goto(c, "createLinked") ELSE Become(c, Idle)
  /\ UNCHANGED <<tables, past, mail, faults>>

CreateLinked(c) == LET e == call[c].email  p == call[c].profile IN
  /\ At(c, "createLinked")
  /\ IF user[e] = NoUser /\ linked[p] = NoEmail
     THEN /\ user' = [user EXCEPT ![e] = [password |-> FALSE, verified |-> TRUE]]
          /\ linked' = [linked EXCEPT ![p] = e]
     ELSE UNCHANGED <<user, linked>>
  /\ Become(c, Idle)
  /\ UNCHANGED <<link, uses, shared, past, mail, faults>>

(* An await is rejected, swallowed or not, the process dies or the answer is   *)
(* lost: what was written stays.                                               *)
CallDies(c) ==
  /\ ~At(c, "idle")
  /\ Fault
  /\ Become(c, Idle)
  /\ UNCHANGED <<tables, past, mail>>

-----------------------------------------------------------------------------
(* The queue "mail" and its processor.                                         *)

TakeMail(w) == \E l \in Links :
  /\ run[w] = Rests
  /\ Q!Take(l, w)
  /\ run' = [run EXCEPT ![w] = [pc |-> "send", link |-> l]]
  /\ UNCHANGED <<tables, past, inbox, call, faults>>

Send(w) ==
  /\ run[w].pc = "send"
  /\ inbox' = inbox \union {run[w].link}
  /\ run' = [run EXCEPT ![w].pc = "returned"]
  /\ UNCHANGED <<tables, past, job, call, faults>>

(* The mail server refuses, or takes the mail and its answer is lost.          *)
SendRejected(w) ==
  /\ run[w].pc = "send"
  /\ Fault
  /\ inbox' \in {inbox, inbox \union {run[w].link}}
  /\ run' = [run EXCEPT ![w].pc = "threw"]
  /\ UNCHANGED <<tables, past, job, call>>

SettleMail(w) ==
  /\ run[w].pc \in {"returned", "threw"}
  /\ Q!Settle(run[w].link, w, run[w].pc = "threw")
  /\ run' = [run EXCEPT ![w] = Rests]
  /\ UNCHANGED <<tables, past, inbox, call, faults>>

CrashMailer(w) ==
  /\ run[w] # Rests
  /\ Fault
  /\ Q!Release(w)
  /\ run' = [run EXCEPT ![w] = Rests]
  /\ UNCHANGED <<tables, past, inbox, call>>

LoseLock(l) ==
  /\ Fault
  /\ Q!LoseLock(l)
  /\ UNCHANGED <<tables, past, inbox, call, run>>

HandOut(l) ==
  /\ Q!HandOut(l)
  /\ UNCHANGED <<tables, past, inbox, call, run, faults>>

CallStep(c) ==
  \/ Create(c) \/ InsertLink(c) \/ EnqueueMail(c)
  \/ Use(c) \/ FindEmail(c) \/ CreateLinked(c)
RunStep(w) == Send(w) \/ SettleMail(w)

Next ==
  \/ \E c \in Calls :
       \/ \E e \in Emails : StartRegister(c, e) \/ StartResend(c, e) \/ StartForgot(c, e)
       \/ \E e \in Emails, p \in Profiles : StartOAuth(c, p, e)
       \/ \E l \in Links : StartLink(c, l)
       \/ CallStep(c) \/ CallDies(c)
  \/ \E w \in Workers : TakeMail(w) \/ RunStep(w) \/ SendRejected(w) \/ CrashMailer(w)
  \/ \E l \in Links : Expire(l) \/ LoseLock(l) \/ HandOut(l)

(* Requests end, and workers and the stalled-job checker run.                  *)
Fairness ==
  /\ \A c \in Calls : WF_vars(CallStep(c))
  /\ \A w \in Workers : WF_vars(TakeMail(w)) /\ WF_vars(RunStep(w))
  /\ \A l \in Links : WF_vars(HandOut(l))

Spec == Init /\ [][Next]_vars
FairSpec == Spec /\ Fairness

-----------------------------------------------------------------------------
(* Liveness; what must never happen is said of the tables, in AccountTables.   *)

(* While nothing fails, somebody who signed up is sent a link to verify the    *)
(* address with (auth.service.ts:51-55, :70-89), without asking again.         *)
Welcomed(e) == \E l \in inbox : link[l].for = "verify" /\ link[l].email = e
SignupIsMailed ==
  \A e \in Emails :
    user[e] = [password |-> TRUE, verified |-> FALSE] ~> Welcomed(e) \/ faults > 0

-----------------------------------------------------------------------------
(* What makes the safety properties inductive.                                 *)

(* Only an active job has an owner, a job is over once a limit is reached, and *)
(* there are jobs only of links that were issued.                              *)
MailInv == \A l \in Links :
  /\ job[l].owner # NoWorker => job[l].state = "active"
  /\ ~Q!Over(l) => job[l].made < JobAttempts /\ job[l].stalled <= MaxStalled
  /\ job[l].state # "none" => l \in Issued

(* Links are issued in order and sent once issued; their address has an        *)
(* account, which to reset a password has one already.                         *)
MayHave(for, e) == user[e] # NoUser /\ (for = "reset" => user[e].password)
LinksInv ==
  /\ Issued = 1..Cardinality(Issued)
  /\ Cardinality(Issued) + Cardinality(Inserting) <= MaxLinks
  /\ inbox \subseteq Issued
  /\ \A w \in Workers : run[w] # Rests => run[w].link \in Issued
  /\ \A l \in Issued : MayHave(link[l].for, link[l].email)

CallsInv == \A c \in Calls :
  /\ At(c, "insert") => MayHave(Purpose(call[c].for), call[c].email)
  /\ call[c].pc \in {"enqueue", "use"} => call[c].link \in Issued
  /\ call[c].pc \in {"findEmail", "createLinked"} => call[c].profile # NoProfile

(* An account without a password is linked to one profile, one with a password *)
(* to none.                                                                    *)
WaysInv ==
  /\ \A p \in Profiles : linked[p] # NoEmail =>
       /\ user[linked[p]] # NoUser /\ ~user[linked[p]].password
       /\ \A o \in Profiles : linked[o] = linked[p] => o = p
  /\ \A e \in Emails : user[e] # NoUser /\ ~user[e].password =>
       \E p \in Profiles : linked[p] = e

(* A link that was used is used, and its uses are those of requests under way  *)
(* at once; one that is not shared has a single request, then a single use.    *)
UsesInv == \A l \in Links :
  /\ uses[l] # 0 => l \in Issued /\ link[l].used
  /\ uses[l] + Cardinality(Using(l)) <= Cardinality(Calls)
  /\ \/ l \in shared
     \/ uses[l] = 0 /\ (\A c, d \in Using(l) : c = d)
     \/ uses[l] = 1 /\ Using(l) = {}

AccountsInv == TypeOK /\ MailInv /\ LinksInv /\ CallsInv /\ WaysInv /\ UsesInv

(* Until something fails, an active job is in the hands of a worker, a job that *)
(* ended has delivered its mail, and so has a run that returned.               *)
NothingLost ==
  /\ \A l \in Links :
       /\ job[l].state = "active" => \E w \in Workers :
            job[l].owner = w /\ run[w] # Rests /\ run[w].link = l
       /\ job[l].state = "completed" => l \in inbox
       /\ job[l].state # "failed"
  /\ \A w \in Workers : run[w] # Rests =>
       run[w].pc # "threw" /\ (run[w].pc = "returned" => run[w].link \in inbox)

(* A link to verify the address with is about to be issued or mailed, its mail  *)
(* is queued, or it has arrived.                                               *)
OnItsWay(e) ==
  \/ \E c \in Calls :
       At(c, "insert") /\ Purpose(call[c].for) = "verify" /\ call[c].email = e
  \/ \E l \in Issued :
       /\ link[l].for = "verify" /\ link[l].email = e
       /\ \/ \E c \in Calls : At(c, "enqueue") /\ call[c].link = l
          \/ job[l].state \in {"waiting", "active"}
          \/ l \in inbox
SignupOnItsWay == faults = 0 =>
  \A e \in Emails : user[e] = [password |-> TRUE, verified |-> FALSE] => OnItsWay(e)

SignupInv ==
  /\ SignupOnItsWay
  /\ faults = 0 => NothingLost
  /\ \A c \in Calls : At(c, "create") => Purpose(call[c].for) = "verify"
=============================================================================
