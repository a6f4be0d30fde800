-------------------------------- MODULE Teams --------------------------------
(* The members, roles and invitations of one team.  Every request of           *)
(* TeamsService checks what it reads and writes awaits later, by key and       *)
(* without a condition, while other requests do the same.                      *)
EXTENDS Integers, FiniteSets

CONSTANTS
  Users,
  Owner,         \* who created the team
  Invitations,   \* identities of invitations rows
  Calls          \* requests under way at once

ASSUME OwnerAssumption == Owner \in Users
ASSUME CallsAssumption == IsFiniteSet(Calls) /\ IsFiniteSet(Invitations)

VARIABLES
  deleted,      \* is teams.deletedAt set?
  role,         \* team_members: the role of each user, "none" without a row
  invitation,   \* invitations: status ("none" = no row), whose e-mail, role
  past,         \* the invitations whose expiresAt has passed
  call,         \* what each request is doing
  disturbed     \* history: has another request written since this one started?

vars == <<deleted, role, invitation, past, call, disturbed>>

Managers == {"OWNER", "ADMIN"}
Grants == {"ADMIN", "MEMBER"}     \* the roles a request may give
MemberRoles == {"none", "OWNER", "ADMIN", "MEMBER"}
Unread == "unread"

Ended == [pc |-> "idle"]
NoInvitation == [status |-> "none"]
InvitationStatus == {"PENDING", "ACCEPTED", "REVOKED", "EXPIRED"}

(* A change is a new role for the target, or its removal.  Which role a        *)
(* request gives is left open until it writes.                                 *)
Changes == [pc : {"read", "write"}, what : {"role", "remove"}, actor : Users,
            target : Users, actorRole : MemberRoles \union {Unread},
            targetRole : MemberRoles \union {Unread}]
Invites == [pc : {"member", "revoke", "insert"}, actor : Users, user : Users]
Accepts == [pc : {"accept", "expire"}, invitation : Invitations]
Deletes == [pc : {"delete"}, actor : Users]
Requests == {Ended} \union Changes \union Invites \union Accepts \union Deletes
Rows == [status : InvitationStatus, user : Users, role : Grants]

TypeOK ==
  /\ deleted \in BOOLEAN
  /\ role \in [Users -> MemberRoles]
  /\ invitation \in [Invitations -> {NoInvitation} \union Rows]
  /\ past \subseteq Invitations
  /\ call \in [Calls -> Requests]
  /\ disturbed \in [Calls -> BOOLEAN]

(* create(): the team and its owner's membership in one transaction.           *)
Init ==
  /\ deleted = FALSE
  /\ role = [u \in Users |-> IF u = Owner THEN "OWNER" ELSE "none"]
  /\ invitation = [i \in Invitations |-> NoInvitation]
  /\ past = {}
  /\ call = [c \in Calls |-> Ended]
  /\ disturbed = [c \in Calls |-> FALSE]

Pending(u) ==
  {i \in Invitations : invitation[i].status = "PENDING" /\ invitation[i].user = u}

-----------------------------------------------------------------------------
(* The steps of a request: it starts, goes on, or ends, with a write or none.  *)

At(c, pc) == call[c].pc = pc
Become(c, state) == call' = [call EXCEPT ![c] = state]
End(c) == Become(c, Ended)

Calm(c) == disturbed' = [disturbed EXCEPT ![c] = FALSE]
Disturb(c) == disturbed' =
  [o \in Calls |-> IF o = c THEN disturbed[c] /\ call'[c] # Ended ELSE ~At(o, "idle")]

Finish(c) == End(c) /\ Disturb(c)

Start(c, state) ==
  /\ At(c, "idle")
  /\ Become(c, state)
  /\ UNCHANGED <<deleted, role, invitation, past, disturbed>>
GoOn(c, pc) ==
  /\ Become(c, [call[c] EXCEPT !.pc = pc])
  /\ UNCHANGED <<deleted, role, invitation, past, disturbed>>
Refuse(c) ==
  /\ End(c)
  /\ Calm(c)
  /\ UNCHANGED <<deleted, role, invitation, past>>

(* TeamMembershipGuard, with the roles that @Roles names.                      *)
Admitted(actor, roles) == ~deleted /\ role[actor] \in roles

-----------------------------------------------------------------------------
(* updateMemberRole() and removeMember().                                      *)

StartChange(c, actor, target) == \E what \in {"role", "remove"} :
  /\ Admitted(actor, Managers)
  /\ Start(c, [pc |-> "read", what |-> what, actor |-> actor, target |-> target,
               actorRole |-> Unread, targetRole |-> Unread])

(* Mutant: the owner is an admin like others. *)
MayChangeOwner(c, actorRole, targetRole) ==
  /\ targetRole # "none"
  /\ call[c].actor # call[c].target
  /\ ~(actorRole = "ADMIN" /\ targetRole = "ADMIN")
(* Mutant: admins may change each other. *)
MayChangeAdmin(c, actorRole, targetRole) ==
  /\ targetRole \notin {"none", "OWNER"}
  /\ call[c].actor # call[c].target
MayChange(c, actorRole, targetRole) ==
  /\ targetRole \notin {"none", "OWNER"}
  /\ call[c].actor # call[c].target
  /\ ~(actorRole = "ADMIN" /\ targetRole = "ADMIN")

Decide(c, actorRole, targetRole) ==
  IF MayChange(c, actorRole, targetRole)
  THEN /\ Become(c, [call[c] EXCEPT !.pc = "write", !.actorRole = Unread,
                                    !.targetRole = Unread])
       /\ UNCHANGED <<deleted, role, invitation, past, disturbed>>
  ELSE Refuse(c)

(* removeMember() reads the two rows in one query...                           *)
ReadBoth(c) ==
  /\ At(c, "read")
  /\ call[c].what = "remove"
  /\ Decide(c, role[call[c].actor], role[call[c].target])

(* ... and updateMemberRole() in two, in either order.                         *)
ReadActor(c) ==
  /\ At(c, "read")
  /\ call[c].what = "role"
  /\ call[c].actorRole = Unread
  /\ IF call[c].targetRole = Unread
     THEN /\ Become(c, [call[c] EXCEPT !.actorRole = role[call[c].actor]])
          /\ UNCHANGED <<deleted, role, invitation, past, disturbed>>
     ELSE Decide(c, role[call[c].actor], call[c].targetRole)
ReadTarget(c) ==
  /\ At(c, "read")
  /\ call[c].what = "role"
  /\ call[c].targetRole = Unread
  /\ IF call[c].actorRole = Unread
     THEN /\ Become(c, [call[c] EXCEPT !.targetRole = role[call[c].target]])
          /\ UNCHANGED <<deleted, role, invitation, past, disturbed>>
     ELSE Decide(c, call[c].actorRole, role[call[c].target])

(* The row is updated or deleted by its key, whatever it holds by now.         *)
Changed(c) == IF call[c].what = "role" THEN Grants ELSE {"none"}
WriteChange(c) ==
  /\ At(c, "write")
  /\ role[call[c].target] # "none"
  /\ \E new \in Changed(c) : role' = [role EXCEPT ![call[c].target] = new]
  /\ Finish(c)
  /\ UNCHANGED <<deleted, invitation, past>>
ChangeNothing(c) ==
  /\ At(c, "write")
  /\ role[call[c].target] = "none"
  /\ Refuse(c)

-----------------------------------------------------------------------------
(* invite(): three awaits that nothing ties together.  The mail is left out.   *)

StartInvite(c, actor, user) ==
  /\ Admitted(actor, Managers)
  /\ Start(c, [pc |-> "member", actor |-> actor, user |-> user])

InviteNewcomer(c) ==
  /\ At(c, "member")
  /\ role[call[c].user] = "none"
  /\ GoOn(c, "revoke")
InviteMember(c) ==
  /\ At(c, "member")
  /\ role[call[c].user] # "none"
  /\ Refuse(c)

(* Mutant: only those that have expired are stale. *)
ReplacedStale(c) == Pending(call[c].user) \intersect past
Replaced(c) == Pending(call[c].user)

RevokePending(c) ==
  /\ At(c, "revoke")
  /\ invitation' = [i \in Invitations |->
       IF i \in Replaced(c) THEN [invitation[i] EXCEPT !.status = "REVOKED"]
                            ELSE invitation[i]]
  /\ Become(c, [call[c] EXCEPT !.pc = "insert"])
  /\ IF Replaced(c) = {} THEN UNCHANGED disturbed ELSE Disturb(c)
  /\ UNCHANGED <<deleted, role, past>>

(* Mutant: the role OWNER is not refused. *)
InsertInvitationAny(c) == \E i \in Invitations, granted \in Grants \union {"OWNER"} :
  /\ At(c, "insert")
  /\ invitation[i] = NoInvitation
  /\ invitation' = [invitation EXCEPT ![i] =
       [status |-> "PENDING", user |-> call[c].user, role |-> granted]]
  /\ Finish(c)
  /\ UNCHANGED <<deleted, role, past>>
InsertInvitation(c) == \E i \in Invitations, granted \in Grants :
  /\ At(c, "insert")
  /\ invitation[i] = NoInvitation
  /\ invitation' = [invitation EXCEPT ![i] =
       [status |-> "PENDING", user |-> call[c].user, role |-> granted]]
  /\ Finish(c)
  /\ UNCHANGED <<deleted, role, past>>

-----------------------------------------------------------------------------
(* acceptInvitation(), by the user it was sent to.                             *)

StartAccept(c, i) ==
  /\ invitation[i].status = "PENDING"
  /\ i \in past \/ ~deleted
  /\ Start(c, [pc |-> IF i \in past THEN "expire" ELSE "accept", invitation |-> i])

SetStatus(c, status) ==
  invitation' = [invitation EXCEPT ![call[c].invitation].status = status]

ExpireInvitation(c) ==
  /\ At(c, "expire")
  /\ SetStatus(c, "EXPIRED")
  /\ Finish(c)
  /\ UNCHANGED <<deleted, role, past>>

(* The transaction: a membership that is there stays as it is.                 *)
AcceptInvitation(c) == LET granted == invitation[call[c].invitation] IN
  /\ At(c, "accept")
  /\ role' = [role EXCEPT ![granted.user] = IF @ = "none" THEN granted.role ELSE @]
  /\ SetStatus(c, "ACCEPTED")
  /\ Finish(c)
  /\ UNCHANGED <<deleted, past>>

-----------------------------------------------------------------------------
(* softDelete().                                                               *)

StartDelete(c, actor) ==
  /\ Admitted(actor, {"OWNER"})
  /\ Start(c, [pc |-> "delete", actor |-> actor])
SoftDelete(c) ==
  /\ At(c, "delete")
  /\ ~deleted
  /\ deleted' = TRUE
  /\ Finish(c)
  /\ UNCHANGED <<role, invitation, past>>
DeleteNothing(c) ==
  /\ At(c, "delete")
  /\ deleted
  /\ Refuse(c)

-----------------------------------------------------------------------------

(* A query is rejected, or the process dies.                                   *)
CallDies(c) ==
  /\ ~At(c, "idle")
  /\ Refuse(c)

(* An invitation's seven days are over; only a PENDING one's matter.           *)
TimePasses(i) ==
  /\ invitation[i].status = "PENDING"
  /\ i \notin past
  /\ past' = past \union {i}
  /\ UNCHANGED <<deleted, role, invitation, call, disturbed>>

CallStep(c) ==
  \/ ReadBoth(c) \/ ReadActor(c) \/ ReadTarget(c) \/ WriteChange(c) \/ ChangeNothing(c)
  \/ InviteNewcomer(c) \/ InviteMember(c) \/ RevokePending(c) \/ InsertInvitation(c)
  \/ ExpireInvitation(c) \/ AcceptInvitation(c)
  \/ SoftDelete(c) \/ DeleteNothing(c)
StartCall(c) ==
  \/ \E actor, user \in Users : StartChange(c, actor, user) \/ StartInvite(c, actor, user)
  \/ \E i \in Invitations : StartAccept(c, i)
  \/ \E actor \in Users : StartDelete(c, actor)

Next ==
  \/ \E c \in Calls : StartCall(c) \/ CallStep(c) \/ CallDies(c)
  \/ \E i \in Invitations : TimePasses(i)

Spec == Init /\ [][Next]_vars

-----------------------------------------------------------------------------
(* Properties.                                                                 *)

(* The creator, and nobody else, is the team's owner for good: no request      *)
(* that read roles long before it writes (teams.service.ts:312-361, 369-411),  *)
(* and no invitation accepted meanwhile, adds a second or loses the first.     *)
SingleOwner == \A u \in Users : role[u] = "OWNER" <=> u = Owner

(* A request that no other request's write came between is right about what    *)
(* it writes: all that teams.service.ts checks and the guard                   *)
(* (team-membership.guard.ts:26-45) admits still holds when it does.           *)
RightChange(s) ==
  /\ ~deleted
  /\ role[s.actor] \in Managers
  /\ role[s.target] \in Grants
  /\ role[s.target] = "ADMIN" => role[s.actor] = "OWNER"
RightInvitation(s) ==
  /\ ~deleted
  /\ role[s.actor] \in Managers
  /\ role[s.user] = "none"
  /\ Pending(s.user) = {}
RightAccept(s) ==
  /\ ~deleted
  /\ invitation[s.invitation].status = "PENDING"
UndisturbedIsRight ==
  \A c \in Calls : ~disturbed[c] =>
    /\ At(c, "write") => RightChange(call[c])
    /\ At(c, "insert") => RightInvitation(call[c])
    /\ At(c, "accept") => RightAccept(call[c])

(* "Replace any stale pending invite for the same email"                       *)
(* (teams.service.ts:168-194): two overlapping invites may leave two, but an   *)
(* address never has more live invitations, those about to be inserted         *)
(* included, than there are requests at once.                                  *)
Inserting(u) == {c \in Calls : At(c, "insert") /\ call[c].user = u}
PendingBounded ==
  \A u \in Users :
    Cardinality(Pending(u)) + Cardinality(Inserting(u)) <= Cardinality(Calls)

-----------------------------------------------------------------------------
(* What makes the safety properties inductive.                                 *)

(* A request that answers an invitation answers one that is there.             *)
AnswersInv ==
  \A c \in Calls : call[c].pc \in {"accept", "expire"} =>
    invitation[call[c].invitation] \in Rows

(* A change that may be written is not of the owner.                           *)
ChangeOfOthers(s) ==
  /\ s.pc = "write" => s.target # Owner
  /\ s.targetRole # Unread => (s.targetRole = "OWNER" <=> s.target = Owner)
OwnerInv ==
  /\ SingleOwner
  /\ \A c \in Calls : call[c].pc \in {"read", "write"} => ChangeOfOthers(call[c])

(* What an undisturbed request knows at each of its awaits.                    *)
AdmittedManager(actor) == ~deleted /\ role[actor] \in Managers
Knows(s) ==
  /\ s.pc \in {"read", "member", "revoke"} => AdmittedManager(s.actor)
  /\ s.pc = "read" => /\ s.actorRole \in {Unread, role[s.actor]}
                      /\ s.targetRole \in {Unread, role[s.target]}
  /\ s.pc = "write" => RightChange(s)
  /\ s.pc = "revoke" => role[s.user] = "none"
  /\ s.pc = "insert" => RightInvitation(s)
  /\ s.pc = "accept" => RightAccept(s)
KnowsInv == \A c \in Calls : ~disturbed[c] => Knows(call[c])
=============================================================================
