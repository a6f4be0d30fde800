---------------------------- MODULE Teams_proofs ----------------------------
(* Proofs about Teams for any users, invitations and requests.                 *)
EXTENDS Teams, FiniteSetTheorems, TLAPS

USE OwnerAssumption, CallsAssumption

-----------------------------------------------------------------------------
(* Types.                                                                      *)

(* Where a request is tells what it is.                                        *)
LEMMA RequestType ==
  ASSUME TypeOK, NEW c \in Calls
  PROVE  /\ call[c] \in Requests
         /\ call[c].pc \in {"read", "write"} => call[c] \in Changes
         /\ call[c].pc \in {"member", "revoke", "insert"} => call[c] \in Invites
         /\ call[c].pc \in {"accept", "expire"} => call[c] \in Accepts
         /\ call[c].pc = "delete" => call[c] \in Deletes
BY DEF TypeOK, Requests, Ended, Changes, Invites, Accepts, Deletes

LEMMA BecomeType ==
  ASSUME TypeOK, NEW c \in Calls, NEW s \in Requests, Become(c, s)
  PROVE  /\ call' \in [Calls -> Requests]
         /\ call'[c] = s
         /\ \A o \in Calls : o # c => call'[o] = call[o]
BY DEF TypeOK, Become

(* A request that ends, with a write or without one.                           *)
LEMMA EndType ==
  ASSUME TypeOK, NEW c \in Calls, Finish(c) \/ Refuse(c)
  PROVE  /\ call' \in [Calls -> Requests] /\ disturbed' \in [Calls -> BOOLEAN]
         /\ call'[c] = Ended
         /\ \A o \in Calls : o # c => call'[o] = call[o]
<1>1. Become(c, Ended) /\ Ended \in Requests
  BY DEF Finish, Refuse, End, Requests
<1> QED
  BY <1>1, BecomeType DEF Finish, Refuse, Disturb, Calm, TypeOK

(* A decided change is written or refused.                                     *)
LEMMA DecideType ==
  ASSUME TypeOK, NEW c \in Calls, At(c, "read"), NEW a, NEW t, Decide(c, a, t)
  PROVE  /\ call' \in [Calls -> Requests] /\ disturbed' \in [Calls -> BOOLEAN]
         /\ UNCHANGED <<deleted, role, invitation, past>>
<1>1. CASE Refuse(c)
  BY <1>1, EndType DEF Refuse
<1>2. CASE MayChange(c, a, t)
  <2>1. call[c] \in Changes
    BY RequestType DEF At
  <2>2. [call[c] EXCEPT !.pc = "write", !.actorRole = Unread, !.targetRole = Unread]
          \in Requests
    BY <2>1 DEF Changes, Requests
  <2> QED
    BY <1>2, <2>2, BecomeType DEF Decide, TypeOK
<1> QED
  BY <1>1, <1>2 DEF Decide

LEMMA AnswerType ==
  ASSUME TypeOK, AnswersInv, NEW c \in Calls, call[c].pc \in {"accept", "expire"},
         NEW status \in InvitationStatus, SetStatus(c, status)
  PROVE  /\ call[c].invitation \in Invitations
         /\ invitation[call[c].invitation] \in Rows
         /\ invitation' \in [Invitations -> {NoInvitation} \union Rows]
         /\ invitation'[call[c].invitation] \in Rows
         /\ \A i \in Invitations : i # call[c].invitation => invitation'[i] = invitation[i]
<1>1. call[c].invitation \in Invitations /\ invitation[call[c].invitation] \in Rows
  BY RequestType DEF AnswersInv, Accepts
<1>2. [invitation[call[c].invitation] EXCEPT !.status = status] \in Rows
  BY <1>1 DEF Rows
<1> QED
  BY <1>1, <1>2 DEF SetStatus, TypeOK

LEMMA TypeInit == Init => TypeOK /\ AnswersInv
<1>1. Init => TypeOK
  BY DEF Init, TypeOK, MemberRoles, Requests
<1>2. Init => AnswersInv
  BY DEF Init, AnswersInv, Ended
<1> QED
  BY <1>1, <1>2

LEMMA TypeStep == TypeOK /\ AnswersInv /\ [Next]_vars => TypeOK'
<1> SUFFICES ASSUME TypeOK, AnswersInv, [Next]_vars PROVE TypeOK'
  OBVIOUS
<1>1. ASSUME NEW c \in Calls, StartCall(c) PROVE TypeOK'
  <2>1. PICK s \in Requests : Start(c, s)
    <3>1. ASSUME NEW actor \in Users, NEW user \in Users, StartChange(c, actor, user)
          PROVE  \E s \in Requests : Start(c, s)
      BY <3>1 DEF StartChange, Requests, Changes
    <3>2. ASSUME NEW actor \in Users, NEW user \in Users, StartInvite(c, actor, user)
          PROVE  \E s \in Requests : Start(c, s)
      BY <3>2 DEF StartInvite, Requests, Invites
    <3>3. ASSUME NEW i \in Invitations, StartAccept(c, i)
          PROVE  \E s \in Requests : Start(c, s)
      BY <3>3 DEF StartAccept, Requests, Accepts
    <3>4. ASSUME NEW actor \in Users, StartDelete(c, actor)
          PROVE  \E s \in Requests : Start(c, s)
      BY <3>4 DEF StartDelete, Requests, Deletes
    <3> QED
      BY <1>1, <3>1, <3>2, <3>3, <3>4 DEF StartCall
  <2> QED
    BY <2>1, BecomeType DEF Start, TypeOK
<1>2. ASSUME NEW c \in Calls, ReadBoth(c) PROVE TypeOK'
  BY <1>2, DecideType DEF ReadBoth, TypeOK
<1>3. ASSUME NEW c \in Calls, ReadActor(c) \/ ReadTarget(c) PROVE TypeOK'
  <2>1. call[c] \in Changes /\ At(c, "read")
    BY <1>3, RequestType DEF ReadActor, ReadTarget, At
  <2>2. /\ [call[c] EXCEPT !.actorRole = role[call[c].actor]] \in Requests
        /\ [call[c] EXCEPT !.targetRole = role[call[c].target]] \in Requests
    BY <2>1 DEF Changes, Requests, TypeOK
  <2>3. \/ \E a, t : Decide(c, a, t)
        \/ /\ UNCHANGED <<deleted, role, invitation, past, disturbed>>
           /\ \E s \in Requests : Become(c, s)
    BY <1>3, <2>2 DEF ReadActor, ReadTarget
  <2> QED
    BY <2>1, <2>3, DecideType, BecomeType DEF TypeOK
<1>4. ASSUME NEW c \in Calls, WriteChange(c) PROVE TypeOK'
  <2>1. PICK new \in Changed(c) : role' = [role EXCEPT ![call[c].target] = new]
    BY <1>4 DEF WriteChange
  <2>2. role' \in [Users -> MemberRoles]
    BY <2>1 DEF Changed, Grants, MemberRoles, TypeOK
  <2> QED
    BY <1>4, <2>2, EndType DEF WriteChange, TypeOK
<1>5. ASSUME NEW c \in Calls,
             ChangeNothing(c) \/ InviteMember(c) \/ DeleteNothing(c) \/ CallDies(c)
      PROVE  TypeOK'
  <2>1. Refuse(c)
    BY <1>5 DEF ChangeNothing, InviteMember, DeleteNothing, CallDies
  <2> QED
    BY <2>1, EndType DEF Refuse, TypeOK
<1>6. ASSUME NEW c \in Calls, InviteNewcomer(c) PROVE TypeOK'
  <2>1. call[c] \in Invites
    BY <1>6, RequestType DEF InviteNewcomer, At
  <2>2. [call[c] EXCEPT !.pc = "revoke"] \in Requests
    BY <2>1 DEF Invites, Requests
  <2> QED
    BY <1>6, <2>2, BecomeType DEF InviteNewcomer, GoOn, TypeOK
<1>7. ASSUME NEW c \in Calls, RevokePending(c) PROVE TypeOK'
  <2>1. call[c] \in Invites
    BY <1>7, RequestType DEF RevokePending, At
  <2>2. [call[c] EXCEPT !.pc = "insert"] \in Requests
    BY <2>1 DEF Invites, Requests
  <2>3. invitation' \in [Invitations -> {NoInvitation} \union Rows]
    <3>1. \A i \in Replaced(c) : [invitation[i] EXCEPT !.status = "REVOKED"] \in Rows
      BY DEF Replaced, Pending, TypeOK, NoInvitation, Rows, InvitationStatus
    <3> QED
      BY <1>7, <3>1 DEF RevokePending, TypeOK
  <2>4. disturbed' \in [Calls -> BOOLEAN]
    BY <1>7 DEF RevokePending, Disturb, TypeOK
  <2> QED
    BY <1>7, <2>2, <2>3, <2>4, BecomeType DEF RevokePending, TypeOK
<1>8. ASSUME NEW c \in Calls, InsertInvitation(c) PROVE TypeOK'
  <2>1. call[c] \in Invites
    BY <1>8, RequestType DEF InsertInvitation, At
  <2>2. \A r \in Grants : [status |-> "PENDING", user |-> call[c].user, role |-> r] \in Rows
    BY <2>1 DEF Invites, Rows, InvitationStatus
  <2>3. invitation' \in [Invitations -> {NoInvitation} \union Rows]
    BY <1>8, <2>2 DEF InsertInvitation, TypeOK
  <2> QED
    BY <1>8, <2>3, EndType DEF InsertInvitation, TypeOK
<1>9. ASSUME NEW c \in Calls, ExpireInvitation(c) \/ AcceptInvitation(c) PROVE TypeOK'
  <2>1. CASE ExpireInvitation(c)
    BY <2>1, EndType, AnswerType DEF ExpireInvitation, At, InvitationStatus, TypeOK
  <2>2. CASE AcceptInvitation(c)
    <3>1. /\ invitation[call[c].invitation] \in Rows
          /\ invitation' \in [Invitations -> {NoInvitation} \union Rows]
      BY <2>2, AnswerType DEF AcceptInvitation, At, InvitationStatus
    <3>2. role' \in [Users -> MemberRoles]
      BY <2>2, <3>1 DEF AcceptInvitation, Rows, Grants, MemberRoles, TypeOK
    <3> QED
      BY <2>2, <3>1, <3>2, EndType DEF AcceptInvitation, TypeOK
  <2> QED
    BY <1>9, <2>1, <2>2
<1>10. ASSUME NEW c \in Calls, SoftDelete(c) PROVE TypeOK'
  BY <1>10, EndType DEF SoftDelete, TypeOK
<1>11. ASSUME NEW i \in Invitations, TimePasses(i) PROVE TypeOK'
  BY <1>11 DEF TimePasses, TypeOK
<1>12. CASE UNCHANGED vars
  BY <1>12 DEF vars, TypeOK
<1> QED
  BY <1>1, <1>2, <1>3, <1>4, <1>5, <1>6, <1>7, <1>8, <1>9, <1>10, <1>11, <1>12
  DEF Next, CallStep

(* No step takes an invitation's row away.                                     *)
LEMMA RowsStay ==
  ASSUME TypeOK, AnswersInv, Next, NEW i \in Invitations, invitation[i] \in Rows
  PROVE  invitation'[i] \in Rows
<1>1. ASSUME NEW c \in Calls, RevokePending(c) PROVE invitation'[i] \in Rows
  BY <1>1 DEF RevokePending, Rows, InvitationStatus
<1>2. ASSUME NEW c \in Calls, InsertInvitation(c) PROVE invitation'[i] \in Rows
  BY <1>2 DEF InsertInvitation, TypeOK, Rows, InvitationStatus, NoInvitation
<1>3. ASSUME NEW c \in Calls, ExpireInvitation(c) \/ AcceptInvitation(c)
      PROVE  invitation'[i] \in Rows
  BY <1>3, AnswerType DEF ExpireInvitation, AcceptInvitation, At, InvitationStatus
<1>4. ASSUME UNCHANGED invitation PROVE invitation'[i] \in Rows
  BY <1>4
<1>5. ASSUME NEW c \in Calls, StartCall(c) PROVE UNCHANGED invitation
  BY <1>5 DEF StartCall, StartChange, StartInvite, StartAccept, StartDelete, Start
<1>6. ASSUME NEW c \in Calls,
             \/ ReadBoth(c) \/ ReadActor(c) \/ ReadTarget(c) \/ WriteChange(c)
             \/ ChangeNothing(c) \/ InviteNewcomer(c) \/ InviteMember(c)
             \/ SoftDelete(c) \/ DeleteNothing(c) \/ CallDies(c)
      PROVE  UNCHANGED invitation
  BY <1>6 DEF ReadBoth, ReadActor, ReadTarget, Decide, WriteChange, ChangeNothing,
              InviteNewcomer, InviteMember, SoftDelete, DeleteNothing, CallDies,
              Refuse, GoOn
<1>7. ASSUME NEW j \in Invitations, TimePasses(j) PROVE UNCHANGED invitation
  BY <1>7 DEF TimePasses
<1> QED
  BY <1>1, <1>2, <1>3, <1>4, <1>5, <1>6, <1>7 DEF Next, CallStep

(* A step is one request's, and takes it to an answer only when it starts one. *)
LEMMA StepOfOne ==
  ASSUME TypeOK, NEW c \in Calls, StartCall(c) \/ CallStep(c) \/ CallDies(c)
  PROVE  /\ \A o \in Calls : o # c => call'[o] = call[o]
         /\ call'[c].pc \in {"accept", "expire"} =>
              /\ call'[c].invitation \in Invitations
              /\ invitation[call'[c].invitation].status = "PENDING"
              /\ ~deleted \/ call'[c].pc = "expire"
<1>a. DOMAIN call = Calls
  BY DEF TypeOK
<1>1. CASE StartCall(c)
  BY <1>1, <1>a DEF StartCall, StartChange, StartInvite, StartAccept, StartDelete, Start, Become
<1>2. CASE ReadBoth(c) \/ ReadActor(c) \/ ReadTarget(c)
  <2>1. call[c] \in Changes
    BY <1>2, RequestType DEF ReadBoth, ReadActor, ReadTarget, At
  <2>2. \/ Refuse(c)
        \/ Become(c, [call[c] EXCEPT !.pc = "write", !.actorRole = Unread,
                                     !.targetRole = Unread])
        \/ Become(c, [call[c] EXCEPT !.actorRole = role[call[c].actor]])
        \/ Become(c, [call[c] EXCEPT !.targetRole = role[call[c].target]])
    BY <1>2 DEF ReadBoth, ReadActor, ReadTarget, Decide
  <2>3. CASE Refuse(c)
    BY <2>3, EndType DEF Ended
  <2> QED
    BY <1>a, <2>1, <2>2, <2>3 DEF Become, Changes
<1>3. CASE InviteNewcomer(c) \/ RevokePending(c)
  BY <1>3, <1>a, RequestType DEF InviteNewcomer, RevokePending, GoOn, Become, At, Invites
<1>4. CASE Finish(c) \/ Refuse(c)
  BY <1>4, EndType DEF Ended
<1> QED
  BY <1>1, <1>2, <1>3, <1>4 DEF CallStep, WriteChange, ChangeNothing, InviteMember,
     InsertInvitation, ExpireInvitation, AcceptInvitation, SoftDelete, DeleteNothing, CallDies

LEMMA AnswersStep == TypeOK /\ AnswersInv /\ [Next]_vars => AnswersInv'
<1> SUFFICES ASSUME TypeOK, AnswersInv, [Next]_vars,
                    NEW o \in Calls, call'[o].pc \in {"accept", "expire"}
             PROVE  invitation'[call'[o].invitation] \in Rows
  BY DEF AnswersInv
<1>1. /\ call'[o].invitation \in Invitations
      /\ invitation[call'[o].invitation] \in Rows
  <2>1. CASE call'[o] = call[o]
    BY <2>1, RequestType DEF AnswersInv, Accepts
  <2>2. ASSUME NEW c \in Calls, StartCall(c) \/ CallStep(c) \/ CallDies(c)
        PROVE  /\ call'[o].invitation \in Invitations
               /\ invitation[call'[o].invitation] \in Rows
    <3>1. CASE o = c
      BY <2>2, <3>1, StepOfOne DEF TypeOK, NoInvitation
    <3>2. CASE o # c
      BY <2>1, <2>2, <3>2, StepOfOne
    <3> QED
      BY <3>1, <3>2
  <2>3. ASSUME NEW i \in Invitations, TimePasses(i) PROVE call'[o] = call[o]
    BY <2>3 DEF TimePasses
  <2> QED
    BY <2>1, <2>2, <2>3 DEF Next, vars
<1>2. CASE Next
  BY <1>1, <1>2, RowsStay
<1>3. CASE UNCHANGED vars
  BY <1>1, <1>3 DEF vars
<1> QED
  BY <1>2, <1>3

(* The team, its rows and its requests keep their shape.                       *)
THEOREM TypeCorrect == Spec => []TypeOK
BY TypeInit, TypeStep, AnswersStep, PTL DEF Spec

LEMMA TypesCorrect == Spec => [](TypeOK /\ AnswersInv)
BY TypeInit, TypeStep, AnswersStep, PTL DEF Spec

-----------------------------------------------------------------------------
(* The owner.                                                                  *)

(* What a request that reads for a change becomes.                             *)
Decided(s) == [s EXCEPT !.pc = "write", !.actorRole = Unread, !.targetRole = Unread]

LEMMA ReadSteps ==
  ASSUME TypeOK, NEW c \in Calls, ReadBoth(c) \/ ReadActor(c) \/ ReadTarget(c)
  PROVE  /\ At(c, "read") /\ UNCHANGED <<deleted, role, invitation, past>>
         /\ \/ Refuse(c)
            \/ /\ UNCHANGED disturbed
               /\ \/ Become(c, [call[c] EXCEPT !.actorRole = role[call[c].actor]])
                  \/ Become(c, [call[c] EXCEPT !.targetRole = role[call[c].target]])
                  \/ /\ Become(c, Decided(call[c]))
                     /\ \E a \in {role[call[c].actor], call[c].actorRole} \ {Unread},
                          t \in {role[call[c].target], call[c].targetRole} \ {Unread} :
                          MayChange(c, a, t)
<1>1. call[c] \in Changes
  BY RequestType DEF ReadBoth, ReadActor, ReadTarget, At
<1>2. role[call[c].actor] # Unread /\ role[call[c].target] # Unread
  BY <1>1 DEF Changes, TypeOK, MemberRoles, Unread
<1> QED
  BY <1>2 DEF ReadBoth, ReadActor, ReadTarget, Decide, Decided, Refuse

LEMMA OwnerInit == Init => OwnerInv
BY DEF Init, OwnerInv, SingleOwner, Ended

(* Only a change and an accepted invitation write roles, and neither gives or  *)
(* takes ownership.                                                            *)
LEMMA SingleOwnerStep == TypeOK /\ AnswersInv /\ OwnerInv /\ Next => SingleOwner'
<1> SUFFICES ASSUME TypeOK, AnswersInv, OwnerInv, Next PROVE SingleOwner'
  OBVIOUS
<1>1. ASSUME NEW c \in Calls, WriteChange(c) PROVE SingleOwner'
  <2>1. call[c].target # Owner
    BY <1>1 DEF WriteChange, At, OwnerInv, ChangeOfOthers
  <2>2. PICK new \in {"ADMIN", "MEMBER", "none"} :
          role' = [role EXCEPT ![call[c].target] = new]
    BY <1>1 DEF WriteChange, Changed, Grants
  <2>3. \A u \in Users : role'[u] = role[u] \/ (u = call[c].target /\ role'[u] = new)
    BY <2>2 DEF TypeOK
  <2>4. call[c].target \in Users /\ role[call[c].target] # "OWNER"
    BY <1>1, <2>1, RequestType DEF WriteChange, At, Changes, OwnerInv, SingleOwner
  <2> QED
    BY <2>1, <2>2, <2>3, <2>4 DEF OwnerInv, SingleOwner
<1>2. ASSUME NEW c \in Calls, AcceptInvitation(c) PROVE SingleOwner'
  <2>1. invitation[call[c].invitation] \in Rows
    BY <1>2 DEF AcceptInvitation, At, AnswersInv
  <2>2. \A u \in Users :
          role'[u] = role[u] \/ (role[u] = "none" /\ role'[u] \in Grants)
    BY <1>2, <2>1 DEF AcceptInvitation, Rows, TypeOK
  <2> QED
    BY <2>2 DEF OwnerInv, SingleOwner, Grants
<1>3. ASSUME NEW c \in Calls, StartCall(c) \/ CallDies(c) PROVE UNCHANGED role
  BY <1>3 DEF StartCall, StartChange, StartInvite, StartAccept, StartDelete, Start,
              CallDies, Refuse
<1>4. ASSUME NEW c \in Calls, CallStep(c), ~WriteChange(c), ~AcceptInvitation(c)
      PROVE  UNCHANGED role
  BY <1>4, ReadSteps DEF CallStep, ChangeNothing, InviteNewcomer, InviteMember, RevokePending,
     InsertInvitation, ExpireInvitation, SoftDelete, DeleteNothing, Refuse, GoOn
<1>5. ASSUME NEW i \in Invitations, TimePasses(i) PROVE UNCHANGED role
  BY <1>5 DEF TimePasses
<1>6. ASSUME UNCHANGED role PROVE SingleOwner'
  BY <1>6 DEF OwnerInv, SingleOwner
<1> QED
  BY <1>1, <1>2, <1>3, <1>4, <1>5, <1>6 DEF Next

LEMMA OwnerStep == TypeOK /\ AnswersInv /\ OwnerInv /\ [Next]_vars => OwnerInv'
<1> SUFFICES ASSUME TypeOK, AnswersInv, OwnerInv, Next PROVE OwnerInv'
  BY DEF vars, OwnerInv, SingleOwner, ChangeOfOthers
<1>a. DOMAIN call = Calls
  BY DEF TypeOK
<1>1. ASSUME NEW c \in Calls, StartCall(c) \/ CallStep(c) \/ CallDies(c),
             call'[c].pc \in {"read", "write"}
      PROVE  ChangeOfOthers(call'[c])
  <2>1. CASE StartCall(c)
    BY <1>1, <1>a, <2>1 DEF StartCall, StartChange, StartInvite, StartAccept, StartDelete,
       Start, Become, ChangeOfOthers
  <2>2. CASE ReadBoth(c) \/ ReadActor(c) \/ ReadTarget(c)
    <3>1. call[c] \in Changes /\ At(c, "read") /\ ChangeOfOthers(call[c])
      BY <2>2, ReadSteps, RequestType DEF At, OwnerInv
    <3>2. call[c].target \in Users /\ (role[call[c].target] = "OWNER" <=> call[c].target = Owner)
      BY <3>1 DEF Changes, OwnerInv, SingleOwner
    <3>3. CASE Refuse(c)
      BY <1>1, <3>3, EndType DEF Ended
    <3>4. CASE \/ Become(c, [call[c] EXCEPT !.actorRole = role[call[c].actor]])
               \/ Become(c, [call[c] EXCEPT !.targetRole = role[call[c].target]])
      BY <1>a, <3>1, <3>2, <3>4 DEF Become, ChangeOfOthers, Changes, At
    <3>5. ASSUME Become(c, Decided(call[c])),
                 NEW a, NEW t \in {role[call[c].target], call[c].targetRole} \ {Unread},
                 MayChange(c, a, t)
          PROVE  ChangeOfOthers(call'[c])
      <4>1. t # "OWNER"
        BY <3>5 DEF MayChange
      <4>2. call[c].target # Owner
        BY <3>1, <3>2, <3>5, <4>1 DEF ChangeOfOthers
      <4>3. call'[c].target = call[c].target /\ call'[c].targetRole = Unread
        BY <1>a, <3>1, <3>5 DEF Become, Decided, Changes
      <4> QED
        BY <4>2, <4>3 DEF ChangeOfOthers
    <3> QED
      BY <2>2, <3>3, <3>4, <3>5, ReadSteps
  <2>3. CASE InviteNewcomer(c) \/ RevokePending(c)
    BY <1>1, <1>a, <2>3, RequestType
    DEF InviteNewcomer, RevokePending, GoOn, Become, At, Invites
  <2>4. CASE Finish(c) \/ Refuse(c)
    BY <1>1, <2>4, EndType DEF Ended
  <2> QED
    BY <1>1, <2>1, <2>2, <2>3, <2>4 DEF CallStep, WriteChange, ChangeNothing, InviteMember,
       InsertInvitation, ExpireInvitation, AcceptInvitation, SoftDelete, DeleteNothing, CallDies
<1>2. ASSUME NEW o \in Calls, call'[o].pc \in {"read", "write"}
      PROVE  ChangeOfOthers(call'[o])
  <2>1. CASE call'[o] = call[o]
    BY <1>2, <2>1 DEF OwnerInv
  <2>2. ASSUME NEW c \in Calls, StartCall(c) \/ CallStep(c) \/ CallDies(c)
        PROVE  ChangeOfOthers(call'[o])
    BY <1>1, <1>2, <2>1, <2>2, StepOfOne
  <2>3. ASSUME NEW i \in Invitations, TimePasses(i) PROVE call'[o] = call[o]
    BY <2>3 DEF TimePasses
  <2> QED
    BY <2>1, <2>2, <2>3 DEF Next
<1> QED
  BY <1>2, SingleOwnerStep DEF OwnerInv

LEMMA OwnerInvCorrect == Spec => []OwnerInv
BY TypesCorrect, OwnerInit, OwnerStep, PTL DEF Spec

(* The creator alone is the owner (teams.service.ts:322-350, 381-409), however *)
(* requests overlap.                                                           *)
THEOREM OwnerCorrect == Spec => []SingleOwner
BY OwnerInvCorrect, PTL DEF OwnerInv

-----------------------------------------------------------------------------
(* What an undisturbed request knows.                                          *)

LEMMA KnowsInit == Init => KnowsInv
BY DEF Init, KnowsInv, Knows, Ended

LEMMA KnowsEnded ==
  ASSUME NEW c \in Calls, call'[c] = Ended
  PROVE  Knows(call[c])'
BY DEF Knows, Ended

(* What a request knows lasts while nobody writes.                             *)
LEMMA KnowsFrame ==
  ASSUME NEW c \in Calls, Knows(call'[c]), UNCHANGED <<deleted, role, invitation>>
  PROVE  Knows(call[c])'
BY DEF Knows, AdmittedManager, RightChange, RightInvitation, RightAccept, Pending

(* A step of a request either leaves the tables alone, or disturbs the others. *)
LEMMA Disturbing ==
  ASSUME TypeOK, NEW c \in Calls, StartCall(c) \/ CallStep(c) \/ CallDies(c),
         NEW o \in Calls, o # c
  PROVE  \/ UNCHANGED <<deleted, role, invitation>> /\ disturbed'[o] = disturbed[o]
         \/ disturbed'[o] = ~At(o, "idle")
<1>1. CASE Finish(c)
  BY <1>1 DEF Finish, Disturb
<1>2. CASE Refuse(c)
  BY <1>2 DEF Refuse, Calm, TypeOK
<1>3. CASE StartCall(c)
  BY <1>3 DEF StartCall, StartChange, StartInvite, StartAccept, StartDelete, Start
<1>4. CASE ReadBoth(c) \/ ReadActor(c) \/ ReadTarget(c)
  BY <1>2, <1>4, ReadSteps
<1>5. CASE InviteNewcomer(c)
  BY <1>5 DEF InviteNewcomer, GoOn
<1>6. CASE RevokePending(c)
  <2>1. CASE Replaced(c) = {}
    <3>1. invitation' = [i \in Invitations |-> invitation[i]]
      BY <1>6, <2>1 DEF RevokePending
    <3> QED
      BY <1>6, <2>1, <3>1 DEF RevokePending, TypeOK
  <2>2. CASE Replaced(c) # {}
    BY <1>6, <2>2 DEF RevokePending, Disturb
  <2> QED
    BY <2>1, <2>2
<1> QED
  BY <1>1, <1>2, <1>3, <1>4, <1>5, <1>6 DEF CallStep, WriteChange, ChangeNothing,
     InviteMember, InsertInvitation, ExpireInvitation, AcceptInvitation, SoftDelete,
     DeleteNothing, CallDies

(* A change that is decided upon is right, if what was read is still so.       *)
LEMMA DecidedIsRight ==
  ASSUME TypeOK, NEW c \in Calls, At(c, "read"), Knows(call[c]),
         NEW a \in {role[call[c].actor], call[c].actorRole} \ {Unread},
         NEW t \in {role[call[c].target], call[c].targetRole} \ {Unread},
         MayChange(c, a, t)
  PROVE  Knows(Decided(call[c]))
<1>1. call[c] \in Changes
  BY RequestType DEF At
<1>2. a = role[call[c].actor] /\ t = role[call[c].target]
  BY DEF Knows, At
<1>3. t \in Grants /\ a \in Managers /\ ~deleted
  BY <1>1, <1>2 DEF Knows, At, AdmittedManager, MayChange, Changes, TypeOK, MemberRoles, Grants
<1>4. t = "ADMIN" => a = "OWNER"
  BY <1>3 DEF MayChange, Managers
<1>5. /\ Decided(call[c]).pc = "write"
      /\ Decided(call[c]).actor = call[c].actor
      /\ Decided(call[c]).target = call[c].target
  BY <1>1 DEF Decided, Changes
<1> QED
  BY <1>2, <1>3, <1>4, <1>5 DEF Knows, RightChange

(* After its own step a request knows what it should.                          *)
LEMMA KnowsOwn ==
  ASSUME TypeOK, KnowsInv, NEW c \in Calls, StartCall(c) \/ CallStep(c) \/ CallDies(c),
         ~disturbed'[c]
  PROVE  Knows(call[c])'
<1>a. DOMAIN call = Calls /\ DOMAIN disturbed = Calls
  BY DEF TypeOK
<1>1. CASE Finish(c) \/ Refuse(c)
  BY <1>1, EndType, KnowsEnded
<1>2. CASE StartCall(c)
  <2>1. UNCHANGED <<deleted, role, invitation>>
    BY <1>2 DEF StartCall, StartChange, StartInvite, StartAccept, StartDelete, Start
  <2>2. Knows(call'[c])
    BY <1>2, <1>a DEF StartCall, StartChange, StartInvite, StartAccept, StartDelete, Start,
       Become, Admitted, Knows, AdmittedManager, RightAccept
  <2> QED
    BY <2>1, <2>2, KnowsFrame
<1>3. CASE ReadBoth(c) \/ ReadActor(c) \/ ReadTarget(c)
  <2>1. CASE Refuse(c)
    BY <1>1, <2>1
  <2>2. CASE UNCHANGED disturbed
    <3>1. call[c] \in Changes /\ At(c, "read") /\ Knows(call[c])
      BY <1>3, <2>2, ReadSteps, RequestType DEF At, KnowsInv
    <3>2. CASE Become(c, [call[c] EXCEPT !.actorRole = role[call[c].actor]])
      <4>1. Knows(call'[c])
        BY <1>a, <3>1, <3>2 DEF Become, Knows, Changes, At
      <4> QED
        BY <1>3, <4>1, ReadSteps, KnowsFrame
    <3>3. CASE Become(c, [call[c] EXCEPT !.targetRole = role[call[c].target]])
      <4>1. Knows(call'[c])
        BY <1>a, <3>1, <3>3 DEF Become, Knows, Changes, At
      <4> QED
        BY <1>3, <4>1, ReadSteps, KnowsFrame
    <3>4. ASSUME Become(c, Decided(call[c])),
                 NEW a \in {role[call[c].actor], call[c].actorRole} \ {Unread},
                 NEW t \in {role[call[c].target], call[c].targetRole} \ {Unread},
                 MayChange(c, a, t)
          PROVE  Knows(call[c])'
      <4>1. Knows(call'[c])
        BY <1>a, <3>1, <3>4, DecidedIsRight DEF Become
      <4> QED
        BY <1>3, <4>1, ReadSteps, KnowsFrame
    <3> QED
      BY <1>3, <2>1, <3>2, <3>3, <3>4, ReadSteps
  <2> QED
    BY <1>3, <2>1, <2>2, ReadSteps
<1>4. CASE InviteNewcomer(c)
  <2>1. call[c] \in Invites /\ At(c, "member") /\ Knows(call[c])
    BY <1>4, RequestType DEF InviteNewcomer, GoOn, At, KnowsInv
  <2>2. Knows(call'[c])
    BY <1>4, <1>a, <2>1 DEF InviteNewcomer, GoOn, Become, Knows, Invites, At
  <2> QED
    BY <1>4, <2>2, KnowsFrame DEF InviteNewcomer, GoOn
<1>5. CASE RevokePending(c)
  <2>1. call'[c] = [call[c] EXCEPT !.pc = "insert"] /\ call'[c] # Ended
    BY <1>5, <1>a, RequestType DEF RevokePending, Become, At, Invites, Ended
  <2>2. ~disturbed[c]
    BY <1>5, <2>1 DEF RevokePending, Disturb
  <2>3. call[c] \in Invites /\ At(c, "revoke") /\ Knows(call[c])
    BY <1>5, <2>2, RequestType DEF RevokePending, At, KnowsInv
  <2>4. /\ call'[c].pc = "insert"
        /\ call'[c].user = call[c].user /\ call'[c].actor = call[c].actor
    BY <2>1, <2>3 DEF Invites
  <2>5. Pending(call[c].user)' = {}
    <3> SUFFICES ASSUME NEW i \in Invitations,
                        invitation'[i].status = "PENDING", invitation'[i].user = call[c].user,
                        call'[c].user = call[c].user
                 PROVE  FALSE
      BY <2>4 DEF Pending
    <3>1. CASE i \in Replaced(c)
      <4>1. invitation[i] \in Rows
        BY <3>1 DEF Replaced, Pending, TypeOK, NoInvitation
      <4> QED
        BY <1>5, <3>1, <4>1 DEF RevokePending, Rows
    <3>2. CASE i \notin Replaced(c)
      BY <1>5, <3>2 DEF RevokePending, Replaced, Pending
    <3> QED
      BY <3>1, <3>2
  <2>6. UNCHANGED <<deleted, role>>
    BY <1>5 DEF RevokePending
  <2>7. ~deleted /\ role[call[c].actor] \in Managers /\ role[call[c].user] = "none"
    BY <2>3 DEF Knows, AdmittedManager, At
  <2>8. RightInvitation(call[c])'
    BY <2>4, <2>5, <2>6, <2>7 DEF RightInvitation, Pending
  <2> QED
    BY <2>4, <2>8 DEF Knows
<1> QED
  BY <1>1, <1>2, <1>3, <1>4, <1>5 DEF CallStep, WriteChange, ChangeNothing,
     InviteMember, InsertInvitation, ExpireInvitation, AcceptInvitation, SoftDelete,
     DeleteNothing, CallDies

LEMMA KnowsStep == TypeOK /\ KnowsInv /\ [Next]_vars => KnowsInv'
<1> SUFFICES ASSUME TypeOK, KnowsInv, [Next]_vars, NEW o \in Calls, ~disturbed'[o]
             PROVE  Knows(call[o])'
  BY DEF KnowsInv
<1>1. ASSUME call'[o] = call[o], ~disturbed[o], UNCHANGED <<deleted, role, invitation>>
      PROVE  Knows(call[o])'
  BY <1>1, KnowsFrame DEF KnowsInv
<1>2. ASSUME NEW c \in Calls, StartCall(c) \/ CallStep(c) \/ CallDies(c)
      PROVE  Knows(call[o])'
  <2>1. CASE o = c
    BY <1>2, <2>1, KnowsOwn
  <2>2. CASE o # c /\ disturbed'[o] = disturbed[o] /\ UNCHANGED <<deleted, role, invitation>>
    BY <1>1, <1>2, <2>2, StepOfOne
  <2>3. CASE o # c /\ disturbed'[o] = ~At(o, "idle")
    <3>1. call'[o] = call[o] /\ call[o].pc = "idle"
      BY <1>2, <2>3, StepOfOne DEF At
    <3> QED
      BY <3>1 DEF Knows
  <2> QED
    BY <1>2, <2>1, <2>2, <2>3, Disturbing
<1>3. ASSUME NEW i \in Invitations, TimePasses(i) PROVE Knows(call[o])'
  BY <1>1, <1>3 DEF TimePasses
<1>4. CASE UNCHANGED vars
  BY <1>1, <1>4 DEF vars
<1> QED
  BY <1>2, <1>3, <1>4 DEF Next

(* A request that no other's write came between is right about all it checked  *)
(* (team-membership.guard.ts:26-45, teams.service.ts:157-172, 216-239,         *)
(* 322-348, 381-407).                                                          *)
THEOREM UndisturbedCorrect == Spec => []UndisturbedIsRight
<1>1. KnowsInv => UndisturbedIsRight
  BY DEF KnowsInv, Knows, UndisturbedIsRight, At
<1> QED
  BY <1>1, TypesCorrect, KnowsInit, KnowsStep, PTL DEF Spec

-----------------------------------------------------------------------------
(* Live invitations of one address.                                            *)

PendingBound(u) ==
  Cardinality(Pending(u)) + Cardinality(Inserting(u)) <= Cardinality(Calls)

LEMMA PendingType ==
  ASSUME NEW u \in Users
  PROVE  /\ IsFiniteSet(Pending(u)) /\ Cardinality(Pending(u)) \in Nat
         /\ IsFiniteSet(Inserting(u)) /\ Cardinality(Inserting(u)) \in Nat
         /\ Cardinality(Inserting(u)) <= Cardinality(Calls) /\ Cardinality(Calls) \in Nat
<1>1. Pending(u) \subseteq Invitations /\ Inserting(u) \subseteq Calls
  BY DEF Pending, Inserting
<1> QED
  BY <1>1, FS_Subset, FS_CardinalityType

LEMMA PendingTypeNext ==
  ASSUME NEW u \in Users
  PROVE  /\ Cardinality(Pending(u)') \in Nat /\ Cardinality(Inserting(u)') \in Nat
         /\ Cardinality(Inserting(u)') <= Cardinality(Calls)
<1>1. Pending(u)' \subseteq Invitations /\ Inserting(u)' \subseteq Calls
  BY DEF Pending, Inserting
<1> QED
  BY <1>1, FS_Subset, FS_CardinalityType

LEMMA AddOne ==
  ASSUME NEW S, IsFiniteSet(S), NEW x
  PROVE  IsFiniteSet(S \union {x}) /\ Cardinality(S \union {x}) <= Cardinality(S) + 1
<1>1. /\ IsFiniteSet(S \union {x})
      /\ Cardinality(S \union {x}) = IF x \in S THEN Cardinality(S) ELSE Cardinality(S) + 1
  BY FS_AddElement
<1>2. Cardinality(S) \in Nat
  BY FS_CardinalityType
<1> QED
  BY <1>1, <1>2

(* A step that adds neither keeps the bound.                                   *)
LEMMA PendingShrinks ==
  ASSUME NEW u \in Users, PendingBound(u),
         Pending(u)' \subseteq Pending(u), Inserting(u)' \subseteq Inserting(u)
  PROVE  PendingBound(u)'
<1>1. /\ Cardinality(Pending(u)') <= Cardinality(Pending(u))
      /\ Cardinality(Inserting(u)') <= Cardinality(Inserting(u))
  BY PendingType, FS_Subset
<1> QED
  BY <1>1, PendingType, PendingTypeNext DEF PendingBound

LEMMA PendingInit == Init => PendingBounded
<1> SUFFICES ASSUME Init, NEW u \in Users PROVE PendingBound(u)
  BY DEF PendingBounded, PendingBound
<1>1. Pending(u) = {} /\ Inserting(u) = {}
  BY DEF Init, Pending, Inserting, NoInvitation, Ended, At
<1> QED
  BY <1>1, PendingType, FS_EmptySet DEF PendingBound

(* Only invite() comes to its insert, and only from its revocation.            *)
LEMMA InsertingStep ==
  ASSUME TypeOK, NEW c \in Calls, StartCall(c) \/ CallStep(c) \/ CallDies(c),
         ~RevokePending(c), NEW u \in Users
  PROVE  Inserting(u)' \subseteq Inserting(u) \ {c}
<1>a. DOMAIN call = Calls
  BY DEF TypeOK
<1>1. call'[c].pc # "insert"
  <2>1. CASE Finish(c) \/ Refuse(c)
    BY <2>1, EndType DEF Ended
  <2>2. CASE StartCall(c)
    BY <2>2, <1>a DEF StartCall, StartChange, StartInvite, StartAccept, StartDelete, Start,
       Become
  <2>3. CASE ReadBoth(c) \/ ReadActor(c) \/ ReadTarget(c)
    <3>1. call[c] \in Changes /\ At(c, "read")
      BY <2>3, ReadSteps, RequestType DEF At
    <3>2. ASSUME NEW s \in {[call[c] EXCEPT !.actorRole = role[call[c].actor]],
                            [call[c] EXCEPT !.targetRole = role[call[c].target]],
                            Decided(call[c])},
                 Become(c, s)
          PROVE  call'[c].pc # "insert"
      <4>1. s.pc \in {"read", "write"}
        BY <3>1 DEF Decided, Changes, At
      <4> QED
        BY <1>a, <3>2, <4>1 DEF Become
    <3> QED
      BY <2>1, <2>3, <3>2, ReadSteps
  <2>4. CASE InviteNewcomer(c)
    BY <2>4, <1>a, RequestType DEF InviteNewcomer, GoOn, Become, At, Invites
  <2> QED
    BY <2>1, <2>2, <2>3, <2>4 DEF CallStep, WriteChange, ChangeNothing, InviteMember,
       InsertInvitation, ExpireInvitation, AcceptInvitation, SoftDelete, DeleteNothing, CallDies
<1>2. \A o \in Calls : o # c => call'[o] = call[o]
  BY StepOfOne
<1> QED
  BY <1>1, <1>2 DEF Inserting, At

LEMMA PendingStep == TypeOK /\ AnswersInv /\ PendingBounded /\ [Next]_vars => PendingBounded'
<1> SUFFICES ASSUME TypeOK, AnswersInv, PendingBounded, [Next]_vars, NEW u \in Users
             PROVE  PendingBound(u)'
  BY DEF PendingBounded, PendingBound
<1>a. PendingBound(u)
  BY DEF PendingBounded, PendingBound
<1>1. ASSUME NEW c \in Calls, RevokePending(c) PROVE PendingBound(u)'
  <2>1. call'[c].pc = "insert" /\ call'[c].user = call[c].user
    BY <1>1, RequestType DEF RevokePending, Become, At, Invites, TypeOK
  <2>2. Pending(u)' \subseteq Pending(u) \ Replaced(c)
    <3> SUFFICES ASSUME NEW i \in Invitations,
                        invitation'[i].status = "PENDING", invitation'[i].user = u
                 PROVE  i \in Pending(u) \ Replaced(c)
      BY DEF Pending
    <3>1. i \notin Replaced(c)
      <4> SUFFICES ASSUME i \in Replaced(c) PROVE FALSE
        OBVIOUS
      <4>1. invitation[i] \in Rows
        BY DEF Replaced, Pending, TypeOK, NoInvitation
      <4> QED
        BY <1>1, <4>1 DEF RevokePending, Rows
    <3> QED
      BY <1>1, <3>1 DEF RevokePending, Pending
  <2>3. CASE u = call[c].user
    <3>1. Pending(u)' = {}
      BY <2>2, <2>3 DEF Replaced
    <3> QED
      BY <3>1, PendingType, PendingTypeNext, FS_EmptySet DEF PendingBound
  <2>4. CASE u # call[c].user
    <3>1. Inserting(u)' \subseteq Inserting(u)
      BY <1>1, <2>1, <2>4, StepOfOne DEF CallStep, Inserting, At
    <3> QED
      BY <1>a, <2>2, <3>1, PendingShrinks
  <2> QED
    BY <2>3, <2>4
<1>2. ASSUME NEW c \in Calls, InsertInvitation(c) PROVE PendingBound(u)'
  <2>1. Inserting(u)' \subseteq Inserting(u) \ {c}
    BY <1>2, InsertingStep DEF CallStep, InsertInvitation, RevokePending, At
  <2>2. PICK i \in Invitations :
          /\ invitation[i] = NoInvitation
          /\ \E granted \in Grants : invitation' = [invitation EXCEPT ![i] =
               [status |-> "PENDING", user |-> call[c].user, role |-> granted]]
    BY <1>2 DEF InsertInvitation
  <2>3. /\ \A j \in Invitations : j # i => invitation'[j] = invitation[j]
        /\ invitation'[i].user = call[c].user
    BY <2>2 DEF TypeOK
  <2>4. CASE u # call[c].user
    <3>1. Pending(u)' \subseteq Pending(u)
      BY <2>3, <2>4 DEF Pending
    <3> QED
      BY <1>a, <2>1, <3>1, PendingShrinks
  <2>5. CASE u = call[c].user
    <3>1. c \in Inserting(u)
      BY <1>2, <2>5 DEF InsertInvitation, Inserting
    <3>2. Cardinality(Inserting(u)') <= Cardinality(Inserting(u)) - 1
      <4>1. /\ IsFiniteSet(Inserting(u) \ {c})
            /\ Cardinality(Inserting(u) \ {c}) = Cardinality(Inserting(u)) - 1
        BY <3>1, PendingType, FS_RemoveElement
      <4> QED
        BY <2>1, <4>1, FS_Subset
    <3>3. Pending(u)' \subseteq Pending(u) \union {i}
      BY <2>3 DEF Pending
    <3>4. Cardinality(Pending(u)') <= Cardinality(Pending(u)) + 1
      <4>1. /\ IsFiniteSet(Pending(u) \union {i})
            /\ Cardinality(Pending(u) \union {i}) <= Cardinality(Pending(u)) + 1
        BY PendingType, AddOne
      <4>2. Cardinality(Pending(u)') <= Cardinality(Pending(u) \union {i})
        BY <3>3, <4>1, FS_Subset
      <4> QED
        BY <4>1, <4>2, PendingType, PendingTypeNext, FS_CardinalityType
    <3> QED
      BY <1>a, <3>2, <3>4, PendingType, PendingTypeNext DEF PendingBound
  <2> QED
    BY <2>4, <2>5
<1>3. ASSUME NEW c \in Calls, StartCall(c) \/ CallStep(c) \/ CallDies(c),
             ~RevokePending(c), ~InsertInvitation(c)
      PROVE  PendingBound(u)'
  <2>1. Inserting(u)' \subseteq Inserting(u)
    BY <1>3, InsertingStep
  <2>2. Pending(u)' \subseteq Pending(u)
    <3>1. CASE ExpireInvitation(c) \/ AcceptInvitation(c)
      <4>1. /\ \A i \in Invitations :
                 i # call[c].invitation => invitation'[i] = invitation[i]
            /\ invitation'[call[c].invitation].status # "PENDING"
        <5>1. PICK status \in {"EXPIRED", "ACCEPTED"} :
                /\ SetStatus(c, status)
                /\ call[c].pc \in {"accept", "expire"}
          BY <3>1 DEF ExpireInvitation, AcceptInvitation, At
        <5>2. /\ call[c].invitation \in Invitations
              /\ invitation[call[c].invitation] \in Rows
              /\ \A i \in Invitations :
                   i # call[c].invitation => invitation'[i] = invitation[i]
          BY <5>1, AnswerType DEF InvitationStatus
        <5>3. invitation'[call[c].invitation].status = status
          BY <5>1, <5>2 DEF SetStatus, TypeOK, Rows
        <5> QED
          BY <5>2, <5>3
      <4> QED
        BY <4>1 DEF Pending
    <3>2. CASE UNCHANGED invitation
      BY <3>2 DEF Pending
    <3>3. CASE StartCall(c)
      BY <3>2, <3>3 DEF StartCall, StartChange, StartInvite, StartAccept, StartDelete, Start
    <3> QED
      BY <1>3, <3>1, <3>2, <3>3, ReadSteps DEF CallStep, WriteChange, ChangeNothing,
         InviteNewcomer, InviteMember, SoftDelete, DeleteNothing, CallDies, Refuse, GoOn
  <2> QED
    BY <1>a, <2>1, <2>2, PendingShrinks
<1>4. ASSUME UNCHANGED <<call, invitation>> PROVE PendingBound(u)'
  BY <1>4, <1>a, PendingShrinks DEF Pending, Inserting, At
<1>5. ASSUME NEW i \in Invitations, TimePasses(i) PROVE UNCHANGED <<call, invitation>>
  BY <1>5 DEF TimePasses
<1> QED
  BY <1>1, <1>2, <1>3, <1>4, <1>5 DEF Next, vars

(* An address never has more live invitations than there are requests at once  *)
(* (teams.service.ts:168-194).                                                 *)
THEOREM PendingCorrect == Spec => []PendingBounded
BY TypesCorrect, PendingInit, PendingStep, PTL DEF Spec
=============================================================================
