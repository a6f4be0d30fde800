---------------------------- MODULE AccountTables ----------------------------
(* The tables of accounts, users, auth_accounts, email_verifications and       *)
(* password_resets, and what has to hold of them whatever the requests of      *)
(* Accounts do.                                                                *)
EXTENDS Integers, FiniteSets

CONSTANTS
  Emails,      \* addresses
  Profiles,    \* accounts at GOOGLE or GITHUB
  NoEmail, NoProfile,
  MaxLinks     \* bound: links issued (an account is made only if there is one left)

Links == 1..MaxLinks

VARIABLES
  user,       \* users, by address: is there a password, is the address verified
  linked,     \* auth_accounts: the user of each profile, by address
  link,       \* email_verifications and password_resets, in order of issue
  uses,       \* history: how often each link set what it is for
  shared      \* history: links two requests had found good before either used it

tables == <<user, linked, link, uses, shared>>

NoUser == [none |-> TRUE]
NoLink == [none |-> TRUE]

Issued == {l \in Links : link[l] # NoLink}

(* Every account has the one way in it was made with ("no silent linking",     *)
(* auth.service.ts:130-139): a password, or one profile whose provider vouched *)
(* for the address, however sign-ups, sign-ins and resets of one address       *)
(* overlap between their check and their insert.                               *)
WaysIn(e) == (IF user[e] # NoUser /\ user[e].password THEN {NoProfile} ELSE {})
               \union {p \in Profiles : linked[p] = e}
OneWayIn ==
  \A e \in Emails : Cardinality(WaysIn(e)) = IF user[e] = NoUser THEN 0 ELSE 1

(* A link works once, whatever dies or expires around it (auth.service.ts:327- *)
(* 349, :414-442), unless two requests had found it good before either of them *)
(* marked it used.                                                             *)
LinkWorksOnce == \A l \in Links \ shared : uses[l] <= 1
=============================================================================
