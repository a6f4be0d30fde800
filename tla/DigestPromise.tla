---------------------------- MODULE DigestPromise ----------------------------
(* What the digest pipeline promises a team, whatever its workers, queues and  *)
(* schedulers do: a day's digest is composed at most once and never rewritten; *)
(* what the channel is shown is that digest, after it was composed; and it is  *)
(* SENT only when the channel has been shown it.  The channel may be shown it  *)
(* again.                                                                      *)
CONSTANTS
  Days,
  Contents,    \* what a digest may say
  NoContent    \* no digest yet: not in Contents

VARIABLES
  composed,    \* the content of each day's digest
  shown,       \* the days whose digest the channel has accepted
  sent         \* the days whose digest is marked SENT

vars == <<composed, shown, sent>>

Init ==
  /\ composed = [d \in Days |-> NoContent]
  /\ shown = {}
  /\ sent = {}

Compose(d) ==
  /\ composed[d] = NoContent
  /\ \E c \in Contents : composed' = [composed EXCEPT ![d] = c]
  /\ UNCHANGED <<shown, sent>>

Show(d) ==
  /\ composed[d] # NoContent
  /\ shown' = shown \union {d}
  /\ UNCHANGED <<composed, sent>>

MarkSent(d) ==
  /\ d \in shown
  /\ sent' = sent \union {d}
  /\ UNCHANGED <<composed, shown>>

Next == \E d \in Days : Compose(d) \/ Show(d) \/ MarkSent(d)

Spec == Init /\ [][Next]_vars
=============================================================================
