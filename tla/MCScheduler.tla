----------------------------- MODULE MCScheduler -----------------------------
(* Small instances of Scheduler for TLC.                                       *)
EXTENDS Scheduler, TLC

CONSTANTS t1, t2, c1, c2

(* schema.prisma's defaults, and a deadline a few minutes after midnight.      *)
Morning == [timezone |-> "UTC", standupDeadline |-> 600, reminderTime |-> 540]
Midnight == [timezone |-> "Asia/Tokyo", standupDeadline |-> 10, reminderTime |-> 1430]
TwoSettings == {Morning, Midnight}

CallSymmetry == Permutations(Calls)
=============================================================================
