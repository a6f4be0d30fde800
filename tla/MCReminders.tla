----------------------------- MODULE MCReminders -----------------------------
(* Instances of Reminders for TLC.                                             *)
EXTENDS Reminders, TLC

CONSTANTS f1, f2

(* Two firings of one kind: a job and its overlap.                             *)
OneKind == f1 :> "final" @@ f2 :> "final"
=============================================================================
