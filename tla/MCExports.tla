------------------------------ MODULE MCExports ------------------------------
(* Instances of Exports for TLC.                                               *)
EXTENDS Exports
=============================================================================
