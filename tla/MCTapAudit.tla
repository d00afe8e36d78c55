----------------------------- MODULE MCTapAudit -----------------------------
(* Pids for checking TapAudit with TLC. *)
EXTENDS TapAudit
MCOurs == 100
MCOther == 200
=============================================================================
