-------------------------- MODULE MCBalanceLedger --------------------------
(* Small instances of BalanceLedger for TLC.                               *)
EXTENDS BalanceLedger

(* Amounts in cents: zero is what a VES payment below half a cent of a USD *)
(* rounds to; with 1..3 a call can need one balance, two, or too many.     *)
MCAmounts == 0 .. 3
=============================================================================
