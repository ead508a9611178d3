----------------------------- MODULE MC_Payments -----------------------------
(* The run of Payments: two requests at work on one payment, and every fault. *)
EXTENDS Payments
=============================================================================
