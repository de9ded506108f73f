---------------------------- MODULE MCPaymentTasks ----------------------------
(* Small instances of PaymentTasks for TLC. *)
EXTENDS PaymentTasks

=============================================================================
