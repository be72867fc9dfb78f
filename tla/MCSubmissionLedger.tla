------------------------ MODULE MCSubmissionLedger ------------------------
(* SubmissionLedger on a small instance, given in the configuration. *)
EXTENDS SubmissionLedger
=============================================================================
