-------------------------- MODULE MCFailedLoginLock --------------------------
(* FailedLoginLock on a small instance, given in the configuration. *)
EXTENDS FailedLoginLock
=============================================================================
