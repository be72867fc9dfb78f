------------------------- MODULE MCResultsIntegration -------------------------
(* ResultsIntegration on a small instance, given in the configuration. *)
EXTENDS ResultsIntegration
==============================================================================
