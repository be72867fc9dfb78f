------------------------ MODULE MCProposalConfirmation ------------------------
(* ProposalConfirmation on a small instance, given in the configuration. *)
EXTENDS ProposalConfirmation, TLC

RequestSymmetry == Permutations(Requests)
==============================================================================
