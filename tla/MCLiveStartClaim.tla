-------------------------- MODULE MCLiveStartClaim --------------------------
(***************************************************************************)
(* LiveStartClaim on small instances.  Spec is the whole protocol for one   *)
(* execution; ProbeSpec starts two prepared executions behind a breaker     *)
(* that has just opened and leaves out what never touches the breaker or a  *)
(* probe lease: the conversation's other writers and reconciliation.        *)
(***************************************************************************)
EXTENDS LiveStartClaim, TLC

WorkerSymmetry == Permutations(Workers)
ProbeSymmetry == Permutations(Workers) \cup Permutations(Executions)

ProbeInit ==
  /\ Init!1 /\ Init!4 /\ Init!5 /\ Init!6
  /\ exec = [e \in Executions |-> [absent_execution EXCEPT
               !.state = "prepared_unavailable", !.revision = 1]]
  /\ brk = [record_failure([closed_reliability_state EXCEPT
               !.count = Threshold - 1], "affecting", 0) EXCEPT !.revision = Threshold]
ProbeNext ==
  \/ Tick
  \/ GateStep
  \/ \E w \in Workers : ClaimStep(w) \/ AttemptStep(w) \/ OutcomeStep(w) \/ Crash(w)
  \/ \E w \in Workers, e \in Executions : StartClaim(w, e)
ProbeSpec == ProbeInit /\ [][ProbeNext]_vars
=============================================================================
