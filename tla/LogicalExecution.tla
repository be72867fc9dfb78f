-------------------------- MODULE LogicalExecution --------------------------
(***************************************************************************)
(* What the live-start protocol promises about each authorized execution,   *)
(* without workers, leases, revisions or transactions: one authorization    *)
(* buys one logical execution with at most one HTTP post.  The promises are *)
(* the ones of the docstrings of app/research/live_start_claim.py,          *)
(* authorized_execution_repository.py and shopify_global_catalog_execution. *)
(***************************************************************************)
EXTENDS Naturals

CONSTANT Executions

VARIABLES
  state,   \* life cycle of each execution
  auth,    \* its research authorization
  posts    \* HTTP posts made for it

lvars == <<state, auth, posts>>

LInit ==
  /\ state = [e \in Executions |-> "absent"]
  /\ auth = [e \in Executions |-> "authorized_pending_execution"]
  /\ posts = [e \in Executions |-> 0]

Move(e, from, to) ==
  /\ state[e] = from
  /\ state' = [state EXCEPT ![e] = to]

Prepare(e) ==
  Move(e, "absent", "prepared_unavailable") /\ UNCHANGED <<auth, posts>>

\* The shopper cancels or replaces: only before the commitment.
Withdraw(e) ==
  /\ auth[e] = "authorized_pending_execution"
  /\ \E s \in {"cancelled", "invalidated"} : auth' = [auth EXCEPT ![e] = s]
  /\ UNCHANGED <<state, posts>>

\* The conversation that holds the authorization expires.
Forget(e) ==
  /\ auth' = [auth EXCEPT ![e] = "missing"]
  /\ UNCHANGED <<state, posts>>

\* The server commits to one attempt and uses up the authorization.  Which
\* worker holds the claim, and who replaces it, is not visible here.
Commit(e) ==
  /\ Move(e, "prepared_unavailable", "claimed_for_attempt")
  /\ auth[e] = "authorized_pending_execution"
  /\ auth' = [auth EXCEPT ![e] = "consumed"]
  /\ UNCHANGED posts

Attempt(e) == Move(e, "claimed_for_attempt", "running") /\ UNCHANGED <<auth, posts>>

\* At most once, and never before the attempt was made durable.  A worker
\* that stalls past its claim may post after the execution was given up.
Post(e) ==
  /\ state[e] \in {"running", "outcome_unknown"} /\ posts[e] = 0
  /\ posts' = [posts EXCEPT ![e] = 1]
  /\ UNCHANGED <<state, auth>>

Record(e) ==
  /\ posts[e] = 1
  /\ \E s \in {"completed", "failed"} : Move(e, "running", s)
  /\ UNCHANGED <<auth, posts>>

GiveUp(e) == Move(e, "running", "outcome_unknown") /\ UNCHANGED <<auth, posts>>

LNext ==
  \E e \in Executions :
    \/ Prepare(e) \/ Withdraw(e) \/ Forget(e) \/ Commit(e)
    \/ Attempt(e) \/ Post(e) \/ Record(e) \/ GiveUp(e)

LSpec == LInit /\ [][LNext]_lvars
=============================================================================
