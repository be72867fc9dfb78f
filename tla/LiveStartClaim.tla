--------------------------- MODULE LiveStartClaim ---------------------------
(***************************************************************************)
(* The live-start protocol: from a confirmed research authorization to one  *)
(* durable outcome.  Workers (request threads of several processes) share   *)
(* three kinds of rows of the operational store, and nothing else:          *)
(*   exec[e]  the authorized execution e,                                   *)
(*   conv[e]  the conversation that holds e's research authorization,       *)
(*   brk      the breaker of the one provider and market they all target.   *)
(* Sources: app/research/live_start_claim.py (LiveStartClaimService),       *)
(* app/research/shopify_global_catalog_execution.py (the adapter),          *)
(* app/research/authorized_execution_repository.py,                         *)
(* app/research/reliability_repository.py (ResearchReliabilityGate),        *)
(* app/services/research_authorization.py and the conversation repository.  *)
(*                                                                          *)
(* Each SELECT of a transaction is a step of its own (READ COMMITTED: every *)
(* read sees the latest commit).  The writes of a transaction and its commit*)
(* are one step: a compare-and-swap locks its row until the commit, so all  *)
(* of them succeed against the state at the commit or the step rolls back.  *)
(* With SQLite's BEGIN IMMEDIATE the reads cannot be separated: its         *)
(* behaviours are among these.                                              *)
(*                                                                          *)
(* A capability is a fresh random token of which a row keeps the digest.    *)
(* It is compared only with digests of the same row, so the revision its    *)
(* claim commits stands for both: unique per row, 0 for "none".             *)
(***************************************************************************)
EXTENDS Breaker

CONSTANTS
  Workers,            \* threads that call the services
  Executions,         \* authorized executions of one provider and market
  NoExecution,        \* the target of a worker that has none
  ClaimLease,         \* EXECUTION_CLAIM_LEASE, in clock ticks
  Budget,             \* SHOPIFY_LIVE_HTTP_TIMEOUT + LIVE_CONNECTOR_CLEANUP_MARGIN
  Skew,               \* how far a host's clock may be from the reference clock
  MaxTime,            \* bound: the reference clock stops here
  MaxVersion,         \* bound: conversation versions written by other turns
  MaxBreakerRevision  \* bound: breaker revisions written by the gate

ASSUME ClaimAssumption ==
  /\ NoExecution \notin Executions
  /\ ClaimLease \in Nat /\ Budget \in Nat /\ Skew \in Nat
  /\ Budget < ClaimLease /\ Budget < ProbeLease  \* checked at import
  /\ MaxTime \in Nat /\ MaxVersion \in Nat /\ MaxBreakerRevision \in Nat

VARIABLES
  clock,   \* reference time
  exec,    \* execution rows
  brk,     \* the breaker row
  conv,    \* per execution: version of its conversation, its authorization
  wk,      \* per worker: control state, and what it holds in memory
  posts    \* history: HTTP posts made for each execution

vars == <<clock, exec, brk, conv, wk, posts>>

Terminal == {"completed", "failed", "outcome_unknown"}
ExecutionState ==
  {"absent", "prepared_unavailable", "claimed_for_attempt", "running"}
    \cup Terminal
ExecutionRow ==
  [state: ExecutionState, revision: Nat, digest: Nat, expires: Nat, started: Nat]
AuthorizationStatus ==
  {"authorized_pending_execution", "consumed", "cancelled", "invalidated",
   "missing"}
ConversationRow == [version: Nat, status: AuthorizationStatus]

Claiming  == {"start", "loaded", "gated", "resuming", "observed"}
Beginning == {"starting", "begin_loaded", "begin_authorized", "begin_ready"}
Finishing == {"returned", "outcome_loaded", "outcome_ready"}
Control ==
  {"idle", "claimed", "post", "posted", "reconciling", "reconcile_loaded"}
    \cup Claiming \cup Beginning \cup Finishing
Result == {"none", "budget_after_transport"}
Worker ==
  [pc: Control, e: Executions \cup {NoExecution}, now: Nat,
   rev: Nat, brk: BreakerRow, ver: Nat, cap: Nat, probe: Nat,
   kind: OutcomeKind, result: Result]

idle_worker ==
  [pc |-> "idle", e |-> NoExecution, now |-> 0, rev |-> 0,
   brk |-> closed_reliability_state, ver |-> 0, cap |-> 0, probe |-> 0,
   kind |-> "neutral", result |-> "none"]
absent_execution ==
  [state |-> "absent", revision |-> 0, digest |-> 0, expires |-> 0,
   started |-> 0]
pending_conversation ==
  [version |-> 1, status |-> "authorized_pending_execution"]

Init ==
  /\ clock = 0
  /\ exec = [e \in Executions |-> absent_execution]
  /\ brk = closed_reliability_state
  /\ conv = [e \in Executions |-> pending_conversation]
  /\ wk = [w \in Workers |-> idle_worker]
  /\ posts = [e \in Executions |-> 0]

-----------------------------------------------------------------------------
(* Helpers *)

\* What a host may read when it asks for the time.
Readings == {t \in 0..(MaxTime + Skew) : t <= clock + Skew /\ clock <= t + Skew}

At(w, pc) == wk[w].pc = pc
Become(w, r) == wk' = [wk EXCEPT ![w] = r]

\* A refusal: the transaction rolls back, the caller gets a reason, and the
\* capabilities it held in memory are gone.  So does a crash, or a database
\* outage, which the services turn into a rollback and a refusal.
Refuse(w) == Become(w, idle_worker)
\* claim_budget_insufficient with transport_invoked: kept for a property.
RefuseBudgetAfterTransport(w) ==
  Become(w, [idle_worker EXCEPT !.result = "budget_after_transport"])

ClaimIsActive(x, now) == x.state = "claimed_for_attempt" /\ now < x.expires
BudgetOk(expires, now) == now + Budget <= expires

\* A row as the claim and the adapter compare it with their capability.
HoldsClaim(x, cap, now) == x.digest = cap /\ now < x.expires

\* _probe_reason: "ok", the budget refusal, or any other refusal.
ProbeReason(b, probe, now) ==
  IF b.state = "HALF_OPEN"
    THEN IF probe = 0 \/ probe # b.probe \/ ~probe_lease_is_active(b, now)
           THEN "half_open_probe"
           ELSE IF BudgetOk(b.probe_expires, now) THEN "ok" ELSE "budget"
    ELSE IF probe # 0 THEN "half_open_probe" ELSE "ok"

-----------------------------------------------------------------------------
(* Preparation and the conversation *)

\* bind(): the first preparation inserts the row; a repeated or a racing one
\* finds it and returns it, or is refused because its plan differs.
Bind(e) ==
  /\ exec[e].state = "absent"
  /\ exec' = [exec EXCEPT ![e].state = "prepared_unavailable", ![e].revision = 1]
  /\ UNCHANGED <<clock, brk, conv, wk, posts>>

\* Every other writer of the conversation goes through its compare-and-swap.
WriteConversation(e, status) ==
  /\ conv[e].status # "missing"
  /\ conv' = [conv EXCEPT ![e] = [version |-> @.version + 1, status |-> status]]
  /\ UNCHANGED <<clock, exec, brk, wk, posts>>

\* Mutant: a cancellation that does not ask whether it is still pending.
CancelAnyAuthorization(e) == WriteConversation(e, "cancelled")

\* The shopper cancels, or replaces the proposal: only a pending
\* authorization changes.
CancelAuthorization(e) ==
  /\ conv[e].status = "authorized_pending_execution"
  /\ WriteConversation(e, "cancelled")

InvalidateAuthorization(e) ==
  /\ conv[e].status = "authorized_pending_execution"
  /\ WriteConversation(e, "invalidated")

\* Any turn of the conversation that leaves the authorization alone.
AppendTurn(e) ==
  /\ conv[e].version < MaxVersion
  /\ WriteConversation(e, conv[e].status)

\* The conversation passes its expiry and a read or a sweep deletes it.
ExpireConversation(e) ==
  /\ conv[e].status # "missing"
  /\ conv' = [conv EXCEPT ![e] = [version |-> 0, status |-> "missing"]]
  /\ UNCHANGED <<clock, exec, brk, wk, posts>>

-----------------------------------------------------------------------------
(* Phase 1: LiveStartClaimService.claim *)

\* continue_confirmed reads the clock and calls the service.
StartClaim(w, e) ==
  /\ At(w, "idle")
  /\ \E t \in Readings :
       Become(w, [idle_worker EXCEPT !.pc = "start", !.e = e, !.now = t])
  /\ UNCHANGED <<clock, exec, brk, conv, posts>>

\* An execution may be claimed when it is prepared, or when a claim ran out.
Claimable(x, now) ==
  \/ x.state = "prepared_unavailable"
  \/ x.state = "claimed_for_attempt" /\ ~ClaimIsActive(x, now)

ClaimLoadExecution(w) ==
  LET x == exec[wk[w].e] IN
  /\ At(w, "start")
  /\ IF Claimable(x, wk[w].now)
       THEN Become(w, [wk[w] EXCEPT !.pc = "loaded", !.rev = x.revision])
       ELSE Refuse(w)
  /\ UNCHANGED <<clock, exec, brk, conv, posts>>

\* The gates, then the breaker: OPEN blocks, HALF_OPEN needs the one lease.
ClaimLoadBreaker(w) ==
  LET now == wk[w].now
      b   == advance_recovery(brk, now)
  IN
  /\ At(w, "loaded")
  /\ \/ /\ b.state = "CLOSED"
        /\ Become(w, [wk[w] EXCEPT !.pc = "gated"])
     \/ /\ b.state = "HALF_OPEN" /\ ~probe_lease_is_active(b, now)
        /\ LET token == b.revision + 1 IN
             Become(w, [wk[w] EXCEPT
               !.pc = "gated", !.probe = token,
               !.brk = apply_half_open_probe_lease(b, now, token)])
     \/ /\ b.state = "OPEN" \/ probe_lease_is_active(b, now)
        /\ Refuse(w)
  /\ UNCHANGED <<clock, exec, brk, conv, posts>>

\* A pending authorization will be consumed at the version read here; a
\* consumed one may only resume; every other status refuses.
ClaimLoadConversation(w) ==
  LET c == conv[wk[w].e] IN
  /\ At(w, "gated")
  /\ \/ /\ c.status = "authorized_pending_execution"
        /\ Become(w, [wk[w] EXCEPT !.pc = "observed", !.ver = c.version])
     \/ /\ c.status = "consumed"
        /\ Become(w, [wk[w] EXCEPT !.pc = "resuming"])
     \/ /\ c.status \notin {"authorized_pending_execution", "consumed"}
        /\ Refuse(w)
  /\ UNCHANGED <<clock, exec, brk, conv, posts>>

\* The row may have been claimed since it was loaded: it is read again, but
\* the revision to swap stays the one of the first read.
ClaimReloadExecution(w) ==
  LET x == exec[wk[w].e] IN
  /\ At(w, "resuming")
  /\ IF x.state = "claimed_for_attempt" /\ ~ClaimIsActive(x, wk[w].now)
       THEN Become(w, [wk[w] EXCEPT !.pc = "observed"])
       ELSE Refuse(w)
  /\ UNCHANGED <<clock, exec, brk, conv, posts>>

\* Mutants: the claim does not compare one of the revisions it read.
ClaimSwapsWithoutExecution(r) ==
  /\ r.probe # 0 => brk.revision = r.brk.revision
  /\ r.ver # 0 => /\ conv[r.e].version = r.ver
                  /\ conv[r.e].status = "authorized_pending_execution"
ClaimSwapsWithoutBreaker(r) ==
  /\ exec[r.e].revision = r.rev
  /\ r.ver # 0 => /\ conv[r.e].version = r.ver
                  /\ conv[r.e].status = "authorized_pending_execution"

\* _finish: three compare-and-swaps, one commit.
ClaimSwapsHold(r) ==
  /\ exec[r.e].revision = r.rev
  /\ r.probe # 0 => brk.revision = r.brk.revision
  /\ r.ver # 0 => /\ conv[r.e].version = r.ver
                  /\ conv[r.e].status = "authorized_pending_execution"

\* Mutant: the swap of a claim does not assign the next revision.
apply_claim_same_revision(x, now, capability) ==
  [x EXCEPT !.state = "claimed_for_attempt", !.digest = capability,
            !.expires = now + ClaimLease]

apply_execution_claim(x, now, capability) ==
  [x EXCEPT !.state = "claimed_for_attempt", !.revision = @ + 1,
            !.digest = capability, !.expires = now + ClaimLease]

FinishClaim(w) ==
  LET r == wk[w] IN
  /\ At(w, "observed")
  /\ ClaimSwapsHold(r)
  /\ exec' = [exec EXCEPT ![r.e] = apply_execution_claim(@, r.now, r.rev + 1)]
  /\ brk' = IF r.probe # 0 THEN [r.brk EXCEPT !.revision = @ + 1] ELSE brk
  /\ conv' = IF r.ver # 0
               THEN [conv EXCEPT ![r.e] = [version |-> r.ver + 1,
                                           status |-> "consumed"]]
               ELSE conv
  /\ Become(w, [idle_worker EXCEPT !.pc = "claimed", !.e = r.e,
                  !.cap = r.rev + 1, !.probe = r.probe])
  /\ UNCHANGED <<clock, posts>>

LoseClaim(w) ==
  /\ At(w, "observed")
  /\ ~ClaimSwapsHold(wk[w])
  /\ Refuse(w)
  /\ UNCHANGED <<clock, exec, brk, conv, posts>>

-----------------------------------------------------------------------------
(* Phase 2: ShopifyCatalogExecutionService.execute up to the HTTP post *)

ReadStartClock(w) ==
  /\ At(w, "claimed")
  /\ \E t \in Readings :
       Become(w, [wk[w] EXCEPT !.pc = "starting", !.now = t])
  /\ UNCHANGED <<clock, exec, brk, conv, posts>>

BeginLoadExecution(w) ==
  LET r == wk[w]
      x == exec[r.e]
  IN
  /\ At(w, "starting")
  /\ IF /\ x.state = "claimed_for_attempt"
        /\ HoldsClaim(x, r.cap, r.now)
        /\ BudgetOk(x.expires, r.now)
       THEN Become(w, [r EXCEPT !.pc = "begin_loaded", !.rev = x.revision])
       ELSE Refuse(w)
  /\ UNCHANGED <<clock, exec, brk, conv, posts>>

BeginLoadConversation(w) ==
  /\ At(w, "begin_loaded")
  /\ IF conv[wk[w].e].status = "consumed"
       THEN Become(w, [wk[w] EXCEPT !.pc = "begin_authorized"])
       ELSE Refuse(w)
  /\ UNCHANGED <<clock, exec, brk, conv, posts>>

BeginLoadBreaker(w) ==
  LET r == wk[w]
      b == advance_recovery(brk, r.now)
  IN
  /\ At(w, "begin_authorized")
  /\ IF b.state # "OPEN" /\ ProbeReason(b, r.probe, r.now) = "ok"
       THEN Become(w, [r EXCEPT !.pc = "begin_ready"])
       ELSE Refuse(w)
  /\ UNCHANGED <<clock, exec, brk, conv, posts>>

\* The row of an attempt that is about to call the transport.
running_record(x, now) ==
  [x EXCEPT !.state = "running", !.revision = @ + 1, !.started = now]

\* Mutant: the attempt start overwrites the row it validated earlier.
BeginAttemptBlind(w) ==
  /\ At(w, "begin_ready")
  /\ exec' = [exec EXCEPT ![wk[w].e] = running_record(@, wk[w].now)]
  /\ Become(w, [wk[w] EXCEPT !.pc = "post", !.rev = 0])
  /\ UNCHANGED <<clock, brk, conv, posts>>

\* The attempt-start commit: only the execution row is swapped, so the
\* authorization and the breaker may have changed since they were read.
BeginAttempt(w) ==
  LET r == wk[w] IN
  /\ At(w, "begin_ready")
  /\ \/ /\ exec[r.e].revision = r.rev
        /\ exec' = [exec EXCEPT ![r.e] = running_record(@, r.now)]
        /\ Become(w, [r EXCEPT !.pc = "post", !.rev = 0])
     \/ /\ exec[r.e].revision # r.rev
        /\ Refuse(w)
        /\ UNCHANGED exec
  /\ UNCHANGED <<clock, brk, conv, posts>>

PostJson(w) ==
  /\ At(w, "post")
  /\ posts' = [posts EXCEPT ![wk[w].e] = @ + 1]
  /\ Become(w, [wk[w] EXCEPT !.pc = "posted"])
  /\ UNCHANGED <<clock, exec, brk, conv>>

\* The transport answers or gives up, whenever it does.  An exception, and a
\* finish time before the start, are refusals that leave the row running.
TransportReturns(w) ==
  /\ At(w, "posted")
  /\ \/ \E t \in Readings, k \in OutcomeKind :
          /\ t >= wk[w].now
          /\ Become(w, [wk[w] EXCEPT !.pc = "returned", !.now = t, !.kind = k])
     \/ Refuse(w)
  /\ UNCHANGED <<clock, exec, brk, conv, posts>>

-----------------------------------------------------------------------------
(* Phase 3: _commit_outcome *)

\* Mutant: the outcome trusts the capability checked at the attempt start.
OutcomeLoadUnchecked(w) ==
  LET x == exec[wk[w].e] IN
  /\ At(w, "returned")
  /\ IF x.state = "running"
       THEN Become(w, [wk[w] EXCEPT !.pc = "outcome_loaded", !.rev = x.revision])
       ELSE Refuse(w)
  /\ UNCHANGED <<clock, exec, brk, conv, posts>>

OutcomeLoadExecution(w) ==
  LET r == wk[w]
      x == exec[r.e]
  IN
  /\ At(w, "returned")
  /\ IF x.state = "running" /\ HoldsClaim(x, r.cap, r.now)
       THEN Become(w, [r EXCEPT !.pc = "outcome_loaded", !.rev = x.revision])
       ELSE Refuse(w)
  /\ UNCHANGED <<clock, exec, brk, conv, posts>>

\* A lease that survives a neutral failure of its holder is released.
next_breaker(b, kind, now) ==
  IF kind = "success"
    THEN record_success(b)
    ELSE LET updated == record_failure(b, kind, now) IN
         IF updated.state = "HALF_OPEN" THEN no_probe_lease(updated) ELSE updated

\* Here the breaker is the stored one: its recovery is not advanced.
OutcomeLoadBreaker(w) ==
  LET r == wk[w]
      reason == ProbeReason(brk, r.probe, r.now)
      blocked == r.kind = "success" /\ brk.state = "OPEN"
  IN
  /\ At(w, "outcome_loaded")
  /\ \/ /\ reason = "ok" /\ ~blocked
        /\ Become(w, [r EXCEPT !.pc = "outcome_ready",
                        !.brk = next_breaker(brk, r.kind, r.now)])
     \/ /\ reason = "budget"
        /\ RefuseBudgetAfterTransport(w)
     \/ /\ reason = "half_open_probe" \/ (reason = "ok" /\ blocked)
        /\ Refuse(w)
  /\ UNCHANGED <<clock, exec, brk, conv, posts>>

\* _terminal_record: the claim is released with the outcome.
terminal_record(x, state) ==
  [x EXCEPT !.state = state, !.revision = @ + 1, !.digest = 0, !.expires = 0]

\* Mutant: the outcome swaps the execution but overwrites the breaker.
CommitOutcomeOverBreaker(w) ==
  LET r == wk[w] IN
  /\ At(w, "outcome_ready")
  /\ exec[r.e].revision = r.rev
  /\ exec' = [exec EXCEPT ![r.e] = terminal_record(@,
       IF r.kind = "success" THEN "completed" ELSE "failed")]
  /\ brk' = [r.brk EXCEPT !.revision = brk.revision + 1]
  /\ Become(w, idle_worker)
  /\ UNCHANGED <<clock, conv, posts>>

CommitOutcome(w) ==
  LET r == wk[w] IN
  /\ At(w, "outcome_ready")
  /\ \/ /\ exec[r.e].revision = r.rev
        /\ brk.revision = r.brk.revision
        /\ exec' = [exec EXCEPT ![r.e] = terminal_record(@,
             IF r.kind = "success" THEN "completed" ELSE "failed")]
        /\ brk' = [r.brk EXCEPT !.revision = @ + 1]
     \/ /\ exec[r.e].revision # r.rev \/ brk.revision # r.brk.revision
        /\ UNCHANGED <<exec, brk>>
  /\ Become(w, idle_worker)
  /\ UNCHANGED <<clock, conv, posts>>

-----------------------------------------------------------------------------
(* reconcile_ambiguous: close a running row whose claim ran out *)

StartReconcile(w, e) ==
  /\ At(w, "idle")
  /\ \E t \in Readings :
       Become(w, [idle_worker EXCEPT !.pc = "reconciling", !.e = e, !.now = t])
  /\ UNCHANGED <<clock, exec, brk, conv, posts>>

\* Mutant: reconciliation does not wait for the claim to run out.
ReconcilableAtOnce(x, now) == x.state = "running" /\ now >= x.started

Reconcilable(x, now) == x.state = "running" /\ now >= x.expires /\ now >= x.started

ReconcileLoadExecution(w) ==
  LET x == exec[wk[w].e] IN
  /\ At(w, "reconciling")
  /\ IF Reconcilable(x, wk[w].now)
       THEN Become(w, [wk[w] EXCEPT !.pc = "reconcile_loaded", !.rev = x.revision])
       ELSE Refuse(w)
  /\ UNCHANGED <<clock, exec, brk, conv, posts>>

CommitReconcile(w) ==
  LET r == wk[w] IN
  /\ At(w, "reconcile_loaded")
  /\ \/ /\ exec[r.e].revision = r.rev
        /\ exec' = [exec EXCEPT ![r.e] = terminal_record(@, "outcome_unknown")]
     \/ exec[r.e].revision # r.rev /\ UNCHANGED exec
  /\ Become(w, idle_worker)
  /\ UNCHANGED <<clock, brk, conv, posts>>

-----------------------------------------------------------------------------
(* ResearchReliabilityGate: other users of the same breaker row.  Load, apply,*)
(* compare-and-swap; a lost swap raises and changes nothing.                  *)

GateSaves(b) ==
  /\ brk.revision < MaxBreakerRevision
  /\ brk' = [b EXCEPT !.revision = @ + 1]
  /\ UNCHANGED <<clock, exec, conv, wk, posts>>

GateRecordFailure ==
  \E t \in Readings, k \in {"affecting", "neutral"} :
    GateSaves(record_failure(brk, k, t))

GateRecordSuccess ==
  /\ brk.state # "OPEN"
  /\ GateSaves(record_success(brk))

GatePermission ==
  \E t \in Readings :
    /\ advance_recovery(brk, t).state # brk.state
    /\ GateSaves(advance_recovery(brk, t))

-----------------------------------------------------------------------------
Tick ==
  /\ clock < MaxTime
  /\ clock' = clock + 1
  /\ UNCHANGED <<exec, brk, conv, wk, posts>>

\* The worker's process dies, or its database connection does.
Crash(w) ==
  /\ ~At(w, "idle")
  /\ Refuse(w)
  /\ UNCHANGED <<clock, exec, brk, conv, posts>>

ClaimStep(w) ==
  \/ ClaimLoadExecution(w) \/ ClaimLoadBreaker(w) \/ ClaimLoadConversation(w)
  \/ ClaimReloadExecution(w) \/ FinishClaim(w) \/ LoseClaim(w)
AttemptStep(w) ==
  \/ ReadStartClock(w) \/ BeginLoadExecution(w) \/ BeginLoadConversation(w)
  \/ BeginLoadBreaker(w) \/ BeginAttempt(w) \/ PostJson(w)
  \/ TransportReturns(w)
OutcomeStep(w) ==
  \/ OutcomeLoadExecution(w) \/ OutcomeLoadBreaker(w) \/ CommitOutcome(w)
ReconcileStep(w) == ReconcileLoadExecution(w) \/ CommitReconcile(w)
WorkerStep(w) ==
  ClaimStep(w) \/ AttemptStep(w) \/ OutcomeStep(w) \/ ReconcileStep(w)
ConversationStep(e) ==
  \/ Bind(e) \/ CancelAuthorization(e) \/ InvalidateAuthorization(e)
  \/ AppendTurn(e) \/ ExpireConversation(e)
GateStep == GateRecordFailure \/ GateRecordSuccess \/ GatePermission

Next ==
  \/ Tick
  \/ GateStep
  \/ \E e \in Executions : ConversationStep(e)
  \/ \E w \in Workers : WorkerStep(w) \/ Crash(w)
  \/ \E w \in Workers, e \in Executions : StartClaim(w, e) \/ StartReconcile(w, e)

Spec == Init /\ [][Next]_vars

-----------------------------------------------------------------------------
(* Properties *)

TypeOK ==
  /\ clock \in Nat
  /\ exec \in [Executions -> ExecutionRow]
  /\ brk \in BreakerRow
  /\ conv \in [Executions -> ConversationRow]
  /\ wk \in [Workers -> Worker]
  /\ posts \in [Executions -> Nat]
  /\ \A w \in Workers : ~At(w, "idle") => wk[w].e \in Executions

Unclaimed == {"absent", "prepared_unavailable"}

\* live_start_claim's docstring: "no partial execution claim ... and no
\* consumed authorization without the claim".  An authorization is consumed
\* exactly from the claim on: a pending, cancelled or invalidated one belongs
\* to an execution nobody claimed, whatever two racing claims, a cancellation
\* and a reclaim after expiry did in between.
ConsumedWithClaim ==
  \A e \in Executions :
    /\ conv[e].status = "consumed" => exec[e].state \notin Unclaimed
    /\ exec[e].state \notin Unclaimed => conv[e].status \in {"consumed", "missing"}

\* "Recovery does not replay HTTP": however claims expire, are replaced,
\* crash and are reconciled, an execution is posted at most once.
AtMostOnePost == \A e \in Executions : posts[e] <= 1

\* "does not invent success": a recorded success or failure has an HTTP call
\* behind it; an execution nobody started has none.
OutcomeNeedsPost ==
  \A e \in Executions :
    /\ exec[e].state \in {"completed", "failed"} => posts[e] = 1
    /\ posts[e] = 1 => exec[e].state \in {"running"} \cup Terminal

\* "If either lease has less than that budget left, the adapter returns
\* claim_budget_insufficient and does not call transport".
BudgetRefusalBeforeTransport ==
  \A w \in Workers : wk[w].result # "budget_after_transport"

\* "A stale capability cannot write a later outcome": a success or failure is
\* recorded only by the worker whose capability the row carries, with a
\* finish time inside the claim, and, if the breaker is HALF_OPEN, inside its
\* own probe lease.
OutcomeByHolder(e) ==
  \E w \in Workers :
    /\ wk[w].e = e
    /\ HoldsClaim(exec[e], wk[w].cap, wk[w].now)
    /\ brk.state = "HALF_OPEN" => /\ brk.probe = wk[w].probe
                                  /\ probe_lease_is_active(brk, wk[w].now)
StaleCapabilityRejected ==
  [][\A e \in Executions :
       exec[e].state # exec'[e].state /\ exec'[e].state \in {"completed", "failed"}
         => OutcomeByHolder(e)]_vars

\* "An unexpired claim blocks every other worker": a claim disappears before
\* its expiry only with the outcome of its holder.  Reclaim and
\* reconciliation wait for the expiry, up to the skew of the hosts' clocks.
LeaseRespected ==
  [][\A e \in Executions :
       (/\ exec[e].digest # 0
        /\ exec'[e].digest # exec[e].digest
        /\ exec'[e].state \notin {"completed", "failed"})
         => clock + Skew >= exec[e].expires]_vars

\* "HALF_OPEN allows one unexpired lease": a claim that takes the probe lease
\* takes it from nobody whose lease still runs, up to the skew of the hosts'
\* clocks, although it judged the breaker several reads before its commit.
ProbeLeaseRespected ==
  [][\A w \in Workers :
       (/\ wk[w].pc = "observed" /\ wk'[w].pc = "claimed" /\ wk'[w].probe # 0
        /\ brk.probe # 0)
         => clock + Skew >= brk.probe_expires]_vars

\* "Success does not close an OPEN breaker": a late success, or a late failure
\* of an attempt from before the opening, never closes it; it has to pass
\* through HALF_OPEN.
OpenNeverClosesDirectly ==
  [][brk.state = "OPEN" => brk'.state # "CLOSED"]_vars

-----------------------------------------------------------------------------
(* The detailed protocol implements the abstract promise. *)

Logical == INSTANCE LogicalExecution WITH
             state <- [e \in Executions |-> exec[e].state],
             auth <- [e \in Executions |-> conv[e].status]

\* Every interleaving of claims, crashes, reclaims, reconciliations and
\* conversation writes looks, per execution, like one logical execution that
\* is committed once, attempted once and recorded once.
OneLogicalExecution == Logical!LSpec

-----------------------------------------------------------------------------
(* The inductive invariant: what a worker's snapshot still says of the rows. *)

Started == {"running"} \cup Terminal
ClaimSnapshot == {"loaded", "gated", "resuming", "observed"}
BeginSnapshot == {"begin_loaded", "begin_authorized", "begin_ready"}
OutcomeSnapshot == {"outcome_loaded", "outcome_ready"}
Snapshot ==
  ClaimSnapshot \cup BeginSnapshot \cup OutcomeSnapshot \cup {"reconcile_loaded"}
Attempting == {"post", "posted"} \cup Finishing

\* The snapshot of worker r is never ahead of its row x, so an equal revision
\* means that the row has not moved since r judged it.
SnapshotBehind(r, x) == r.pc \in Snapshot => r.rev <= x.revision
SnapshotState(r, x) ==
  r.pc \in Snapshot /\ x.revision = r.rev =>
    /\ r.pc \in ClaimSnapshot => Claimable(x, r.now)
    /\ r.pc \in BeginSnapshot => x.state = "claimed_for_attempt"
    /\ r.pc \in OutcomeSnapshot =>
         x.state = "running" /\ HoldsClaim(x, r.cap, r.now)
    /\ r.pc = "reconcile_loaded" => Reconcilable(x, r.now)
\* A claim that resumes a consumed authorization resumes a claimed execution.
ResumeClaimed(r, x) ==
  r.pc = "resuming" \/ (r.pc = "observed" /\ r.ver = 0) => x.state \notin Unclaimed
\* Where an attempt stands tells how often its execution was posted.
AttemptPosts(r, x, n) ==
  r.pc \in Attempting => /\ x.state \in Started
                         /\ n = IF r.pc = "post" THEN 0 ELSE 1
WorkerFits(r, x, n) ==
  /\ SnapshotBehind(r, x)
  /\ SnapshotState(r, x)
  /\ ResumeClaimed(r, x)
  /\ AttemptPosts(r, x, n)

\* Execution row x, its conversation c and its n posts agree.
RowsAgree(x, c, n) ==
  /\ c.status # "missing" => c.version > 0
  /\ x.state = "absent" <=> x.revision = 0
  /\ c.status = "consumed" => x.state \notin Unclaimed
  /\ x.state \notin Unclaimed => c.status \in {"consumed", "missing"}
  /\ n \in {0, 1}
  /\ n = 1 => x.state \in Started
  /\ x.state \in {"completed", "failed"} => n = 1

\* One worker at a time is past the attempt start of an execution.
OneAttempt ==
  \A v, w \in Workers :
    (v # w /\ wk[v].pc \in Attempting /\ wk[w].pc \in Attempting)
      => wk[v].e # wk[w].e

\* Everything a safety proof needs to know of the protocol's memory: stored
\* rows that agree, snapshots that are stale or still true, one attempt.
ClaimInv ==
  /\ TypeOK
  /\ \A e \in Executions : RowsAgree(exec[e], conv[e], posts[e])
  /\ \A w \in Workers :
       ~At(w, "idle") => WorkerFits(wk[w], exec[wk[w].e], posts[wk[w].e])
  /\ OneAttempt

-----------------------------------------------------------------------------
(* The breaker and the leases. *)

\* A row the constructor accepts, which has failed often enough to have opened.
BreakerSound(b) ==
  /\ WellFormed(b)
  /\ b.state # "CLOSED" => b.count >= Threshold

\* What worker r is about to store over the stored breaker b it read.
Leasing(r) == r.pc \in {"gated", "resuming", "observed"} /\ r.probe # 0
Recording(r) == r.pc = "outcome_ready"
BreakerWritten(r, b) ==
  /\ BreakerSound(r.brk)
  /\ Leasing(r) => r.brk.state = "HALF_OPEN" /\ ~probe_lease_is_active(b, r.now)
  /\ Recording(r) => /\ ProbeReason(b, r.probe, r.now) = "ok"
                     /\ b.state = "OPEN" => r.brk.state # "CLOSED"

BreakerFits(r, b) ==
  /\ r.pc \in {"start", "loaded"} => r.probe = 0
  /\ Leasing(r) \/ Recording(r) =>
       /\ r.brk.revision <= b.revision
       /\ b.revision = r.brk.revision => BreakerWritten(r, b)

\* The stored breaker is always one its constructor accepts and never open
\* with too few failures: no orphan probe lease outlives HALF_OPEN.  A worker
\* that is about to replace it either lost the race or still judges the row
\* it read.
BreakerInv ==
  /\ BreakerSound(brk)
  /\ \A w \in Workers : BreakerFits(wk[w], brk)

\* No host is ahead of the reference clock by more than the skew, and a claim
\* digest exists only from the claim on.
LeaseInv ==
  /\ \A w \in Workers : wk[w].now <= clock + Skew
  /\ \A e \in Executions : exec[e].state \in Unclaimed => exec[e].digest = 0
=============================================================================
