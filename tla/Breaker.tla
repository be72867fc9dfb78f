------------------------------- MODULE Breaker -------------------------------
(***************************************************************************)
(* The persisted circuit breaker of one research provider and market:      *)
(* app/research/reliability_state.py.  A breaker is a record; the           *)
(* functions of that file are operators from a breaker and a clock reading  *)
(* to the next breaker.  opened_at, the last_* timestamps and updated_at    *)
(* are only reported, never tested by a transition, and are left out.       *)
(* A HALF_OPEN probe lease stores the digest of an opaque random            *)
(* capability; the digest is a natural number here and 0 is "no lease".     *)
(***************************************************************************)
EXTENDS Naturals

CONSTANTS
  Threshold,   \* BreakerPolicy.failure_threshold
  Window,      \* BreakerPolicy.recovery_window_ms, in clock ticks
  ProbeLease   \* HALF_OPEN_PROBE_LEASE, in clock ticks

ASSUME BreakerAssumption ==
  /\ Threshold \in Nat \ {0}
  /\ Window \in Nat \ {0}
  /\ ProbeLease \in Nat \ {0}

BreakerState == {"CLOSED", "OPEN", "HALF_OPEN"}

\* A stored row, or (revision 0) the closed state of an absent row.
BreakerRow ==
  [state: BreakerState, count: Nat, reopen_at: Nat,
   probe: Nat, probe_expires: Nat, revision: Nat]

closed_reliability_state ==
  [state |-> "CLOSED", count |-> 0, reopen_at |-> 0,
   probe |-> 0, probe_expires |-> 0, revision |-> 0]

\* What one finished attempt says of the provider: a success, a failure that
\* counts (timeout, unavailable, unknown) or one that does not (rate limit,
\* quota, credential, kill switch, circuit open, partial).
OutcomeKind == {"success", "affecting", "neutral"}

\* The constructor refuses any other row, so an operation that built one
\* would raise instead of storing its result.
WellFormed(b) ==
  /\ b.probe # 0 => b.state = "HALF_OPEN" /\ b.probe_expires > 0
  /\ b.state = "OPEN" => b.count >= 1 /\ b.reopen_at > 0
  /\ b.state = "CLOSED" => b.reopen_at = 0

advance_recovery(b, now) ==
  IF b.state = "OPEN" /\ now >= b.reopen_at
    THEN [b EXCEPT !.state = "HALF_OPEN"]
    ELSE b

no_probe_lease(b) == [b EXCEPT !.probe = 0, !.probe_expires = 0]

\* Mutant: reopening forgets to drop the lease of the failed probe.
record_failure_keeping_lease(b, kind, now) ==
  LET current == advance_recovery(b, now) IN
  IF kind = "neutral" THEN current
    ELSE [current EXCEPT !.count = @ + 1, !.state = "OPEN",
                         !.reopen_at = now + Window]

record_failure(b, kind, now) ==
  LET current == advance_recovery(b, now)
      counted == [no_probe_lease(current) EXCEPT !.count = @ + 1]
      opens   == current.state = "HALF_OPEN" \/ counted.count >= Threshold
  IN  IF kind = "neutral" THEN current
      ELSE IF opens
        THEN [counted EXCEPT !.state = "OPEN", !.reopen_at = now + Window]
        ELSE [counted EXCEPT !.state = "CLOSED", !.reopen_at = 0]

record_success(b) ==
  IF b.state = "OPEN"
    THEN b
    ELSE [no_probe_lease(b) EXCEPT !.state = "CLOSED", !.count = 0,
                                   !.reopen_at = 0]

probe_lease_is_active(b, now) ==
  b.state = "HALF_OPEN" /\ b.probe # 0 /\ now < b.probe_expires

\* Only called on an advanced HALF_OPEN breaker without an active lease.
apply_half_open_probe_lease(b, now, capability) ==
  [b EXCEPT !.probe = capability, !.probe_expires = now + ProbeLease]
=============================================================================
