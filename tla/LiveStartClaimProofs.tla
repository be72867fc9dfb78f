------------------------ MODULE LiveStartClaimProofs ------------------------
(***************************************************************************)
(* The safety of the live-start protocol for every number of workers and    *)
(* executions, every lease, budget, skew and bound.  ClaimInv is inductive; *)
(* the promises of the docstrings follow from it.  BreakerInv (what is      *)
(* stored in the breaker row) and LeaseInv (what the leases protect) are    *)
(* inductive on top of it.                                                  *)
(***************************************************************************)
EXTENDS LiveStartClaim, TLAPS

-----------------------------------------------------------------------------
(* The operators of reliability_state.py build breaker rows. *)

\* Advancing the recovery or dropping a lease of a stored breaker gives a
\* breaker row (advance_recovery, _NO_PROBE_LEASE).
LEMMA AdvanceType ==
  ASSUME NEW b \in BreakerRow, NEW now \in Nat
  PROVE  /\ advance_recovery(b, now) \in BreakerRow
         /\ no_probe_lease(b) \in BreakerRow
  BY DEF advance_recovery, no_probe_lease, BreakerRow, BreakerState

\* A recorded failure or success is a breaker row again (record_failure,
\* record_success).
LEMMA RecordType ==
  ASSUME NEW b \in BreakerRow, NEW now \in Nat, NEW kind \in OutcomeKind
  PROVE  /\ record_failure(b, kind, now) \in BreakerRow
         /\ record_success(b) \in BreakerRow
  <1> DEFINE current == advance_recovery(b, now)
             counted == [no_probe_lease(current) EXCEPT !.count = @ + 1]
  <1>1. current \in BreakerRow
    BY AdvanceType
  <1>2. no_probe_lease(current) \in BreakerRow
    BY <1>1 DEF no_probe_lease, BreakerRow, BreakerState
  <1>3. counted \in BreakerRow
    BY <1>2 DEF BreakerRow
  <1>4. now + Window \in Nat
    BY BreakerAssumption DEF BreakerAssumption
  <1>5. record_failure(b, kind, now) \in BreakerRow
    <2> HIDE DEF current, counted
    <2>1. /\ [counted EXCEPT !.state = "OPEN", !.reopen_at = now + Window] \in BreakerRow
          /\ [counted EXCEPT !.state = "CLOSED", !.reopen_at = 0] \in BreakerRow
      BY <1>3, <1>4 DEF BreakerRow, BreakerState
    <2> QED BY <1>1, <2>1 DEF record_failure, current, counted
  <1>6. record_success(b) \in BreakerRow
    BY AdvanceType DEF record_success, no_probe_lease, BreakerRow, BreakerState
  <1> QED BY <1>5, <1>6

\* So is a leased breaker, and what an outcome makes of a breaker
\* (apply_half_open_probe_lease, _next_breaker).
LEMMA LeaseType ==
  ASSUME NEW b \in BreakerRow, NEW now \in Nat, NEW kind \in OutcomeKind,
         NEW token \in Nat
  PROVE  /\ apply_half_open_probe_lease(b, now, token) \in BreakerRow
         /\ next_breaker(b, kind, now) \in BreakerRow
  <1>1. apply_half_open_probe_lease(b, now, token) \in BreakerRow
    <2>1. now + ProbeLease \in Nat
      BY BreakerAssumption DEF BreakerAssumption
    <2> QED BY <2>1 DEF apply_half_open_probe_lease, BreakerRow
  <1>2. next_breaker(b, kind, now) \in BreakerRow
    BY RecordType, AdvanceType DEF next_breaker
  <1> QED BY <1>1, <1>2

-----------------------------------------------------------------------------
(* Steps that read rows, and steps that move one row. *)

USE DEF At, Become

\* The record a refusal leaves behind is a worker (idle_worker).
LEMMA IdleType ==
  /\ idle_worker \in Worker
  /\ idle_worker.pc = "idle"
  <1>1. closed_reliability_state \in BreakerRow
    BY DEF closed_reliability_state, BreakerRow, BreakerState
  <1> QED BY <1>1 DEF idle_worker, Worker, Control, OutcomeKind, Result

\* A clock reading is a natural number (_read_clock).
LEMMA ReadingType ==
  ASSUME NEW t \in Readings
  PROVE  t \in Nat
  BY ClaimAssumption DEF ClaimAssumption, Readings

\* A row that moves on makes every snapshot of it stale: what other workers
\* remember stays consistent (cas_replace assigns the next revision).
LEMMA MovedRow ==
  ASSUME NEW r \in Worker, NEW x \in ExecutionRow, NEW y \in ExecutionRow, NEW n,
         WorkerFits(r, x, n),
         y.revision = x.revision + 1,
         x.state \notin Unclaimed => y.state \notin Unclaimed,
         x.state \in Started => y.state \in Started
  PROVE  WorkerFits(r, y, n)
  <1>1. /\ r.rev \in Nat /\ x.revision \in Nat /\ y.revision \in Nat
    BY DEF Worker, ExecutionRow
  <1>2. SnapshotBehind(r, y) /\ SnapshotState(r, y)
    BY <1>1 DEF WorkerFits, SnapshotBehind, SnapshotState
  <1>3. ResumeClaimed(r, y) /\ AttemptPosts(r, y, n)
    BY DEF WorkerFits, ResumeClaimed, AttemptPosts
  <1> QED BY <1>2, <1>3 DEF WorkerFits

\* A step that only changes what one worker remembers keeps the invariant if
\* the new memory fits its row and the worker does not start an attempt.
LEMMA LocalStep ==
  ASSUME ClaimInv, NEW w \in Workers, NEW r \in Worker,
         UNCHANGED <<exec, conv, posts>>, clock' \in Nat, brk' \in BreakerRow,
         Become(w, r),
         r.pc # "idle" =>
           r.e \in Executions /\ WorkerFits(r, exec[r.e], posts[r.e]),
         r.pc \in Attempting => wk[w].pc \in Attempting /\ wk[w].e = r.e
  PROVE  ClaimInv'
  <1>1. wk \in [Workers -> Worker]
    BY DEF ClaimInv, TypeOK
  <1>2. /\ wk' \in [Workers -> Worker]
        /\ wk'[w] = r
        /\ \A v \in Workers : v # w => wk'[v] = wk[v]
    BY <1>1
  <1>3. TypeOK'
    BY <1>2 DEF ClaimInv, TypeOK
  <1>4. \A v \in Workers :
          ~At(v, "idle")' => WorkerFits(wk'[v], exec[wk'[v].e], posts[wk'[v].e])
    BY <1>2 DEF ClaimInv
  <1>5. OneAttempt'
    BY <1>2 DEF ClaimInv, OneAttempt
  <1>6. \A e \in Executions : RowsAgree(exec[e], conv[e], posts[e])
    BY DEF ClaimInv
  <1> QED
    <2> SUFFICES /\ \A e \in Executions : RowsAgree(exec'[e], conv'[e], posts'[e])
                 /\ \A v \in Workers : ~At(v, "idle")' =>
                      WorkerFits(wk'[v], exec'[wk'[v].e], posts'[wk'[v].e])
      BY <1>3, <1>5 DEF ClaimInv
    <2> QED BY <1>4, <1>6

\* A refusal and a crash forget everything and change no row.
LEMMA RefuseStep ==
  ASSUME ClaimInv, NEW w \in Workers, NEW r,
         r \in {idle_worker, [idle_worker EXCEPT !.result = "budget_after_transport"]},
         UNCHANGED <<exec, conv, posts>>, clock' = clock, brk' = brk, Become(w, r)
  PROVE  ClaimInv'
  <1>1. r \in Worker /\ r.pc = "idle"
    BY IdleType DEF Worker, Result, idle_worker
  <1>2. r.pc \notin Attempting
    BY <1>1 DEF Attempting, Finishing
  <1>3. clock' \in Nat /\ brk' \in BreakerRow
    BY DEF ClaimInv, TypeOK
  <1> QED BY <1>1, <1>2, <1>3, LocalStep

\* A commit that moves one execution row to its next revision, by the worker
\* that ends up with memory r.
LEMMA RowStep ==
  ASSUME ClaimInv, NEW w \in Workers, NEW r \in Worker, NEW e \in Executions,
         NEW x \in ExecutionRow, NEW c \in ConversationRow,
         exec' = [exec EXCEPT ![e] = x], conv' = [conv EXCEPT ![e] = c],
         UNCHANGED <<clock, posts>>, brk' \in BreakerRow, Become(w, r),
         x.revision = exec[e].revision + 1,
         exec[e].state \notin Unclaimed => x.state \notin Unclaimed,
         exec[e].state \in Started => x.state \in Started,
         RowsAgree(x, c, posts[e]),
         r.pc # "idle" => r.e = e /\ WorkerFits(r, x, posts[e]),
         r.pc \in Attempting => exec[e].state \notin Started
  PROVE  ClaimInv'
  <1>1. /\ wk \in [Workers -> Worker]
        /\ exec \in [Executions -> ExecutionRow]
        /\ conv \in [Executions -> ConversationRow]
        /\ posts \in [Executions -> Nat]
        /\ \A v \in Workers : ~At(v, "idle") => wk[v].e \in Executions
    BY DEF ClaimInv, TypeOK
  <1>2. /\ wk' \in [Workers -> Worker]
        /\ wk'[w] = r
        /\ \A v \in Workers : v # w => wk'[v] = wk[v]
    BY <1>1
  <1>3. /\ exec' \in [Executions -> ExecutionRow] /\ exec'[e] = x
        /\ \A d \in Executions : d # e => exec'[d] = exec[d]
    BY <1>1
  <1>4. /\ conv' \in [Executions -> ConversationRow] /\ conv'[e] = c
        /\ \A d \in Executions : d # e => conv'[d] = conv[d]
    BY <1>1
  <1>5. TypeOK'
    BY <1>1, <1>2, <1>3, <1>4 DEF ClaimInv, TypeOK
  <1>6. ASSUME NEW d \in Executions
        PROVE  RowsAgree(exec'[d], conv'[d], posts[d])
    BY <1>3, <1>4 DEF ClaimInv
  <1>7. ASSUME NEW v \in Workers, wk'[v].pc # "idle"
        PROVE  WorkerFits(wk'[v], exec'[wk'[v].e], posts[wk'[v].e])
    <2>1. CASE v = w
      BY <2>1, <1>2, <1>3, <1>7
    <2>2. CASE v # w
      <3>1. /\ wk'[v] = wk[v] /\ wk[v].e \in Executions /\ wk[v] \in Worker
            /\ WorkerFits(wk[v], exec[wk[v].e], posts[wk[v].e])
        BY <2>2, <1>1, <1>2, <1>7 DEF ClaimInv
      <3>2. CASE wk[v].e = e
        <4>1. exec[e] \in ExecutionRow
          BY <1>1
        <4>2. WorkerFits(wk[v], x, posts[e])
          BY <3>1, <3>2, <4>1, MovedRow
        <4> QED BY <3>1, <3>2, <4>2, <1>3
      <3>3. CASE wk[v].e # e
        BY <3>1, <3>3, <1>3
      <3> QED BY <3>2, <3>3
    <2> QED BY <2>1, <2>2
  <1>8. ASSUME NEW u \in Workers, NEW v \in Workers, u # v,
               wk'[u].pc \in Attempting, wk'[v].pc \in Attempting
        PROVE  wk'[u].e # wk'[v].e
    <2>1. ASSUME NEW y \in Workers, y # w, wk[y].pc \in Attempting,
                 r.pc \in Attempting
          PROVE  wk[y].e # r.e
      <3>1. wk[y].pc # "idle" /\ r.pc # "idle"
        BY <2>1 DEF Attempting, Finishing
      <3>2. exec[wk[y].e].state \in Started
        BY <2>1, <3>1 DEF ClaimInv, WorkerFits, AttemptPosts
      <3> QED BY <2>1, <3>1, <3>2
    <2> QED BY <2>1, <1>2, <1>8 DEF ClaimInv, OneAttempt
  <1> QED
    <2>1. OneAttempt'
      BY <1>8 DEF OneAttempt
    <2>2. /\ \A d \in Executions : RowsAgree(exec'[d], conv'[d], posts'[d])
          /\ \A v \in Workers : ~At(v, "idle")' =>
               WorkerFits(wk'[v], exec'[wk'[v].e], posts'[wk'[v].e])
      BY <1>6, <1>7
    <2> QED BY <1>5, <2>1, <2>2 DEF ClaimInv

-----------------------------------------------------------------------------
(* Every action keeps ClaimInv. *)

\* The types ClaimInv gives to what worker w reads.
LEMMA WorkerType ==
  ASSUME ClaimInv, NEW w \in Workers
  PROVE  /\ wk[w] \in Worker
         /\ clock \in Nat /\ brk \in BreakerRow
         /\ wk[w].pc # "idle" =>
              /\ wk[w].e \in Executions
              /\ exec[wk[w].e] \in ExecutionRow
              /\ conv[wk[w].e] \in ConversationRow
              /\ RowsAgree(exec[wk[w].e], conv[wk[w].e], posts[wk[w].e])
              /\ WorkerFits(wk[w], exec[wk[w].e], posts[wk[w].e])
  BY DEF ClaimInv, TypeOK

\* Preparation and the other turns of a conversation: no worker moves, and an
\* absent row has no snapshot (bind, append_turn, cancel, cleanup_expired).
LEMMA ConversationInv ==
  ASSUME ClaimInv, NEW e \in Executions, ConversationStep(e)
  PROVE  ClaimInv'
  <1>1. /\ exec \in [Executions -> ExecutionRow]
        /\ conv \in [Executions -> ConversationRow]
        /\ RowsAgree(exec[e], conv[e], posts[e])
    BY DEF ClaimInv, TypeOK
  <1>2. CASE Bind(e)
    <2> DEFINE x == [exec[e] EXCEPT !.state = "prepared_unavailable", !.revision = 1]
    <2>1. x \in ExecutionRow
      BY <1>1 DEF ExecutionRow, ExecutionState
    <2>2. /\ exec' \in [Executions -> ExecutionRow]
          /\ exec'[e] = x
          /\ \A d \in Executions : d # e => exec'[d] = exec[d]
      BY <1>1, <1>2, <2>1 DEF Bind, ExecutionRow
    <2>3. TypeOK'
      BY <1>2, <2>2 DEF Bind, ClaimInv, TypeOK
    <2>4. \A d \in Executions : RowsAgree(exec'[d], conv[d], posts[d])
      <3>1. RowsAgree(x, conv[e], posts[e])
        BY <1>1, <1>2 DEF Bind, RowsAgree, Unclaimed, Started, Terminal, ExecutionRow
      <3> QED BY <3>1, <2>2 DEF ClaimInv
    <2>5. ASSUME NEW w \in Workers, wk[w].pc # "idle"
          PROVE  WorkerFits(wk[w], exec'[wk[w].e], posts[wk[w].e])
      <3>1. CASE wk[w].e = e
        <4>1. WorkerFits(wk[w], exec[e], posts[e]) /\ wk[w] \in Worker
          BY <2>5, <3>1, WorkerType
        <4>2. /\ exec[e].revision = 0 /\ x.revision = 1 /\ exec[e] \in ExecutionRow
              /\ exec[e].state \in Unclaimed /\ exec[e].state \notin Started
          BY <1>1, <1>2 DEF Bind, RowsAgree, ExecutionRow, Unclaimed, Started, Terminal
        <4>3. WorkerFits(wk[w], x, posts[e])
          <5> HIDE DEF x
          <5> QED BY <2>1, <4>1, <4>2, MovedRow
        <4> QED BY <3>1, <4>3, <2>2
      <3>2. CASE wk[w].e # e
        BY <2>2, <2>5, <3>2, WorkerType
      <3> QED BY <3>1, <3>2
    <2> HIDE DEF x
    <2>6. /\ \A d \in Executions : RowsAgree(exec'[d], conv'[d], posts'[d])
          /\ \A w \in Workers : ~At(w, "idle")' =>
               WorkerFits(wk'[w], exec'[wk'[w].e], posts'[wk'[w].e])
          /\ OneAttempt'
      BY <1>2, <2>4, <2>5 DEF Bind, ClaimInv, OneAttempt
    <2> QED BY <2>3, <2>6 DEF ClaimInv
  <1>3. ASSUME NEW c \in ConversationRow, conv' = [conv EXCEPT ![e] = c],
               RowsAgree(exec[e], c, posts[e]),
               UNCHANGED <<clock, exec, brk, wk, posts>>
        PROVE  ClaimInv'
    <2>1. /\ conv' \in [Executions -> ConversationRow]
          /\ conv'[e] = c
          /\ \A d \in Executions : d # e => conv'[d] = conv[d]
      BY <1>1, <1>3
    <2>2. TypeOK' /\ OneAttempt'
      BY <1>3, <2>1 DEF ClaimInv, TypeOK, OneAttempt
    <2>3. /\ \A d \in Executions : RowsAgree(exec'[d], conv'[d], posts'[d])
          /\ \A w \in Workers : ~At(w, "idle")' =>
               WorkerFits(wk'[w], exec'[wk'[w].e], posts'[wk'[w].e])
      BY <1>3, <2>1 DEF ClaimInv
    <2> QED BY <2>2, <2>3 DEF ClaimInv
  <1>4. ASSUME NEW s \in AuthorizationStatus, WriteConversation(e, s),
               s # conv[e].status =>
                 /\ conv[e].status = "authorized_pending_execution"
                 /\ s \in {"cancelled", "invalidated"}
        PROVE  ClaimInv'
    <2> DEFINE c == [version |-> conv[e].version + 1, status |-> s]
    <2>1. c \in ConversationRow
      BY <1>1 DEF ConversationRow
    <2>2. RowsAgree(exec[e], c, posts[e])
      BY <1>1, <1>4 DEF RowsAgree, ConversationRow, Unclaimed, WriteConversation
    <2>3. conv' = [conv EXCEPT ![e] = c]
      BY <1>1, <1>4 DEF WriteConversation
    <2> HIDE DEF c
    <2> QED BY <1>3, <1>4, <2>1, <2>2, <2>3 DEF WriteConversation
  <1>5. CASE CancelAuthorization(e)
    BY <1>4, <1>5 DEF CancelAuthorization, AuthorizationStatus
  <1>6. CASE InvalidateAuthorization(e)
    BY <1>4, <1>6 DEF InvalidateAuthorization, AuthorizationStatus
  <1>7. CASE AppendTurn(e)
    BY <1>1, <1>4, <1>7 DEF AppendTurn, ConversationRow
  <1>8. CASE ExpireConversation(e)
    <2> DEFINE c == [version |-> 0, status |-> "missing"]
    <2>1. c \in ConversationRow
      BY DEF ConversationRow, AuthorizationStatus
    <2>2. RowsAgree(exec[e], c, posts[e])
      BY <1>1 DEF RowsAgree
    <2> HIDE DEF c
    <2> QED BY <1>3, <1>8, <2>1, <2>2 DEF ExpireConversation, c
  <1> QED BY <1>2, <1>5, <1>6, <1>7, <1>8 DEF ConversationStep

\* Deciding on a claim: each read is remembered with the revision it saw
\* (_observe_claim, _authorization_commitment).
LEMMA ClaimReadInv ==
  ASSUME ClaimInv, NEW w \in Workers,
         \/ ClaimLoadExecution(w) \/ ClaimLoadBreaker(w)
         \/ ClaimLoadConversation(w) \/ ClaimReloadExecution(w) \/ LoseClaim(w)
  PROVE  ClaimInv'
  <1> DEFINE r == wk[w]
             x == exec[r.e]
  <1>1. /\ r \in Worker /\ clock \in Nat /\ brk \in BreakerRow
        /\ r.pc # "idle" =>
             /\ r.e \in Executions /\ x \in ExecutionRow
             /\ conv[r.e] \in ConversationRow
             /\ RowsAgree(x, conv[r.e], posts[r.e])
             /\ WorkerFits(r, x, posts[r.e])
    BY WorkerType
  <1>2. ASSUME NEW q \in Worker, Become(w, q), UNCHANGED <<clock, exec, brk, conv, posts>>,
               q.pc \in ClaimSnapshot, q.e = r.e, r.e \in Executions,
               WorkerFits(q, x, posts[r.e])
        PROVE  ClaimInv'
    <2>1. q.pc \notin Attempting
      BY <1>2 DEF ClaimSnapshot, Attempting, Finishing
    <2> QED BY <1>1, <1>2, <2>1, LocalStep
  <1>3. ASSUME Refuse(w), UNCHANGED <<clock, exec, brk, conv, posts>>
        PROVE  ClaimInv'
    BY <1>3, RefuseStep DEF Refuse
  <1>4. CASE ClaimLoadExecution(w)
    <2> DEFINE q == [r EXCEPT !.pc = "loaded", !.rev = x.revision]
    <2>1. r.pc # "idle"
      BY <1>4 DEF ClaimLoadExecution
    <2>2. CASE Claimable(x, r.now)
      <3>1. q \in Worker /\ q.pc \in ClaimSnapshot /\ q.e = r.e
        BY <1>1, <2>1 DEF Worker, ExecutionRow, Control, Claiming, ClaimSnapshot
      <3>2. WorkerFits(q, x, posts[r.e])
        BY <1>1, <2>1, <2>2 DEF WorkerFits, SnapshotBehind, SnapshotState, ResumeClaimed,
             AttemptPosts, Snapshot, ClaimSnapshot, BeginSnapshot, OutcomeSnapshot,
             Attempting, Finishing, Worker, ExecutionRow
      <3>3. Become(w, q)
        BY <1>4, <2>2 DEF ClaimLoadExecution
      <3> HIDE DEF q
      <3> QED BY <1>1, <1>2, <1>4, <2>1, <3>1, <3>2, <3>3 DEF ClaimLoadExecution
    <2>3. CASE ~Claimable(x, r.now)
      BY <1>3, <1>4, <2>3 DEF ClaimLoadExecution
    <2> QED BY <2>2, <2>3
  <1>5. CASE ClaimLoadBreaker(w)
    <2> DEFINE b == advance_recovery(brk, r.now)
               token == b.revision + 1
               p == [r EXCEPT !.pc = "gated"]
               q == [r EXCEPT !.pc = "gated", !.probe = token,
                       !.brk = apply_half_open_probe_lease(b, r.now, token)]
    <2>1. r.pc = "loaded" /\ r.now \in Nat
      BY <1>1, <1>5 DEF ClaimLoadBreaker, Worker
    <2>2. b \in BreakerRow /\ token \in Nat
      <3>1. b \in BreakerRow
        BY <1>1, <2>1, AdvanceType
      <3> QED BY <3>1 DEF BreakerRow
    <2>3. apply_half_open_probe_lease(b, r.now, token) \in BreakerRow
      <3> HIDE DEF b, token
      <3> QED BY <2>1, <2>2, LeaseType DEF OutcomeKind
    <2>4. p \in Worker /\ q \in Worker
      <3> HIDE DEF b, token
      <3> QED BY <1>1, <2>2, <2>3 DEF Worker, Control, Claiming
    <2>5. WorkerFits(p, x, posts[r.e]) /\ WorkerFits(q, x, posts[r.e])
      <3> HIDE DEF b, token
      <3> QED BY <1>1, <2>1 DEF WorkerFits, SnapshotBehind, SnapshotState, ResumeClaimed,
             AttemptPosts, Snapshot, ClaimSnapshot, BeginSnapshot, OutcomeSnapshot,
             Attempting, Finishing, Worker, Claiming
    <2>6. /\ p.pc \in ClaimSnapshot /\ p.e = r.e
          /\ q.pc \in ClaimSnapshot /\ q.e = r.e
      BY <1>1 DEF Worker, ClaimSnapshot
    <2>7. Become(w, p) \/ Become(w, q) \/ Refuse(w)
      BY <1>5 DEF ClaimLoadBreaker
    <2> HIDE DEF p, q
    <2> QED BY <1>1, <1>2, <1>3, <1>5, <2>1, <2>4, <2>5, <2>6, <2>7 DEF ClaimLoadBreaker
  <1>6. CASE ClaimLoadConversation(w)
    <2> DEFINE c == conv[r.e]
               p == [r EXCEPT !.pc = "observed", !.ver = c.version]
               q == [r EXCEPT !.pc = "resuming"]
    <2>1. r.pc = "gated"
      BY <1>6 DEF ClaimLoadConversation
    <2>2. p \in Worker /\ q \in Worker
      BY <1>1, <2>1 DEF Worker, Control, Claiming, ConversationRow
    <2>3. /\ p.pc \in ClaimSnapshot /\ p.e = r.e
          /\ q.pc \in ClaimSnapshot /\ q.e = r.e
      BY <1>1 DEF Worker, ClaimSnapshot
    <2>4. c.status = "authorized_pending_execution" => WorkerFits(p, x, posts[r.e])
      BY <1>1, <2>1 DEF WorkerFits, SnapshotBehind, SnapshotState, ResumeClaimed,
           AttemptPosts, Snapshot, ClaimSnapshot, BeginSnapshot, OutcomeSnapshot,
           Attempting, Finishing, Worker, RowsAgree, ConversationRow
    <2>5. c.status = "consumed" => WorkerFits(q, x, posts[r.e])
      BY <1>1, <2>1 DEF WorkerFits, SnapshotBehind, SnapshotState, ResumeClaimed,
           AttemptPosts, Snapshot, ClaimSnapshot, BeginSnapshot, OutcomeSnapshot,
           Attempting, Finishing, Worker, RowsAgree
    <2>6. \/ c.status = "authorized_pending_execution" /\ Become(w, p)
          \/ c.status = "consumed" /\ Become(w, q)
          \/ Refuse(w)
      BY <1>6 DEF ClaimLoadConversation
    <2> HIDE DEF p, q
    <2> QED BY <1>1, <1>2, <1>3, <1>6, <2>1, <2>2, <2>3, <2>4, <2>5, <2>6
            DEF ClaimLoadConversation
  <1>7. CASE ClaimReloadExecution(w)
    <2> DEFINE q == [r EXCEPT !.pc = "observed"]
    <2>1. r.pc = "resuming"
      BY <1>7 DEF ClaimReloadExecution
    <2>2. q \in Worker /\ q.pc \in ClaimSnapshot /\ q.e = r.e
      BY <1>1 DEF Worker, Control, Claiming, ClaimSnapshot
    <2>3. WorkerFits(q, x, posts[r.e])
      BY <1>1, <2>1 DEF WorkerFits, SnapshotBehind, SnapshotState, ResumeClaimed,
           AttemptPosts, Snapshot, ClaimSnapshot, BeginSnapshot, OutcomeSnapshot,
           Attempting, Finishing, Worker
    <2>4. Become(w, q) \/ Refuse(w)
      BY <1>7 DEF ClaimReloadExecution
    <2> HIDE DEF q
    <2> QED BY <1>1, <1>2, <1>3, <1>7, <2>1, <2>2, <2>3, <2>4 DEF ClaimReloadExecution
  <1>8. CASE LoseClaim(w)
    BY <1>3, <1>8 DEF LoseClaim
  <1> QED BY <1>4, <1>5, <1>6, <1>7, <1>8

\* What the three writers of an execution row store is a row at the next
\* revision (apply_execution_claim, _begin_attempt, _terminal_record).
LEMMA WrittenRow ==
  ASSUME NEW x \in ExecutionRow, NEW now \in Nat, NEW cap \in Nat, NEW s \in Terminal
  PROVE  /\ apply_execution_claim(x, now, cap) \in ExecutionRow
         /\ apply_execution_claim(x, now, cap).state = "claimed_for_attempt"
         /\ apply_execution_claim(x, now, cap).revision = x.revision + 1
         /\ running_record(x, now) \in ExecutionRow
         /\ running_record(x, now).state = "running"
         /\ running_record(x, now).revision = x.revision + 1
         /\ terminal_record(x, s) \in ExecutionRow
         /\ terminal_record(x, s).state = s
         /\ terminal_record(x, s).revision = x.revision + 1
  <1>1. now + ClaimLease \in Nat /\ x.revision + 1 \in Nat
    BY ClaimAssumption DEF ClaimAssumption, ExecutionRow
  <1>2. {"claimed_for_attempt", "running", s} \subseteq ExecutionState
    BY DEF ExecutionState
  <1> QED BY <1>1, <1>2 DEF apply_execution_claim, running_record, terminal_record, ExecutionRow

\* The claim commit: prepared or run out becomes claimed, and a pending
\* authorization is consumed in the same transaction (_finish).
LEMMA FinishClaimInv ==
  ASSUME ClaimInv, NEW w \in Workers, FinishClaim(w)
  PROVE  ClaimInv'
  <1> DEFINE r == wk[w]
             x == exec[r.e]
             y == apply_execution_claim(x, r.now, r.rev + 1)
             c == IF r.ver # 0
                    THEN [version |-> r.ver + 1, status |-> "consumed"]
                    ELSE conv[r.e]
             q == [idle_worker EXCEPT !.pc = "claimed", !.e = r.e,
                     !.cap = r.rev + 1, !.probe = r.probe]
  <1>1. r.pc = "observed" /\ ClaimSwapsHold(r)
    BY DEF FinishClaim
  <1>2. /\ r \in Worker /\ r.e \in Executions /\ x \in ExecutionRow
        /\ conv[r.e] \in ConversationRow /\ brk \in BreakerRow
        /\ RowsAgree(x, conv[r.e], posts[r.e])
        /\ WorkerFits(r, x, posts[r.e])
    BY <1>1, WorkerType
  <1>3. x.revision = r.rev /\ Claimable(x, r.now)
    BY <1>1, <1>2 DEF ClaimSwapsHold, WorkerFits, SnapshotState, Snapshot, ClaimSnapshot
  <1>4. y \in ExecutionRow /\ y.revision = x.revision + 1 /\ y.state = "claimed_for_attempt"
    <2>1. r.now \in Nat /\ r.rev + 1 \in Nat /\ "failed" \in Terminal
      BY <1>2 DEF Worker, Terminal
    <2> HIDE DEF r, x
    <2> QED BY <1>2, <2>1, WrittenRow
  <1>5. c \in ConversationRow
    BY <1>2 DEF ConversationRow, AuthorizationStatus, Worker
  <1>6. q \in Worker /\ q.pc = "claimed" /\ q.e = r.e
    <2> HIDE DEF r
    <2>1. /\ r.e \in Executions /\ r.rev + 1 \in Nat /\ r.probe \in Nat
          /\ r.brk.probe_expires \in Nat
      BY <1>2 DEF Worker, BreakerRow
    <2> QED BY <2>1, IdleType DEF Worker, Control
  <1>7. brk' \in BreakerRow
    BY <1>2 DEF FinishClaim, Worker, BreakerRow
  <1>8. /\ exec' = [exec EXCEPT ![r.e] = y]
        /\ conv' = [conv EXCEPT ![r.e] = c]
    <2>1. exec' = [exec EXCEPT ![r.e] = y]
      BY DEF FinishClaim
    <2>2. conv' = [conv EXCEPT ![r.e] = c]
      <3>1. conv \in [Executions -> ConversationRow]
        BY DEF ClaimInv, TypeOK
      <3> QED BY <1>2, <3>1 DEF FinishClaim
    <2> QED BY <2>1, <2>2
  <1>9. x.state \notin Started
    BY <1>3 DEF Claimable, ClaimIsActive, Started, Terminal
  <1>10. RowsAgree(y, c, posts[r.e])
    <2>1. r.ver = 0 => conv[r.e].status \in {"consumed", "missing"}
      BY <1>1, <1>2 DEF WorkerFits, ResumeClaimed, RowsAgree
    <2>2. posts[r.e] = 0
      BY <1>2, <1>9 DEF RowsAgree
    <2> HIDE DEF y
    <2>3. r.ver \in Nat /\ x.revision \in Nat
      BY <1>2 DEF Worker, ExecutionRow
    <2> QED BY <1>2, <1>4, <2>1, <2>2, <2>3 DEF RowsAgree, Unclaimed, Started, Terminal
  <1>11. WorkerFits(q, y, posts[r.e]) /\ q.pc \notin Attempting
    BY <1>6 DEF WorkerFits, SnapshotBehind, SnapshotState, ResumeClaimed,
         AttemptPosts, Snapshot, ClaimSnapshot, BeginSnapshot, OutcomeSnapshot,
         Attempting, Finishing
  <1>12. y.state \notin Unclaimed
    BY <1>4 DEF Unclaimed
  <1>13. Become(w, q) /\ UNCHANGED <<clock, posts>>
    BY DEF FinishClaim
  <1> HIDE DEF c, q, y
  <1> QED BY <1>2, <1>4, <1>5, <1>6, <1>7, <1>8, <1>9, <1>10, <1>11, <1>12, <1>13, RowStep

\* A step that keeps a worker in a phase without a snapshot and outside an
\* attempt needs nothing of its row.
LEMMA FreshWorker ==
  ASSUME NEW r, NEW x, NEW n, r.pc \in {"start", "claimed", "starting", "reconciling"}
  PROVE  WorkerFits(r, x, n) /\ r.pc \notin Attempting
  BY DEF WorkerFits, SnapshotBehind, SnapshotState, ResumeClaimed, AttemptPosts,
       Snapshot, ClaimSnapshot, BeginSnapshot, OutcomeSnapshot, Attempting, Finishing

\* Starting a claim or a reconciliation: a new worker record and a clock
\* reading (continue_confirmed, reconcile_ambiguous).
LEMMA StartInv ==
  ASSUME ClaimInv, NEW w \in Workers, NEW e \in Executions,
         StartClaim(w, e) \/ StartReconcile(w, e)
  PROVE  ClaimInv'
  <1>1. PICK t \in Readings, p \in {"start", "reconciling"} :
          Become(w, [idle_worker EXCEPT !.pc = p, !.e = e, !.now = t])
    BY DEF StartClaim, StartReconcile
  <1> DEFINE q == [idle_worker EXCEPT !.pc = p, !.e = e, !.now = t]
  <1>2. t \in Nat
    BY ReadingType
  <1>3. q \in Worker /\ q.pc = p /\ q.e = e
    BY <1>2, IdleType DEF Worker, Control, Claiming
  <1>4. /\ UNCHANGED <<exec, conv, posts>>
        /\ clock' \in Nat /\ brk' \in BreakerRow
    BY DEF StartClaim, StartReconcile, ClaimInv, TypeOK
  <1> HIDE DEF q
  <1>5. WorkerFits(q, exec[q.e], posts[q.e]) /\ q.pc \notin Attempting
    BY <1>3, FreshWorker
  <1> QED BY <1>1, <1>3, <1>4, <1>5, LocalStep DEF q

\* The adapter's reads before the attempt start (_pre_transport_reason).
LEMMA BeginReadInv ==
  ASSUME ClaimInv, NEW w \in Workers,
         \/ ReadStartClock(w) \/ BeginLoadExecution(w)
         \/ BeginLoadConversation(w) \/ BeginLoadBreaker(w)
  PROVE  ClaimInv'
  <1> DEFINE r == wk[w]
             x == exec[r.e]
  <1>1. /\ r \in Worker /\ clock \in Nat /\ brk \in BreakerRow
        /\ r.pc # "idle" =>
             /\ r.e \in Executions /\ x \in ExecutionRow
             /\ WorkerFits(r, x, posts[r.e])
    BY WorkerType
  <1>2. ASSUME NEW q \in Worker, Become(w, q), UNCHANGED <<clock, exec, brk, conv, posts>>,
               q.pc \notin Attempting, q.e = r.e, r.e \in Executions,
               WorkerFits(q, x, posts[r.e])
        PROVE  ClaimInv'
    BY <1>1, <1>2, LocalStep
  <1>3. ASSUME Refuse(w), UNCHANGED <<clock, exec, brk, conv, posts>>
        PROVE  ClaimInv'
    BY <1>3, RefuseStep DEF Refuse
  <1>4. CASE ReadStartClock(w)
    <2>1. PICK t \in Readings : Become(w, [r EXCEPT !.pc = "starting", !.now = t])
      BY <1>4 DEF ReadStartClock
    <2> DEFINE q == [r EXCEPT !.pc = "starting", !.now = t]
    <2>2. t \in Nat
      BY ReadingType
    <2>3. q \in Worker /\ q.pc = "starting" /\ q.e = r.e
      BY <1>1, <2>2 DEF Worker, Control, Beginning
    <2> HIDE DEF q
    <2>4. WorkerFits(q, x, posts[r.e]) /\ q.pc \notin Attempting
      BY <2>3, FreshWorker
    <2>5. r.e \in Executions
      BY <1>1, <1>4 DEF ReadStartClock
    <2> QED BY <1>2, <1>4, <2>1, <2>3, <2>4, <2>5 DEF ReadStartClock, q
  <1>5. CASE BeginLoadExecution(w)
    <2> DEFINE q == [r EXCEPT !.pc = "begin_loaded", !.rev = x.revision]
    <2>1. r.pc # "idle"
      BY <1>5 DEF BeginLoadExecution
    <2>2. q \in Worker /\ q.pc = "begin_loaded" /\ q.e = r.e /\ q.rev = x.revision
      BY <1>1, <2>1 DEF Worker, Control, Beginning, ExecutionRow
    <2>3. x.revision \in Nat
      BY <1>1, <2>1 DEF ExecutionRow
    <2>4. (x.state = "claimed_for_attempt" /\ Become(w, q)) \/ Refuse(w)
      BY <1>5 DEF BeginLoadExecution
    <2> HIDE DEF q
    <2>5. x.state = "claimed_for_attempt" =>
            WorkerFits(q, x, posts[r.e]) /\ q.pc \notin Attempting
      BY <2>2, <2>3 DEF WorkerFits, SnapshotBehind, SnapshotState, ResumeClaimed,
           AttemptPosts, Snapshot, ClaimSnapshot, BeginSnapshot, OutcomeSnapshot,
           Attempting, Finishing
    <2> QED BY <1>1, <1>2, <1>3, <1>5, <2>1, <2>2, <2>4, <2>5 DEF BeginLoadExecution
  <1>6. ASSUME NEW p \in BeginSnapshot, r.pc \in BeginSnapshot,
               Become(w, [r EXCEPT !.pc = p]), UNCHANGED <<clock, exec, brk, conv, posts>>
        PROVE  ClaimInv'
    <2> DEFINE q == [r EXCEPT !.pc = p]
    <2>1. r.pc # "idle"
      BY <1>6 DEF BeginSnapshot
    <2>2. q \in Worker /\ q.pc = p /\ q.e = r.e /\ q.rev = r.rev
      BY <1>1 DEF Worker, Control, Beginning, BeginSnapshot
    <2> HIDE DEF q
    <2>3. WorkerFits(q, x, posts[r.e]) /\ q.pc \notin Attempting
      BY <1>1, <1>6, <2>1, <2>2 DEF WorkerFits, SnapshotBehind, SnapshotState,
           ResumeClaimed, AttemptPosts, Snapshot, ClaimSnapshot, BeginSnapshot,
           OutcomeSnapshot, Attempting, Finishing
    <2> QED BY <1>1, <1>2, <1>6, <2>1, <2>2, <2>3 DEF q
  <1>7. CASE BeginLoadConversation(w)
    BY <1>3, <1>6, <1>7 DEF BeginLoadConversation, BeginSnapshot
  <1>8. CASE BeginLoadBreaker(w)
    BY <1>3, <1>6, <1>8 DEF BeginLoadBreaker, BeginSnapshot
  <1> QED BY <1>4, <1>5, <1>7, <1>8

\* The attempt start: the claim that was validated is still the row's, so no
\* other worker is or was in an attempt on it (_begin_attempt).
LEMMA BeginAttemptInv ==
  ASSUME ClaimInv, NEW w \in Workers, BeginAttempt(w)
  PROVE  ClaimInv'
  <1> DEFINE r == wk[w]
             x == exec[r.e]
             y == running_record(x, r.now)
             q == [r EXCEPT !.pc = "post", !.rev = 0]
  <1>1. r.pc = "begin_ready"
    BY DEF BeginAttempt
  <1>2. /\ r \in Worker /\ r.e \in Executions /\ x \in ExecutionRow
        /\ conv[r.e] \in ConversationRow /\ brk \in BreakerRow
        /\ RowsAgree(x, conv[r.e], posts[r.e])
        /\ WorkerFits(r, x, posts[r.e])
    BY <1>1, WorkerType
  <1>3. CASE x.revision = r.rev
    <2>1. x.state = "claimed_for_attempt"
      BY <1>1, <1>2, <1>3 DEF WorkerFits, SnapshotState, Snapshot, BeginSnapshot
    <2>2. y \in ExecutionRow /\ y.state = "running" /\ y.revision = x.revision + 1
      <3>1. r.now \in Nat /\ "failed" \in Terminal
        BY <1>2 DEF Worker, Terminal
      <3> HIDE DEF r, x
      <3> QED BY <1>2, <3>1, WrittenRow
    <2>3. q \in Worker /\ q.pc = "post" /\ q.e = r.e
      BY <1>2 DEF Worker, Control
    <2>4. posts[r.e] = 0 /\ x.state \notin Unclaimed /\ x.state \notin Started
      BY <1>2, <2>1 DEF RowsAgree, Started, Terminal, Unclaimed
    <2>5. /\ exec' = [exec EXCEPT ![r.e] = y]
          /\ conv' = [conv EXCEPT ![r.e] = conv[r.e]]
          /\ Become(w, q) /\ UNCHANGED <<clock, posts>> /\ brk' \in BreakerRow
      <3>1. conv \in [Executions -> ConversationRow]
        BY DEF ClaimInv, TypeOK
      <3> QED BY <1>2, <1>3, <3>1 DEF BeginAttempt
    <2> HIDE DEF q, y
    <2>6. RowsAgree(y, conv[r.e], posts[r.e])
      <3>1. x.revision \in Nat
        BY <1>2 DEF ExecutionRow
      <3> QED BY <1>2, <2>1, <2>2, <2>4, <3>1 DEF RowsAgree, Unclaimed, Started
    <2>7. WorkerFits(q, y, posts[r.e])
      BY <2>2, <2>3, <2>4 DEF WorkerFits, SnapshotBehind, SnapshotState, ResumeClaimed,
           AttemptPosts, Snapshot, ClaimSnapshot, BeginSnapshot, OutcomeSnapshot, Started
    <2>8. y.state \notin Unclaimed
      BY <2>2 DEF Unclaimed
    <2> QED BY <1>2, <2>2, <2>3, <2>4, <2>5, <2>6, <2>7, <2>8, RowStep
  <1>4. CASE x.revision # r.rev
    BY <1>4, RefuseStep DEF BeginAttempt, Refuse
  <1> QED BY <1>3, <1>4

\* The HTTP post: only the one worker in the attempt can make it, and the
\* execution had none before (transport.post_json).
LEMMA PostInv ==
  ASSUME ClaimInv, NEW w \in Workers, PostJson(w)
  PROVE  ClaimInv'
  <1> DEFINE r == wk[w]
             q == [r EXCEPT !.pc = "posted"]
  <1>1. r.pc = "post"
    BY DEF PostJson
  <1>2. /\ r \in Worker /\ r.e \in Executions
        /\ RowsAgree(exec[r.e], conv[r.e], posts[r.e])
        /\ WorkerFits(r, exec[r.e], posts[r.e])
    BY <1>1, WorkerType
  <1>3. posts[r.e] = 0 /\ exec[r.e].state \in Started
    BY <1>1, <1>2 DEF WorkerFits, AttemptPosts, Attempting
  <1>4. /\ wk \in [Workers -> Worker] /\ posts \in [Executions -> Nat]
        /\ \A v \in Workers : wk[v].pc # "idle" => wk[v].e \in Executions
    BY DEF ClaimInv, TypeOK
  <1>5. q \in Worker /\ q.pc = "posted" /\ q.e = r.e
    BY <1>2 DEF Worker, Control
  <1>6. /\ posts' \in [Executions -> Nat] /\ posts'[r.e] = 1
        /\ \A d \in Executions : d # r.e => posts'[d] = posts[d]
    BY <1>2, <1>3, <1>4 DEF PostJson
  <1>7. Become(w, q) /\ UNCHANGED <<clock, exec, brk, conv>>
    BY DEF PostJson
  <1> HIDE DEF q
  <1>8. /\ wk' \in [Workers -> Worker]
        /\ wk'[w] = q
        /\ \A v \in Workers : v # w => wk'[v] = wk[v]
    BY <1>4, <1>5, <1>7
  <1>9. TypeOK'
    BY <1>2, <1>5, <1>6, <1>7, <1>8 DEF ClaimInv, TypeOK
  <1>10. ASSUME NEW d \in Executions
         PROVE  RowsAgree(exec[d], conv[d], posts'[d])
    <2>1. CASE d = r.e
      BY <1>2, <1>3, <1>6, <2>1 DEF RowsAgree
    <2>2. CASE d # r.e
      BY <1>6, <2>2 DEF ClaimInv
    <2> QED BY <2>1, <2>2
  <1>11. ASSUME NEW v \in Workers, wk'[v].pc # "idle"
         PROVE  WorkerFits(wk'[v], exec[wk'[v].e], posts'[wk'[v].e])
    <2>1. CASE v = w
      <3>1. WorkerFits(q, exec[r.e], 1)
        BY <1>3, <1>5 DEF WorkerFits, SnapshotBehind, SnapshotState, ResumeClaimed,
             AttemptPosts, Snapshot, ClaimSnapshot, BeginSnapshot, OutcomeSnapshot
      <3> QED BY <1>5, <1>6, <1>8, <2>1, <3>1
    <2>2. CASE v # w
      <3>1. /\ wk'[v] = wk[v] /\ wk[v].e \in Executions
            /\ WorkerFits(wk[v], exec[wk[v].e], posts[wk[v].e])
        BY <1>4, <1>8, <1>11, <2>2 DEF ClaimInv
      <3>2. CASE wk[v].e # r.e
        BY <1>6, <3>1, <3>2
      <3>3. CASE wk[v].e = r.e
        <4>1. wk[v].pc \notin Attempting
          BY <1>1, <2>2, <3>3 DEF ClaimInv, OneAttempt, Attempting
        <4> QED BY <3>1, <4>1 DEF WorkerFits, AttemptPosts
      <3> QED BY <3>2, <3>3
    <2> QED BY <2>1, <2>2
  <1>12. OneAttempt'
    BY <1>1, <1>5, <1>8 DEF ClaimInv, OneAttempt, Attempting
  <1>13. /\ \A d \in Executions : RowsAgree(exec'[d], conv'[d], posts'[d])
         /\ \A v \in Workers : ~At(v, "idle")' =>
              WorkerFits(wk'[v], exec'[wk'[v].e], posts'[wk'[v].e])
    BY <1>7, <1>10, <1>11
  <1> QED BY <1>9, <1>12, <1>13 DEF ClaimInv

\* The transport's answer and the reads before the outcome is committed keep
\* the worker in its attempt (execute, _commit_outcome).
LEMMA OutcomeReadInv ==
  ASSUME ClaimInv, NEW w \in Workers,
         TransportReturns(w) \/ OutcomeLoadExecution(w) \/ OutcomeLoadBreaker(w)
  PROVE  ClaimInv'
  <1> DEFINE r == wk[w]
             x == exec[r.e]
  <1>1. /\ r \in Worker /\ clock \in Nat /\ brk \in BreakerRow
        /\ r.pc # "idle" =>
             /\ r.e \in Executions /\ x \in ExecutionRow
             /\ WorkerFits(r, x, posts[r.e])
    BY WorkerType
  <1>2. r.pc \in {"posted", "returned", "outcome_loaded"}
    BY DEF TransportReturns, OutcomeLoadExecution, OutcomeLoadBreaker
  <1>3. /\ r.pc \in Attempting /\ r.e \in Executions
        /\ x.state \in Started /\ posts[r.e] = 1
    BY <1>1, <1>2 DEF WorkerFits, AttemptPosts, Attempting, Finishing
  <1>4. UNCHANGED <<clock, exec, brk, conv, posts>>
    BY DEF TransportReturns, OutcomeLoadExecution, OutcomeLoadBreaker
  <1>5. ASSUME NEW q \in Worker, Become(w, q), q.e = r.e, q.pc \in Finishing,
               q.pc \in OutcomeSnapshot =>
                 /\ q.rev <= x.revision
                 /\ x.revision = q.rev =>
                      x.state = "running" /\ HoldsClaim(x, q.cap, q.now)
        PROVE  ClaimInv'
    <2>1. WorkerFits(q, x, posts[r.e])
      BY <1>3, <1>5 DEF WorkerFits, SnapshotBehind, SnapshotState, ResumeClaimed,
           AttemptPosts, Snapshot, ClaimSnapshot, BeginSnapshot, OutcomeSnapshot, Finishing
    <2> QED BY <1>1, <1>3, <1>4, <1>5, <2>1, LocalStep
  <1>6. ASSUME Refuse(w) \/ RefuseBudgetAfterTransport(w)
        PROVE  ClaimInv'
    BY <1>4, <1>6, RefuseStep DEF Refuse, RefuseBudgetAfterTransport
  <1>7. CASE TransportReturns(w)
    <2>1. CASE Refuse(w)
      BY <1>6, <2>1
    <2>2. CASE ~Refuse(w)
      <3>1. PICK t \in Readings, k \in OutcomeKind :
              Become(w, [r EXCEPT !.pc = "returned", !.now = t, !.kind = k])
        BY <1>7, <2>2 DEF TransportReturns
      <3> DEFINE q == [r EXCEPT !.pc = "returned", !.now = t, !.kind = k]
      <3>2. t \in Nat
        BY ReadingType
      <3>3. q \in Worker /\ q.pc = "returned" /\ q.e = r.e
        BY <1>1, <3>2 DEF Worker, Control, Finishing
      <3>4. Become(w, q)
        BY <3>1
      <3> HIDE DEF q
      <3> QED BY <1>5, <3>3, <3>4 DEF Finishing, OutcomeSnapshot
    <2> QED BY <2>1, <2>2
  <1>8. CASE OutcomeLoadExecution(w)
    <2> DEFINE q == [r EXCEPT !.pc = "outcome_loaded", !.rev = x.revision]
    <2>1. x.revision \in Nat
      BY <1>1, <1>3 DEF ExecutionRow, Attempting, Finishing
    <2>2. /\ q \in Worker /\ q.pc = "outcome_loaded" /\ q.e = r.e
          /\ q.rev = x.revision /\ q.cap = r.cap /\ q.now = r.now
      BY <1>1, <2>1 DEF Worker, Control, Finishing
    <2>3. \/ x.state = "running" /\ HoldsClaim(x, r.cap, r.now) /\ Become(w, q)
          \/ Refuse(w)
      BY <1>8 DEF OutcomeLoadExecution
    <2> HIDE DEF q
    <2> QED BY <1>5, <1>6, <2>1, <2>2, <2>3 DEF Finishing
  <1>9. CASE OutcomeLoadBreaker(w)
    <2> DEFINE b == next_breaker(brk, r.kind, r.now)
               q == [r EXCEPT !.pc = "outcome_ready", !.brk = b]
    <2>1. r.pc = "outcome_loaded"
      BY <1>9 DEF OutcomeLoadBreaker
    <2>2. b \in BreakerRow
      <3>1. r.kind \in OutcomeKind /\ r.now \in Nat /\ 0 \in Nat
        BY <1>1 DEF Worker
      <3> QED BY <1>1, <3>1, LeaseType
    <2>3. Become(w, q) \/ Refuse(w) \/ RefuseBudgetAfterTransport(w)
      BY <1>9 DEF OutcomeLoadBreaker
    <2>4. /\ q \in Worker /\ q.pc = "outcome_ready" /\ q.e = r.e
          /\ q.rev = r.rev /\ q.cap = r.cap /\ q.now = r.now
      <3> HIDE DEF b
      <3> QED BY <1>1, <2>2 DEF Worker, Control, Finishing
    <2>5. /\ r.rev <= x.revision
          /\ x.revision = r.rev => x.state = "running" /\ HoldsClaim(x, r.cap, r.now)
      BY <1>1, <2>1 DEF WorkerFits, SnapshotBehind, SnapshotState, Snapshot, OutcomeSnapshot
    <2> HIDE DEF q, b
    <2> QED BY <1>5, <1>6, <2>3, <2>4, <2>5 DEF Finishing
  <1> QED BY <1>7, <1>8, <1>9

\* The outcome and the reconciliation end a running execution, or lose their
\* swap and change nothing (_commit_outcome, reconcile_ambiguous).
LEMMA CommitInv ==
  ASSUME ClaimInv, NEW w \in Workers, CommitOutcome(w) \/ CommitReconcile(w)
  PROVE  ClaimInv'
  <1> DEFINE r == wk[w]
             x == exec[r.e]
  <1>1. r.pc \in {"outcome_ready", "reconcile_loaded"}
    BY DEF CommitOutcome, CommitReconcile
  <1>2. /\ r \in Worker /\ r.e \in Executions /\ x \in ExecutionRow
        /\ conv[r.e] \in ConversationRow /\ brk \in BreakerRow
        /\ RowsAgree(x, conv[r.e], posts[r.e])
        /\ WorkerFits(r, x, posts[r.e])
    BY <1>1, WorkerType
  <1>3. Become(w, idle_worker) /\ UNCHANGED <<clock, conv, posts>>
    BY DEF CommitOutcome, CommitReconcile
  <1>4. ASSUME NEW s \in Terminal, x.revision = r.rev, brk' \in BreakerRow,
               exec' = [exec EXCEPT ![r.e] = terminal_record(x, s)],
               s \in {"completed", "failed"} => posts[r.e] = 1
        PROVE  ClaimInv'
    <2> DEFINE y == terminal_record(x, s)
    <2>1. y \in ExecutionRow /\ y.state = s /\ y.revision = x.revision + 1
      <3> HIDE DEF x, r
      <3> QED BY <1>2, <1>4, WrittenRow
    <2>2. x.state = "running" /\ x.revision \in Nat
      BY <1>1, <1>2, <1>4 DEF WorkerFits, SnapshotState, Snapshot, OutcomeSnapshot,
           Reconcilable, ExecutionRow
    <2> HIDE DEF y
    <2>3. /\ y.state \in Started /\ y.state \notin Unclaimed
          /\ y.state # "absent"
      BY <2>1 DEF Started, Terminal, Unclaimed
    <2>4. RowsAgree(y, conv[r.e], posts[r.e])
      BY <1>2, <1>4, <2>1, <2>2, <2>3 DEF RowsAgree, Unclaimed
    <2>5. conv' = [conv EXCEPT ![r.e] = conv[r.e]]
      <3>1. conv \in [Executions -> ConversationRow]
        BY DEF ClaimInv, TypeOK
      <3> QED BY <1>2, <1>3, <3>1
    <2>6. idle_worker.pc \notin Attempting
      BY IdleType DEF Attempting, Finishing
    <2>7. exec' = [exec EXCEPT ![r.e] = y]
      BY <1>4 DEF y
    <2> QED BY <1>2, <1>3, <1>4, <2>1, <2>3, <2>4, <2>5, <2>6, <2>7, IdleType, RowStep
  <1>5. CASE CommitOutcome(w)
    <2>1. r.pc = "outcome_ready"
      BY <1>5 DEF CommitOutcome
    <2>2. posts[r.e] = 1
      BY <1>2, <2>1 DEF WorkerFits, AttemptPosts, Attempting, Finishing
    <2>3. CASE x.revision = r.rev /\ brk.revision = r.brk.revision
      <3>1. brk' \in BreakerRow
        <4>1. r.brk \in BreakerRow
          BY <1>2 DEF Worker
        <4>2. brk' = [r.brk EXCEPT !.revision = @ + 1]
          BY <1>5, <2>3 DEF CommitOutcome
        <4> QED BY <4>1, <4>2 DEF BreakerRow
      <3>2. PICK s \in {"completed", "failed"} :
              exec' = [exec EXCEPT ![r.e] = terminal_record(x, s)]
        BY <1>5, <2>3 DEF CommitOutcome
      <3>3. s \in Terminal
        BY DEF Terminal
      <3> QED BY <1>4, <2>2, <2>3, <3>1, <3>2, <3>3
    <2>4. CASE ~(x.revision = r.rev /\ brk.revision = r.brk.revision)
      BY <1>3, <1>5, <2>4, RefuseStep DEF CommitOutcome
    <2> QED BY <2>3, <2>4
  <1>6. CASE CommitReconcile(w)
    <2>1. CASE x.revision = r.rev
      BY <1>2, <1>4, <1>6, <2>1 DEF CommitReconcile, Terminal
    <2>2. CASE x.revision # r.rev
      BY <1>3, <1>6, <2>2, RefuseStep DEF CommitReconcile
    <2> QED BY <2>1, <2>2
  <1> QED BY <1>5, <1>6

\* Reconciliation judges the row it loads (reconcile_ambiguous).
LEMMA ReconcileReadInv ==
  ASSUME ClaimInv, NEW w \in Workers, ReconcileLoadExecution(w)
  PROVE  ClaimInv'
  <1> DEFINE r == wk[w]
             x == exec[r.e]
             q == [r EXCEPT !.pc = "reconcile_loaded", !.rev = x.revision]
  <1>1. /\ r \in Worker /\ r.e \in Executions /\ x \in ExecutionRow
        /\ clock \in Nat /\ brk \in BreakerRow
    BY WorkerType DEF ReconcileLoadExecution
  <1>2. x.revision \in Nat
    BY <1>1 DEF ExecutionRow
  <1>3. CASE Reconcilable(x, r.now)
    <2>1. /\ q \in Worker /\ q.pc = "reconcile_loaded" /\ q.e = r.e
          /\ q.rev = x.revision /\ q.now = r.now
      BY <1>1, <1>2 DEF Worker, Control
    <2>2. Become(w, q) /\ UNCHANGED <<clock, exec, brk, conv, posts>>
      BY <1>3 DEF ReconcileLoadExecution
    <2> HIDE DEF q
    <2>3. WorkerFits(q, x, posts[r.e]) /\ q.pc \notin Attempting
      BY <1>2, <1>3, <2>1 DEF WorkerFits, SnapshotBehind, SnapshotState, ResumeClaimed,
           AttemptPosts, Snapshot, ClaimSnapshot, BeginSnapshot, OutcomeSnapshot,
           Attempting, Finishing
    <2> QED BY <1>1, <2>1, <2>2, <2>3, LocalStep
  <1>4. CASE ~Reconcilable(x, r.now)
    BY <1>4, RefuseStep DEF ReconcileLoadExecution, Refuse
  <1> QED BY <1>3, <1>4

\* A crash forgets a worker; the gate writes the breaker only; the clock ticks.
LEMMA EnvironmentInv ==
  ASSUME ClaimInv, Tick \/ GateStep \/ (\E w \in Workers : Crash(w))
  PROVE  ClaimInv'
  <1>1. clock \in Nat /\ brk \in BreakerRow
    BY DEF ClaimInv, TypeOK
  <1>2. ASSUME clock' \in Nat, brk' \in BreakerRow, UNCHANGED <<exec, conv, wk, posts>>
        PROVE  ClaimInv'
    <2>1. TypeOK' /\ OneAttempt'
      BY <1>2 DEF ClaimInv, TypeOK, OneAttempt
    <2>2. /\ \A d \in Executions : RowsAgree(exec'[d], conv'[d], posts'[d])
          /\ \A v \in Workers : ~At(v, "idle")' =>
               WorkerFits(wk'[v], exec'[wk'[v].e], posts'[wk'[v].e])
      BY <1>2 DEF ClaimInv
    <2> QED BY <2>1, <2>2 DEF ClaimInv
  <1>3. CASE Tick
    BY <1>1, <1>2, <1>3 DEF Tick
  <1>4. ASSUME NEW b \in BreakerRow, GateSaves(b)
        PROVE  ClaimInv'
    <2>1. brk' \in BreakerRow
      BY <1>4 DEF GateSaves, BreakerRow
    <2> QED BY <1>1, <1>2, <1>4, <2>1 DEF GateSaves
  <1>5. CASE GateRecordFailure
    <2>1. PICK t \in Readings, k \in {"affecting", "neutral"} :
            GateSaves(record_failure(brk, k, t))
      BY <1>5 DEF GateRecordFailure
    <2>2. record_failure(brk, k, t) \in BreakerRow
      BY <1>1, ReadingType, RecordType DEF OutcomeKind
    <2> QED BY <1>4, <2>1, <2>2
  <1>6. CASE GateRecordSuccess
    <2>1. record_success(brk) \in BreakerRow
      BY <1>1, RecordType DEF OutcomeKind
    <2> QED BY <1>4, <1>6, <2>1 DEF GateRecordSuccess
  <1>7. CASE GatePermission
    <2>1. PICK t \in Readings : GateSaves(advance_recovery(brk, t))
      BY <1>7 DEF GatePermission
    <2>2. advance_recovery(brk, t) \in BreakerRow
      BY <1>1, ReadingType, AdvanceType
    <2> QED BY <1>4, <2>1, <2>2
  <1>8. CASE \E w \in Workers : Crash(w)
    BY <1>8, RefuseStep DEF Crash, Refuse
  <1> QED BY <1>3, <1>5, <1>6, <1>7, <1>8 DEF GateStep

-----------------------------------------------------------------------------
(* The theorems. *)

\* Whatever races, crashes and expires, the rows of an execution agree, every
\* worker's snapshot is stale or still true, and one worker is in the attempt.
\* ClaimInv is inductive; its first conjunct is the type invariant.
THEOREM ClaimSafety == Spec => []ClaimInv
  <1>1. Init => ClaimInv
    <2> SUFFICES ASSUME Init PROVE ClaimInv
      OBVIOUS
    <2>1. absent_execution \in ExecutionRow /\ pending_conversation \in ConversationRow
      BY DEF absent_execution, ExecutionRow, ExecutionState, pending_conversation,
           ConversationRow, AuthorizationStatus
    <2>2. closed_reliability_state \in BreakerRow
      BY DEF closed_reliability_state, BreakerRow, BreakerState
    <2>3. TypeOK
      BY <2>1, <2>2, IdleType DEF Init, TypeOK
    <2>4. RowsAgree(absent_execution, pending_conversation, 0)
      BY DEF RowsAgree, absent_execution, pending_conversation, Unclaimed
    <2>5. OneAttempt
      BY IdleType DEF Init, OneAttempt, Attempting, Finishing
    <2> QED BY <2>3, <2>4, <2>5, IdleType DEF Init, ClaimInv
  <1>2. ClaimInv /\ [Next]_vars => ClaimInv'
    <2> SUFFICES ASSUME ClaimInv, [Next]_vars PROVE ClaimInv'
      OBVIOUS
    <2>1. CASE Tick \/ GateStep \/ (\E w \in Workers : Crash(w))
      BY <2>1, EnvironmentInv
    <2>2. CASE \E e \in Executions : ConversationStep(e)
      BY <2>2, ConversationInv
    <2>3. CASE \E w \in Workers, e \in Executions : StartClaim(w, e) \/ StartReconcile(w, e)
      BY <2>3, StartInv
    <2>4. ASSUME NEW w \in Workers, ClaimStep(w)
          PROVE  ClaimInv'
      BY <2>4, ClaimReadInv, FinishClaimInv DEF ClaimStep
    <2>5. ASSUME NEW w \in Workers, AttemptStep(w)
          PROVE  ClaimInv'
      BY <2>5, BeginReadInv, BeginAttemptInv, PostInv, OutcomeReadInv DEF AttemptStep
    <2>6. ASSUME NEW w \in Workers, OutcomeStep(w) \/ ReconcileStep(w)
          PROVE  ClaimInv'
      BY <2>6, OutcomeReadInv, CommitInv, ReconcileReadInv DEF OutcomeStep, ReconcileStep
    <2>7. CASE UNCHANGED vars
      BY <2>7 DEF vars, ClaimInv, TypeOK, OneAttempt
    <2> QED BY <2>1, <2>2, <2>3, <2>4, <2>5, <2>6, <2>7 DEF Next, WorkerStep
  <1> QED BY <1>1, <1>2, PTL DEF Spec

\* "Recovery does not replay HTTP": at most one post per execution, for any
\* number of workers, claims, expiries and crashes.
THEOREM NoReplay == Spec => []AtMostOnePost
  <1>1. ClaimInv => AtMostOnePost
    BY DEF ClaimInv, AtMostOnePost, RowsAgree
  <1> QED BY <1>1, ClaimSafety, PTL

\* The authorization is consumed exactly from the claim on.
THEOREM ConsumptionIsClaim == Spec => []ConsumedWithClaim
  <1>1. ClaimInv => ConsumedWithClaim
    BY DEF ClaimInv, ConsumedWithClaim, RowsAgree
  <1> QED BY <1>1, ClaimSafety, PTL

\* A recorded success or failure has exactly one post behind it.
THEOREM NoInventedOutcome == Spec => []OutcomeNeedsPost
  <1>1. ClaimInv => OutcomeNeedsPost
    BY DEF ClaimInv, OutcomeNeedsPost, RowsAgree, Started
  <1> QED BY <1>1, ClaimSafety, PTL

-----------------------------------------------------------------------------
(* Refinement. *)

StateOf == [e \in Executions |-> exec[e].state]
StatusOf == [e \in Executions |-> conv[e].status]

\* One execution row changes: so does its image under the refinement mapping.
LEMMA ImageOfExecution ==
  ASSUME ClaimInv, NEW e \in Executions, NEW x, exec' = [exec EXCEPT ![e] = x]
  PROVE  StateOf' = [StateOf EXCEPT ![e] = x.state]
  <1>1. exec \in [Executions -> ExecutionRow]
    BY DEF ClaimInv, TypeOK
  <1> QED BY <1>1 DEF StateOf

\* One conversation changes: so does its image.
LEMMA ImageOfConversation ==
  ASSUME ClaimInv, NEW e \in Executions, NEW c, conv' = [conv EXCEPT ![e] = c]
  PROVE  StatusOf' = [StatusOf EXCEPT ![e] = c.status]
  <1>1. conv \in [Executions -> ConversationRow]
    BY DEF ClaimInv, TypeOK
  <1> QED BY <1>1 DEF StatusOf

\* Bind, the writers of the conversation, and the post are the abstract
\* Prepare, Withdraw or Forget, and Post (bind, cancel, cleanup_expired).
LEMMA EnvironmentImage ==
  ASSUME ClaimInv, NEW e \in Executions, ConversationStep(e)
  PROVE  Logical!LNext \/ UNCHANGED <<StateOf, StatusOf, posts>>
  <1>1. /\ exec[e] \in ExecutionRow /\ conv[e] \in ConversationRow
        /\ exec \in [Executions -> ExecutionRow] /\ conv \in [Executions -> ConversationRow]
    BY DEF ClaimInv, TypeOK
  <1>2. CASE Bind(e)
    <2> DEFINE x == [exec[e] EXCEPT !.state = "prepared_unavailable", !.revision = 1]
    <2>1. exec' = [exec EXCEPT ![e] = x] /\ x.state = "prepared_unavailable"
      BY <1>1, <1>2 DEF Bind, ExecutionRow
    <2> HIDE DEF x
    <2>2. StateOf' = [StateOf EXCEPT ![e] = "prepared_unavailable"]
      BY <2>1, ImageOfExecution
    <2>3. StatusOf' = StatusOf /\ posts' = posts /\ StateOf[e] = "absent"
      BY <1>2 DEF Bind, StatusOf, StateOf
    <2>4. Logical!Prepare(e)
      BY <2>2, <2>3 DEF Logical!Prepare, Logical!Move, StateOf, StatusOf
    <2> QED BY <2>4 DEF Logical!LNext
  <1>3. ASSUME NEW s \in {"cancelled", "invalidated"},
               conv[e].status = "authorized_pending_execution", WriteConversation(e, s)
        PROVE  Logical!LNext
    <2> DEFINE c == [version |-> conv[e].version + 1, status |-> s]
    <2>1. conv' = [conv EXCEPT ![e] = c] /\ c.status = s
      BY <1>1, <1>3 DEF WriteConversation
    <2> HIDE DEF c
    <2>2. StatusOf' = [StatusOf EXCEPT ![e] = s]
      BY <2>1, ImageOfConversation
    <2>3. /\ StateOf' = StateOf /\ posts' = posts
          /\ StatusOf[e] = "authorized_pending_execution"
      BY <1>3 DEF WriteConversation, StateOf, StatusOf
    <2>4. Logical!Withdraw(e)
      BY <2>2, <2>3 DEF Logical!Withdraw, StateOf, StatusOf
    <2> QED BY <2>4 DEF Logical!LNext
  <1>4. CASE AppendTurn(e)
    <2> DEFINE c == [version |-> conv[e].version + 1, status |-> conv[e].status]
    <2>1. conv' = [conv EXCEPT ![e] = c] /\ c.status = conv[e].status
      BY <1>1, <1>4 DEF AppendTurn, WriteConversation
    <2> HIDE DEF c
    <2>2. StatusOf' = [StatusOf EXCEPT ![e] = conv[e].status]
      BY <2>1, ImageOfConversation
    <2>3. StateOf' = StateOf /\ posts' = posts /\ StatusOf' = StatusOf
      BY <1>4, <2>2 DEF AppendTurn, WriteConversation, StateOf, StatusOf
    <2> QED BY <2>3
  <1>5. CASE ExpireConversation(e)
    <2> DEFINE c == [version |-> 0, status |-> "missing"]
    <2>1. conv' = [conv EXCEPT ![e] = c] /\ c.status = "missing"
      BY <1>5 DEF ExpireConversation
    <2> HIDE DEF c
    <2>2. StatusOf' = [StatusOf EXCEPT ![e] = "missing"]
      BY <2>1, ImageOfConversation
    <2>3. StateOf' = StateOf /\ posts' = posts
      BY <1>5 DEF ExpireConversation, StateOf
    <2>4. Logical!Forget(e)
      BY <2>2, <2>3 DEF Logical!Forget, StateOf, StatusOf
    <2> QED BY <2>4 DEF Logical!LNext
  <1> QED BY <1>2, <1>3, <1>4, <1>5
          DEF ConversationStep, CancelAuthorization, InvalidateAuthorization

\* The four commits of a worker and its post are the abstract Commit, Attempt,
\* Record, GiveUp and Post; a reclaim is a stutter.
LEMMA WorkerImage ==
  ASSUME ClaimInv, NEW w \in Workers, WorkerStep(w)
  PROVE  Logical!LNext \/ UNCHANGED <<StateOf, StatusOf, posts>>
  <1> DEFINE r == wk[w]
             x == exec[r.e]
  <1>1. r \in Worker
    BY WorkerType
  <1>2. r.pc # "idle" => /\ r.e \in Executions /\ x \in ExecutionRow
                         /\ RowsAgree(x, conv[r.e], posts[r.e])
                         /\ WorkerFits(r, x, posts[r.e])
    BY WorkerType
  <1>a. r.pc # "idle"
    BY DEF WorkerStep, ClaimStep, AttemptStep, OutcomeStep, ReconcileStep,
         ClaimLoadExecution, ClaimLoadBreaker, ClaimLoadConversation,
         ClaimReloadExecution, LoseClaim, FinishClaim, ReadStartClock,
         BeginLoadExecution, BeginLoadConversation, BeginLoadBreaker, BeginAttempt,
         PostJson, TransportReturns, OutcomeLoadExecution, OutcomeLoadBreaker,
         CommitOutcome, ReconcileLoadExecution, CommitReconcile
  <1>e. PICK e \in Executions : e = r.e
    BY <1>2, <1>a
  <1>3. CASE FinishClaim(w)
    <2> DEFINE y == apply_execution_claim(x, r.now, r.rev + 1)
               c == [version |-> r.ver + 1, status |-> "consumed"]
    <2>1. r.pc = "observed" /\ ClaimSwapsHold(r) /\ r.pc # "idle" /\ posts' = posts
      BY <1>3 DEF FinishClaim
    <2>2. x.revision = r.rev /\ Claimable(x, r.now)
      BY <1>2, <2>1 DEF ClaimSwapsHold, WorkerFits, SnapshotState, Snapshot, ClaimSnapshot
    <2>3. exec' = [exec EXCEPT ![r.e] = y]
      BY <1>3 DEF FinishClaim
    <2>4. y.state = "claimed_for_attempt"
      BY <1>2, <2>1 DEF apply_execution_claim, ExecutionRow
    <2> HIDE DEF y
    <2>5. StateOf' = [StateOf EXCEPT ![r.e] = "claimed_for_attempt"]
      BY <1>2, <2>1, <2>3, <2>4, ImageOfExecution
    <2>6. CASE r.ver # 0
      <3>1. conv' = [conv EXCEPT ![r.e] = c] /\ c.status = "consumed"
        BY <1>3, <2>6 DEF FinishClaim
      <3> HIDE DEF c
      <3>2. StatusOf' = [StatusOf EXCEPT ![r.e] = "consumed"]
        BY <1>2, <2>1, <3>1, ImageOfConversation
      <3>3. /\ conv[r.e].status = "authorized_pending_execution"
            /\ x.state = "prepared_unavailable"
        BY <1>2, <2>1, <2>2, <2>6 DEF ClaimSwapsHold, RowsAgree, Claimable, Unclaimed
      <3>4. /\ StatusOf[r.e] = "authorized_pending_execution"
            /\ StateOf[r.e] = "prepared_unavailable"
        BY <1>2, <2>1, <3>3 DEF StateOf, StatusOf
      <3>5. Logical!Commit(e)
        BY <1>e, <2>1, <2>5, <3>2, <3>4 DEF Logical!Commit, Logical!Move, StateOf, StatusOf
      <3> QED BY <3>5 DEF Logical!LNext
    <2>7. CASE r.ver = 0
      <3>1. conv' = conv
        BY <1>3, <2>7 DEF FinishClaim
      <3>2. x.state \notin Unclaimed
        BY <1>2, <2>1, <2>7 DEF WorkerFits, ResumeClaimed
      <3>3. x.state = "claimed_for_attempt"
        BY <2>2, <3>2 DEF Claimable, Unclaimed
      <3>4. StateOf' = StateOf
        BY <1>2, <2>1, <2>5, <3>3 DEF StateOf
      <3> QED BY <2>1, <3>1, <3>4 DEF StatusOf
    <2> QED BY <2>6, <2>7
  <1>4. ASSUME NEW s, NEW y, r.pc # "idle", exec' = [exec EXCEPT ![r.e] = y], y.state = s,
               UNCHANGED <<conv, posts>>
        PROVE  /\ StateOf' = [StateOf EXCEPT ![r.e] = s] /\ StateOf[r.e] = x.state
               /\ StatusOf' = StatusOf /\ posts' = posts /\ r.e \in Executions
    BY <1>2, <1>4, ImageOfExecution DEF StatusOf, StateOf
  <1>5. CASE BeginAttempt(w)
    <2> DEFINE y == running_record(x, r.now)
    <2>1. r.pc = "begin_ready" /\ r.pc # "idle" /\ UNCHANGED <<conv, posts>>
      BY <1>5 DEF BeginAttempt
    <2>2. CASE x.revision # r.rev
      BY <1>5, <2>2 DEF BeginAttempt, StateOf, StatusOf
    <2>3. CASE x.revision = r.rev
      <3>1. x.state = "claimed_for_attempt"
        BY <1>2, <2>1, <2>3 DEF WorkerFits, SnapshotState, Snapshot, BeginSnapshot
      <3>2. exec' = [exec EXCEPT ![r.e] = y]
        BY <1>5, <2>3 DEF BeginAttempt
      <3>3. y.state = "running"
        BY <1>2, <2>1 DEF running_record, ExecutionRow
      <3> HIDE DEF y
      <3>4. Logical!Attempt(e)
        BY <1>e, <1>4, <2>1, <3>1, <3>2, <3>3 DEF Logical!Attempt, Logical!Move, StateOf, StatusOf
      <3> QED BY <3>4 DEF Logical!LNext
    <2> QED BY <2>2, <2>3
  <1>6. CASE PostJson(w)
    <2>1. r.pc = "post" /\ r.pc # "idle" /\ UNCHANGED <<exec, conv>>
      BY <1>6 DEF PostJson
    <2>2. posts[r.e] = 0 /\ x.state \in {"running", "outcome_unknown"}
      BY <1>2, <2>1 DEF WorkerFits, AttemptPosts, Attempting, RowsAgree, Started, Terminal
    <2>3. posts \in [Executions -> Nat]
      BY DEF ClaimInv, TypeOK
    <2>4. posts' = [posts EXCEPT ![r.e] = 1]
      BY <1>2, <1>6, <2>1, <2>2, <2>3 DEF PostJson
    <2>5. Logical!Post(e)
      BY <1>e, <1>2, <2>1, <2>2, <2>4 DEF Logical!Post
    <2> QED BY <2>5 DEF Logical!LNext
  <1>7. ASSUME NEW s \in Terminal, r.pc \in {"outcome_ready", "reconcile_loaded"},
               x.revision = r.rev, exec' = [exec EXCEPT ![r.e] = terminal_record(x, s)],
               UNCHANGED <<conv, posts>>
        PROVE  /\ StateOf' = [StateOf EXCEPT ![r.e] = s] /\ StateOf[r.e] = "running"
               /\ StatusOf' = StatusOf /\ r.e \in Executions
    <2> DEFINE y == terminal_record(x, s)
    <2>1. x.state = "running"
      BY <1>2, <1>7 DEF WorkerFits, SnapshotState, Snapshot, OutcomeSnapshot, Reconcilable
    <2>2. exec' = [exec EXCEPT ![r.e] = y]
      BY <1>7
    <2>3. y.state = s
      BY <1>2, <1>7 DEF terminal_record, ExecutionRow
    <2> HIDE DEF y
    <2> QED BY <1>4, <1>7, <2>1, <2>2, <2>3
  <1>8. CASE CommitOutcome(w)
    <2>1. r.pc = "outcome_ready" /\ UNCHANGED <<conv, posts>>
      BY <1>8 DEF CommitOutcome
    <2>2. CASE exec' = exec
      BY <2>1, <2>2 DEF StateOf, StatusOf
    <2>3. CASE exec' # exec
      <3>1. PICK s \in {"completed", "failed"} :
              exec' = [exec EXCEPT ![r.e] = terminal_record(x, s)]
        BY <1>8, <2>3 DEF CommitOutcome
      <3>2. x.revision = r.rev
        BY <1>8, <2>3 DEF CommitOutcome
      <3>3. posts[r.e] = 1
        BY <1>2, <2>1 DEF WorkerFits, AttemptPosts, Attempting, Finishing
      <3>4. Logical!Record(e)
        BY <1>e, <1>7, <2>1, <3>1, <3>2, <3>3
           DEF Logical!Record, Logical!Move, StateOf, StatusOf, Terminal
      <3> QED BY <3>4 DEF Logical!LNext
    <2> QED BY <2>2, <2>3
  <1>9. CASE CommitReconcile(w)
    <2>1. r.pc = "reconcile_loaded" /\ UNCHANGED <<conv, posts>>
      BY <1>9 DEF CommitReconcile
    <2>2. CASE exec' = exec
      BY <2>1, <2>2 DEF StateOf, StatusOf
    <2>3. CASE exec' # exec
      <3>1. /\ exec' = [exec EXCEPT ![r.e] = terminal_record(x, "outcome_unknown")]
            /\ x.revision = r.rev
        BY <1>9, <2>3 DEF CommitReconcile
      <3>2. Logical!GiveUp(e)
        BY <1>e, <1>7, <2>1, <3>1 DEF Logical!GiveUp, Logical!Move, StateOf, StatusOf, Terminal
      <3> QED BY <3>2 DEF Logical!LNext
    <2> QED BY <2>2, <2>3
  <1>10. ASSUME UNCHANGED <<exec, conv, posts>>
         PROVE  UNCHANGED <<StateOf, StatusOf, posts>>
    BY <1>10 DEF StateOf, StatusOf
  <1> QED BY <1>3, <1>5, <1>6, <1>8, <1>9, <1>10
          DEF WorkerStep, ClaimStep, AttemptStep, OutcomeStep, ReconcileStep,
              ClaimLoadExecution, ClaimLoadBreaker, ClaimLoadConversation,
              ClaimReloadExecution, LoseClaim, ReadStartClock, BeginLoadExecution,
              BeginLoadConversation, BeginLoadBreaker, TransportReturns,
              OutcomeLoadExecution, OutcomeLoadBreaker, ReconcileLoadExecution

\* The protocol implements the promise: every behaviour of workers, leases and
\* swaps is, seen by row state, authorization status and posts, a behaviour of
\* LogicalExecution.
THEOREM Refinement == Spec => OneLogicalExecution
  <1>1. Init => Logical!LInit
    BY DEF Init, Logical!LInit, absent_execution, pending_conversation
  <1>2. ClaimInv /\ [Next]_vars => [Logical!LNext]_(Logical!lvars)
    <2> SUFFICES ASSUME ClaimInv, [Next]_vars
                 PROVE  Logical!LNext \/ UNCHANGED <<StateOf, StatusOf, posts>>
      BY DEF Logical!lvars, StateOf, StatusOf
    <2>1. ASSUME UNCHANGED <<exec, conv, posts>>
          PROVE  UNCHANGED <<StateOf, StatusOf, posts>>
      BY <2>1 DEF StateOf, StatusOf
    <2>2. CASE Tick \/ GateStep \/ UNCHANGED vars
      BY <2>1, <2>2 DEF Tick, GateStep, GateRecordFailure, GateRecordSuccess,
           GatePermission, GateSaves, vars
    <2>3. CASE \E e \in Executions : ConversationStep(e)
      BY <2>3, EnvironmentImage
    <2>4. CASE \E w \in Workers : WorkerStep(w)
      BY <2>4, WorkerImage
    <2>5. CASE \/ \E w \in Workers : Crash(w)
               \/ \E w \in Workers, e \in Executions :
                    StartClaim(w, e) \/ StartReconcile(w, e)
      BY <2>1, <2>5 DEF Crash, StartClaim, StartReconcile
    <2> QED BY <2>2, <2>3, <2>4, <2>5 DEF Next
  <1> QED BY <1>1, <1>2, ClaimSafety, PTL DEF Spec, OneLogicalExecution, Logical!LSpec

-----------------------------------------------------------------------------
(* The operators of reliability_state.py keep a breaker sound. *)

\* Recovery only turns OPEN into HALF_OPEN (advance_recovery).
LEMMA AdvanceSound ==
  ASSUME NEW b \in BreakerRow, NEW now \in Nat, BreakerSound(b)
  PROVE  /\ BreakerSound(advance_recovery(b, now))
         /\ advance_recovery(b, now).revision = b.revision
         /\ advance_recovery(b, now).count = b.count
         /\ b.state # "CLOSED" => advance_recovery(b, now).state # "CLOSED"
         /\ b.state = "CLOSED" => advance_recovery(b, now).state = "CLOSED"
  BY DEF BreakerSound, WellFormed, advance_recovery, BreakerRow, BreakerState

\* A failure of an open breaker never closes it, because an open breaker has
\* reached the threshold and the count only grows (record_failure).
LEMMA FailureSound ==
  ASSUME NEW b \in BreakerRow, NEW now \in Nat, NEW kind \in OutcomeKind,
         BreakerSound(b)
  PROVE  /\ BreakerSound(record_failure(b, kind, now))
         /\ record_failure(b, kind, now).revision = b.revision
         /\ b.state = "OPEN" => record_failure(b, kind, now).state # "CLOSED"
  <1> DEFINE current == advance_recovery(b, now)
             counted == [no_probe_lease(current) EXCEPT !.count = @ + 1]
             opened  == [counted EXCEPT !.state = "OPEN", !.reopen_at = now + Window]
             shut    == [counted EXCEPT !.state = "CLOSED", !.reopen_at = 0]
  <1>1. /\ current \in BreakerRow /\ BreakerSound(current)
        /\ current.revision = b.revision /\ current.count = b.count
        /\ b.state # "CLOSED" => current.state # "CLOSED"
    BY AdvanceType, AdvanceSound
  <1>2. /\ Threshold \in Nat /\ Threshold > 0 /\ Window \in Nat /\ Window > 0
    BY BreakerAssumption DEF BreakerAssumption
  <1> HIDE DEF current
  <1>3. /\ counted \in BreakerRow /\ counted.probe = 0 /\ counted.revision = b.revision
        /\ counted.count = b.count + 1
    <2> DEFINE freed == no_probe_lease(current)
    <2>1. /\ freed \in BreakerRow /\ freed.probe = 0
          /\ freed.revision = b.revision /\ freed.count = b.count
      BY <1>1 DEF no_probe_lease, BreakerRow
    <2>2. freed.count + 1 \in Nat
      BY <2>1 DEF BreakerRow
    <2> HIDE DEF freed
    <2>3. [freed EXCEPT !.count = @ + 1] \in BreakerRow
      BY <2>1, <2>2 DEF BreakerRow
    <2>4. /\ [freed EXCEPT !.count = @ + 1].probe = 0
          /\ [freed EXCEPT !.count = @ + 1].revision = b.revision
          /\ [freed EXCEPT !.count = @ + 1].count = b.count + 1
      BY <2>1 DEF BreakerRow
    <2> QED BY <2>3, <2>4 DEF counted, freed
  <1> HIDE DEF counted
  <1>4. /\ opened \in BreakerRow /\ opened.state = "OPEN" /\ opened.probe = 0
        /\ opened.count = b.count + 1 /\ opened.reopen_at > 0
        /\ opened.revision = b.revision
    <2>1. now + Window \in Nat /\ now + Window > 0
      BY <1>2
    <2> QED BY <1>3, <2>1 DEF BreakerRow, BreakerState
  <1>5. /\ shut \in BreakerRow /\ shut.state = "CLOSED" /\ shut.probe = 0
        /\ shut.reopen_at = 0 /\ shut.revision = b.revision
    BY <1>3 DEF BreakerRow, BreakerState
  <1>6. \/ record_failure(b, kind, now) = current
        \/ /\ record_failure(b, kind, now) = opened
           /\ current.state = "HALF_OPEN" \/ counted.count >= Threshold
        \/ /\ record_failure(b, kind, now) = shut
           /\ current.state # "HALF_OPEN" /\ ~(counted.count >= Threshold)
    BY DEF record_failure, current, counted
  <1> HIDE DEF opened, shut
  <1>7. current.state # "CLOSED" => b.count + 1 >= Threshold
    BY <1>1, <1>2 DEF BreakerSound, BreakerRow
  <1>8. b.count \in Nat
    BY DEF BreakerRow
  <1>9. CASE record_failure(b, kind, now) = current
    BY <1>1, <1>9
  <1>10. CASE /\ record_failure(b, kind, now) = opened
              /\ current.state = "HALF_OPEN" \/ counted.count >= Threshold
    BY <1>2, <1>3, <1>4, <1>7, <1>8, <1>10 DEF BreakerSound, WellFormed
  <1>11. CASE /\ record_failure(b, kind, now) = shut
              /\ current.state # "HALF_OPEN" /\ ~(counted.count >= Threshold)
    BY <1>1, <1>2, <1>3, <1>5, <1>7, <1>8, <1>11 DEF BreakerSound, WellFormed
  <1> QED BY <1>6, <1>9, <1>10, <1>11

\* A success closes a breaker that is not open and leaves an open one alone
\* (record_success).
LEMMA SuccessSound ==
  ASSUME NEW b \in BreakerRow, BreakerSound(b)
  PROVE  /\ BreakerSound(record_success(b))
         /\ record_success(b).revision = b.revision
         /\ b.state = "OPEN" => record_success(b).state = "OPEN"
  BY DEF BreakerSound, WellFormed, record_success, no_probe_lease, BreakerRow, BreakerState

\* The lease of a HALF_OPEN breaker ends in the future
\* (apply_half_open_probe_lease).
LEMMA LeaseSound ==
  ASSUME NEW b \in BreakerRow, NEW now \in Nat, NEW token \in Nat,
         BreakerSound(b), b.state = "HALF_OPEN"
  PROVE  /\ BreakerSound(apply_half_open_probe_lease(b, now, token))
         /\ apply_half_open_probe_lease(b, now, token).state = "HALF_OPEN"
         /\ apply_half_open_probe_lease(b, now, token).revision = b.revision
  <1>1. now + ProbeLease \in Nat /\ now + ProbeLease > 0
    BY BreakerAssumption DEF BreakerAssumption
  <1> QED BY <1>1 DEF BreakerSound, WellFormed, apply_half_open_probe_lease, BreakerRow

\* What an outcome makes of a sound breaker is sound, and an open one is not
\* closed by it (_next_breaker).
LEMMA NextSound ==
  ASSUME NEW b \in BreakerRow, NEW now \in Nat, NEW kind \in OutcomeKind,
         BreakerSound(b)
  PROVE  /\ BreakerSound(next_breaker(b, kind, now))
         /\ next_breaker(b, kind, now).revision = b.revision
         /\ b.state = "OPEN" => next_breaker(b, kind, now).state # "CLOSED"
  <1> DEFINE f == record_failure(b, kind, now)
  <1>1. /\ f \in BreakerRow /\ BreakerSound(f) /\ f.revision = b.revision
        /\ b.state = "OPEN" => f.state # "CLOSED"
    BY RecordType, FailureSound
  <1>2. \/ next_breaker(b, kind, now) = record_success(b)
        \/ next_breaker(b, kind, now) = f
        \/ next_breaker(b, kind, now) = no_probe_lease(f)
    BY DEF next_breaker
  <1> HIDE DEF f
  <1>3. /\ BreakerSound(no_probe_lease(f))
        /\ no_probe_lease(f).revision = f.revision
        /\ no_probe_lease(f).state = f.state
    BY <1>1 DEF BreakerSound, WellFormed, no_probe_lease, BreakerRow
  <1> QED BY <1>1, <1>2, <1>3, SuccessSound

-----------------------------------------------------------------------------
(* BreakerInv is inductive. *)

\* A worker step that leaves the breaker alone.
LEMMA BreakerKept ==
  ASSUME ClaimInv, BreakerInv, NEW w \in Workers, NEW r, Become(w, r), brk' = brk,
         BreakerFits(r, brk)
  PROVE  BreakerInv'
  <1>1. wk \in [Workers -> Worker]
    BY DEF ClaimInv, TypeOK
  <1>2. wk'[w] = r /\ \A v \in Workers : v # w => wk'[v] = wk[v]
    BY <1>1
  <1>3. BreakerSound(brk) /\ \A v \in Workers : BreakerFits(wk'[v], brk)
    BY <1>2 DEF BreakerInv
  <1>4. BreakerSound(brk') /\ \A v \in Workers : BreakerFits(wk'[v], brk')
    BY <1>3
  <1> QED BY <1>4 DEF BreakerInv

\* A worker outside these phases has nothing to store.
LEMMA BreakerFree ==
  ASSUME NEW r, NEW b,
         r.pc \notin {"start", "loaded", "gated", "resuming", "observed", "outcome_ready"}
  PROVE  BreakerFits(r, b)
  BY DEF BreakerFits, Leasing, Recording

\* A commit to the breaker assigns the next revision: everyone else who was
\* about to store it has lost (save with expected_revision).
LEMMA BreakerMoved ==
  ASSUME ClaimInv, BreakerInv, NEW b \in BreakerRow, BreakerSound(b),
         b.revision = brk.revision,
         brk' = [b EXCEPT !.revision = @ + 1],
         \A v \in Workers : wk'[v] = wk[v] \/ wk'[v].pc \in {"idle", "claimed"}
  PROVE  BreakerInv'
  <1>1. BreakerSound(brk') /\ brk'.revision = brk.revision + 1
    BY DEF BreakerSound, WellFormed, BreakerRow
  <1>2. /\ brk.revision \in Nat
        /\ \A v \in Workers : wk[v].brk.revision \in Nat
    BY DEF ClaimInv, TypeOK, Worker, BreakerRow
  <1>3. ASSUME NEW v \in Workers
        PROVE  BreakerFits(wk'[v], brk')
    <2>1. CASE wk'[v].pc \in {"idle", "claimed"}
      BY <2>1, BreakerFree
    <2>2. CASE wk'[v] = wk[v]
      <3>1. BreakerFits(wk[v], brk)
        BY DEF BreakerInv
      <3>2. wk[v].brk.revision <= brk.revision =>
              wk[v].brk.revision <= brk'.revision /\ brk'.revision # wk[v].brk.revision
        BY <1>1, <1>2
      <3> QED BY <2>2, <3>1, <3>2 DEF BreakerFits
    <2> QED BY <2>1, <2>2
  <1> QED BY <1>1, <1>3 DEF BreakerInv

\* Every step of the protocol keeps the breaker sound and its snapshots stale
\* or true.
LEMMA BreakerStep ==
  ASSUME ClaimInv, BreakerInv, [Next]_vars
  PROVE  BreakerInv'
  <1>1. brk \in BreakerRow /\ BreakerSound(brk) /\ wk \in [Workers -> Worker]
    BY DEF ClaimInv, TypeOK, BreakerInv
  <1>2. ASSUME UNCHANGED <<brk, wk>> PROVE BreakerInv'
    <2>1. BreakerSound(brk') /\ \A v \in Workers : BreakerFits(wk'[v], brk')
      BY <1>2 DEF BreakerInv
    <2> QED BY <2>1 DEF BreakerInv
  <1>3. ASSUME NEW b \in BreakerRow, BreakerSound(b), b.revision = brk.revision,
               GateSaves(b)
        PROVE  BreakerInv'
    BY <1>3, BreakerMoved DEF GateSaves
  <1>4. CASE GateStep
    <2>1. CASE GateRecordFailure
      <3>1. PICK t \in Readings, k \in {"affecting", "neutral"} :
              GateSaves(record_failure(brk, k, t))
        BY <2>1 DEF GateRecordFailure
      <3>2. /\ record_failure(brk, k, t) \in BreakerRow
            /\ BreakerSound(record_failure(brk, k, t))
            /\ record_failure(brk, k, t).revision = brk.revision
        BY <1>1, ReadingType, RecordType, FailureSound DEF OutcomeKind
      <3> QED BY <1>3, <3>1, <3>2
    <2>2. CASE GateRecordSuccess
      <3>1. record_success(brk) \in BreakerRow
        BY <1>1, RecordType DEF OutcomeKind
      <3> QED BY <1>1, <1>3, <2>2, <3>1, SuccessSound DEF GateRecordSuccess
    <2>3. CASE GatePermission
      <3>1. PICK t \in Readings : GateSaves(advance_recovery(brk, t))
        BY <2>3 DEF GatePermission
      <3>2. /\ advance_recovery(brk, t) \in BreakerRow
            /\ BreakerSound(advance_recovery(brk, t))
            /\ advance_recovery(brk, t).revision = brk.revision
        BY <1>1, ReadingType, AdvanceType, AdvanceSound
      <3> QED BY <1>3, <3>1, <3>2
    <2> QED BY <1>4, <2>1, <2>2, <2>3 DEF GateStep
  <1>5. CASE Tick \/ UNCHANGED vars \/ (\E e \in Executions : ConversationStep(e))
    BY <1>2, <1>5 DEF Tick, vars, ConversationStep, Bind, CancelAuthorization,
         InvalidateAuthorization, AppendTurn, ExpireConversation, WriteConversation
  <1>6. ASSUME NEW w \in Workers, Refuse(w) \/ RefuseBudgetAfterTransport(w), brk' = brk
        PROVE  BreakerInv'
    <2>1. /\ idle_worker.pc = "idle"
          /\ [idle_worker EXCEPT !.result = "budget_after_transport"].pc = "idle"
      BY IdleType DEF idle_worker
    <2> QED BY <1>6, <2>1, BreakerFree, BreakerKept DEF Refuse, RefuseBudgetAfterTransport
  \* A worker moves to a phase in which it holds no breaker.
  <1>7. ASSUME NEW w \in Workers, NEW r, Become(w, r), brk' = brk,
               r.pc \notin {"start", "loaded", "gated", "resuming", "observed",
                            "outcome_ready"}
        PROVE  BreakerInv'
    BY <1>7, BreakerFree, BreakerKept
  <1>8. ASSUME NEW w \in Workers, ClaimStep(w) PROVE BreakerInv'
    <2> DEFINE r == wk[w]
    <2>1. r \in Worker /\ r.now \in Nat /\ BreakerFits(r, brk)
      BY <1>1 DEF Worker, BreakerInv
    <2>2. CASE ClaimLoadExecution(w)
      <3> DEFINE q == [r EXCEPT !.pc = "loaded", !.rev = exec[r.e].revision]
      <3>1. (Refuse(w) \/ Become(w, q)) /\ brk' = brk /\ r.pc = "start"
        BY <2>2 DEF ClaimLoadExecution
      <3>2. q.pc = "loaded" /\ q.probe = r.probe
        BY <2>1 DEF Worker
      <3> HIDE DEF q
      <3>3. BreakerFits(q, brk)
        BY <2>1, <3>1, <3>2 DEF BreakerFits, Leasing, Recording
      <3> QED BY <1>6, <3>1, <3>3, BreakerKept
    <2>3. CASE ClaimLoadBreaker(w)
      <3> DEFINE b == advance_recovery(brk, r.now)
                 token == b.revision + 1
                 l == apply_half_open_probe_lease(b, r.now, token)
                 p == [r EXCEPT !.pc = "gated"]
                 q == [r EXCEPT !.pc = "gated", !.probe = token, !.brk = l]
      <3>1. b \in BreakerRow /\ BreakerSound(b) /\ b.revision = brk.revision
        BY <1>1, <2>1, AdvanceType, AdvanceSound
      <3>2. \/ Become(w, p) \/ Refuse(w)
            \/ /\ Become(w, q) /\ b.state = "HALF_OPEN"
               /\ ~probe_lease_is_active(b, r.now)
        BY <2>3 DEF ClaimLoadBreaker
      <3>3. brk' = brk /\ r.pc = "loaded"
        BY <2>3 DEF ClaimLoadBreaker
      <3>9. ~probe_lease_is_active(b, r.now) => ~probe_lease_is_active(brk, r.now)
        BY <1>1 DEF probe_lease_is_active, advance_recovery, BreakerRow
      <3> HIDE DEF b
      <3>4. token \in Nat /\ brk.revision \in Nat
        BY <1>1, <3>1 DEF BreakerRow
      <3> HIDE DEF token
      <3>5. b.state = "HALF_OPEN" =>
              l.revision = brk.revision /\ l.state = "HALF_OPEN" /\ BreakerSound(l)
        BY <2>1, <3>1, <3>4, LeaseSound
      <3> HIDE DEF l
      <3>6. /\ q.pc = "gated" /\ q.brk = l /\ q.now = r.now
            /\ p.pc = "gated" /\ p.probe = r.probe
        BY <2>1 DEF Worker
      <3> HIDE DEF p, q
      <3>7. b.state = "HALF_OPEN" /\ ~probe_lease_is_active(b, r.now) => BreakerFits(q, brk)
        BY <3>4, <3>5, <3>6, <3>9 DEF BreakerFits, Recording, BreakerWritten
      <3>8. BreakerFits(p, brk)
        BY <2>1, <3>3, <3>6 DEF BreakerFits, Leasing, Recording
      <3> QED BY <1>6, <3>2, <3>3, <3>7, <3>8, BreakerKept
    \* The rest of the decision keeps the breaker it wants to store.
    <2>4. ASSUME NEW q, Become(w, q), brk' = brk, r.pc \in {"gated", "resuming"},
                 q.pc \in {"resuming", "observed"}, q.probe = r.probe, q.brk = r.brk,
                 q.now = r.now
          PROVE  BreakerInv'
      <3>1. /\ Leasing(q) => Leasing(r)
            /\ ~Recording(q)
            /\ BreakerWritten(r, brk) /\ Leasing(q) => BreakerWritten(q, brk)
        BY <2>4 DEF Leasing, Recording, BreakerWritten
      <3>2. BreakerFits(q, brk)
        BY <2>1, <2>4, <3>1 DEF BreakerFits
      <3> QED BY <2>4, <3>2, BreakerKept
    <2>5. CASE ClaimLoadConversation(w) \/ ClaimReloadExecution(w)
      <3> DEFINE c == conv[r.e]
                 p == [r EXCEPT !.pc = "observed", !.ver = c.version]
                 q == [r EXCEPT !.pc = "resuming"]
                 o == [r EXCEPT !.pc = "observed"]
      <3>1. /\ Become(w, p) \/ Become(w, q) \/ Become(w, o) \/ Refuse(w)
            /\ brk' = brk /\ r.pc \in {"gated", "resuming"}
        BY <2>5 DEF ClaimLoadConversation, ClaimReloadExecution
      <3>2. /\ p.pc = "observed" /\ p.probe = r.probe /\ p.brk = r.brk /\ p.now = r.now
            /\ q.pc = "resuming" /\ q.probe = r.probe /\ q.brk = r.brk /\ q.now = r.now
            /\ o.pc = "observed" /\ o.probe = r.probe /\ o.brk = r.brk /\ o.now = r.now
        BY <2>1 DEF Worker
      <3> HIDE DEF p, q, o
      <3> QED BY <1>6, <2>4, <3>1, <3>2
    <2>6. CASE LoseClaim(w)
      BY <1>6, <2>6 DEF LoseClaim
    <2>7. CASE FinishClaim(w)
      <3> DEFINE q == [idle_worker EXCEPT !.pc = "claimed", !.e = r.e,
                         !.cap = r.rev + 1, !.probe = r.probe]
      <3>1. Become(w, q) /\ r.pc = "observed" /\ ClaimSwapsHold(r)
        BY <2>7 DEF FinishClaim
      <3>2. q.pc = "claimed"
        BY DEF idle_worker
      <3> HIDE DEF q
      <3>3. CASE r.probe = 0
        <4>1. brk' = brk
          BY <2>7, <3>3 DEF FinishClaim
        <4> QED BY <1>7, <3>1, <3>2, <4>1
      <3>4. CASE r.probe # 0
        <4>1. brk' = [r.brk EXCEPT !.revision = @ + 1]
          BY <2>7, <3>4 DEF FinishClaim
        <4>2. brk.revision = r.brk.revision /\ r.brk \in BreakerRow
          BY <2>1, <3>1, <3>4 DEF ClaimSwapsHold, Worker
        <4>3. BreakerSound(r.brk)
          BY <2>1, <3>1, <3>4, <4>2 DEF BreakerFits, Leasing, BreakerWritten
        <4>4. \A v \in Workers : wk'[v] = wk[v] \/ wk'[v].pc \in {"idle", "claimed"}
          BY <1>1, <3>1, <3>2
        <4> QED BY <4>1, <4>2, <4>3, <4>4, BreakerMoved
      <3> QED BY <3>3, <3>4
    <2> QED BY <1>8, <2>2, <2>3, <2>5, <2>6, <2>7 DEF ClaimStep
  <1>9. ASSUME NEW w \in Workers, AttemptStep(w) \/ ReconcileStep(w) PROVE BreakerInv'
    <2> DEFINE r == wk[w]
    <2>1. r \in Worker
      BY <1>1
    <2>2. brk' = brk
      BY <1>9 DEF AttemptStep, ReconcileStep, ReadStartClock, BeginLoadExecution,
           BeginLoadConversation, BeginLoadBreaker, BeginAttempt, PostJson,
           TransportReturns, ReconcileLoadExecution, CommitReconcile
    <2> DEFINE Free(pc) == pc \in {"idle", "starting", "begin_loaded",
                 "begin_authorized", "begin_ready", "post", "posted", "returned",
                 "reconcile_loaded"}
               Moves == Become(w, wk'[w]) /\ Free(wk'[w].pc)
    <2>3. ReadStartClock(w) \/ PostJson(w) => Moves
      BY <1>1, <2>1 DEF ReadStartClock, PostJson, Worker
    <2>4. BeginLoadExecution(w) \/ BeginLoadConversation(w) \/ BeginLoadBreaker(w) => Moves
      BY <1>1, <2>1, IdleType DEF BeginLoadExecution, BeginLoadConversation,
           BeginLoadBreaker, Refuse, Worker
    <2>5. BeginAttempt(w) => Moves
      BY <1>1, <2>1, IdleType DEF BeginAttempt, Refuse, Worker
    <2>6. TransportReturns(w) => Moves
      BY <1>1, <2>1, IdleType DEF TransportReturns, Refuse, Worker
    <2>7. ReconcileLoadExecution(w) \/ CommitReconcile(w) => Moves
      BY <1>1, <2>1, IdleType DEF ReconcileLoadExecution, CommitReconcile, Refuse, Worker
    <2>8. Moves
      BY <1>9, <2>3, <2>4, <2>5, <2>6, <2>7 DEF AttemptStep, ReconcileStep
    <2> QED BY <1>7, <2>2, <2>8
  <1>10. ASSUME NEW w \in Workers, OutcomeStep(w) PROVE BreakerInv'
    <2> DEFINE r == wk[w]
    <2>1. r \in Worker /\ r.now \in Nat /\ r.kind \in OutcomeKind /\ BreakerFits(r, brk)
      BY <1>1 DEF Worker, BreakerInv
    <2>2. CASE OutcomeLoadExecution(w)
      <3> DEFINE q == [r EXCEPT !.pc = "outcome_loaded", !.rev = exec[r.e].revision]
      <3>1. (Refuse(w) \/ Become(w, q)) /\ brk' = brk
        BY <2>2 DEF OutcomeLoadExecution
      <3>2. q.pc = "outcome_loaded"
        BY <2>1 DEF Worker
      <3> HIDE DEF q
      <3> QED BY <1>6, <1>7, <3>1, <3>2
    <2>3. CASE OutcomeLoadBreaker(w)
      <3> DEFINE b == next_breaker(brk, r.kind, r.now)
                 q == [r EXCEPT !.pc = "outcome_ready", !.brk = b]
      <3>1. /\ BreakerSound(b) /\ b.revision = brk.revision
            /\ brk.state = "OPEN" => b.state # "CLOSED"
        BY <1>1, <2>1, NextSound
      <3>2. /\ \/ Become(w, q) /\ ProbeReason(brk, r.probe, r.now) = "ok"
               \/ Refuse(w) \/ RefuseBudgetAfterTransport(w)
            /\ brk' = brk
        BY <2>3 DEF OutcomeLoadBreaker
      <3> HIDE DEF b
      <3>3. /\ q.pc = "outcome_ready" /\ q.brk = b
            /\ q.probe = r.probe /\ q.now = r.now
        BY <2>1 DEF Worker
      <3>4. brk.revision \in Nat
        BY <1>1 DEF BreakerRow
      <3> HIDE DEF q
      <3>5. ProbeReason(brk, r.probe, r.now) = "ok" => BreakerFits(q, brk)
        BY <3>1, <3>3, <3>4 DEF BreakerFits, Leasing, BreakerWritten
      <3> QED BY <1>6, <3>2, <3>5, BreakerKept
    <2>4. CASE CommitOutcome(w)
      <3>1. Refuse(w) /\ r.pc = "outcome_ready"
        BY <2>4 DEF CommitOutcome, Refuse
      <3>2. CASE brk' = brk
        BY <1>6, <3>1, <3>2
      <3>3. CASE brk' # brk
        <4>1. brk' = [r.brk EXCEPT !.revision = @ + 1] /\ brk.revision = r.brk.revision
          BY <2>4, <3>3 DEF CommitOutcome
        <4>2. r.brk \in BreakerRow
          BY <2>1 DEF Worker
        <4>3. BreakerSound(r.brk)
          BY <2>1, <3>1, <4>1 DEF BreakerFits, Recording, BreakerWritten
        <4>4. \A v \in Workers : wk'[v] = wk[v] \/ wk'[v].pc \in {"idle", "claimed"}
          BY <1>1, <3>1, IdleType DEF Refuse
        <4> QED BY <4>1, <4>2, <4>3, <4>4, BreakerMoved
      <3> QED BY <3>2, <3>3
    <2> QED BY <1>10, <2>2, <2>3, <2>4 DEF OutcomeStep
  <1>11. ASSUME NEW w \in Workers, NEW e \in Executions,
                StartClaim(w, e) \/ StartReconcile(w, e)
         PROVE  BreakerInv'
    <2>1. PICK t \in Readings, p \in {"start", "reconciling"} :
            Become(w, [idle_worker EXCEPT !.pc = p, !.e = e, !.now = t])
      BY <1>11 DEF StartClaim, StartReconcile
    <2> DEFINE q == [idle_worker EXCEPT !.pc = p, !.e = e, !.now = t]
    <2>2. q.pc = p /\ q.probe = 0 /\ brk' = brk
      BY <1>11 DEF idle_worker, StartClaim, StartReconcile
    <2> HIDE DEF q
    <2>3. BreakerFits(q, brk)
      BY <2>2 DEF BreakerFits, Leasing, Recording
    <2> QED BY <2>1, <2>2, <2>3, BreakerKept DEF q
  <1>12. ASSUME NEW w \in Workers, Crash(w) PROVE BreakerInv'
    BY <1>6, <1>12 DEF Crash
  <1> QED BY <1>4, <1>5, <1>8, <1>9, <1>10, <1>11, <1>12 DEF Next, WorkerStep

\* The stored breaker is always sound, and whoever is about to replace it has
\* lost the race or judged exactly the stored row.
THEOREM BreakerSafety == Spec => []BreakerInv
  <1>1. Init => BreakerInv
    <2> SUFFICES ASSUME Init PROVE BreakerInv
      OBVIOUS
    <2>1. BreakerSound(closed_reliability_state)
      BY DEF BreakerSound, WellFormed, closed_reliability_state
    <2>2. \A w \in Workers : BreakerFits(wk[w], brk)
      BY IdleType, BreakerFree DEF Init
    <2> QED BY <2>1, <2>2 DEF Init, BreakerInv
  <1>2. ClaimInv /\ BreakerInv /\ [Next]_vars => BreakerInv'
    BY BreakerStep
  <1> QED BY <1>1, <1>2, ClaimSafety, PTL DEF Spec

-----------------------------------------------------------------------------
(* Who writes what. *)

\* Every change of an execution row is one of five commits.
LEMMA ExecutionWriters ==
  ASSUME ClaimInv, [Next]_vars, exec' # exec
  PROVE  \/ \E e \in Executions : Bind(e)
         \/ \E w \in Workers : \/ FinishClaim(w) \/ BeginAttempt(w)
                               \/ CommitOutcome(w) \/ CommitReconcile(w)
  <1>1. ASSUME NEW w \in Workers, WorkerStep(w)
        PROVE  \/ FinishClaim(w) \/ BeginAttempt(w)
               \/ CommitOutcome(w) \/ CommitReconcile(w)
    BY <1>1 DEF WorkerStep, ClaimStep, AttemptStep, OutcomeStep, ReconcileStep,
         ClaimLoadExecution, ClaimLoadBreaker, ClaimLoadConversation,
         ClaimReloadExecution, LoseClaim, ReadStartClock, BeginLoadExecution,
         BeginLoadConversation, BeginLoadBreaker, PostJson, TransportReturns,
         OutcomeLoadExecution, OutcomeLoadBreaker, ReconcileLoadExecution
  <1>2. ASSUME NEW e \in Executions, ConversationStep(e)
        PROVE  Bind(e)
    BY <1>2 DEF ConversationStep, CancelAuthorization, InvalidateAuthorization,
         AppendTurn, ExpireConversation, WriteConversation
  <1>3. ~Tick /\ ~GateStep /\ ~UNCHANGED vars
    BY DEF Tick, GateStep, GateRecordFailure, GateRecordSuccess, GatePermission,
         GateSaves, vars
  <1>4. ASSUME NEW w \in Workers PROVE ~Crash(w)
    BY DEF Crash
  <1>5. ASSUME NEW w \in Workers, NEW e \in Executions
        PROVE  ~StartClaim(w, e) /\ ~StartReconcile(w, e)
    BY DEF StartClaim, StartReconcile
  <1> QED BY <1>1, <1>2, <1>3, <1>4, <1>5 DEF Next

\* "A stale capability cannot write a later outcome": a recorded outcome is
\* the one of the worker that still holds claim and probe lease, whatever was
\* swapped between its reads and its commit.
THEOREM StaleCapability == Spec => StaleCapabilityRejected
  <1>1. ClaimInv /\ BreakerInv /\ [Next]_vars =>
          [\A e \in Executions :
             exec[e].state # exec'[e].state /\ exec'[e].state \in {"completed", "failed"}
               => OutcomeByHolder(e)]_vars
    <2> SUFFICES ASSUME ClaimInv, BreakerInv, [Next]_vars, NEW e \in Executions,
                        exec[e].state # exec'[e].state,
                        exec'[e].state \in {"completed", "failed"}
                 PROVE  OutcomeByHolder(e)
      OBVIOUS
    <2>1. exec \in [Executions -> ExecutionRow] /\ exec' # exec
      BY DEF ClaimInv, TypeOK
    <2>2. ~Bind(e) /\ \A d \in Executions : ~Bind(d)
      BY <2>1 DEF Bind, ExecutionRow
    <2>3. ASSUME NEW w \in Workers
          PROVE  ~FinishClaim(w) /\ ~BeginAttempt(w) /\ ~CommitReconcile(w)
      <3>1. wk[w].pc # "idle" => wk[w].e \in Executions
        BY WorkerType
      <3>2. ~FinishClaim(w)
        BY <2>1, <3>1 DEF FinishClaim, apply_execution_claim, ExecutionRow
      <3>3. ~BeginAttempt(w)
        BY <2>1, <3>1 DEF BeginAttempt, running_record, ExecutionRow
      <3>4. ~CommitReconcile(w)
        BY <2>1, <3>1 DEF CommitReconcile, terminal_record, ExecutionRow
      <3> QED BY <3>2, <3>3, <3>4
    <2>4. PICK w \in Workers : CommitOutcome(w)
      BY <2>1, <2>2, <2>3, ExecutionWriters
    <2> DEFINE r == wk[w]
    <2>5. /\ r.pc = "outcome_ready" /\ exec[r.e].revision = r.rev
          /\ brk.revision = r.brk.revision
          /\ \E s \in {"completed", "failed"} :
               exec' = [exec EXCEPT ![r.e] = terminal_record(exec[r.e], s)]
      BY <2>1, <2>4 DEF CommitOutcome
    <2>6. r.e = e
      BY <2>1, <2>5
    <2>7. HoldsClaim(exec[r.e], r.cap, r.now)
      <3>1. WorkerFits(r, exec[r.e], posts[r.e])
        BY <2>5, WorkerType
      <3> QED BY <2>5, <3>1 DEF WorkerFits, SnapshotState, Snapshot, OutcomeSnapshot
    <2>8. ProbeReason(brk, r.probe, r.now) = "ok"
      BY <2>5 DEF BreakerInv, BreakerFits, Recording, BreakerWritten
    <2>9. brk.state = "HALF_OPEN" => brk.probe = r.probe /\ probe_lease_is_active(brk, r.now)
      BY <2>8 DEF ProbeReason
    <2> QED BY <2>6, <2>7, <2>9 DEF OutcomeByHolder
  <1> QED BY <1>1, ClaimSafety, BreakerSafety, PTL DEF Spec, StaleCapabilityRejected

\* "Success does not close an OPEN breaker", and neither does anything else.
THEOREM OpenStaysOpen == Spec => OpenNeverClosesDirectly
  <1>1. ClaimInv /\ BreakerInv /\ [Next]_vars =>
          [brk.state = "OPEN" => brk'.state # "CLOSED"]_vars
    <2> SUFFICES ASSUME ClaimInv, BreakerInv, [Next]_vars, brk.state = "OPEN", brk' # brk
                 PROVE  brk'.state # "CLOSED"
      OBVIOUS
    <2>1. brk \in BreakerRow /\ BreakerSound(brk) /\ wk \in [Workers -> Worker]
      BY DEF ClaimInv, TypeOK, BreakerInv
    <2>2. ASSUME NEW b \in BreakerRow, b.state # "CLOSED",
                 brk' = [b EXCEPT !.revision = @ + 1]
          PROVE  brk'.state # "CLOSED"
      BY <2>2 DEF BreakerRow
    <2>3. CASE GateRecordFailure
      <3>1. PICK t \in Readings, k \in {"affecting", "neutral"} :
              GateSaves(record_failure(brk, k, t))
        BY <2>3 DEF GateRecordFailure
      <3>2. /\ record_failure(brk, k, t) \in BreakerRow
            /\ record_failure(brk, k, t).state # "CLOSED"
        BY <2>1, ReadingType, RecordType, FailureSound DEF OutcomeKind
      <3> QED BY <2>2, <3>1, <3>2 DEF GateSaves
    <2>4. CASE GateRecordSuccess
      BY <2>4 DEF GateRecordSuccess
    <2>5. CASE GatePermission
      <3>1. PICK t \in Readings : GateSaves(advance_recovery(brk, t))
        BY <2>5 DEF GatePermission
      <3>2. /\ advance_recovery(brk, t) \in BreakerRow
            /\ advance_recovery(brk, t).state # "CLOSED"
        BY <2>1, ReadingType, AdvanceType, AdvanceSound
      <3> QED BY <2>2, <3>1, <3>2 DEF GateSaves
    <2>6. ASSUME NEW w \in Workers, FinishClaim(w)
          PROVE  brk'.state # "CLOSED"
      <3>1. /\ wk[w].pc = "observed" /\ wk[w].probe # 0
            /\ brk.revision = wk[w].brk.revision /\ wk[w].brk \in BreakerRow
            /\ brk' = [wk[w].brk EXCEPT !.revision = @ + 1]
        BY <2>1, <2>6 DEF FinishClaim, ClaimSwapsHold, Worker
      <3>2. wk[w].brk.state = "HALF_OPEN"
        BY <3>1 DEF BreakerInv, BreakerFits, Leasing, BreakerWritten
      <3> QED BY <2>2, <3>1, <3>2
    <2>7. ASSUME NEW w \in Workers, CommitOutcome(w)
          PROVE  brk'.state # "CLOSED"
      <3>1. /\ wk[w].pc = "outcome_ready"
            /\ brk.revision = wk[w].brk.revision /\ wk[w].brk \in BreakerRow
            /\ brk' = [wk[w].brk EXCEPT !.revision = @ + 1]
        BY <2>1, <2>7 DEF CommitOutcome, Worker
      <3>2. wk[w].brk.state # "CLOSED"
        BY <3>1 DEF BreakerInv, BreakerFits, Recording, BreakerWritten
      <3> QED BY <2>2, <3>1, <3>2
    <2>8. ASSUME NEW w \in Workers, WorkerStep(w)
          PROVE  FinishClaim(w) \/ CommitOutcome(w)
      BY <2>8 DEF WorkerStep, ClaimStep, AttemptStep, OutcomeStep, ReconcileStep,
           ClaimLoadExecution, ClaimLoadBreaker, ClaimLoadConversation,
           ClaimReloadExecution, LoseClaim, ReadStartClock, BeginLoadExecution,
           BeginLoadConversation, BeginLoadBreaker, BeginAttempt, PostJson,
           TransportReturns, OutcomeLoadExecution, OutcomeLoadBreaker,
           ReconcileLoadExecution, CommitReconcile
    <2>9. ASSUME NEW e \in Executions PROVE ~ConversationStep(e)
      BY DEF ConversationStep, Bind, CancelAuthorization, InvalidateAuthorization,
           AppendTurn, ExpireConversation, WriteConversation
    <2>10. ~Tick /\ ~UNCHANGED vars
      BY DEF Tick, vars
    <2>11. ASSUME NEW w \in Workers, NEW e \in Executions
           PROVE  ~Crash(w) /\ ~StartClaim(w, e) /\ ~StartReconcile(w, e)
      BY DEF Crash, StartClaim, StartReconcile
    <2>12. ASSUME NEW w \in Workers PROVE ~Crash(w)
      BY DEF Crash
    <2> QED BY <2>3, <2>4, <2>5, <2>6, <2>7, <2>8, <2>9, <2>10, <2>11, <2>12
            DEF Next, GateStep
  <1> QED BY <1>1, ClaimSafety, BreakerSafety, PTL DEF Spec, OpenNeverClosesDirectly

-----------------------------------------------------------------------------
(* Leases. *)

\* A reading is at most the skew ahead of the reference clock (_read_clock).
LEMMA ReadingSkew ==
  ASSUME NEW t \in Readings
  PROVE  t <= clock + Skew
  BY DEF Readings

\* No step makes a worker's reading run ahead of the reference clock.
LEMMA NowStep ==
  ASSUME ClaimInv, \A w \in Workers : wk[w].now <= clock + Skew, [Next]_vars
  PROVE  \A w \in Workers : wk'[w].now <= clock' + Skew
  <1>1. /\ clock \in Nat /\ Skew \in Nat /\ wk \in [Workers -> Worker]
        /\ \A w \in Workers : wk[w].now \in Nat
    BY ClaimAssumption DEF ClaimAssumption, ClaimInv, TypeOK, Worker
  <1>2. idle_worker.now = 0 /\ idle_worker \in Worker
    BY IdleType DEF idle_worker
  <1>3. ASSUME NEW w \in Workers, NEW r, Become(w, r), clock' = clock,
               r.now <= clock + Skew
        PROVE  \A v \in Workers : wk'[v].now <= clock' + Skew
    BY <1>1, <1>3
  <1>4. ASSUME NEW w \in Workers, clock' = clock,
               Refuse(w) \/ RefuseBudgetAfterTransport(w)
        PROVE  \A v \in Workers : wk'[v].now <= clock' + Skew
    <2>1. /\ [idle_worker EXCEPT !.result = "budget_after_transport"].now = 0
          /\ 0 <= clock + Skew
      BY <1>1, <1>2 DEF idle_worker
    <2> QED BY <1>2, <1>3, <1>4, <2>1 DEF Refuse, RefuseBudgetAfterTransport
  <1>5. ASSUME wk' = wk, clock' = clock \/ clock' = clock + 1
        PROVE  \A v \in Workers : wk'[v].now <= clock' + Skew
    BY <1>1, <1>5
  <1>6. CASE Tick \/ GateStep \/ UNCHANGED vars \/ (\E e \in Executions : ConversationStep(e))
    BY <1>5, <1>6 DEF Tick, vars, ConversationStep, Bind, CancelAuthorization,
         InvalidateAuthorization, AppendTurn, ExpireConversation, WriteConversation,
         GateStep, GateRecordFailure, GateRecordSuccess, GatePermission, GateSaves
  <1>7. ASSUME NEW w \in Workers, NEW e \in Executions,
               StartClaim(w, e) \/ StartReconcile(w, e)
        PROVE  \A v \in Workers : wk'[v].now <= clock' + Skew
    <2>1. PICK t \in Readings, p \in {"start", "reconciling"} :
            Become(w, [idle_worker EXCEPT !.pc = p, !.e = e, !.now = t])
      BY <1>7 DEF StartClaim, StartReconcile
    <2>2. clock' = clock /\ [idle_worker EXCEPT !.pc = p, !.e = e, !.now = t].now = t
      BY <1>7 DEF StartClaim, StartReconcile, idle_worker
    <2> QED BY <1>3, <2>1, <2>2, ReadingSkew
  <1>8. ASSUME NEW w \in Workers, Crash(w)
        PROVE  \A v \in Workers : wk'[v].now <= clock' + Skew
    BY <1>4, <1>8 DEF Crash
  <1>9. ASSUME NEW w \in Workers, WorkerStep(w)
        PROVE  \A v \in Workers : wk'[v].now <= clock' + Skew
    <2> DEFINE r == wk[w]
               Kept == clock' = clock /\ \E q : Become(w, q) /\ q.now \in {0, r.now}
    <2>1. r \in Worker /\ r.now <= clock + Skew
      BY <1>1
    <2>2. ASSUME Kept PROVE \A v \in Workers : wk'[v].now <= clock' + Skew
      BY <1>1, <1>3, <2>1, <2>2
    <2>3. CASE ReadStartClock(w)
      <3>1. PICK t \in Readings : Become(w, [r EXCEPT !.pc = "starting", !.now = t])
        BY <2>3 DEF ReadStartClock
      <3>2. clock' = clock /\ [r EXCEPT !.pc = "starting", !.now = t].now = t
        BY <2>1, <2>3 DEF ReadStartClock, Worker
      <3> QED BY <1>3, <3>1, <3>2, ReadingSkew
    <2>4. CASE TransportReturns(w)
      <3>1. clock' = clock
        BY <2>4 DEF TransportReturns
      <3>2. CASE Refuse(w)
        BY <1>4, <3>1, <3>2
      <3>3. CASE ~Refuse(w)
        <4>1. PICK t \in Readings, k \in OutcomeKind :
                Become(w, [r EXCEPT !.pc = "returned", !.now = t, !.kind = k])
          BY <2>4, <3>3 DEF TransportReturns
        <4>2. [r EXCEPT !.pc = "returned", !.now = t, !.kind = k].now = t
          BY <2>1 DEF Worker
        <4> QED BY <1>3, <3>1, <4>1, <4>2, ReadingSkew
      <3> QED BY <3>2, <3>3
    <2>5. CASE FinishClaim(w)
      <3> DEFINE q == [idle_worker EXCEPT !.pc = "claimed", !.e = r.e,
                         !.cap = r.rev + 1, !.probe = r.probe]
      <3>1. Become(w, q) /\ clock' = clock
        BY <2>5 DEF FinishClaim
      <3>2. q.now = 0
        BY DEF idle_worker
      <3> HIDE DEF q
      <3> QED BY <2>2, <3>1, <3>2
    <2> DEFINE Held == Become(w, wk'[w]) /\ wk'[w].now \in {0, r.now} /\ clock' = clock
    <2>6. /\ ClaimLoadExecution(w) => Held
          /\ ClaimLoadConversation(w) => Held
          /\ ClaimReloadExecution(w) => Held
      <3>1. ClaimLoadExecution(w) => Held
        BY <1>1, <1>2, <2>1 DEF ClaimLoadExecution, Refuse, Worker
      <3>2. ClaimLoadConversation(w) => Held
        BY <1>1, <1>2, <2>1 DEF ClaimLoadConversation, Refuse, Worker
      <3>3. ClaimReloadExecution(w) => Held
        BY <1>1, <1>2, <2>1 DEF ClaimReloadExecution, Refuse, Worker
      <3> QED BY <3>1, <3>2, <3>3
    <2>7. ClaimLoadBreaker(w) \/ LoseClaim(w) => Held
      <3>1. LoseClaim(w) => Held
        BY <1>1, <1>2, <2>1 DEF LoseClaim, Refuse
      <3>2. ASSUME ClaimLoadBreaker(w) PROVE Held
        <4> DEFINE b == advance_recovery(brk, r.now)
                   token == b.revision + 1
                   p == [r EXCEPT !.pc = "gated"]
                   q == [r EXCEPT !.pc = "gated", !.probe = token,
                           !.brk = apply_half_open_probe_lease(b, r.now, token)]
        <4>1. (Become(w, p) \/ Become(w, q) \/ Become(w, idle_worker)) /\ clock' = clock
          BY <3>2 DEF ClaimLoadBreaker, Refuse
        <4>2. p.now = r.now /\ q.now = r.now
          BY <2>1 DEF Worker
        <4> HIDE DEF p, q
        <4> QED BY <1>1, <1>2, <4>1, <4>2
      <3> QED BY <3>1, <3>2
    <2>8. BeginLoadExecution(w) \/ BeginLoadConversation(w) \/ BeginLoadBreaker(w) => Held
      BY <1>1, <1>2, <2>1 DEF BeginLoadExecution, BeginLoadConversation,
           BeginLoadBreaker, Refuse, Worker
    <2>9. BeginAttempt(w) \/ PostJson(w) => Held
      <3>1. PostJson(w) => Held
        BY <1>1, <2>1 DEF PostJson, Worker
      <3>2. ASSUME BeginAttempt(w) PROVE Held
        <4> DEFINE q == [r EXCEPT !.pc = "post", !.rev = 0]
        <4>1. (Become(w, q) \/ Become(w, idle_worker)) /\ clock' = clock
          BY <3>2 DEF BeginAttempt, Refuse
        <4>2. q.now = r.now
          BY <2>1 DEF Worker
        <4> HIDE DEF q
        <4> QED BY <1>1, <1>2, <4>1, <4>2
      <3> QED BY <3>1, <3>2
    <2>10. OutcomeLoadExecution(w) \/ CommitOutcome(w) => Held
      BY <1>1, <1>2, <2>1 DEF OutcomeLoadExecution, CommitOutcome, Refuse, Worker
    <2>11. ReconcileLoadExecution(w) \/ CommitReconcile(w) => Held
      BY <1>1, <1>2, <2>1 DEF ReconcileLoadExecution, CommitReconcile, Refuse, Worker
    <2>12. CASE OutcomeLoadBreaker(w)
      <3> DEFINE q == [r EXCEPT !.pc = "outcome_ready",
                         !.brk = next_breaker(brk, r.kind, r.now)]
      <3>1. /\ Become(w, q) \/ Refuse(w) \/ RefuseBudgetAfterTransport(w)
            /\ clock' = clock
        BY <2>12 DEF OutcomeLoadBreaker
      <3>2. q.now = r.now
        BY <2>1 DEF Worker
      <3> HIDE DEF q
      <3> QED BY <1>4, <2>2, <3>1, <3>2
    <2>13. Held => Kept
      OBVIOUS
    <2> QED BY <1>9, <2>2, <2>3, <2>4, <2>5, <2>6, <2>7, <2>8, <2>9, <2>10, <2>11,
                <2>12, <2>13
            DEF WorkerStep, ClaimStep, AttemptStep, OutcomeStep, ReconcileStep
  <1> QED BY <1>6, <1>7, <1>8, <1>9 DEF Next

\* What a worker's commit does to the row of its execution: the claim brings
\* a new digest, the attempt start keeps it, an end releases it.
LEMMA CommittedRow ==
  ASSUME ClaimInv, NEW w \in Workers, exec' # exec,
         FinishClaim(w) \/ BeginAttempt(w) \/ CommitOutcome(w) \/ CommitReconcile(w)
  PROVE  /\ wk[w].e \in Executions
         /\ \E y : /\ exec' = [exec EXCEPT ![wk[w].e] = y]
                   /\ y.state \notin Unclaimed
                   /\ BeginAttempt(w) => y.digest = exec[wk[w].e].digest
                   /\ CommitOutcome(w) => y.state \in {"completed", "failed"}
  <1> DEFINE r == wk[w]
             x == exec[r.e]
  <1>1. /\ r.pc # "idle" /\ r.e \in Executions /\ x \in ExecutionRow
        /\ r.pc = "observed" <=> FinishClaim(w)
        /\ r.pc = "begin_ready" <=> BeginAttempt(w)
        /\ r.pc = "outcome_ready" <=> CommitOutcome(w)
    BY WorkerType DEF FinishClaim, BeginAttempt, CommitOutcome, CommitReconcile
  <1>2. CASE FinishClaim(w)
    <2> DEFINE y == apply_execution_claim(x, r.now, r.rev + 1)
    <2>1. exec' = [exec EXCEPT ![r.e] = y]
      BY <1>2 DEF FinishClaim
    <2>2. y.state \notin Unclaimed
      BY <1>1 DEF apply_execution_claim, ExecutionRow, Unclaimed
    <2> HIDE DEF y
    <2> QED BY <1>1, <1>2, <2>1, <2>2
  <1>3. CASE BeginAttempt(w)
    <2> DEFINE y == running_record(x, r.now)
    <2>1. exec' = [exec EXCEPT ![r.e] = y]
      BY <1>3 DEF BeginAttempt
    <2>2. y.state \notin Unclaimed /\ y.digest = x.digest
      BY <1>1 DEF running_record, ExecutionRow, Unclaimed
    <2> HIDE DEF y
    <2> QED BY <1>1, <1>3, <2>1, <2>2
  <1>4. CASE CommitOutcome(w) \/ CommitReconcile(w)
    <2>1. PICK s \in Terminal :
            /\ exec' = [exec EXCEPT ![r.e] = terminal_record(x, s)]
            /\ CommitOutcome(w) => s \in {"completed", "failed"}
      <3>1. CASE CommitOutcome(w)
        BY <3>1 DEF CommitOutcome, Terminal
      <3>2. CASE CommitReconcile(w)
        <4>1. exec' = [exec EXCEPT ![r.e] = terminal_record(x, "outcome_unknown")]
          BY <3>2 DEF CommitReconcile
        <4>2. ~CommitOutcome(w)
          BY <1>1, <3>2 DEF CommitReconcile
        <4> QED BY <4>1, <4>2 DEF Terminal
      <3> QED BY <1>4, <3>1, <3>2
    <2> DEFINE y == terminal_record(x, s)
    <2>2. y.state = s /\ s \notin Unclaimed
      BY <1>1 DEF terminal_record, ExecutionRow, Unclaimed, Terminal
    <2>3. exec' = [exec EXCEPT ![r.e] = y]
      BY <2>1
    <2> HIDE DEF y
    <2>4. ~BeginAttempt(w)
      BY <1>1, <1>4 DEF CommitOutcome, CommitReconcile
    <2> QED BY <1>1, <2>1, <2>2, <2>3, <2>4
  <1> QED BY <1>2, <1>3, <1>4

\* LeaseInv is inductive.
LEMMA LeaseSafety == Spec => []LeaseInv
  <1>1. Init => LeaseInv
    <2> SUFFICES ASSUME Init PROVE LeaseInv
      OBVIOUS
    <2>1. idle_worker.now = 0 /\ absent_execution.digest = 0 /\ 0 <= 0 + Skew
      BY ClaimAssumption DEF ClaimAssumption, idle_worker, absent_execution
    <2> QED BY <2>1 DEF Init, LeaseInv
  <1>2. ClaimInv /\ LeaseInv /\ [Next]_vars => LeaseInv'
    <2> SUFFICES ASSUME ClaimInv, LeaseInv, [Next]_vars PROVE LeaseInv'
      OBVIOUS
    <2>1. \A w \in Workers : wk'[w].now <= clock' + Skew
      BY NowStep DEF LeaseInv
    <2>2. ASSUME NEW e \in Executions, exec'[e].state \in Unclaimed
          PROVE  exec'[e].digest = 0
      <3>1. exec \in [Executions -> ExecutionRow]
        BY DEF ClaimInv, TypeOK
      <3>2. CASE exec'[e] = exec[e]
        BY <2>2, <3>2 DEF LeaseInv
      <3>3. CASE exec'[e] # exec[e]
        <4>1. ASSUME NEW w \in Workers,
                     FinishClaim(w) \/ BeginAttempt(w) \/ CommitOutcome(w) \/ CommitReconcile(w)
              PROVE  FALSE
          <5>1. exec' # exec
            BY <3>3
          <5>2. /\ wk[w].e \in Executions
                /\ \E y : exec' = [exec EXCEPT ![wk[w].e] = y] /\ y.state \notin Unclaimed
            BY <4>1, <5>1, CommittedRow
          <5> QED BY <2>2, <3>1, <3>3, <5>2
        <4>2. \E d \in Executions : Bind(d)
          BY <3>3, <4>1, ExecutionWriters
        <4>3. exec'[e].digest = exec[e].digest /\ exec[e].state = "absent"
          BY <3>1, <3>3, <4>2 DEF Bind, ExecutionRow
        <4> QED BY <4>3 DEF LeaseInv, Unclaimed
      <3> QED BY <3>2, <3>3
    <2> QED BY <2>1, <2>2 DEF LeaseInv
  <1> QED BY <1>1, <1>2, ClaimSafety, PTL DEF Spec

\* "An unexpired claim blocks every other worker": reclaim and reconciliation
\* take a claim away only once it has run out, up to the skew of the clocks.
THEOREM ClaimOutlivesLease == Spec => LeaseRespected
  <1>1. ClaimInv /\ LeaseInv /\ [Next]_vars =>
          [\A e \in Executions :
             (/\ exec[e].digest # 0
              /\ exec'[e].digest # exec[e].digest
              /\ exec'[e].state \notin {"completed", "failed"})
               => clock + Skew >= exec[e].expires]_vars
    <2> SUFFICES ASSUME ClaimInv, LeaseInv, [Next]_vars, NEW e \in Executions,
                        exec[e].digest # 0, exec'[e].digest # exec[e].digest,
                        exec'[e].state \notin {"completed", "failed"}
                 PROVE  clock + Skew >= exec[e].expires
      OBVIOUS
    <2>1. /\ exec \in [Executions -> ExecutionRow] /\ exec' # exec
          /\ clock \in Nat /\ Skew \in Nat /\ exec[e].expires \in Nat
      BY ClaimAssumption DEF ClaimAssumption, ClaimInv, TypeOK, ExecutionRow
    <2>2. \A d \in Executions : ~Bind(d)
      BY <2>1 DEF Bind, ExecutionRow
    <2>3. ASSUME NEW w \in Workers, wk[w].pc # "idle"
          PROVE  /\ wk[w].e \in Executions /\ wk[w] \in Worker
                 /\ WorkerFits(wk[w], exec[wk[w].e], posts[wk[w].e])
                 /\ wk[w].now <= clock + Skew /\ wk[w].now \in Nat
      BY <2>3, WorkerType DEF LeaseInv, Worker
    <2>4. ASSUME NEW w \in Workers, BeginAttempt(w) \/ CommitOutcome(w)
          PROVE  FALSE
      <3>1. /\ wk[w].e \in Executions
            /\ \E y : /\ exec' = [exec EXCEPT ![wk[w].e] = y]
                      /\ BeginAttempt(w) => y.digest = exec[wk[w].e].digest
                      /\ CommitOutcome(w) => y.state \in {"completed", "failed"}
        BY <2>1, <2>4, CommittedRow
      <3> QED BY <2>1, <2>4, <3>1
    <2>5. ASSUME NEW w \in Workers, FinishClaim(w)
          PROVE  clock + Skew >= exec[e].expires
      <3>1. wk[w].pc = "observed" /\ exec[wk[w].e].revision = wk[w].rev /\ wk[w].e = e
        BY <2>1, <2>5 DEF FinishClaim, ClaimSwapsHold
      <3>2. Claimable(exec[e], wk[w].now)
        BY <2>3, <3>1 DEF WorkerFits, SnapshotState, Snapshot, ClaimSnapshot
      <3>3. exec[e].state # "prepared_unavailable"
        BY DEF LeaseInv, Unclaimed
      <3>4. ~(wk[w].now < exec[e].expires)
        BY <3>2, <3>3 DEF Claimable, ClaimIsActive
      <3> QED BY <2>1, <2>3, <3>1, <3>4
    <2>6. ASSUME NEW w \in Workers, CommitReconcile(w)
          PROVE  clock + Skew >= exec[e].expires
      <3>1. wk[w].pc = "reconcile_loaded" /\ exec[wk[w].e].revision = wk[w].rev /\ wk[w].e = e
        BY <2>1, <2>6 DEF CommitReconcile
      <3>2. Reconcilable(exec[e], wk[w].now)
        BY <2>3, <3>1 DEF WorkerFits, SnapshotState, Snapshot
      <3> QED BY <2>1, <2>3, <3>1, <3>2 DEF Reconcilable
    <2> QED BY <2>1, <2>2, <2>4, <2>5, <2>6, ExecutionWriters
  <1> QED BY <1>1, ClaimSafety, LeaseSafety, PTL DEF Spec, LeaseRespected

\* "HALF_OPEN allows one unexpired lease": the compare-and-swap of the claim
\* makes the judgement on the breaker it read hold at its commit.
THEOREM ProbeOutlivesLease == Spec => ProbeLeaseRespected
  <1>1. ClaimInv /\ BreakerInv /\ LeaseInv /\ [Next]_vars =>
          [\A w \in Workers :
             (/\ wk[w].pc = "observed" /\ wk'[w].pc = "claimed" /\ wk'[w].probe # 0
              /\ brk.probe # 0)
               => clock + Skew >= brk.probe_expires]_vars
    <2> SUFFICES ASSUME ClaimInv, BreakerInv, LeaseInv, [Next]_vars, NEW w \in Workers,
                        wk[w].pc = "observed", wk'[w].pc = "claimed", wk'[w].probe # 0,
                        brk.probe # 0
                 PROVE  clock + Skew >= brk.probe_expires
      OBVIOUS
    <2> DEFINE r == wk[w]
    <2>1. /\ wk \in [Workers -> Worker] /\ brk \in BreakerRow /\ BreakerSound(brk)
          /\ clock \in Nat /\ Skew \in Nat /\ r.now \in Nat /\ r.now <= clock + Skew
          /\ BreakerFits(r, brk) /\ brk.probe_expires \in Nat
      BY ClaimAssumption DEF ClaimInv, TypeOK, BreakerInv, LeaseInv, Worker, BreakerRow
    <2>2. FinishClaim(w)
      <3>1. wk' # wk /\ idle_worker.pc = "idle"
        BY IdleType DEF idle_worker
      <3>2. ~Tick /\ ~GateStep /\ ~UNCHANGED vars
        BY <3>1 DEF Tick, GateStep, GateRecordFailure, GateRecordSuccess, GatePermission,
             GateSaves, vars
      <3>3. ASSUME NEW e \in Executions PROVE ~ConversationStep(e)
        BY <3>1 DEF ConversationStep, Bind, CancelAuthorization, InvalidateAuthorization,
             AppendTurn, ExpireConversation, WriteConversation
      <3>4. ASSUME NEW v \in Workers, v # w, NEW q, Become(v, q) PROVE FALSE
        BY <2>1, <3>4
      <3>5. ~Crash(w) /\ ~LoseClaim(w)
        BY <2>1, <3>1 DEF Crash, LoseClaim, Refuse
      <3>6. ASSUME WorkerStep(w) PROVE FinishClaim(w)
        BY <3>5, <3>6 DEF WorkerStep, ClaimStep, AttemptStep, OutcomeStep, ReconcileStep,
             ClaimLoadExecution, ClaimLoadBreaker, ClaimLoadConversation,
             ClaimReloadExecution, ReadStartClock, BeginLoadExecution,
             BeginLoadConversation, BeginLoadBreaker, BeginAttempt, PostJson,
             TransportReturns, OutcomeLoadExecution, OutcomeLoadBreaker, CommitOutcome,
             ReconcileLoadExecution, CommitReconcile
      <3>7. ASSUME NEW e \in Executions PROVE ~StartClaim(w, e) /\ ~StartReconcile(w, e)
        BY DEF StartClaim, StartReconcile
      <3>8. ASSUME NEW v \in Workers, v # w
            PROVE  /\ ~Crash(v) /\ ~WorkerStep(v)
                   /\ \A e \in Executions : ~StartClaim(v, e) /\ ~StartReconcile(v, e)
        <4>1. ~Crash(v) /\ ~LoseClaim(v) /\ ~FinishClaim(v) /\ ~ClaimLoadExecution(v)
                /\ ~ClaimLoadConversation(v) /\ ~ClaimReloadExecution(v)
          BY <3>4, <3>8 DEF Crash, LoseClaim, FinishClaim, ClaimLoadExecution,
               ClaimLoadConversation, ClaimReloadExecution, Refuse
        <4>2. ~ClaimLoadBreaker(v)
          BY <3>4, <3>8 DEF ClaimLoadBreaker, Refuse
        <4>3. ~AttemptStep(v)
          BY <3>4, <3>8 DEF AttemptStep, ReadStartClock, BeginLoadExecution,
               BeginLoadConversation, BeginLoadBreaker, BeginAttempt, PostJson,
               TransportReturns, Refuse
        <4>4. ~OutcomeStep(v) /\ ~ReconcileStep(v)
          BY <3>4, <3>8 DEF OutcomeStep, OutcomeLoadExecution, OutcomeLoadBreaker,
               CommitOutcome, ReconcileStep, ReconcileLoadExecution, CommitReconcile,
               Refuse, RefuseBudgetAfterTransport
        <4>5. \A e \in Executions : ~StartClaim(v, e) /\ ~StartReconcile(v, e)
          BY <3>4, <3>8 DEF StartClaim, StartReconcile
        <4> QED BY <4>1, <4>2, <4>3, <4>4, <4>5 DEF WorkerStep, ClaimStep
      <3> QED BY <3>2, <3>3, <3>5, <3>6, <3>7, <3>8 DEF Next
    <2>3. r.probe # 0 /\ brk.revision = r.brk.revision
      <3> DEFINE q == [idle_worker EXCEPT !.pc = "claimed", !.e = r.e,
                         !.cap = r.rev + 1, !.probe = r.probe]
      <3>1. Become(w, q) /\ ClaimSwapsHold(r)
        BY <2>2 DEF FinishClaim
      <3>2. q.probe = r.probe
        BY DEF idle_worker
      <3> HIDE DEF q
      <3> QED BY <2>1, <3>1, <3>2 DEF ClaimSwapsHold
    <2>4. ~probe_lease_is_active(brk, r.now)
      BY <2>1, <2>3 DEF BreakerFits, Leasing, BreakerWritten
    <2>5. brk.state = "HALF_OPEN"
      BY <2>1 DEF BreakerSound, WellFormed
    <2> QED BY <2>1, <2>4, <2>5 DEF probe_lease_is_active
  <1> QED BY <1>1, ClaimSafety, BreakerSafety, LeaseSafety, PTL DEF Spec, ProbeLeaseRespected
=============================================================================
