# Verification of the dealbrain backend

TLA+ modules for the parts of dealbrain (a FastAPI shopping assistant, `src/app`)
whose correctness depends on the order in which several processes read and
write shared rows. TLC checks them on small instances; TLAPS proves the safety
properties of eight of them for every value of their constants.

## 1. The system

A shopper asks a question in a *conversation*. When the answer needs live
research the assistant proposes it; the shopper confirms; the confirmation
becomes a *research authorization* stored inside the conversation. The server
then turns one authorization into one *authorized execution*: it claims the
execution under a lease, makes one HTTP post to the provider's catalog, and
records one outcome. A *circuit breaker* per provider and market decides
whether a post may be made, and a half-open breaker lets one probe through.

All request threads of all processes share only the PostgreSQL *operational
store*: versioned rows replaced by compare-and-swap, read under READ COMMITTED.

### Inventory

| Component | State | Operations | Talks to | Hard behaviour | What makes it correct |
|---|---|---|---|---|---|
| Circuit breaker `research/reliability_state.py`, `reliability_repository.py` | state, failure count, reopen time, probe lease, revision | advance_recovery, record_failure, record_success, probe lease, gate load/save | claim, adapter (same row) | late outcomes, racing probes | one probe lease at a time; OPEN closes only through HALF_OPEN; every stored row is one the constructor accepts |
| Authorized execution store `research/authorized_execution_repository.py` | one row per execution: state, revision, claim digest, expiry | bind, cas_replace | claim, adapter | racing swaps | life cycle moves one way |
| Live-start claim `research/live_start_claim.py` | none of its own; one transaction over three rows | claim | execution, breaker, conversation rows | two claimants, lost swap, crash, expiry | consumption and claim are one fact; an unexpired claim excludes others |
| Adapter `research/shopify_global_catalog_execution.py` | capability in memory | execute, reconcile_ambiguous | the same rows, HTTP transport | crash around the post, late answer, stale capability | at most one post; no invented outcome; only the holder records |
| Authorization `services/research_authorization.py` | status inside the conversation | create, cancel, invalidate, consume | conversation row | cancel against claim | consumed once, never cancelled afterwards |
| Conversation repository `…/shopping_conversation_repository.py` | versioned row, owner, expiry | save, append_turn, consume, rebind_owner, cleanup | everything conversational | lost updates, expiry during a claim | writers never overwrite each other |
| Confirmation `services/confirmed_research_execution.py`, `propose_research.py` | none | continue_confirmed, persist proposal | claim, adapter | retry after a crash | one authorization and one start per proposal; a crashed attempt would have to be resumed or closed (it is not, section 3) |
| Submission ledger `shopping/submission_idempotency.py`, `…/shopping_submission_store.py` | row per key: fingerprint, state, response, expiry | claim, complete, fail_closed, seal, purge | query endpoint | crash while executing, late executor, retention | a retried submission does not run twice |
| Failed-login lock `launch/failed_login_lock.py`, `…/failed_login_lock_store.py` | row per identity: count, lock end, last failure | is_locked, record_failure, clear, purge | login | racing increments, resets with an old clock reading | no lost failure, no early reset, few guesses past the lock |
| Rate limiter `…/rate_limit_store.py`, `launch/rate_limit.py` | row per scope and identity: hits, expiry | consume, reset | login, middleware | racing hits, window edge, skewed clocks | never past the limit |
| Accounts `auth/service.py`, `privacy/lifecycle.py` | users, sessions, one-time tokens, profile, saved items, watchlists, preferences, consents | register, login, validate, logout, reset, verify, change e-mail, delete | lock, limiter, mail | a failure between two repository calls, overlapping requests | a token works once, for its effect; revoked and deleted stay so |
| Canonical results `services/canonical_research_results.py`, decision snapshots | integration record per execution, snapshot versions, the conversation's binding | integrate, resume, recover, bind | execution row, snapshots, conversation | crash between the rows, racing workers | one version per execution; results move one version at a time |
| Marketplace sync and import `marketplace/sync/engine.py`, `services/marketplace_data_service.py` | jobs, checkpoint, health, offers, snapshots, dead letters; batches, raw records | run, import_payload | connectors | retry, crash, failing write, a query, request sent twice | no offer passed over unrecorded, known content recognised |
| Alerts `services/alert_evaluation_service.py`, `alerts/engine/*`, notifications | rules, events, cached observations | evaluate, edit rules, notify | watchlists, marketplaces, inbox | stale rule copies, racing passes | a rule is used up only for an alert, and waits for its cooldown |
| Recommendation, scoring, parsing | none | pure functions over floats and text | – | – | not a model-checking question |
| Pages, API mapping, merchant, affiliate, analytics | single rows | CRUD | – | – | ordinary tests |

`PROJECT.json` lists every component with its status, and under `hazards` what
is hard to test, at the line where it bites.

## 2. Modules

| Module | Models | Role |
|---|---|---|
| `Breaker` | `reliability_state.py` | breaker rows and their transitions, as operators |
| `LiveStartClaim` | claim, adapter, stores, authorization, conversation row | the protocol: state, actions, properties, inductive invariants |
| `LogicalExecution` | the promise of the docstrings | abstract specification that `LiveStartClaim` implements |
| `MCLiveStartClaim` | – | instances for TLC, the probe scenario, symmetry |
| `LiveStartClaimProofs` | – | proofs about executions, authorizations, the breaker, capabilities and leases, and the refinement |
| `SubmissionLedger` | the submission ledger and its use by the query endpoint | one key's row, the requests that carry the key, properties, inductive invariant |
| `MCSubmissionLedger` | – | instances for TLC |
| `SubmissionLedgerProofs` | – | proofs about the ledger |
| `ProposalConfirmation` | `propose_research.py`, `research_authorization.py`, `continue_confirmed` | replies, proposals, authorizations and their starts in one conversation |
| `ResultsIntegration` | `canonical_research_results.py`, snapshot and conversation binding | how a completed execution becomes the next version of a decision |
| `DecisionHistory` | the promise of the docstrings of results and binding | abstract specification that `ResultsIntegration` implements |
| `FailedLoginLock` | the durable failed-login memory and `login` around it | one identity's row and the logins that consult it |
| `RateLimit` | the SQL fixed-window counter | one counter's row and the calls that consume it |
| `AccountIdentity` | `auth/service.py`, account deletion, their repositories | one account, its sessions and tokens, and the requests on it |
| `AlertEvaluation` | alert passes, rule edits, deduplication | rules, items, events and the processes that evaluate them |
| `MarketplaceSync` | `MarketplaceSyncEngine.run` | one connector's jobs, cursor, health, offers and dead letters |
| `MarketplaceImport` | `import_payload`, `ImportPipeline` | batches, raw records and offers of imported files |
| `MC…` of each | – | instances for TLC |
| `ProposalConfirmationProofs`, `ResultsIntegrationProofs`, `FailedLoginLockProofs`, `RateLimitProofs`, `AccountIdentityProofs`, `MarketplaceSyncProofs` | – | inductive invariants and proofs, section 4 |

The modules follow one shopper's request downwards and meet at these points.
`SubmissionLedger` sees `service.query` as one execution. Inside it
`ProposalConfirmation` decides whether a reply starts research; its `Claim`, `Reclaim`,
`BeginAttempt` and `Close` are the commits of the `LiveStartClaim` protocol, and its `NotClosed` the
adapter's returns without one. `ResultsIntegration` starts where
`LiveStartClaim` has recorded a success. The conversation row is shared by all
three and each module has the others' writers as environment actions
(`AppendTurn`, `OtherTurn`, the competing replies). `FailedLoginLock` and
`RateLimit` are the two counters in front of the `login` of `AccountIdentity`.
Alerts and marketplace data share no rows with these.

### How `LiveStartClaim` corresponds to the code

*State.* `exec[e]` is the row of `DurableAuthorizedExecution` (state, revision,
claim digest, claim expiry, attempt start). `conv[e]` is the conversation that
holds `e`'s authorization, reduced to its persistence version and the status of
that authorization (`missing`: the conversation was deleted). `brk` is the row of
`ProviderReliabilityState`; revision 0 is the absent row. `wk[w]` is a request
thread: where it is in the code and the values it holds in local variables.
`clock` is real time; a host reads it with an error of at most `Skew`.
`posts` and the worker field `result` are history.

*Steps.* A transaction's reads are separate steps, each seeing the latest
commit; its writes and its commit are one step, because a compare-and-swap keeps
its row locked until the commit. On SQLite the transaction holds the write lock
from the start, so its behaviours are among these.

| Action | Code |
|---|---|
| `Bind` | `OperationalAuthorizedExecutionRepository.bind` |
| `CancelAuthorization`, `InvalidateAuthorization`, `AppendTurn`, `ExpireConversation` | the other writers of the conversation |
| `StartClaim` | `continue_confirmed` reads the clock and calls `claim` |
| `ClaimLoadExecution`, `ClaimLoadBreaker`, `ClaimLoadConversation`, `ClaimReloadExecution` | `_observe_claim`, `_authorization_commitment` |
| `FinishClaim`, `LoseClaim` | `_finish`: three swaps, one commit, or a rollback |
| `ReadStartClock`, `BeginLoad…`, `BeginAttempt` | `execute`, `_pre_transport_reason`, `_begin_attempt` |
| `PostJson`, `TransportReturns` | the HTTP post and its answer, exception or clock regression |
| `OutcomeLoad…`, `CommitOutcome` | `_commit_outcome` |
| `StartReconcile`, `ReconcileLoadExecution`, `CommitReconcile` | `reconcile_ambiguous` |
| `GateRecordFailure`, `GateRecordSuccess`, `GatePermission` | `ResearchReliabilityGate`, another user of the breaker row |
| `Crash` | the process or its database connection dies, or any refusal |
| `Tick` | time passes |

*Abstractions.* A capability is a random token of which the row stores a digest;
it is only compared with digests of the same row, so the revision its claim
commits stands for it. Identity pins (plan, decision, owner, scope digest), the
mode and certification gates and the kill switch refuse without writing: a
refusal forgets the worker's memory, which is what `Crash` does, so every
behaviour with such a refusal is a behaviour of the model. Failure kinds are
reduced to the three classes the breaker distinguishes. Offers, payloads and
traces are left out. Ownership changes (`rebind_owner`) are left out: they write
the conversation without changing the authorization, as `AppendTurn` does.

### How `SubmissionLedger` corresponds to the code

*State.* `row` is the `SubmissionRecord` of one authority scope and
Idempotency-Key (state, fingerprint, response, expiry; `absent`: no row).
`rq[r]` is a request that carries the key: where it is in
`apply_shopping_submission`, its fingerprint and the one clock reading that
`query_shopping_assistant` takes on arrival and passes to every ledger call.
`ran` (the claims that were won) and `overtaken` are history. A response is
the number of the execution that produced it.

| Action | Code |
|---|---|
| `Submit` | `query_shopping_assistant` up to the call of the ledger |
| `ClaimSweep`, `ClaimInsert` | `claim`, `_claim_once`: seal and purge, then the insert, then `_interpret` |
| `ExecuteReturns` | `service.query` returns or raises |
| `Complete`, `CompleteFails` | `complete`, stored, not stored, or lost with its connection before or after the commit |
| `FailClosed` | `fail_closed` after an exception or an unstored answer, with the same outages |
| `SweepByOthers` | the sweep that a claim of any other key runs over the whole table |
| `Crash` | the process dies, or a claim is answered "unavailable" |
| `Tick` | time passes |

*Abstractions.* A sweep that changes the row keeps it locked until its commit,
so sweep and insert are then one step; otherwise another transaction may commit
between them. Keys meet only in sweeps, so one key's row is enough. The
in-memory store does a whole claim under a lock, which is a special case.
`release_unentered`, `cleanup` and `seal_stale_processing` have no caller in
the application and are left out.

### The other modules

In all of them a call of a repository method is one action, because each commits
on its own (`operational_store.py`); what a request has read lives in its local
record (`rq`, `wk`, `pr`, `at`, `call`) until it is written. A process that dies, or a call
that raises, forgets that record.

`FailedLoginLock`. `row` is `FailedLoginLockModel`; `at[a]` a login. `Admit`
is `_reject_if_login_locked`, `Verify` the password check of `login`,
`IncrementActive`, `ResetExpiredLock`, `ResetStaleSequence`, `InsertFirst` and
`InsertConflict` the statements of `_apply_failure` in their order with the
retry of `record_failure`, `Clear` a successful login, `PurgeByOthers` the
`_purge_stale_rows` of another identity's login. A statement that matches no row takes no
lock, so others run before the next; the one that matches commits. `recorded` and `late` are history.

`RateLimit`. `row` is `RateLimitCounterModel`; `DeleteExpired`, `UpdateHits`,
`InsertFirst` and `SelectExisting` are the statements of `_consume_once`, with
the retries of `consume` in the last. `Reset` is a successful login.

`AccountIdentity`. An operation of `AuthenticationService` is the list of repository calls it
makes (`register_calls`, `confirm_change_calls`, …, `delete_calls`), and an action is
one such call, so a request can stop, or another run, between any two. `Refuse` is the
early return of whatever was read. One account is modelled with its sessions, three kinds of
tokens and the records it keeps (profile, saved items, watchlists, preferences, consents); `KeepRecord` stands for
every signed-in request that writes one. A deletion lists the watchlists and drops them one by one.
Other accounts appear as addresses they take (`TakeEmail`), the clock
as the expiry of a session or token (`TimeOut`). `registered`, `effected`, `proven`,
`notices`, `revoked_by_newer` and `overlapped` (two requests were in progress at once) are history.

`ResultsIntegration`. `snapshots` is the sequence of versions of one decision,
each the set of executions it contains in order; `record[e]` the
`ResultsIntegrationRecord`; `conv` the bound version and the persistence version.
`Start` to `Insert` are `_integrate` and `_write_next_version`, `Add` the snapshot insert,
`Promote`, `Reload`, `Bind`, `Recheck` and `Mark` are `_promote_and_bind`, `Resume` and `Recover`
the two continuations. `outside` are the executions whose evidence does not map, chosen initially. A call may come at
any time, and none has to come. The service's lock serialises one process, so a worker is a process.

`ProposalConfirmation`. `conv` is the conversation's proposal, authorizations and
version. `Ask` is `handle` with the composer: the reply's kind and the proposal
its chip names, read against the stored proposal. `Load`, `Save`, `SaveConflict`, `ReadTurn` and
`SaveTurn` are an attempt of `_persist_proposal`. `Claim`, `Reclaim` and `Refused` are the claim of
`continue_confirmed`: won, resumed by a reply whose copy is still pending after another's claim ran out, or
refused. `BeginAttempt` and `Close` are the two commits of the adapter's `execute`, `NotClosed` its many returns
that leave the execution claimed or running. Wording is left out; the classification of a question is
the kind.

`AlertEvaluation`. `rule` and `events` are rows, `previous` the cache
`_previous_observations` of a process, `world` what an observation would return. `Begin`
reads the rules of a pass, then `Evaluate`, `Find`, `Mark` and `SaveEvent` are the
steps of `_evaluate_rule_for_item` for one rule and item, and `Raise` an exception in any of them, after which the
pass goes on; `EditRead`, `UpdateRule` and `DeleteRule` are
the rule service. An observation is a value: out of stock, or in stock in one of several ways the
fingerprint tells apart. The alert and notification made from an event are left out: nothing reads them, and a
failure there changes no rule. `dropped` and `overlapped` are history.

`MarketplaceSync`. `job`, `checkpoint`, `health`, `offers`, `prices`, `inventory` and `letters` are rows;
`pr[p]` is a process inside `run`. The actions are its repository calls in order;
`FetchFails` is any exception of the connector, `RecordFails` one of a record's look-up or
writes. An offer is its position in the connector's list, which is also its content hash. A query is the set of
offers it matches: `Fetch` takes those of the slice, and `next_cursor` moves over the whole slice.
`passed` (offers given to a run that got to its cursor), `filtered` (offers a cursor moved over because of a
query), `recorded` (offers that were saved as dead letters) and `doubled` (requests sent again before they were
answered) are history.

`MarketplaceImport`. `batch`, `raw`, `offer`, `prices` and `inventory` are rows, `order` the order in which offers were
inserted: `known_hashes` looks at the first `Listing` of them (10,000 in the code). `Prepare`
is `import_payload` up to `prepare_batch`; `SaveBatch` to `SaveInventory` its writes.
A row of a file is its content; `Invalid` content fails validation; `Unpriced`
content passes it and makes `normalize` raise, which ends the import in `SaveRaw`. A batch id is the file name and
the key, as `_make_id` makes it.

## 3. What TLC checks

| Run | Instance | Properties |
|---|---|---|
| `race` | 2 workers, 1 execution, clocks off by one either way, time 0..3, one foreign conversation turn | `ClaimInv`, `AtMostOnePost`, `ConsumedWithClaim`, `LeaseRespected`, `StaleCapabilityRejected`, `OneLogicalExecution` |
| `probe` | 2 workers, 2 executions, breaker just opened, recovery window 1, time 0..3, two foreign breaker writes | `BreakerInv`, `ProbeLeaseRespected`, `OpenNeverClosesDirectly` |
| `budget` | 1 worker, budget 2 of lease 3 | `BudgetRefusalBeforeTransport`, violated |
| `replay` | 2 requests with one key, 2 payloads, horizon 1, retention 2, clocks off by one, time 0..4, 2 executions, fairness | `LedgerInv`, `ReplayMatchesPayload`, `SpacedExecutions`, `ProcessingEnds` |
| `login` | 2 logins, threshold 2, lock 3, retention 2, clocks off by one, time 0..3, 4 guesses, fairness | `LateGuessesBounded`, `CountsEveryFailure`, `MemoryKept`, `LoginsAnswered` |
| `limit` | 3 calls, limit 2, window 1, clocks off by one, time 0..3, 1 reset | `NeverPastLimit`, `WindowKept` |
| `account` | 2 requests, 2 sessions, 1 reset, 1 verification, 2 changes, 1 watchlist, 2 addresses; scenes `mail`, `sessions`, `overlap` | `TokenSpentForEffect`, `VerifiedMeansProven`, `NoticeOnce`, `DeletionLeavesNothing`, `ChangeAfterRevoke` |
| `results` | 2 processes, 2 executions of which any may lie outside the decision, 1 foreign turn, 1 crash or failed insert, calls at any time, fairness | `DecisionGrows`, `WrittenMeansHeld`, `MissedIsResumable`, `PendingRecovered` |
| `replies` | 2 replies at once, 4 in all, 2 proposals, 2 attempts, 1 crash | `OneAuthorizationPerProposal`, `FinalStays`, `OneStartPerProposal` |
| `alerts` | 2 processes, 2 rules that share an item, one of them with a second item, time 0..2, 2 changes, 1 restart or raising call; scenes `turns`, `overlap` | `MarkedMeansRaised`, `CooldownKept` |
| `sync` | 2 processes, 2 runs out of a full, an incremental and an unkeyed request, each with or without a query, 3 offers (1 malformed), slices of 2, 1 failing read or write, 1 crash, fairness | `NothingSkipped`, `HistoryComplete`, `LettersKept`, `RunsEnd` |
| `imports` | 2 processes, 3 imports, one key for two files and a request without a key, files of up to 2 rows with an invalid and an unpriced content, 1 offer listed, 1 crash | `KnownAgain`, `AcceptedMeansStored` |

*Scenes.* The MC modules of the accounts and the alerts add a variable `scene` that is chosen initially and never
changes: TLC explores several small instances in one run. In one kind of scene requests come one
after another while any call may fail; in the other they overlap. Properties of the first kind of
scene are about failures between the calls of one request; a property that both
kinds check also survives overlap. No property names a scene: `NoticeOnce`, `DeletionLeavesNothing`,
`ChangeAfterRevoke` and `CooldownKept` are about `overlapped`, a history variable of the model, so that they are
properties of `Spec` itself, and the scenes only keep the instance small. None of these four holds for overlapping
requests; section "Disagreements" says what happens then. The `overlap` scene of the accounts has requests to verify
and to change the address; it has no reset.

*Bounds.* With a claim lease of 2, time 3 lets a claim be made, run out and be
replaced, and the replacement be used before the end. Two workers are enough
for every race the code resolves by one compare-and-swap; three or more are
covered by the proofs. `probe` needs two executions, since one execution has
one claim at a time; it starts where a breaker with `Threshold` failures has
just opened and leaves out the writers that touch neither breaker nor lease.
In `race` the breaker row is written by the two workers only; the foreign writers of it are in `probe`.
Workers (and executions in `probe`) are interchangeable: no property names one.

In `replay`, time 4 lets a row be claimed, sealed, kept for its retention, purged
and claimed again, with the first executor still running; the second execution
is the one the properties are about.

In `login`, two logins with a threshold of two leave one past the check when the other's
failure starts the lock, and four guesses reach the lock, its end and the
reset behind it. In `limit` the third call is the one over the limit. In
`account` every call may fail, so one request at a time already reaches every
half-finished state. Beside profile and consents the account keeps one record at a time, of any kind. In the
`overlap` scene a request that stops beside another does so when the other has ended (`StopsLast`): until then it
is only slow, and a stop changes no row. In `results` two executions compete for version 2, and the loser
goes on to version 3, is set aside or conflicts. In `replies` two attempts stand for the code's three:
the second is the one that meets a changed conversation. In `sync` two of the three offers are in the first slice,
the second is malformed and is the one a query leaves out, so that stored, recorded and filtered offers meet one
cursor; a second run starts at that cursor, beside the first, or behind its crash. In `imports` two rows and a
listing of one make an offer that is compared and one that is not. In `alerts` the shared item is the case in
which one rule's look changes what the other is judged against. `HistoryComplete` and `AcceptedMeansStored` speak
of behaviours without a crash: a process that dies between an offer and its snapshots leaves the offer, and the
next run takes it for a duplicate.
Deadlock checking is off in the runs that end because their bounds (replies, imports, guesses,
changes) are spent. It stays on for `LiveStartClaim`, `SubmissionLedger` and `RateLimit`, where a worker, a request
or a call can always be started again.

*Fairness.* In `replay`: time passes, and some shopper keeps
using the assistant, so that some claim, of whatever key, sweeps the table again
(weak fairness of `Tick` and `SweepByOthers`). Sealing happens nowhere else in
the running application, so without further traffic an abandoned row really does stay
`processing`; nobody would notice, because noticing is itself a claim. Nothing
is assumed of the requests with the key: each may hang or crash.
`login`, `results` and `sync` assume that a running call goes on (weak fairness of a login's, a
worker's or a run's next step): these are plain function calls, and a process that dies is a
`Crash`. In `sync` the connector may fail for ever; the retry policy ends the run.
`results` assumes nothing of the callers: `PendingRecovered` is about a call that is running and has met a pending
record. `continue_confirmed` calls `integrate` once and nobody calls it again
(`confirmed_research_execution.py:706`), so no property says that a record left pending is ever settled.

### Finding

`budget`: the sprint document says a lease without enough budget is refused
*before* the transport is called
(`docs/roadmap/sprints/SPRINT_38_CONNECTOR_RELIABILITY_DEGRADATION.md:115`). The
code applies the same budget test again to the probe lease at the finish time,
so a half-open probe that answers late is refused *after* its post. Its answer is lost and
the row stays `running`. It is harmless for the safety properties: nothing is
posted twice and nothing is invented.

### Conditions of the properties

`ProbeLeaseRespected` is about the lease in the breaker row: while it is in force no claim
replaces it. It does not say that only one probe is on the wire. A lease is dropped by
any failure that reopens the breaker, also one of a user that holds no lease, while its
holder still waits for the transport. Another worker's failure that was observed earlier and is
recorded later then computes the reopen time from its own early finish time, so the
breaker is half-open again at once, and a third claim gets a lease beside the first
probe. The code's own checks stop the first probe from recording anything
(`StaleCapabilityRejected`), not from having posted.

`VerifiedMeansProven` is checked with resets only where requests do not overlap. It is proved
for every overlap if clients confirm no reset (`NoReset`), and with resets as long as no two
requests have overlapped (`Sound` is either): see the first disagreement below.

`NothingSkipped` says of a cursor that it moved over no offer that is neither stored, recorded nor left out by a
query; that a filtered run moves it over the others at all is the second disagreement about synchronisation below.
"Recorded" means that a dead letter was saved, not that it is still there: `LettersKept` says when it stays, which
is for requests that carry a key and are not sent again before they are answered. Other runs share a job id,
number their dead letters alike, and one overwrites the other's. `HistoryComplete` needs that no process died.

`KnownAgain` has the same condition for a batch and its raw records, and is about the offers that are listed.
`AcceptedMeansStored` speaks of the rows in front of the first one that `normalize` refuses, and needs that
no process died.

`MissedIsResumable` excepts a record that was closed as `snapshot_failed`: nothing resumes it. `CooldownKept` is
about passes and edits that come in turn. `MarkedMeansRaised` excepts a rule whose pass stopped, or whose call
raised, between the two saves (`dropped`).

`SpacedExecutions` excludes one case. `complete` recognises its row by state and
fingerprint, `fail_closed` by state alone, and both compute the new expiry from
the clock reading of their own arrival. A submission that executes for longer
than the retention (24 hours) can be purged and overtaken by a retry; if it then
reports, it ends the retry's row with an expiry that is already past, and a
third submission may execute at once. The property holds until somebody is
overtaken in this way. `ReplayMatchesPayload` holds even then.

### Disagreements

Where code and documents disagree, or where a property stops holding. TLC showed each
on a variant of the modules' instances while they were written; the properties above are
stated so that they hold beside them, and there is no run for them.

- *Whole-row saves without a version* (`auth/service.py`). `users.save` and `sessions.save` write
  what the request read. A session refreshed while it is revoked is live again (line 384;
  `docs/SESSION_MANAGEMENT.md:33`); a verification confirmed during a reset brings the
  old password back, and one confirmed during a deletion the user row (line 498;
  `docs/AUTHENTICATION.md:88`, `docs/privacy/ACCOUNT_DELETION_PROPAGATION.md:22`);
  two confirmations of a reset token both succeed (line 435;
  `docs/AUTHENTICATION.md:84`). A reset that read the row before an e-mail change and saves it after
  (line 434) puts the old, unverified address back; a verification link that meanwhile went to
  the new address then marks the old one verified (line 498), since the token is bound to the
  account and not to an address. None of these happens with one request at a time, whatever fails.
- *The order of revocation* (`auth/service.py`). `docs/SESSION_MANAGEMENT.md:36-37` says that an e-mail change revokes the
  sessions after the new address is applied. The code revokes first (line 598), as `docs/AUTHENTICATION.md:164-169`
  says, and `ChangeAfterRevoke` states that. A reset works the other way round: the new password is saved (line 434)
  before the sessions are revoked (line 436), so that a failure between them leaves old sessions beside a password that
  can be used (compare `docs/SESSION_MANAGEMENT.md:34-36`).
- *Deletion* (`privacy/lifecycle.py`). `DeletionLeavesNothing` is about the account's own signed-in requests. A request that
  runs beside the deletion can write a record after its turn to be dropped; alert rules are not among the
  records dropped, and a rule that fires afterwards creates default notification preferences again
  (`notification_center_service.py:194`).
- *A retry keeps its old decision* (`propose_research.py:574`, `:729`). `_persist_proposal` reloads the
  conversation after a conflict and saves what it composed before it, so a proposal that was
  replaced meanwhile can be authorized and two authorizations be pending
  (`RESEARCH_AUTHORIZATION_HANDOFF_CONTRACT.md:132`, `:130`).
- *Recovery nobody calls.* After a crash behind a claim nothing closes the execution:
  `continue_confirmed` stops unless the authorization is pending (`confirmed_research_execution.py:439`; compare
  `live_start_claim.py:22`). `integrate` is called once, so a record left pending stays so
  (`confirmed_research_execution.py:706`; compare `canonical_research_results.py:554`). The adapter, too, returns without
  closing the execution when its transport raises, its clock goes back, its claim has run out or its lease budget is
  spent (`shopify_global_catalog_execution.py:422`, `:430`, `:597`, `:611`), and leaves it running with no process dead.
- *Results* (`canonical_research_results.py`). `_resume` compares version numbers only and reports
  `already_integrated` for a record in conflict (line 500; compare line 161). A failed
  insert leaves the record `snapshot_failed`; the version another worker wrote meanwhile stays
  unbound until somebody else binds it (line 456), and while it is unbound no execution extends the decision
  (line 368).
- *Alerts* (`alert_evaluation_service.py`). A one-time rule over several items fires once per item
  of a batch, since the pass keeps one copy of it (line 229; `docs/ALERT_ENGINE.md:93`). Two rules
  on one item share the cached observation, so the second misses the transition (line 277;
  `docs/ALERT_ENGINE.md:73`). The dedupe key has no time in it and
  swallows a second occurrence with equal values (line 298). A pass saves the whole rule it read at its start: a pause
  or a delete made meanwhile is lost, and a deleted rule comes back. A rule marked as triggered whose event then fails
  to be saved (line 306) is used up, or starts its cooldown, without an alert. An event whose
  process dies before the notification is never notified.
- *Synchronisation* (`marketplace/sync/engine.py`). A run of duplicates only reports a healthy
  connector that keeps its failure streak (line 302; `docs/CONNECTOR_HEALTH.md:15`). A sync with a query moves the
  connector's one cursor over the offers the query left out, and later incremental runs without the query do not see them
  (`mock_live.py:133-147`, query from `marketplace_data.py:243`). Job ids
  come from mode and key, so runs without a key overwrite each other's dead letters, and a key sent twice
  at once starts an ended job again (lines 255, 98; `docs/SYNC_ENGINE.md:51`, `:37`). A crash leaves
  the job `running` and its key is then refused.
- *Imports* (`marketplace_data_service.py`). Without a key the batch id is the file name's, so a
  second file of that name rewrites raw content, and content that is stored is written again
  (line 282; `docs/DATA_IMPORTS.md:47`). So is content whose offer is behind the first 10,000 (line 250).
  `normalize` is called in no try block after the batch is saved: a row whose price is no number passes
  the validation, raises there (line 297), and the batch claims it and the rows behind it although they are not stored
  (`docs/DATA_IMPORTS.md:45`). A crash leaves such a batch, too.

## 4. What TLAPS proves

For every set of workers and executions, every lease, budget, threshold, window
and skew with `Budget < ClaimLease` and `Budget < ProbeLease` (the condition
`_require_connector_timeout_fits_leases` checks at import):

| Theorem | Statement |
|---|---|
| `ClaimSafety` | `Spec => []ClaimInv` |
| `NoReplay`, `ConsumptionIsClaim` | `AtMostOnePost`, `ConsumedWithClaim` always hold |
| `NoInventedOutcome` | `OutcomeNeedsPost`: a recorded success or failure has its one post behind it (no run of its own, `OneLogicalExecution` implies it) |
| `Refinement` | `Spec => OneLogicalExecution` |
| `BreakerSafety` | `Spec => []BreakerInv` |
| `StaleCapability`, `OpenStaysOpen`, `ClaimOutlivesLease`, `ProbeOutlivesLease` | the four action properties |

*The argument.* None of the properties is inductive: whether a commit is right
depends on what the worker read some steps earlier. `ClaimInv` says what such a
memory is worth. A worker's remembered revision is never ahead of its row, and
if it is equal the row is still what the worker judged (`SnapshotBehind`,
`SnapshotState`); so a compare-and-swap that succeeds acts on a fact that is still
true. To it `ClaimInv` adds that a worker past the attempt start knows how often
its execution was posted (`AttemptPosts`), that two workers are never both past
it (`OneAttempt`), and that the three rows agree (`RowsAgree`). `BreakerInv` does the same for the
breaker row: what a worker is about to store was computed from the stored row,
or it loses the swap. `LeaseInv` bounds a worker's clock reading by the reference clock.
Each theorem has one step per action.

For every set of requests and payloads, every horizon and retention of at least
one tick and every skew:

| Theorem | Statement |
|---|---|
| `LedgerSafety` | `Spec => []LedgerInv` |
| `NoForeignReplay` | `Spec => []ReplayMatchesPayload` |
| `NoEarlyReexecution` | `Spec => SpacedExecutions` |

*The argument.* A claim is won when the row is absent, and nothing in an absent
row says when its last execution arrived. `LedgerInv` carries that fact through
the row's life (`RowGuards`): a processing row expires one horizon after the last
execution arrived, a terminal row not before that execution's retention, and the row is
absent only when that retention is over by the fastest clock. Sealing and purging preserve it
because sealing starts a fresh retention from a reading no earlier than the row's expiry.
Completion and `fail_closed` preserve it because, until somebody is overtaken,
only the last execution is in flight (`OnlyLastInFlight`), so the reading they
use is its own. `RowFits` and `RequestFits` tie every stored response to the payload of its execution.

For every number of concurrent calls, hosts or processes, every limit, threshold,
window, duration, retention, page size, number of retries and skew, and any number of
crashes and faults:

| Module | Theorems | Properties |
|---|---|---|
| `RateLimitProofs` | `LimitSafety`, `LimitHolds`, `WindowStays` | `LimitInv`, `NeverPastLimit`, `WindowKept` |
| `FailedLoginLockProofs` | `LockSafety`, `NoLostFailure`, `FewLateGuesses`, `MemoryStays` | `LockInv`, `CountsEveryFailure`, `LateGuessesBounded`, `MemoryKept` |
| `ProposalConfirmationProofs` | `ProposalSafety`, `OneAuthorization`, `FinalForGood`, `OneStart` | `ProposalInv`, `OneAuthorizationPerProposal`, `FinalStays`, `OneStartPerProposal` |
| `ResultsIntegrationProofs` | `ResultsSafety`, `ImplementsDecisionHistory`, `EvidenceOnce`, `WrittenIsHeld`, `MissedResumes` | `ResultsInv`, `DecisionGrows`, `OneVersionPerExecution`, `WrittenMeansHeld`, `MissedIsResumable` |
| `AccountIdentityProofs` | `AccountSafety`, `AccountTypes`, `NoTokenWasted`, `VerifiedIsProven` (while `Sound`) | `AccountInv`, `TypeOK`, `TokenSpentForEffect`, `VerifiedMeansProven` |
| | `AloneSafety`, `OneNoticePerChange`, `NothingOutlivesTheAccount`, `AddressChangesAfterRevocation` | `AloneInv`, `NoticeOnce`, `DeletionLeavesNothing`, `ChangeAfterRevoke` |
| `MarketplaceSyncProofs` | `SyncSafety`, `NothingLost`, `HistoryWhole`, `LettersStay` | `SyncInv`, `NothingSkipped`, `HistoryComplete`, `LettersKept` |

*The arguments.*

- Limiter. The statements check the row they write, so `LimitInv` adds little: an absent row counts
  nothing and no call's reading is ahead of the fastest clock. `WindowStays` needs the latter: a
  delete or a late insert cannot start a window over that is in force for every clock.
- Lock. `LateGuessesBounded` counts guesses that have been made; what makes it inductive is
  `CheckedBound`, which adds the logins that are past the check and have not guessed yet. Each
  guess under a lock moves one from the second number to the first, and the login whose
  failure started the lock is in neither. It needs the set of logins to be finite.
- Proposals. The authorizations a reply holds were read attempts ago. `ProposalInv` says what they
  are worth: if its save would win the compare-and-swap they are the stored ones, or none is
  stored and they are its own; and the id it would create, made of the reply and the attempt, is
  in no list. So a save extends the stored list by at most one authorization, and a start finds the
  pending one it read.
- Results. A record's version never changes once its row exists, a snapshot is written only
  at the version its record names, and versions grow by one; so an execution in two
  versions would have two records. `HandFits` says this of the copies workers hold. For
  the refinement, `AddPublishes` shows that the one action that adds a snapshot is a `Publish` of an execution no
  version holds, and `BindFollows` that the compare-and-swap on the conversation moves the
  binding from the version the worker read to the next one; every other step leaves both alone.
  `MissedIsResumable` needs more of the rows: `FollowInv` says that the binding is at most one version behind,
  that every version is held by an execution whose record names it and was not closed for another reason than a failed
  insert (`RowsFollow`), that a worker about to extend the decision saw its latest version bound, and that one about to
  close a record in conflict met another execution's version there (`HandFollows`). It is inductive on top of `ResultsInv`.
- Accounts. A consumed token needs that the request which consumes it is behind its save
  (`PastSave`), which is the order of the calls. For `VerifiedMeansProven` a copy of the row in a request's hand may be
  arbitrarily old. The invariant says that the account never becomes unverified again once it
  is verified (`Settled`), that an unverified copy has the first address, that a copy that is verified, or a link that went
  to another address than the first, exists only when the account is settled, and that a change is
  confirmed at the address its link went to. A reset that overlaps another request breaks `Settled`,
  which is the disagreement above; one that is alone writes back the row that is stored (`AloneUser`).
- Accounts, one request after another. The three properties guarded by `overlapped` are not inductive
  because a request may stop at any of its calls and the next one starts from what it left. `AloneInv` says
  what that is. Of the rows (`AloneRows`): without the user row nothing is left, at most one change token is
  unconsumed, and a token whose notice was sent and that is still issued has its address in place, so
  that a retry takes the path that sends no second notice. Of the one running request
  (`AloneFits`): what it has read is still stored (`AloneUser`, `AloneConfirm`), the tokens it has to
  invalidate are the unconsumed ones (`AloneRequest`), no session is live between revocation and save, and a
  deletion has removed everything in front of its place (`AloneDelete`). `AccountInv` and
  `AloneInv` are inductive together.
- Synchronisation. `SyncInv` says what a run still owes (`RunFits`): each offer of the page it fetched is stored,
  was recorded, is still on its list or is in its hand, and everything in front of the place it fetched from has been
  passed or filtered. Two runs may do this at once, with one job id or with two, since offers and
  the history of letters only grow. `HistoryKept` says who will finish an offer that has no snapshot yet.
  `LetterInv` is about one keyed request that is not sent twice: its run is the only one, and its unused numbers are free.
- Breaker. `ProbeOutlivesLease` follows from `BreakerInv` because a claim takes a lease only from a row whose lease
  is absent or over by its clock, and loses the swap if the row changed.

*Assumptions.* Each model names what it needs of its constants (`…Assumption`): numbers are naturals,
durations, limits and attempts are not zero, the three kinds of tokens are disjoint, the changes and the
logins at once are finitely many, there is a request and an execution to speak of
(`Requests # {}`, `Executions # {}`), and clients ask for operations that exist. TLC evaluates them in every run.

*Only model-checked.*

- Liveness: `ProcessingEnds`, `LoginsAnswered`, `PendingRecovered`, `RunsEnd`. Fairness
  and ENABLED are outside what the prover can do.
- `AcceptedMeansStored` and `KnownAgain`: a batch's rows are sorted into a sequence (`SetToSortSeq`), and what a sort
  returns for every input needs induction over data.
- `MarkedMeansRaised` and `CooldownKept`: a pass is such a sorted sequence, too.

## 5. Plan

Done: the models; proofs of every safety property of the claim protocol with its breaker, the ledger, the
proposals, the results, the lock, the limiter, the accounts and the synchronisation; and two abstract
specifications, `LogicalExecution` and `DecisionHistory`, proved to be implemented. A specification of the
ledger as "one execution per key and retention" was considered and left out: its one action
would be `SpacedExecutions` again, which is proved as it stands.

What would come next:

1. Proofs for the alerts and the imports, with the rows and the passes as functions whose order the model states instead
   of sorting them.
2. Conversation ownership (`rebind_owner`) and cleanup.
3. If the account repositories are given versions, the properties guarded by `overlapped` and `Sound`
   without their guards.

## 6. Not modelled

The repository has about 134,000 lines of implementation. Most of them have no
behaviour that a state machine could say something about:

- recommendation, scoring, parsing, answer composition and refinement
  (`app/intelligence`, `answer_from_evidence.py`, `refine_session_recommendation.py`,
  `shopping_assistant_service.py`): functions over floating-point numbers and text, without shared state;
- pages, templates, API schemas, dependency wiring (`app/consumer`, `app/api`, `core/dependencies.py`);
- `merchant`, `affiliate`, `early_access`, `analytics`, growth and partner services:
  creation and listing of single rows;
- deployment and staging scripts under `scripts/`: checks around host, registry and
  database commands whose behaviour is not in the repository;
- connectors, probes and certification harnesses for external marketplaces.

The modelled parts are the ones in which several rows, requests or processes
meet. Within them the README's sections above name what is left out, and
`PROJECT.json` the status of each component. The share of lines that the map
covers is small for this reason and cannot be raised much by models that say anything.
