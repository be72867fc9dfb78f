-------------------------- MODULE SubmissionLedger --------------------------
(***************************************************************************)
(* The replay ledger of POST /api/v1/shopping-assistant/query: one row per  *)
(* authority scope and Idempotency-Key decides whether a submission runs,   *)
(* is replayed or is refused.  Sources: app/shopping/                       *)
(* submission_idempotency.py (apply_shopping_submission, _interpret),       *)
(* app/infrastructure/database/shopping_submission_store.py (the shared SQL *)
(* store) and app/api/v1/endpoints/shopping_assistant.py.                   *)
(*                                                                          *)
(* Keys meet only in the sweep that each claim runs over the whole table,   *)
(* so the module follows the row of one key; claims of other keys are       *)
(* SweepByOthers.  A request reads the clock once, when it arrives, and     *)
(* every call it makes on the ledger, however late, carries that reading.   *)
(* The in-memory store runs a claim under a lock: its behaviours are among  *)
(* these.  release_unentered and cleanup have no caller.                    *)
(***************************************************************************)
EXTENDS Naturals, Sequences

CONSTANTS
  Requests,   \* HTTP requests in progress that carry this key
  Prints,     \* fingerprints: digests of the payloads sent with the key
  NoPrint,    \* the fingerprint of no request
  Horizon,    \* PROCESSING_HORIZON_SECONDS, in clock ticks
  Retention,  \* SUBMISSION_RETENTION_SECONDS, in clock ticks
  Skew,       \* how far a host's clock may be from the reference clock
  MaxTime,    \* bound: the reference clock stops here
  MaxRuns     \* bound: submissions that win the claim

ASSUME LedgerAssumption ==
  /\ NoPrint \notin Prints
  /\ Horizon \in Nat \ {0} /\ Retention \in Nat \ {0}
  /\ Skew \in Nat /\ MaxTime \in Nat /\ MaxRuns \in Nat

VARIABLES
  clock,     \* reference time
  row,       \* the key's row
  rq,        \* per request: control state and local variables
  ran,       \* history: the submissions that won the claim, in order
  overtaken  \* history: a submission won while another was still executing

vars == <<clock, row, rq, ran, overtaken>>

\* A response is the number of the execution that produced it, 0 for none.
Row ==
  [state: {"absent", "processing", "completed", "indeterminate"},
   print: Prints \cup {NoPrint}, response: Nat, expires: Nat]
InFlight == {"executing", "answered", "raised", "unstored"}
Request ==
  [pc: {"idle", "claim", "insert"} \cup InFlight, print: Prints \cup {NoPrint},
   now: Nat, run: Nat]

absent_row ==
  [state |-> "absent", print |-> NoPrint, response |-> 0, expires |-> 0]
idle_request ==
  [pc |-> "idle", print |-> NoPrint, now |-> 0, run |-> 0]

Init ==
  /\ clock = 0
  /\ row = absent_row
  /\ rq = [r \in Requests |-> idle_request]
  /\ ran = <<>>
  /\ overtaken = FALSE

-----------------------------------------------------------------------------
(* The store's operations on the row *)

processing_record(print, now) ==
  [state |-> "processing", print |-> print, response |-> 0,
   expires |-> now + Horizon]

\* Mutant: a sealed row keeps the processing horizon as its expiry.
indeterminate_same_expiry(x, now) ==
  [x EXCEPT !.state = "indeterminate", !.response = 0]

indeterminate_record(x, now) ==
  [x EXCEPT !.state = "indeterminate", !.response = 0, !.expires = now + Retention]

\* Mutant: a stale processing row is treated as a lease and dropped.
seal_as_lease(x, now) ==
  IF x.state = "processing" /\ x.expires <= now THEN absent_row ELSE x

seal(x, now) ==
  IF x.state = "processing" /\ x.expires <= now
    THEN indeterminate_record(x, now)
    ELSE x

Expired(x, now) ==
  x.state \in {"completed", "indeterminate"} /\ x.expires <= now

purge(x, now) == IF Expired(x, now) THEN absent_row ELSE x

\* Mutant: the sweep only purges.
sweep_without_seal(x, now) == purge(x, now)

sweep(x, now) == purge(seal(x, now), now)

fail_closed(x, now) ==
  IF x.state = "processing" THEN indeterminate_record(x, now) ELSE x

\* Mutant: complete() looks the row up by its key alone.
CompletesAnyPrint(x, q) == x.state = "processing"

\* complete() recognises its row by state and fingerprint.
Completes(x, q) == x.state = "processing" /\ x.print = q.print

completed_record(x, q) ==
  [x EXCEPT !.state = "completed", !.response = q.run,
            !.expires = q.now + Retention]

\* _interpret: whether a claim that finds row x replays its response.
Replays(x, q) ==
  x.print = q.print /\ x.state = "completed" /\ x.expires > q.now

-----------------------------------------------------------------------------
Readings == {t \in 0..(MaxTime + Skew) : t <= clock + Skew /\ clock <= t + Skew}

At(r, pc) == rq[r].pc = pc
Become(r, q) == rq' = [rq EXCEPT ![r] = q]
Return(r) == Become(r, idle_request)

Submit(r, p) ==
  /\ At(r, "idle")
  /\ \E t \in Readings :
       Become(r, [idle_request EXCEPT !.pc = "claim", !.print = p, !.now = t])
  /\ UNCHANGED <<clock, row, ran, overtaken>>

\* The insert succeeds: the caller is the one that executes.
Win(r) ==
  LET q == rq[r] IN
  /\ Len(ran) < MaxRuns
  /\ row' = processing_record(q.print, q.now)
  /\ ran' = Append(ran, [print |-> q.print, now |-> q.now])
  /\ overtaken' = (overtaken \/ \E v \in Requests : rq[v].pc \in InFlight)
  /\ Become(r, [q EXCEPT !.pc = "executing", !.run = Len(ran) + 1])

\* The claim is answered from the row: a replay, or a refusal (conflict,
\* in_progress, indeterminate).
Interpret(r) ==
  /\ Return(r)
  /\ UNCHANGED <<ran, overtaken>>

\* _claim_once up to the insert.  A sweep that changes the row keeps it
\* locked until the commit, so the transaction ends in the same step.
ClaimSweep(r) ==
  LET swept == sweep(row, rq[r].now) IN
  /\ At(r, "claim")
  /\ \/ /\ swept = row
        /\ Become(r, [rq[r] EXCEPT !.pc = "insert"])
        /\ UNCHANGED <<row, ran, overtaken>>
     \/ /\ swept # row /\ swept.state = "absent"
        /\ Win(r)
     \/ /\ swept # row /\ swept.state # "absent"
        /\ row' = swept
        /\ Interpret(r)
  /\ UNCHANGED clock

\* The insert: it wins, or meets the row some other transaction committed
\* since.  An expired row means that the sweep has to be repeated.
ClaimInsert(r) ==
  /\ At(r, "insert")
  /\ \/ /\ row.state = "absent"
        /\ Win(r)
     \/ /\ Expired(row, rq[r].now)
        /\ Become(r, [rq[r] EXCEPT !.pc = "claim"])
        /\ UNCHANGED <<row, ran, overtaken>>
     \/ /\ row.state # "absent" /\ ~Expired(row, rq[r].now)
        /\ Interpret(r)
        /\ UNCHANGED row
  /\ UNCHANGED clock

\* service.query returns or raises.
ExecuteReturns(r) ==
  /\ At(r, "executing")
  /\ \E pc \in {"answered", "raised"} : Become(r, [rq[r] EXCEPT !.pc = pc])
  /\ UNCHANGED <<clock, row, ran, overtaken>>

\* The shopper gets the answer whether or not the ledger stored it.  A store
\* that fails may have committed before the connection was lost.
Complete(r) ==
  LET q == rq[r] IN
  /\ At(r, "answered")
  /\ \/ /\ Completes(row, q)
        /\ row' = completed_record(row, q)
        /\ Return(r) \/ Become(r, [q EXCEPT !.pc = "unstored"])
     \/ /\ ~Completes(row, q)
        /\ row' = row
        /\ IF row.state = "completed" /\ row.print = q.print /\ row.response = q.run
             THEN Return(r)
             ELSE Become(r, [q EXCEPT !.pc = "unstored"])
  /\ UNCHANGED <<clock, ran, overtaken>>

\* A response over MAX_RESPONSE_CHARS is not stored, or the store is down.
CompleteFails(r) ==
  /\ At(r, "answered")
  /\ row' \in {row, fail_closed(row, rq[r].now)}
  /\ Become(r, [rq[r] EXCEPT !.pc = "unstored"])
  /\ UNCHANGED <<clock, ran, overtaken>>

\* After an exception, or when complete() did not store.
FailClosed(r) ==
  /\ rq[r].pc \in {"raised", "unstored"}
  /\ row' \in {row, fail_closed(row, rq[r].now)}
  /\ Return(r)
  /\ UNCHANGED <<clock, ran, overtaken>>

\* The process dies, or the store is unavailable to a claim.
Crash(r) ==
  /\ ~At(r, "idle")
  /\ Return(r)
  /\ UNCHANGED <<clock, row, ran, overtaken>>

\* The sweep of a claim on another key.
SweepByOthers ==
  /\ \E t \in Readings :
       /\ sweep(row, t) # row
       /\ row' = sweep(row, t)
  /\ UNCHANGED <<clock, rq, ran, overtaken>>

Tick ==
  /\ clock < MaxTime
  /\ clock' = clock + 1
  /\ UNCHANGED <<row, rq, ran, overtaken>>

RequestStep(r) ==
  \/ ClaimSweep(r) \/ ClaimInsert(r) \/ ExecuteReturns(r)
  \/ Complete(r) \/ CompleteFails(r) \/ FailClosed(r)

Next ==
  \/ Tick
  \/ SweepByOthers
  \/ \E r \in Requests : RequestStep(r) \/ Crash(r)
  \/ \E r \in Requests, p \in Prints : Submit(r, p)

Spec == Init /\ [][Next]_vars

\* Time passes, and shoppers keep using the assistant: some claim, on
\* whatever key, sweeps the table again and again.  Nothing is assumed of the
\* requests that carry this key; each of them may crash or hang.
LiveSpec == Spec /\ WF_vars(Tick) /\ WF_vars(SweepByOthers)

-----------------------------------------------------------------------------
(* Properties *)

Last == ran[Len(ran)]

TypeOK ==
  /\ clock \in Nat
  /\ row \in Row
  /\ rq \in [Requests -> Request]
  /\ ran \in Seq([print: Prints, now: Nat])
  /\ overtaken \in BOOLEAN

\* A retried submission does not apply twice: whatever crashes, seals, store
\* outages and late completions come in between, a key executes again only
\* once its retention, counted from the arrival of the submission that
\* executed before, is over.  It stops holding only after a submission that
\* executed for longer than the retention was overtaken by another: its late
\* complete or fail_closed does not know that the row has a new owner.
SpacedExecutions ==
  [][(ran' # ran /\ ran # <<>> /\ ~overtaken)
       => clock + Skew >= Last.now + Retention]_vars

\* A stored response, and so every replay, was computed for the payload it is
\* replayed to, also when a late executor completes the row of a later
\* submission with the same key.
ReplayMatchesPayload ==
  \A r \in Requests :
    Replays(row, rq[r]) => ran[row.response].print = rq[r].print

\* "An expired processing horizon seals the row": a submission whose process
\* died does not answer "already in progress" for ever.
ProcessingEnds ==
  (row.state = "processing" /\ row.expires <= MaxTime) ~> row.state # "processing"

-----------------------------------------------------------------------------
(* The inductive invariant *)

Terminal == {"completed", "indeterminate"}

\* Every claim that was won is remembered, and a row has a payload.
RowFits ==
  /\ row.state # "absent" => row.print \in Prints /\ ran # <<>>
  /\ row.state = "completed" => /\ row.response \in 1..Len(ran)
                                /\ ran[row.response].print = row.print
RequestFits(q) ==
  /\ q.now <= clock + Skew
  /\ q.pc # "idle" => q.print \in Prints
  /\ q.pc \in InFlight => /\ q.run \in 1..Len(ran)
                          /\ ran[q.run] = [print |-> q.print, now |-> q.now]

\* What the row still says of the last execution's arrival.
RowGuards ==
  /\ row.state = "processing" => row.expires = Last.now + Horizon
  /\ row.state \in Terminal => row.expires >= Last.now + Retention
  /\ row.state = "absent" => clock + Skew >= Last.now + Retention
OnlyLastInFlight ==
  \A r \in Requests : rq[r].pc \in InFlight => rq[r].run = Len(ran)

LedgerInv ==
  /\ TypeOK
  /\ RowFits
  /\ \A r \in Requests : RequestFits(rq[r])
  /\ ~overtaken => OnlyLastInFlight /\ (ran # <<>> => RowGuards)
=============================================================================
