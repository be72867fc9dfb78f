--------------------------- MODULE MarketplaceSync ---------------------------
(***************************************************************************)
(* Synchronisation of one marketplace connector into the durable store.     *)
(* Sources: app/marketplace/sync/engine.py (run) and retry.py,              *)
(* app/services/marketplace_data_service.py (trigger_sync, _make_id),       *)
(* app/infrastructure/database/repositories/marketplace_data_repository.py  *)
(* over operational_store.py, and the paging connector mock_live.py.        *)
(*                                                                          *)
(* The endpoint never awaits between two repository calls, so runs          *)
(* interleave only with runs of other processes; a repository call is one   *)
(* transaction and one action.  Raw records and match conflicts are keyed   *)
(* by job and content and read by nobody else: their saves are part of the  *)
(* step before them.                                                        *)
(*                                                                          *)
(* The connector serves a fixed list of Records offers in slices of Limit.  *)
(* An offer is its position; a malformed one fails in normalize.  A query   *)
(* is the set of offers it matches: the connector leaves the others out of  *)
(* the page, and its cursor moves over them all the same.                   *)
(* request_cancel has no caller.                                            *)
(***************************************************************************)
EXTENDS Integers, FiniteSets

CONSTANTS
  Processes,   \* server processes
  Keys,        \* idempotency keys
  NoKey,       \* a request without a key
  Requests,    \* <<mode, key>>: the requests clients send
  Queries,     \* their queries
  Records,     \* offers the connector serves
  Limit,       \* slice size
  Malformed,   \* offers normalize refuses
  MaxAttempts, \* SyncRetryPolicy.max_attempts
  MaxRuns,     \* bound: runs started
  MaxFaults,   \* bound: failed writes
  MaxCrashes   \* bound: crashes

Modes == {"full", "incremental"}

ASSUME SyncAssumption ==
  /\ NoKey \notin Keys
  /\ Requests \subseteq Modes \X (Keys \cup {NoKey}) /\ Requests # {}
  /\ Records \in Nat /\ Limit \in Nat \ {0} /\ MaxAttempts \in Nat \ {0}
  /\ Malformed \subseteq 1..Records /\ Queries \subseteq SUBSET (1..Records)
  /\ MaxRuns \in Nat /\ MaxFaults \in Nat /\ MaxCrashes \in Nat

VARIABLES
  job,        \* per job id: its row's status
  checkpoint, \* stored cursor, None if no row
  health,     \* the connector's health row
  offers,     \* offer rows and, with them, their content-hash references
  prices,     \* offers with a price snapshot
  inventory,  \* offers with an inventory snapshot
  letters,    \* dead letters: per job id and number, the offer or None
  pr,         \* per process: the run it executes
  passed,     \* history: offers given to runs that got to their cursor
  filtered,   \* history: offers a saved cursor moved over unseen
  recorded,   \* history: offers that have been saved as a dead letter
  doubled,    \* history: job ids requested again before they were answered
  runs, faults, crashes

vars == <<job, checkpoint, health, offers, prices, inventory, letters, pr,
          passed, filtered, recorded, doubled, runs, faults, crashes>>

-----------------------------------------------------------------------------
Offers == 1..Records
None == -1
Numbers == 1..Records

\* _make_id hashes mode and key, so runs without a key share one id per mode.
JobIds == Requests
mode_of(j) == j[1]
key_of(j) == j[2]

FinalStatuses == {"completed", "partially_completed", "failed"}
JobStatuses == {"none", "running"} \cup FinalStatuses

Health == [status : {"unconfigured", "healthy", "degraded", "unavailable"},
           succeeded : BOOLEAN, streak : Nat]

Steps == {"idle", "job", "checkpoint", "fetch", "failing", "unhealthy", "read", "find",
          "offer", "price", "inventory", "letter", "cursor", "health", "final"}

\* todo: the fetched offers not begun; offer: the one being processed, or None;
\* streak, succeeded: what the run read of the health row.
Run == [pc : Steps, job : JobIds, query : SUBSET Offers, attempt : Nat, from : 0..Records,
        todo : SUBSET Offers, offer : Offers \cup {None}, cursor : {None} \cup 0..Records,
        written : Nat, failed : Nat, streak : Nat, succeeded : BOOLEAN,
        status : JobStatuses]

idle == [pc |-> "idle", job |-> CHOOSE j \in JobIds : TRUE, query |-> {}, attempt |-> 0,
         from |-> 0, todo |-> {}, offer |-> None, cursor |-> None, written |-> 0,
         failed |-> 0, streak |-> 0, succeeded |-> FALSE, status |-> "none"]

Init ==
  /\ job = [j \in JobIds |-> "none"]
  /\ checkpoint = None
  /\ health = [status |-> "unconfigured", succeeded |-> FALSE, streak |-> 0]
  /\ offers = {} /\ prices = {} /\ inventory = {}
  /\ letters = [j \in JobIds |-> [n \in Numbers |-> None]]
  /\ pr = [p \in Processes |-> idle]
  /\ passed = {} /\ filtered = {} /\ recorded = {} /\ doubled = {}
  /\ runs = 0 /\ faults = 0 /\ crashes = 0

At(p, pc) == pr[p].pc = pc
Goto(p, pc) == pr' = [pr EXCEPT ![p].pc = pc]
stored_offers == <<offers, prices, inventory>>
seen == <<passed, filtered>>
rows == <<job, checkpoint, health, stored_offers, letters, seen, recorded>>
bounds == <<runs, faults, crashes>>

\* The run r, done with its offer.
next_record(r) ==
  [r EXCEPT !.offer = None, !.pc = IF r.todo = {} THEN "cursor" ELSE "find"]

\* The run r takes up offer o and goes to step pc.
taken_up(r, o, pc) == [r EXCEPT !.offer = o, !.todo = @ \ {o}, !.pc = pc]

\* o is the next offer of run r.
next_offer(r, o) == o \in r.todo /\ \A x \in r.todo : o <= x

-----------------------------------------------------------------------------
(* trigger_sync and the head of run *)

\* Mutant: a key is not looked up.
prior_job_none(k) == FALSE

\* get_sync_job_by_idempotency
prior_job(k) ==
  k # NoKey /\ \E j \in JobIds : key_of(j) = k /\ job[j] # "none"

\* A request whose key has no job yet; otherwise the prior job is returned.
Begin(p, j, query) ==
  /\ At(p, "idle")
  /\ runs < MaxRuns
  /\ runs' = runs + 1
  /\ ~ prior_job(key_of(j))
  /\ pr' = [pr EXCEPT ![p] = [idle EXCEPT !.pc = "job", !.job = j, !.query = query]]
  /\ doubled' = IF \E q \in Processes : ~ At(q, "idle") /\ pr[q].job = j
                  THEN doubled \cup {j} ELSE doubled
  /\ UNCHANGED <<rows, faults, crashes>>

\* save_sync_job of the running job: an upsert by id, and the key is unique
\* among the rows; a violation of that raises out of run.
SaveJob(p) ==
  LET j == pr[p].job
      taken == key_of(j) # NoKey
               /\ \E i \in JobIds \ {j} : key_of(i) = key_of(j) /\ job[i] # "none"
  IN /\ At(p, "job")
     /\ IF taken THEN pr' = [pr EXCEPT ![p] = idle] /\ UNCHANGED job
                 ELSE job' = [job EXCEPT ![j] = "running"] /\ Goto(p, "checkpoint")
     /\ UNCHANGED <<checkpoint, health, stored_offers, letters, seen, recorded, doubled,
                    bounds>>

\* An incremental run starts at the stored cursor, a full one at the first offer.
ReadCheckpoint(p) ==
  /\ At(p, "checkpoint")
  /\ pr' = [pr EXCEPT ![p].pc = "fetch",
              ![p].from = IF mode_of(pr[p].job) = "full" \/ checkpoint = None
                            THEN 0 ELSE checkpoint]
  /\ UNCHANGED <<rows, doubled, bounds>>

-----------------------------------------------------------------------------
(* The fetch loop *)

\* Mutant: the count starts over at the last attempt.
counted_modulo(attempt) == (attempt + 1) % MaxAttempts

\* attempt += 1
counted(attempt) == attempt + 1

\* SyncRetryPolicy.decide
should_retry(attempt, retryable) == attempt < MaxAttempts /\ retryable

\* Mutant: the cursor moves one offer too far.
next_cursor_far(from) == IF from + Limit < Records THEN from + Limit + 1 ELSE None

\* The connector's new checkpoint: none once the list is exhausted.
next_cursor(from) == IF from + Limit < Records THEN from + Limit ELSE None

\* The slice of the list at the cursor.
slice(from) == {o \in Offers : from < o /\ o <= from + Limit}

\* fetch_offers: the offers of the slice that match the query.
Fetch(p) ==
  /\ At(p, "fetch")
  /\ pr' = [pr EXCEPT ![p].pc = "read", ![p].attempt = counted(@),
              ![p].todo = slice(pr[p].from) \cap pr[p].query,
              ![p].cursor = next_cursor(pr[p].from)]
  /\ UNCHANGED <<rows, doubled, bounds>>

\* A rate limit, a transient failure (retryable) or any other exception.
FetchFails(p, retryable) ==
  LET attempt == counted(pr[p].attempt)
  IN /\ At(p, "fetch")
     /\ pr' = [pr EXCEPT ![p].attempt = attempt,
                 ![p].pc = IF should_retry(attempt, retryable) THEN "fetch" ELSE "failing"]
     /\ UNCHANGED <<rows, doubled, bounds>>

\* get_health: of _update_health_failure, or before the records are processed.
ReadHealth(p) ==
  /\ pr[p].pc \in {"failing", "read"}
  /\ pr' = [pr EXCEPT ![p].streak = health.streak, ![p].succeeded = health.succeeded,
              ![p].pc = IF @ = "failing" THEN "unhealthy"
                        ELSE IF pr[p].todo = {} THEN "cursor" ELSE "find"]
  /\ UNCHANGED <<rows, doubled, bounds>>

\* save_health of _update_health_failure; the job then fails.
SaveUnhealthy(p) ==
  LET r == pr[p]
  IN /\ At(p, "unhealthy")
     /\ health' = [status |-> "unavailable", succeeded |-> r.succeeded,
                   streak |-> r.streak + 1]
     /\ pr' = [pr EXCEPT ![p].pc = "final", ![p].status = "failed"]
     /\ UNCHANGED <<job, checkpoint, stored_offers, letters, seen, recorded, doubled,
                    bounds>>

-----------------------------------------------------------------------------
(* The records *)

\* Known content is a duplicate; new content is saved raw, normalized and
\* matched, and malformed content goes to the dead letters.
FindOffer(p) ==
  /\ At(p, "find")
  /\ \E o \in pr[p].todo :
       /\ next_offer(pr[p], o)
       /\ pr' = [pr EXCEPT ![p] =
            IF o \in offers THEN next_record(taken_up(@, o, "find"))
            ELSE taken_up(@, o, IF o \in Malformed THEN "letter" ELSE "offer")]
  /\ UNCHANGED <<rows, doubled, bounds>>

\* save_offer and the content-hash reference, in one transaction.
SaveOffer(p) ==
  /\ At(p, "offer")
  /\ offers' = offers \cup {pr[p].offer}
  /\ Goto(p, "price")
  /\ UNCHANGED <<job, checkpoint, health, prices, inventory, letters, seen, recorded,
                 doubled, bounds>>

SavePrice(p) ==
  /\ At(p, "price")
  /\ prices' = prices \cup {pr[p].offer}
  /\ Goto(p, "inventory")
  /\ UNCHANGED <<job, checkpoint, health, offers, inventory, letters, seen, recorded,
                 doubled, bounds>>

SaveInventory(p) ==
  /\ At(p, "inventory")
  /\ inventory' = inventory \cup {pr[p].offer}
  /\ pr' = [pr EXCEPT ![p] = [next_record(pr[p]) EXCEPT !.written = @ + 1]]
  /\ UNCHANGED <<job, checkpoint, health, offers, prices, letters, seen, recorded,
                 doubled, bounds>>

\* Mutant: a failed record is logged and passed over.
after_failure_skips(r) == next_record(r)

\* The handler of an exception: the dead letter.
after_failure(r) == [r EXCEPT !.pc = "letter"]

\* The look-up or a write of the record raises: what was saved before it stays.
RecordFails(p) ==
  /\ faults < MaxFaults
  /\ faults' = faults + 1
  /\ \/ /\ At(p, "find")
        /\ \E o \in pr[p].todo :
             /\ next_offer(pr[p], o)
             /\ pr' = [pr EXCEPT ![p] = after_failure(taken_up(@, o, "find"))]
     \/ /\ pr[p].pc \in {"offer", "price", "inventory"}
        /\ pr' = [pr EXCEPT ![p] = after_failure(@)]
  /\ UNCHANGED <<rows, doubled, runs, crashes>>

\* save_dead_letter: an upsert by job id and number within the run.
SaveDeadLetter(p) ==
  LET n == pr[p].failed + 1
  IN /\ At(p, "letter")
     /\ letters' = [letters EXCEPT ![pr[p].job][n] = pr[p].offer]
     /\ recorded' = recorded \cup {pr[p].offer}
     /\ pr' = [pr EXCEPT ![p] = [next_record(pr[p]) EXCEPT !.failed = n]]
     /\ UNCHANGED <<job, checkpoint, health, stored_offers, seen, doubled, bounds>>

-----------------------------------------------------------------------------
(* The end of run *)

SaveCheckpoint(p) ==
  /\ At(p, "cursor")
  /\ checkpoint' = IF pr[p].cursor = None THEN checkpoint ELSE pr[p].cursor
  /\ passed' = passed \cup (slice(pr[p].from) \cap pr[p].query)
  /\ filtered' = IF pr[p].cursor = None THEN filtered
                  ELSE filtered \cup (slice(pr[p].from) \ pr[p].query)
  /\ Goto(p, "health")
  /\ UNCHANGED <<job, health, stored_offers, letters, recorded, doubled, bounds>>

result_status(r) ==
  IF r.failed = 0 THEN "completed"
  ELSE IF r.written > 0 THEN "partially_completed" ELSE "failed"

health_status == [completed |-> "healthy", partially_completed |-> "degraded",
                  failed |-> "unavailable"]

SaveHealth(p) ==
  LET r == pr[p]
  IN /\ At(p, "health")
     /\ health' = [status |-> health_status[result_status(r)],
                   succeeded |-> r.written > 0,
                   streak |-> IF r.written > 0 THEN 0 ELSE r.streak + 1]
     /\ pr' = [pr EXCEPT ![p].pc = "final", ![p].status = result_status(r)]
     /\ UNCHANGED <<job, checkpoint, stored_offers, letters, seen, recorded, doubled,
                    bounds>>

\* _finalize
Finalize(p) ==
  /\ At(p, "final")
  /\ job' = [job EXCEPT ![pr[p].job] = pr[p].status]
  /\ pr' = [pr EXCEPT ![p] = idle]
  /\ UNCHANGED <<checkpoint, health, stored_offers, letters, seen, recorded, doubled, bounds>>

\* The process dies, or a save outside the records' try block raises: the rows
\* stay as they are.
Crash(p) ==
  /\ ~ At(p, "idle")
  /\ crashes < MaxCrashes
  /\ crashes' = crashes + 1
  /\ pr' = [pr EXCEPT ![p] = idle]
  /\ UNCHANGED <<rows, doubled, runs, faults>>

-----------------------------------------------------------------------------
Progress(p) ==
  \/ SaveJob(p) \/ ReadCheckpoint(p) \/ Fetch(p)
  \/ \E retryable \in BOOLEAN : FetchFails(p, retryable)
  \/ SaveUnhealthy(p) \/ ReadHealth(p) \/ FindOffer(p)
  \/ SaveOffer(p) \/ SavePrice(p) \/ SaveInventory(p) \/ RecordFails(p)
  \/ SaveDeadLetter(p) \/ SaveCheckpoint(p) \/ SaveHealth(p) \/ Finalize(p)

Next == \E p \in Processes : \/ \E j \in Requests, query \in Queries : Begin(p, j, query)
                             \/ Progress(p) \/ Crash(p)

Spec == Init /\ [][Next]_vars

\* A run is a plain call: a process that does not die goes on with it.
FairSpec == Spec /\ \A p \in Processes : WF_vars(Progress(p))

-----------------------------------------------------------------------------
TypeOK ==
  /\ job \in [JobIds -> JobStatuses]
  /\ checkpoint \in {None} \cup 0..Records
  /\ health \in Health
  /\ offers \subseteq Offers /\ prices \subseteq Offers /\ inventory \subseteq Offers
  /\ letters \in [JobIds -> [Numbers -> Offers \cup {None}]]
  /\ pr \in [Processes -> Run]
  /\ passed \subseteq Offers /\ filtered \subseteq Offers /\ recorded \subseteq Offers
  /\ doubled \subseteq JobIds
  /\ runs \in 0..MaxRuns /\ faults \in 0..MaxFaults /\ crashes \in 0..MaxCrashes

\* Whatever failed, crashed or ran at the same time, every offer that was given
\* to a run which got to its cursor is stored or has been saved as a dead letter,
\* and the stored cursor has moved over no other offers than these and the ones
\* that a query left out.
NothingSkipped ==
  /\ passed \subseteq offers \cup recorded
  /\ checkpoint # None => 1..checkpoint \subseteq passed \cup filtered

\* While no run is under way, every stored offer, and every offer that was given
\* to a run which got to its cursor, has its price and inventory snapshots or has
\* been saved as a dead letter, although a run takes the half-written offer of
\* another one for a duplicate.  A process that died may leave an offer without.
HistoryComplete ==
  crashes = 0 /\ (\A p \in Processes : At(p, "idle")) =>
    offers \cup passed \subseteq recorded \cup (prices \cap inventory)

\* The dead letters of a request with a key stay: no later run, retry of the key
\* or crash puts another offer in their place, unless the request is sent again
\* before it is answered.
LettersKept ==
  [][\A j \in JobIds, n \in Numbers :
       key_of(j) # NoKey /\ j \notin doubled /\ letters[j][n] # None =>
         letters'[j][n] = letters[j][n]]_vars

\* A run whose process stays alive ends, even if the connector fails for ever.
RunsEnd == \A p \in Processes : ~ At(p, "idle") ~> At(p, "idle")
==============================================================================
