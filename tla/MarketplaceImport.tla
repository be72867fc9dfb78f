-------------------------- MODULE MarketplaceImport --------------------------
(***************************************************************************)
(* Import of offers from CSV or JSON files into the durable store.  Sources: *)
(* app/services/marketplace_data_service.py (import_payload, _make_id),     *)
(* app/marketplace/imports/pipeline.py (prepare_batch) and                  *)
(* app/infrastructure/database/repositories/marketplace_data_repository.py. *)
(*                                                                          *)
(* A row is its content, which is what its hash tells apart; parsing and    *)
(* field mapping are left out, and an invalid row is one validate_mapped_   *)
(* row refuses; an unpriced one passes it and is refused by normalize, since *)
(* its price is not a number.  The endpoint never awaits between two        *)
(* repository calls; each call that writes is one action.  The offers and   *)
(* the raw records behind known_hashes are read in one step.                *)
(***************************************************************************)
EXTENDS Integers, Sequences, FiniteSets

LOCAL INSTANCE SequencesExt

CONSTANTS
  Processes,  \* server processes
  Contents,   \* row contents
  Invalid,    \* contents the validation rejects
  Unpriced,   \* contents the validation accepts and normalize refuses
  Listing,    \* offers that are listed for comparison: limit=10_000
  Files,      \* file names
  Keys,       \* idempotency keys
  NoKey,      \* a request without a key
  Requests,   \* <<file, key>>: the requests clients send
  Payloads,   \* row sequences a file may hold
  MaxImports, \* bound: imports started
  MaxCrashes  \* bound: crashes

ASSUME ImportAssumption ==
  /\ NoKey \notin Keys /\ Requests \subseteq Files \X (Keys \cup {NoKey})
  /\ Invalid \subseteq Contents /\ Unpriced \subseteq Contents \ Invalid
  /\ Payloads \subseteq Seq(Contents) /\ Listing \in Nat
  /\ MaxImports \in Nat /\ MaxCrashes \in Nat

VARIABLES
  batch,     \* per batch id: its row
  raw,       \* per batch id and row number: the content of the raw record
  offer,     \* per content: the raw record its offer names, or None
  order,     \* the contents of the offer rows in the order of their insertion
  prices,    \* contents with a price snapshot
  inventory, \* contents with an inventory snapshot
  pr,        \* per process: the import it executes
  doubled,   \* history: batch ids requested again before they were answered
  imports, crashes

vars == <<batch, raw, offer, order, prices, inventory, pr, doubled, imports, crashes>>

-----------------------------------------------------------------------------
None == <<>>

\* _make_id hashes file name and key.
BatchIds == Requests
key_of(b) == b[2]

MaxRows == Max({Len(rows) : rows \in Payloads} \cup {0})
RawIds == BatchIds \X (1..MaxRows)

Statuses == {"none", "failed", "partially_completed", "completed"}
Batch == [status : Statuses, accepted : Seq(Contents)]

Steps == {"idle", "batch", "raw", "offer", "price", "inventory"}
Import == [pc : Steps, id : BatchIds, status : Statuses, accepted : Seq(Contents), row : Nat]

idle == [pc |-> "idle", id |-> CHOOSE b \in BatchIds : TRUE, status |-> "none",
         accepted |-> <<>>, row |-> 0]

Init ==
  /\ batch = [b \in BatchIds |-> [status |-> "none", accepted |-> <<>>]]
  /\ raw = [i \in RawIds |-> None]
  /\ offer = [c \in Contents |-> None]
  /\ order = <<>> /\ prices = {} /\ inventory = {} /\ doubled = {}
  /\ pr = [p \in Processes |-> idle]
  /\ imports = 0 /\ crashes = 0

At(p, pc) == pr[p].pc = pc
TheRow(p) == pr[p].accepted[pr[p].row]
offers == <<offer, order>>
snapshots == <<prices, inventory>>
Goto(p, pc) == pr' = [pr EXCEPT ![p].pc = pc]
bounds == <<imports, crashes>>

-----------------------------------------------------------------------------
(* ImportPipeline.prepare_batch *)

\* The hashes of the raw records that the listed offers name: list_offers gives
\* the ones inserted first.
known_hashes ==
  {c \in Contents :
     \E n \in 1..Len(order) : n <= Listing /\ raw[offer[order[n]]] = <<c>>}

\* Rows that are neither known, nor repeated in the file, nor invalid.
accepted_rows(rows, known) ==
  LET first(n) == \A m \in 1..(n - 1) : rows[m] # rows[n]
      kept == {n \in DOMAIN rows : first(n) /\ rows[n] \notin known \cup Invalid}
  IN [i \in 1..Cardinality(kept) |-> rows[SetToSortSeq(kept, <)[i]]]

\* An invalid row counts as rejected each time, a known or repeated one as a duplicate.
batch_status(rows, known) ==
  LET accepted == accepted_rows(rows, known)
      rejected == {n \in DOMAIN rows : rows[n] \in Invalid \ known}
  IN IF accepted = <<>> /\ rejected # {} THEN "failed"
     ELSE IF Len(accepted) < Len(rows) THEN "partially_completed" ELSE "completed"

-----------------------------------------------------------------------------
(* import_payload *)

\* Mutant: a batch that was only partially completed may be sent again.
prior_batch_completed(k) ==
  k # NoKey /\ \E b \in BatchIds : key_of(b) = k /\ batch[b].status = "completed"

\* get_import_batch_by_idempotency
prior_batch(k) == k # NoKey /\ \E b \in BatchIds : key_of(b) = k /\ batch[b].status # "none"

\* A request whose key has no batch yet: the file is compared with the store.
Prepare(p, b, rows) ==
  /\ At(p, "idle")
  /\ imports < MaxImports
  /\ imports' = imports + 1
  /\ ~ prior_batch(key_of(b))
  /\ pr' = [pr EXCEPT ![p] = [pc |-> "batch", id |-> b, row |-> 1,
              status |-> batch_status(rows, known_hashes),
              accepted |-> accepted_rows(rows, known_hashes)]]
  /\ doubled' = IF \E q \in Processes : ~ At(q, "idle") /\ pr[q].id = b
                  THEN doubled \cup {b} ELSE doubled
  /\ UNCHANGED <<batch, raw, offers, snapshots, crashes>>

\* save_import_batch, an upsert by id whose key is unique, and the records of
\* its rows, which nothing else reads.
SaveBatch(p) ==
  LET b == pr[p].id
      taken == key_of(b) # NoKey /\ \E a \in BatchIds \ {b} :
                 key_of(a) = key_of(b) /\ batch[a].status # "none"
  IN /\ At(p, "batch")
     /\ IF taken
          THEN pr' = [pr EXCEPT ![p] = idle] /\ UNCHANGED batch
          ELSE /\ batch' = [batch EXCEPT ![b] = [status |-> pr[p].status,
                                                 accepted |-> pr[p].accepted]]
               /\ pr' = [pr EXCEPT ![p] = IF @.accepted = <<>> THEN idle
                                          ELSE [@ EXCEPT !.pc = "raw"]]
     /\ UNCHANGED <<raw, offers, snapshots, doubled, bounds>>

\* save_raw_record, an upsert by batch id and row, then normalize, which is in no
\* try block: an exception of it ends the import.
SaveRaw(p) ==
  /\ At(p, "raw")
  /\ raw' = [raw EXCEPT ![<<pr[p].id, pr[p].row>>] = <<TheRow(p)>>]
  /\ pr' = [pr EXCEPT ![p] = IF TheRow(p) \in Unpriced THEN idle
                             ELSE [@ EXCEPT !.pc = "offer"]]
  /\ UNCHANGED <<batch, offers, snapshots, doubled, bounds>>

\* save_offer: the offer's id is made from its content, and an upsert keeps the
\* place of the row.
SaveOffer(p) ==
  /\ At(p, "offer")
  /\ offer' = [offer EXCEPT ![TheRow(p)] = <<pr[p].id, pr[p].row>>]
  /\ order' = IF offer[TheRow(p)] = None THEN Append(order, TheRow(p)) ELSE order
  /\ Goto(p, "price")
  /\ UNCHANGED <<batch, raw, snapshots, doubled, bounds>>

SavePrice(p) ==
  /\ At(p, "price")
  /\ prices' = prices \cup {TheRow(p)}
  /\ Goto(p, "inventory")
  /\ UNCHANGED <<batch, raw, offers, inventory, doubled, bounds>>

\* Mutant: the loop ends one row early.
last_row_early(r) == r.row + 1 >= Len(r.accepted)

\* The loop over the accepted rows is done.
last_row(r) == r.row = Len(r.accepted)

SaveInventory(p) ==
  /\ At(p, "inventory")
  /\ inventory' = inventory \cup {TheRow(p)}
  /\ pr' = [pr EXCEPT ![p] = IF last_row(@) THEN idle
                             ELSE [@ EXCEPT !.pc = "raw", !.row = @ + 1]]
  /\ UNCHANGED <<batch, raw, offers, prices, doubled, bounds>>

\* The process dies, or a save raises: the rest of the batch is not written.
Crash(p) ==
  /\ ~ At(p, "idle")
  /\ crashes < MaxCrashes
  /\ crashes' = crashes + 1
  /\ pr' = [pr EXCEPT ![p] = idle]
  /\ UNCHANGED <<batch, raw, offers, snapshots, doubled, imports>>

Progress(p) == SaveBatch(p) \/ SaveRaw(p) \/ SaveOffer(p) \/ SavePrice(p) \/ SaveInventory(p)

Next ==
  \E p \in Processes :
    \/ \E b \in Requests, rows \in Payloads : Prepare(p, b, rows)
    \/ Progress(p)
    \/ Crash(p)

Spec == Init /\ [][Next]_vars

-----------------------------------------------------------------------------
TypeOK ==
  /\ batch \in [BatchIds -> Batch]
  /\ raw \in [RawIds -> {None} \cup {<<c>> : c \in Contents}]
  /\ offer \in [Contents -> {None} \cup RawIds]
  /\ order \in Seq(Contents) /\ prices \subseteq Contents /\ inventory \subseteq Contents
  /\ pr \in [Processes -> Import] /\ doubled \subseteq BatchIds
  /\ imports \in 0..MaxImports /\ crashes \in 0..MaxCrashes

\* A listed offer that came with a key is recognised in every later file: no
\* import, retry or crash puts other content behind its raw record, unless the
\* request was sent again before it was answered.
KnownAgain ==
  \A n \in 1..Len(order) :
    LET c == order[n]
        b == offer[c][1]
    IN n <= Listing /\ key_of(b) # NoKey /\ b \notin doubled => c \in known_hashes

\* Once nobody works on a batch, the rows it reports as accepted are stored with
\* both snapshots, as far as the first one that normalize refuses, unless a
\* process died; also if imports share the batch id.
AcceptedMeansStored ==
  crashes = 0 =>
    \A b \in BatchIds :
      (\A p \in Processes : ~ At(p, "idle") => pr[p].id # b) =>
        LET rows == batch[b].accepted
        IN \A n \in DOMAIN rows :
             (\A m \in 1..n : rows[m] \notin Unpriced) =>
               offer[rows[n]] # None /\ rows[n] \in prices \cap inventory
==============================================================================
