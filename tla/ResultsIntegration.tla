-------------------------- MODULE ResultsIntegration --------------------------
(***************************************************************************)
(* How the evidence of finished research executions becomes the next        *)
(* version of one decision, and how the shopper's conversation is bound to  *)
(* it.  Source: app/services/canonical_research_results.py, with            *)
(* DecisionSnapshotBinder.advance_after_verified_research and the snapshot  *)
(* and conversation repositories it calls.                                  *)
(*                                                                          *)
(* Three stores are written one after the other, each in a transaction of   *)
(* its own: the integration record of the execution (pending), the snapshot *)
(* of the next version, the conversation's binding.  The RLock of the       *)
(* service serialises one process only, so a worker here is a process and   *)
(* every repository call is an action.  A process may die between any two   *)
(* calls, which also stands for an exception that leaves integrate.         *)
(* continue_confirmed calls integrate once; the service takes any number of *)
(* calls, and its tests make them, so they come at any time, or never.      *)
(*                                                                          *)
(* A snapshot is what the properties tell apart: the executions whose       *)
(* evidence it holds, in order; version 1 holds none.  Scores, economics    *)
(* and the recommendation are copied by the code and left out.  Every       *)
(* execution here completed with production evidence and belongs to the     *)
(* conversation's owner; the refusals before the first read change nothing. *)
(* Which products the evidence is about does not change once it is stored.  *)
(***************************************************************************)
EXTENDS Naturals, Sequences, FiniteSets

CONSTANTS
  Executions,  \* completed research executions of the decision
  Workers,     \* processes
  MaxTurns,    \* bound: saves of the conversation by other writers
  MaxFaults    \* bound: processes that die inside integrate, inserts that raise

ASSUME ResultsAssumption ==
  Executions # {} /\ MaxTurns \in Nat /\ MaxFaults \in Nat

VARIABLES
  outside,    \* executions whose products or variants do not map to the decision
  snapshots,  \* the versions of the decision, insert-only
  record,     \* per execution: its ResultsIntegrationRecord
  conv,       \* the conversation: bound version and persistence_version
  wk,         \* per worker: control state and local variables
  turns,      \* saves by other writers so far
  faults      \* processes that died and inserts that raised so far

stores == <<outside, snapshots, record, conv>>
vars == <<stores, wk, turns, faults>>

-----------------------------------------------------------------------------
States == {"none", "pending", "snapshot_written", "bound", "snapshot_failed",
           "integration_conflict", "set_aside"}

Record == [state : States, version : Nat, revision : Nat]
no_record == [state |-> "none", version |-> 0, revision |-> 0]

Steps == {"idle", "conversation", "record", "again", "insert", "remember", "add",
          "settle", "promote", "reload", "bind", "recheck", "mark", "resume",
          "recover"}

\* base: version read as latest; seen: version read as bound; rec: record in
\* hand; pv: persistence_version in hand; goal: the state settle moves to;
\* fresh: bind was reached from _promote_and_bind.
Worker == [pc : Steps, execution : Executions, base : Nat, seen : Nat,
           rec : Record, pv : Nat, goal : States, fresh : BOOLEAN]

\* The forward moves a record may make.
forward == [s \in States |->
  CASE s = "pending" -> {"snapshot_written", "snapshot_failed", "integration_conflict"}
    [] s = "snapshot_written" -> {"bound"}
    [] OTHER -> {}]

\* transition: the record still has the revision in hand and moves forward.
Moves(e, rec, state) ==
  /\ record[e].revision = rec.revision
  /\ state \in forward[record[e].state]

moved(rec, state) == [rec EXCEPT !.state = state, !.revision = @ + 1]

Latest == Len(snapshots)
next_snapshot(v, e) == Append(snapshots[v], e)

\* Mutant: only the version is compared.
matches_any_update(v, e) == v + 1 <= Latest

\* The snapshot stored after version v is the one e would have written.
matches_research_update(v, e) == snapshots[v + 1] = next_snapshot(v, e)

\* Mutant: rows are found by execution and next version.
existing_for_version(w) ==
  /\ record[wk[w].execution].state # "none"
  /\ record[wk[w].execution].version = wk[w].base + 1

\* The record of a worker's execution exists.
existing(w) == record[wk[w].execution].state # "none"

-----------------------------------------------------------------------------
Init ==
  /\ outside \in SUBSET Executions
  /\ snapshots = << <<>> >>
  /\ record = [e \in Executions |-> no_record]
  /\ conv = [bound |-> 1, pv |-> 0]
  /\ wk = [w \in Workers |->
             [pc |-> "idle", execution |-> CHOOSE e \in Executions : TRUE, base |-> 0,
              seen |-> 0, rec |-> no_record, pv |-> 0, goal |-> "none", fresh |-> FALSE]]
  /\ turns = 0 /\ faults = 0

At(w, pc) == wk[w].pc = pc
Goto(w, pc) == wk' = [wk EXCEPT ![w].pc = pc]
Idle(w) == [wk[w] EXCEPT !.pc = "idle", !.base = 0, !.seen = 0, !.rec = no_record,
                         !.pv = 0, !.goal = "none", !.fresh = FALSE]
Return(w) == wk' = [wk EXCEPT ![w] = Idle(w)]
Outsiders == UNCHANGED <<turns, faults>>

-----------------------------------------------------------------------------
(* _integrate *)

\* integrate is called; the latest snapshot is read.
Start(w, e) ==
  /\ At(w, "idle")
  /\ wk' = [wk EXCEPT ![w] = [Idle(w) EXCEPT !.pc = "conversation",
                                             !.execution = e, !.base = Latest]]
  /\ UNCHANGED stores /\ Outsiders

ReadConversation(w) ==
  /\ At(w, "conversation")
  /\ wk' = [wk EXCEPT ![w].pc = "record", ![w].seen = conv.bound]
  /\ UNCHANGED stores /\ Outsiders

\* Mutant: a row that a crash left pending is not resumed.
resumable_states_without_pending == {"snapshot_written", "bound"}

\* The record states integrate continues before it looks at the versions.
resumable_states == {"pending", "snapshot_written", "bound"}

\* Mutant: the next version is written although the latest is not bound.
extends_any(w) == TRUE

\* Only the version the conversation is bound to is extended.
extends_bound(w) == wk[w].seen = wk[w].base

\* A live record is resumed, another goes on from the latest version.
ReadRecord(w) ==
  LET e == wk[w].execution
  IN /\ At(w, "record")
     /\ IF existing(w) /\ record[e].state \in resumable_states
          THEN wk' = [wk EXCEPT ![w].pc = "resume", ![w].rec = record[e]]
          ELSE IF ~ extends_bound(w) THEN Return(w)
          ELSE Goto(w, IF e \in outside THEN "remember" ELSE "again")
     /\ UNCHANGED stores /\ Outsiders

\* _remember: evidence that does not map is set aside, once.
Remember(w) ==
  LET e == wk[w].execution
  IN /\ At(w, "remember")
     /\ record' = IF existing(w) THEN record ELSE
          [record EXCEPT ![e] = [state |-> "set_aside", version |-> wk[w].base, revision |-> 1]]
     /\ Return(w)
     /\ UNCHANGED <<outside, snapshots, conv>> /\ Outsiders

-----------------------------------------------------------------------------
(* _write_next_version *)

ReadAgain(w) ==
  /\ At(w, "again")
  /\ IF existing(w)
       THEN wk' = [wk EXCEPT ![w].pc = "resume", ![w].rec = record[wk[w].execution]]
       ELSE Goto(w, "insert")
  /\ UNCHANGED stores /\ Outsiders

\* insert: the pending row, or the winner's row after PersistenceConflictError.
Insert(w) ==
  LET e == wk[w].execution
      pending == [state |-> "pending", version |-> wk[w].base + 1, revision |-> 1]
  IN /\ At(w, "insert")
     /\ IF existing(w)
          THEN /\ wk' = [wk EXCEPT ![w].pc = "resume", ![w].rec = record[e]]
               /\ UNCHANGED record
          ELSE /\ record' = [record EXCEPT ![e] = pending]
               /\ wk' = [wk EXCEPT ![w].pc = "add", ![w].rec = pending]
     /\ UNCHANGED <<outside, snapshots, conv>> /\ Outsiders

\* add: the next version is inserted; when the row is there already it must be
\* this execution's, otherwise the record ends in conflict.
Add(w) ==
  LET e == wk[w].execution  v == wk[w].rec.version
  IN /\ At(w, "add")
     /\ IF v = Latest + 1
          THEN /\ snapshots' = Append(snapshots, next_snapshot(v - 1, e))
               /\ Goto(w, "promote")
          ELSE /\ UNCHANGED snapshots
               /\ wk' = [wk EXCEPT ![w] = IF matches_research_update(v - 1, e)
                    THEN [@ EXCEPT !.pc = "promote"]
                    ELSE [@ EXCEPT !.pc = "settle", !.goal = "integration_conflict"]]
     /\ UNCHANGED <<outside, record, conv>> /\ Outsiders

\* add raises PersistenceError or DecisionSnapshotOwnershipError.
AddRaises(w) ==
  /\ faults < MaxFaults
  /\ At(w, "add")
  /\ faults' = faults + 1
  /\ wk' = [wk EXCEPT ![w].pc = "settle", ![w].goal = "snapshot_failed"]
  /\ UNCHANGED <<stores, turns>>

\* _move to a final state, answered prior_decision_preserved either way.
Settle(w) ==
  LET e == wk[w].execution
  IN /\ At(w, "settle")
     /\ record' = IF Moves(e, wk[w].rec, wk[w].goal)
                    THEN [record EXCEPT ![e] = moved(wk[w].rec, wk[w].goal)] ELSE record
     /\ Return(w)
     /\ UNCHANGED <<outside, snapshots, conv>> /\ Outsiders

-----------------------------------------------------------------------------
(* _promote_and_bind *)

\* _move to snapshot_written; a lost race continues from the current row.
Promote(w) ==
  LET e == wk[w].execution  written == moved(wk[w].rec, "snapshot_written")
  IN /\ At(w, "promote")
     /\ IF Moves(e, wk[w].rec, "snapshot_written")
          THEN /\ record' = [record EXCEPT ![e] = written]
               /\ wk' = [wk EXCEPT ![w].pc = "reload", ![w].rec = written]
          ELSE /\ wk' = [wk EXCEPT ![w].pc = "resume", ![w].rec = record[e]]
               /\ UNCHANGED record
     /\ UNCHANGED <<outside, snapshots, conv>> /\ Outsiders

Reload(w) ==
  /\ At(w, "reload")
  /\ wk' = [wk EXCEPT ![w].pc = "bind", ![w].pv = conv.pv, ![w].fresh = TRUE]
  /\ UNCHANGED stores /\ Outsiders

\* advance_verified_research_context: one version forward, under the
\* persistence_version in hand.
Advances(w) ==
  /\ wk[w].rec.version \in 1..Latest
  /\ conv.pv = wk[w].pv
  /\ wk[w].rec.version = conv.bound + 1

\* _bind: bound already, advanced, or refused.
Bind(w) ==
  LET v == wk[w].rec.version
      bound_record == wk[w].rec.state = "bound"
  IN /\ At(w, "bind")
     /\ IF conv.bound = v \/ Advances(w)
          THEN /\ conv' = IF conv.bound = v THEN conv ELSE [bound |-> v, pv |-> conv.pv + 1]
               /\ IF bound_record THEN Return(w) ELSE Goto(w, "mark")
          ELSE /\ UNCHANGED conv
               /\ IF wk[w].fresh THEN Goto(w, "recheck") ELSE Return(w)
     /\ UNCHANGED <<outside, snapshots, record>> /\ Outsiders

\* A refused binding counts when another process made it.
Recheck(w) ==
  /\ At(w, "recheck")
  /\ IF conv.bound = wk[w].rec.version THEN Goto(w, "mark") ELSE Return(w)
  /\ UNCHANGED stores /\ Outsiders

\* _move to bound; the answer does not depend on it.
Mark(w) ==
  LET e == wk[w].execution
  IN /\ At(w, "mark")
     /\ record' = IF Moves(e, wk[w].rec, "bound")
                    THEN [record EXCEPT ![e] = moved(wk[w].rec, "bound")] ELSE record
     /\ Return(w)
     /\ UNCHANGED <<outside, snapshots, conv>> /\ Outsiders

-----------------------------------------------------------------------------
(* _resume and _recover_pending *)

\* The record in hand decides; a conversation bound to the record's version
\* counts as integrated whatever the record's state.
Resume(w) ==
  LET rec == wk[w].rec
  IN /\ At(w, "resume")
     /\ CASE rec.state = "pending" -> Goto(w, "recover")
          [] rec.state \in {"bound", "snapshot_written"} /\ rec.version <= Latest
               /\ conv.bound # rec.version ->
               wk' = [wk EXCEPT ![w].pc = "bind", ![w].pv = conv.pv, ![w].fresh = FALSE]
          [] OTHER -> Return(w)
     /\ UNCHANGED stores /\ Outsiders

\* A pending row is continued from what its snapshot version holds.
Recover(w) ==
  LET e == wk[w].execution  v == wk[w].rec.version
  IN /\ At(w, "recover")
     /\ wk' = [wk EXCEPT ![w] =
          IF v = Latest + 1 THEN [@ EXCEPT !.pc = "add"]
          ELSE IF matches_research_update(v - 1, e) THEN [@ EXCEPT !.pc = "promote"]
          ELSE [@ EXCEPT !.pc = "settle", !.goal = "integration_conflict"]]
     /\ UNCHANGED stores /\ Outsiders

-----------------------------------------------------------------------------
(* The environment *)

\* Another turn of the conversation saves it; its binding stays.
OtherTurn ==
  /\ turns < MaxTurns
  /\ turns' = turns + 1
  /\ conv' = [conv EXCEPT !.pv = @ + 1]
  /\ UNCHANGED <<outside, snapshots, record, wk, faults>>

Crash(w) ==
  /\ faults < MaxFaults
  /\ ~ At(w, "idle")
  /\ faults' = faults + 1
  /\ Return(w)
  /\ UNCHANGED <<stores, turns>>

Step(w) ==
  \/ ReadConversation(w) \/ ReadRecord(w) \/ Remember(w)
  \/ ReadAgain(w) \/ Insert(w) \/ Add(w) \/ AddRaises(w) \/ Settle(w)
  \/ Promote(w) \/ Reload(w) \/ Bind(w) \/ Recheck(w) \/ Mark(w)
  \/ Resume(w) \/ Recover(w)

Next ==
  \/ \E w \in Workers, e \in Executions : Start(w, e)
  \/ \E w \in Workers : Step(w) \/ Crash(w)
  \/ OtherTurn

Spec == Init /\ [][Next]_vars

\* A call that is running goes on.
Fairness == \A w \in Workers : WF_vars(Step(w))

FairSpec == Spec /\ Fairness

-----------------------------------------------------------------------------
TypeOK ==
  /\ outside \subseteq Executions
  /\ snapshots \in Seq(Seq(Executions))
  /\ record \in [Executions -> Record]
  /\ conv \in [bound : Nat, pv : Nat]
  /\ wk \in [Workers -> Worker]
  /\ turns \in 0..MaxTurns /\ faults \in 0..MaxFaults

Decision == INSTANCE DecisionHistory WITH versions <- snapshots, bound <- conv.bound

\* Whatever races, crashes and retries happen, the versions and the binding are
\* those of a decision that grows: no version is lost or rewritten, no execution
\* contributes twice, the conversation skips no version and never goes back.
DecisionGrows == Decision!DSpec

\* A record that says its snapshot was written names the version that holds
\* the execution's evidence, even when another execution raced for it.
WrittenMeansHeld ==
  \A e \in Executions :
    record[e].state \in {"snapshot_written", "bound"} =>
      /\ record[e].version \in 2..Latest
      /\ snapshots[record[e].version] = Append(snapshots[record[e].version - 1], e)

\* The conversation is at most one version behind, and the version it misses is
\* of an execution whose record a call of integrate continues (_resume), whatever
\* was lost between two stores; unless that record was closed as failed, because
\* add raised in a process while another, in the same row, stored the version.
MissedIsResumable ==
  conv.bound # Latest =>
    /\ Latest = conv.bound + 1
    /\ \E e \in Executions :
         /\ record[e].version = Latest /\ snapshots[Latest] = next_snapshot(conv.bound, e)
         /\ record[e].state \in {"pending", "snapshot_written", "snapshot_failed"}

\* A call that meets a pending record, left by a crash or in use by another
\* process, ends with the record settled, unless something fails once more:
\* _recover_pending never strands it.
PendingRecovered ==
  \A w \in Workers, e \in Executions, n \in 0..MaxFaults :
    (/\ At(w, "record") /\ wk[w].execution = e
     /\ record[e].state = "pending" /\ faults = n)
      ~> (record[e].state # "pending" \/ faults > n)
==============================================================================
