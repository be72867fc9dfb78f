--------------------------- MODULE AlertEvaluation ---------------------------
(***************************************************************************)
(* Rule-driven alerts: an evaluation pass observes watchlist items, decides *)
(* which rules fire, and raises each occurrence once.  Sources:             *)
(* app/services/alert_evaluation_service.py, app/alerts/engine/evaluator.py *)
(* and dedupe.py, app/services/alert_rule_service.py, the rule repository   *)
(* (alert_repository.py over operational_store.py).                         *)
(*                                                                          *)
(* A pass reads its rules once and works on those copies; what it saw of an *)
(* item before is a cache of its process, keyed by the item alone.  Rules   *)
(* are saved whole without a version.  The endpoints never await between    *)
(* two repository calls, so calls of one process interleave only with those *)
(* of other processes; each call is an action.                              *)
(*                                                                          *)
(* An observation is one value: "out" (out of stock) or an in-stock state,  *)
(* which the fingerprint tells apart.  A rule has one condition, either on  *)
(* the transition out of "out" (restocked; the other previous_* conditions  *)
(* have this shape) or on the value alone (low_inventory, target_price_     *)
(* reached and the like).  The alert and the notification made from an      *)
(* event are left out: nothing reads them and a failure there changes no    *)
(* rule.                                                                    *)
(***************************************************************************)
EXTENDS Integers, Sequences, FiniteSets

LOCAL INSTANCE SequencesExt

CONSTANTS
  Processes,   \* server processes
  Rules,       \* alert rules, numbered in list_rules order
  Items,       \* watchlist items, numbered
  Scope,       \* <<rule, item>>: the items a rule resolves to
  Transition,  \* rules with a condition on the transition
  OneTime,     \* rules with repeat_policy one_time
  Cooldown,    \* per rule: cooldown_seconds
  InStock,     \* in-stock observations
  Edits,       \* whether shoppers pause, resume and delete rules
  MaxTime,     \* bound: clock
  MaxChanges,  \* bound: changes of the market
  MaxFaults    \* bound: process restarts, and calls that raise

Out == "out"

ASSUME AlertAssumption ==
  /\ Rules \subseteq Nat /\ Items \subseteq Nat /\ Scope \subseteq Rules \X Items
  /\ Transition \subseteq Rules /\ OneTime \subseteq Rules
  /\ Cooldown \in [Rules -> Nat] /\ Edits \in BOOLEAN /\ Out \notin InStock
  /\ MaxTime \in Nat /\ MaxChanges \in Nat /\ MaxFaults \in Nat

VARIABLES
  world,      \* per item: what an observation returns
  previous,   \* per process and item: _previous_observations
  rule,       \* per rule: its row
  events,     \* AlertEvent rows
  pr,         \* per process: control state and local variables
  clock, changes, faults,
  dropped,    \* history: rules marked by a pass that then failed to save the event
  overlapped  \* history: two passes or edits were in progress at once

vars == <<world, previous, rule, events, pr, clock, changes, faults,
          dropped, overlapped>>

-----------------------------------------------------------------------------
Values == InStock \cup {Out}
Unknown == "unknown"
Never == -1

RuleRow == [stored : BOOLEAN, enabled : BOOLEAN, fired : BOOLEAN, last : -1..MaxTime]
Event == [rule : Rules, item : Items, value : Values, at : 0..MaxTime]

Steps == {"idle", "evaluate", "find", "mark", "event", "edit"}
Process == [pc : Steps, todo : Seq(Scope), copy : [Rules -> RuleRow], stamp : 0..MaxTime,
            value : Values, again : BOOLEAN, edited : Rules]

new_rule == [stored |-> TRUE, enabled |-> TRUE, fired |-> FALSE, last |-> Never]
idle == [pc |-> "idle", todo |-> <<>>, copy |-> [r \in Rules |-> new_rule], stamp |-> 0,
         value |-> Out, again |-> FALSE, edited |-> CHOOSE r \in Rules : TRUE]

Init ==
  /\ world = [i \in Items |-> Out]
  /\ previous = [p \in Processes |-> [i \in Items |-> Unknown]]
  /\ rule = [r \in Rules |-> new_rule]
  /\ events = {}
  /\ pr = [p \in Processes |-> idle]
  /\ clock = 0 /\ changes = 0 /\ faults = 0
  /\ dropped = {}
  /\ overlapped = FALSE

At(p, pc) == pr[p].pc = pc
Current(p) == Head(pr[p].todo)
TheRule(p) == Current(p)[1]
TheItem(p) == Current(p)[2]

\* The pass goes to its next rule and item, or ends.
Advance(p) ==
  pr' = [pr EXCEPT ![p] = IF Len(@.todo) > 1
    THEN [@ EXCEPT !.pc = "evaluate", !.todo = Tail(@), !.value = Out, !.again = FALSE]
    ELSE idle]

Market == UNCHANGED <<world, clock, changes, faults>>
History == UNCHANGED <<dropped, overlapped>>

\* A pass or an edit starts, perhaps beside another.
Starts ==
  /\ overlapped' = (overlapped \/ \E p \in Processes : ~ At(p, "idle"))
  /\ UNCHANGED dropped

-----------------------------------------------------------------------------
(* AlertEvaluationEngine *)

is_in_cooldown(row, r, now) ==
  Cooldown[r] > 0 /\ row.last # Never /\ now - row.last < Cooldown[r]

is_one_time_exhausted(row, r) == r \in OneTime /\ row.fired

can_fire(row, r, now) ==
  /\ row.enabled
  /\ ~ is_one_time_exhausted(row, r)
  /\ ~ is_in_cooldown(row, r, now)

mark_triggered(row, r, now) ==
  [row EXCEPT !.last = now, !.fired = @ \/ r \in OneTime]

\* The rule's condition on an observation and the cached one before it.
condition_holds(r, before, v) ==
  /\ v \in InStock
  /\ r \in Transition => before = Out

\* Mutant: the key does not name the rule.
dedupe_key_of_item(r, i, v) == <<i, v>>

\* build_dedupe_key: scope, condition and the fingerprint of the observation.
dedupe_key(r, i, v) == <<r, i, v>>
key_of(e) == dedupe_key(e.rule, e.item, e.value)

-----------------------------------------------------------------------------
(* _evaluate_rule_batch and _evaluate_rule_for_item *)

\* A pass starts: the rules of its scope are listed, the clock is read once.
Begin(p, R) ==
  LET todo == {s \in Scope : s[1] \in R /\ rule[s[1]].stored}
      before(a, b) == a[1] < b[1] \/ (a[1] = b[1] /\ a[2] < b[2])
  IN /\ At(p, "idle")
     /\ todo # {}
     /\ pr' = [pr EXCEPT ![p] = [idle EXCEPT !.pc = "evaluate",
                 !.copy = [r \in Rules |-> IF r \in R THEN rule[r] ELSE new_rule],
                 !.todo = SetToSortSeq(todo, before), !.stamp = clock]]
     /\ UNCHANGED <<previous, rule, events>> /\ Market /\ Starts

\* The item is observed, the rule's copy evaluated and the observation cached.
Evaluate(p) ==
  LET r == TheRule(p)  i == TheItem(p)
      fires == can_fire(pr[p].copy[r], r, pr[p].stamp)
      holds == condition_holds(r, previous[p][i], world[i])
  IN /\ At(p, "evaluate")
     /\ previous' = [previous EXCEPT ![p][i] = world[i]]
     /\ IF fires /\ holds
          THEN pr' = [pr EXCEPT ![p].pc = "find", ![p].value = world[i]]
          ELSE Advance(p)
     /\ UNCHANGED <<rule, events>> /\ Market /\ History

\* find_by_dedupe_key: an event with the key means a duplicate.
Find(p) ==
  LET key == dedupe_key(TheRule(p), TheItem(p), pr[p].value)
  IN /\ At(p, "find")
     /\ pr' = [pr EXCEPT ![p].pc = "mark", ![p].again = \E e \in events : key_of(e) = key]
     /\ UNCHANGED <<previous, rule, events>> /\ Market /\ History

\* save_rule of the copy, marked as triggered; nothing more for a duplicate.
Mark(p) ==
  LET r == TheRule(p)
  IN /\ At(p, "mark")
     /\ rule' = [rule EXCEPT ![r] = mark_triggered(pr[p].copy[r], r, pr[p].stamp)]
     /\ IF pr[p].again THEN Advance(p) ELSE pr' = [pr EXCEPT ![p].pc = "event"]
     /\ UNCHANGED <<previous, events>> /\ Market /\ History

\* The unique constraint on (store, secondary_key).
Inserts(key) == ~ \E e \in events : key_of(e) = key

\* save_event: a duplicate key raises, which fails this item of the pass.
SaveEvent(p) ==
  LET r == TheRule(p)  i == TheItem(p)
      event == [rule |-> r, item |-> i, value |-> pr[p].value, at |-> pr[p].stamp]
  IN /\ At(p, "event")
     /\ events' = IF Inserts(key_of(event)) THEN events \cup {event} ELSE events
     /\ Advance(p)
     /\ UNCHANGED <<previous, rule>> /\ Market /\ History

\* The process stops, or a call of this item raises and the pass goes on, after
\* the rule was marked and before its event is saved.
Drops(p) == dropped' = IF At(p, "event") THEN dropped \cup {TheRule(p)} ELSE dropped

Raise(p) ==
  /\ pr[p].pc \in {"evaluate", "find", "mark", "event"}
  /\ faults < MaxFaults
  /\ faults' = faults + 1
  /\ Drops(p)
  /\ Advance(p)
  /\ UNCHANGED <<world, previous, rule, events, clock, changes, overlapped>>

-----------------------------------------------------------------------------
(* AlertRuleService *)

\* update_rule and delete_rule read the row first.
EditRead(p, r) ==
  /\ Edits
  /\ At(p, "idle")
  /\ rule[r].stored
  /\ pr' = [pr EXCEPT ![p] = [idle EXCEPT !.pc = "edit", !.edited = r,
                                          !.copy[r] = rule[r]]]
  /\ UNCHANGED <<previous, rule, events>> /\ Market /\ Starts

\* Mutant: resuming a rule builds its row anew.
rearmed_row(row, on) == [new_rule EXCEPT !.enabled = on]

updated_row(row, on) == [row EXCEPT !.enabled = on]

\* pause_rule or resume_rule saves the copy.
UpdateRule(p, on) ==
  LET r == pr[p].edited
  IN /\ At(p, "edit")
     /\ rule' = [rule EXCEPT ![r] = updated_row(pr[p].copy[r], on)]
     /\ pr' = [pr EXCEPT ![p] = idle]
     /\ UNCHANGED <<previous, events>> /\ Market /\ History

DeleteRule(p) ==
  /\ At(p, "edit")
  /\ rule' = [rule EXCEPT ![pr[p].edited] = [new_rule EXCEPT !.stored = FALSE]]
  /\ pr' = [pr EXCEPT ![p] = idle]
  /\ UNCHANGED <<previous, events>> /\ Market /\ History

-----------------------------------------------------------------------------
(* The environment *)

Change(i, v) ==
  /\ changes < MaxChanges
  /\ v # world[i]
  /\ changes' = changes + 1
  /\ world' = [world EXCEPT ![i] = v]
  /\ UNCHANGED <<previous, rule, events, pr, clock, faults>> /\ History

Tick ==
  /\ clock < MaxTime
  /\ clock' = clock + 1
  /\ UNCHANGED <<world, previous, rule, events, pr, changes, faults>> /\ History

\* A restart loses the cache; docs/ALERT_ENGINE.md accepts that.
Restart(p) ==
  /\ faults < MaxFaults
  /\ faults' = faults + 1
  /\ Drops(p)
  /\ pr' = [pr EXCEPT ![p] = idle]
  /\ previous' = [previous EXCEPT ![p] = [i \in Items |-> Unknown]]
  /\ UNCHANGED <<world, rule, events, clock, changes, overlapped>>

Pass(p) == Evaluate(p) \/ Find(p) \/ Mark(p) \/ SaveEvent(p) \/ Raise(p)

Next ==
  \/ \E p \in Processes :
       \/ \E R \in {Rules} \cup {{r} : r \in Rules} : Begin(p, R)
       \/ Pass(p)
       \/ \E r \in Rules : EditRead(p, r)
       \/ DeleteRule(p)
       \/ \E on \in BOOLEAN : UpdateRule(p, on)
       \/ Restart(p)
  \/ \E i \in Items, v \in Values : Change(i, v)
  \/ Tick

Spec == Init /\ [][Next]_vars

-----------------------------------------------------------------------------
TypeOK ==
  /\ world \in [Items -> Values]
  /\ previous \in [Processes -> [Items -> Values \cup {Unknown}]]
  /\ rule \in [Rules -> RuleRow]
  /\ events \subseteq Event
  /\ pr \in [Processes -> Process]
  /\ clock \in 0..MaxTime /\ changes \in 0..MaxChanges /\ faults \in 0..MaxFaults
  /\ dropped \subseteq Rules /\ overlapped \in BOOLEAN

\* A rule that was used up or put in its cooldown has raised an event of its own,
\* or a pass is about to save it, or a pass failed at that very call.  This holds
\* beside passes over copies of the rule, edits that save an older row, lost
\* unique-key races and other rules on the same item.
Marked(r) == rule[r].last # Never
MarkedMeansRaised ==
  \A r \in Rules : Marked(r) =>
    \/ \E e \in events : e.rule = r
    \/ \E p \in Processes : At(p, "event") /\ TheRule(p) = r
    \/ r \in dropped

\* "A one_time rule that has already fired never fires again", and a recurring one
\* not within its cooldown, whatever pauses, resumes, restarts and failures come
\* between.  One pass may raise events of several items.  Passes and edits save
\* the row they read earlier, so this is about passes and edits that come in turn.
Apart(e, f) ==
  \/ e.at = f.at /\ e.item # f.item
  \/ /\ e.rule \notin OneTime
     /\ e.at - f.at >= Cooldown[e.rule] \/ f.at - e.at >= Cooldown[e.rule]
CooldownKept ==
  ~ overlapped => \A e, f \in events : e # f /\ e.rule = f.rule => Apart(e, f)
==============================================================================
