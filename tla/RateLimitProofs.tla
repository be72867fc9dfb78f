--------------------------- MODULE RateLimitProofs ---------------------------
(***************************************************************************)
(* Proofs about RateLimit for any number of calls, every limit, window,     *)
(* number of retries and clock skew.  LimitInv is inductive.                *)
(***************************************************************************)
EXTENDS RateLimit, TLAPS

USE DEF At, Become, Return, Goto

\* The window a call's reading belongs to may be over, but never lies ahead of
\* the fastest clock; an absent row has no hits.
LimitInv ==
  /\ TypeOK
  /\ NeverPastLimit
  /\ ~row.present => row = absent_row
  /\ \A c \in Calls : call[c].now <= clock + Skew

\* The rows and calls the statements write, and the readings, are well typed.
LEMMA WrittenTypes ==
  ASSUME LimitInv
  PROVE  /\ absent_row \in Row /\ absent_row.hits = 0 /\ ~absent_row.present
         /\ idle_call \in Call /\ idle_call.now = 0
         /\ \A t \in Nat : /\ first_hit(t) \in Row /\ first_hit(t).hits = 1
                           /\ first_hit(t).present
         /\ \A t \in Readings : t \in Nat /\ t <= clock + Skew
  BY RateLimitAssumption
  DEF LimitInv, TypeOK, absent_row, idle_call, first_hit, Row, Call, Readings

\* An allowed call writes a row with at most Limit hits, all of them counted.
LEMMA AllowKeeps ==
  ASSUME LimitInv, NEW c \in Calls, NEW x \in Row, NEW n \in Nat, Allow(c, x, n),
         x.present, x.hits = n, n <= Limit
  PROVE  LimitInv'
<1>1. idle_call \in Call /\ idle_call.now = 0
  BY WrittenTypes
<1>2. /\ row' = x /\ admitted' = n /\ clock' = clock /\ resets' = resets
      /\ call' = [call EXCEPT ![c] = idle_call]
  BY DEF Allow
<1>3. call' \in [Calls -> Call] /\ \A d \in Calls : call'[d].now <= clock + Skew
  BY <1>1, <1>2, RateLimitAssumption DEF LimitInv, TypeOK
<1> QED
  BY <1>2, <1>3 DEF LimitInv, TypeOK, NeverPastLimit

\* A step that changes one call only, and that call's reading stays or is fresh.
LEMMA CallKeeps ==
  ASSUME LimitInv, NEW c \in Calls, NEW q \in Call, q.now <= clock + Skew,
         Become(c, q), UNCHANGED <<clock, row, resets, admitted>>
  PROVE  LimitInv'
<1>1. call' \in [Calls -> Call] /\ \A d \in Calls : call'[d].now <= clock + Skew
  BY DEF LimitInv, TypeOK
<1> QED
  BY <1>1 DEF LimitInv, TypeOK, NeverPastLimit

\* The row is forgotten together with its count.
LEMMA ForgetKeeps ==
  ASSUME LimitInv, row' = absent_row, admitted' = 0, UNCHANGED <<clock, call>>,
         resets' \in Nat
  PROVE  LimitInv'
  BY WrittenTypes, RateLimitAssumption DEF LimitInv, TypeOK, NeverPastLimit

\* A statement that matches no row moves its call on.
LEMMA GotoKeeps ==
  ASSUME LimitInv, NEW c \in Calls,
         NEW pc \in {"update", "insert", "select"}, NoMatch(c, pc)
  PROVE  LimitInv'
<1> DEFINE q == [call[c] EXCEPT !.pc = pc]
<1>1. q \in Call /\ q.now <= clock + Skew
  BY DEF LimitInv, TypeOK, Call
<1>2. Become(c, q) /\ UNCHANGED <<clock, row, resets, admitted>>
  BY DEF NoMatch
<1> HIDE DEF q
<1> QED
  BY <1>1, <1>2, CallKeeps

\* Every step of every caller preserves LimitInv.
LEMMA NextKeeps == LimitInv /\ [Next]_vars => LimitInv'
<1> SUFFICES ASSUME LimitInv, [Next]_vars PROVE LimitInv'
  OBVIOUS
<1> USE RateLimitAssumption
<1>1. CASE Tick
  BY <1>1 DEF Tick, LimitInv, TypeOK, NeverPastLimit, Call
<1>2. CASE Reset
  BY <1>2, ForgetKeeps DEF Reset, LimitInv, TypeOK
<1>3. CASE PurgeByOthers
  BY <1>3, ForgetKeeps DEF PurgeByOthers, LimitInv, TypeOK
<1>4. ASSUME NEW c \in Calls, Consume(c) PROVE LimitInv'
  <2>1. PICK t \in Readings : Become(c, [pc |-> "delete", now |-> t, tries |-> 0])
    BY <1>4 DEF Consume
  <2>2. t \in Nat /\ t <= clock + Skew
    BY WrittenTypes
  <2>3. [pc |-> "delete", now |-> t, tries |-> 0] \in Call
    BY <2>2 DEF Call
  <2> QED
    BY <1>4, <2>1, <2>2, <2>3, CallKeeps DEF Consume
<1>5. ASSUME NEW c \in Calls, DeleteExpired(c) PROVE LimitInv'
  <2>1. call[c].now \in Nat
    BY DEF LimitInv, TypeOK, Call
  <2>2. CASE Allow(c, first_hit(call[c].now), 1)
    BY <2>1, <2>2, AllowKeeps, WrittenTypes
  <2> QED
    BY <1>5, <2>2, GotoKeeps DEF DeleteExpired
<1>6. ASSUME NEW c \in Calls, UpdateHits(c) PROVE LimitInv'
  <2>1. CASE Consumable(row, call[c].now)
             /\ Allow(c, [row EXCEPT !.hits = @ + 1], admitted + 1)
    <3>1. row \in Row /\ row.present /\ row.hits < Limit /\ row.hits = admitted
      BY <2>1 DEF Consumable, LimitInv, TypeOK, NeverPastLimit
    <3>2. [row EXCEPT !.hits = @ + 1] \in Row /\ [row EXCEPT !.hits = @ + 1].present
          /\ [row EXCEPT !.hits = @ + 1].hits = admitted + 1
      BY <3>1 DEF Row
    <3>3. admitted + 1 \in Nat /\ admitted + 1 <= Limit
      BY <3>1 DEF LimitInv, TypeOK
    <3> QED
      BY <2>1, <3>2, <3>3, AllowKeeps
  <2> QED
    BY <1>6, <2>1, GotoKeeps DEF UpdateHits
<1>7. ASSUME NEW c \in Calls, InsertFirst(c) PROVE LimitInv'
  <2>1. call[c].now \in Nat
    BY DEF LimitInv, TypeOK, Call
  <2>2. CASE ~Conflicts(row) /\ Allow(c, first_hit(call[c].now), admitted + 1)
    <3>1. admitted = 0
      BY <2>2, WrittenTypes DEF Conflicts, LimitInv, NeverPastLimit
    <3> QED
      BY <2>1, <2>2, <3>1, AllowKeeps, WrittenTypes
  <2> QED
    BY <1>7, <2>2, GotoKeeps DEF InsertFirst
<1>8. ASSUME NEW c \in Calls, SelectExisting(c) PROVE LimitInv'
  <2> DEFINE q == [call[c] EXCEPT !.pc = "delete", !.tries = @ + 1]
  <2>1. q \in Call /\ q.now <= clock + Skew
    <3>1. call[c] \in Call /\ call[c].now <= clock + Skew
      BY DEF LimitInv, TypeOK
    <3>2. call[c].tries + 1 \in Nat
      BY <3>1 DEF Call
    <3> QED
      BY <3>1, <3>2, Zenon DEF Call
  <2>2. Become(c, q) \/ Become(c, idle_call)
    BY <1>8 DEF SelectExisting
  <2>3. idle_call \in Call /\ idle_call.now <= clock + Skew
    BY WrittenTypes DEF LimitInv, TypeOK
  <2> HIDE DEF q
  <2> QED
    BY <1>8, <2>1, <2>2, <2>3, CallKeeps DEF SelectExisting
<1>9. ASSUME NEW c \in Calls, Fail(c) PROVE LimitInv'
  <2>1. idle_call \in Call /\ idle_call.now <= clock + Skew
    BY WrittenTypes DEF LimitInv, TypeOK
  <2> QED
    BY <1>9, <2>1, CallKeeps DEF Fail
<1>10. CASE UNCHANGED vars
  BY <1>10 DEF vars, LimitInv, TypeOK, NeverPastLimit
<1> QED
  BY <1>1, <1>2, <1>3, <1>4, <1>5, <1>6, <1>7, <1>8, <1>9, <1>10 DEF Next, Step

\* LimitInv holds throughout, so every type is as declared and no call's
\* reading is ahead of the fastest clock.
THEOREM LimitSafety == Spec => []LimitInv
<1>1. Init => LimitInv
  BY RateLimitAssumption
  DEF Init, LimitInv, TypeOK, NeverPastLimit, absent_row, idle_call, Row, Call
<1> QED
  BY <1>1, NextKeeps, PTL DEF Spec

\* SqlRateLimitStore.consume never allows a call past the limit of its window,
\* however many hosts call it at once.
THEOREM LimitHolds == Spec => []NeverPastLimit
<1>1. LimitInv => NeverPastLimit
  BY DEF LimitInv
<1> QED
  BY <1>1, LimitSafety, PTL

\* A window in force is neither restarted nor lowered except by a reset.
THEOREM WindowStays == Spec => WindowKept
<1>1. ASSUME LimitInv, [Next]_vars, row.present, row.expires >= clock + Skew, ~Reset
      PROVE  row'.hits >= row.hits /\ row'.expires = row.expires
  <2> USE RateLimitAssumption
  <2>1. /\ clock \in Nat /\ row \in Row
        /\ \A c \in Calls : call[c].now \in Nat /\ call[c].now <= clock + Skew
    BY <1>1 DEF LimitInv, TypeOK, Call
  <2>2. \A t \in Nat : t <= clock + Skew => ~Expired(row, t)
    BY <1>1, <2>1 DEF Expired, Row
  <2>3. ~PurgeByOthers
    BY <1>1, <2>2, WrittenTypes DEF PurgeByOthers
  <2>4. ASSUME NEW c \in Calls, UpdateHits(c)
        PROVE  row'.hits >= row.hits /\ row'.expires = row.expires
    BY <2>1, <2>4 DEF UpdateHits, Allow, NoMatch, Row
  <2>5. ASSUME NEW c \in Calls, DeleteExpired(c) \/ InsertFirst(c) PROVE row' = row
    BY <1>1, <2>1, <2>2, <2>5 DEF DeleteExpired, InsertFirst, NoMatch, Conflicts
  <2>6. ASSUME Tick \/ (\E c \in Calls : Consume(c) \/ SelectExisting(c) \/ Fail(c))
               \/ UNCHANGED vars
        PROVE  row' = row
    BY <2>6 DEF Tick, Consume, SelectExisting, Fail, vars
  <2>7. row' = row => row'.hits >= row.hits /\ row'.expires = row.expires
    BY <2>1 DEF Row
  <2> QED
    BY <1>1, <2>3, <2>4, <2>5, <2>6, <2>7 DEF Next, Step
<1>2. LimitInv /\ [Next]_vars =>
        [row.present /\ row.expires >= clock + Skew =>
           \/ Reset
           \/ row'.hits >= row.hits /\ row'.expires = row.expires]_vars
  BY <1>1
<1> QED
  BY <1>2, LimitSafety, PTL DEF Spec, WindowKept
=============================================================================
