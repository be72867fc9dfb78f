------------------------ MODULE FailedLoginLockProofs ------------------------
(***************************************************************************)
(* Proofs about FailedLoginLock for any finite number of logins at once and *)
(* every threshold, duration, retention, number of retries and clock skew.  *)
(* LockInv is inductive; CheckedBound is what makes the bound on late       *)
(* guesses inductive.                                                       *)
(***************************************************************************)
EXTENDS FailedLoginLock, FiniteSetTheorems, TLAPS

USE DEF At, Become, Return, Goto

\* The logins that are past the check and have not guessed yet.
Checked == {a \in Attempts : at[a].pc = "checked"}

\* Under a lock in force the guesses made and the guesses still to come are
\* fewer than the logins: the one that started the lock is not among them.
CheckedBound == LockedForAll(row) => late + Cardinality(Checked) < Cardinality(Attempts)

\* No login's reading is ahead of the fastest clock.
ReadingsPast == \A a \in Attempts : at[a].now <= clock + Skew

LockInv ==
  /\ TypeOK
  /\ CountsEveryFailure
  /\ ~row.present => row = absent_row
  /\ ReadingsPast
  /\ CheckedBound

-----------------------------------------------------------------------------
(* Operators *)

\* What a statement writes: one failure more, or the first one.
LEMMA Written ==
  ASSUME NEW t \in Nat
  PROVE  /\ absent_row \in Row /\ ~absent_row.present
         /\ absent_row.count = 0 /\ absent_row.locked = 0
         /\ idle_attempt \in Attempt /\ idle_attempt.pc = "idle" /\ idle_attempt.now = 0
         /\ first_failure(t) \in Row /\ first_failure(t).present
         /\ first_failure(t).count = 1
         /\ first_failure(t).locked = IF Threshold <= 1 THEN t + Duration ELSE 0
  BY FailedLoginAssumption
  DEF absent_row, idle_attempt, first_failure, Row, Attempt, Statements

\* An increment counts one failure and moves the lock's end only when it starts.
LEMMA Incremented ==
  ASSUME NEW x \in Row, NEW t \in Nat
  PROVE  /\ increment_active(x, t) \in Row
         /\ increment_active(x, t).present = x.present
         /\ increment_active(x, t).count = x.count + 1
         /\ increment_active(x, t).locked =
              IF x.locked = 0 /\ x.count + 1 >= Threshold THEN t + Duration ELSE x.locked
<1> DEFINE lock == IF x.locked = 0 /\ x.count + 1 >= Threshold THEN t + Duration ELSE x.locked
<1>1. lock \in Nat /\ x.count + 1 \in Nat
  BY FailedLoginAssumption DEF Row
<1>2. increment_active(x, t) = [x EXCEPT !.count = @ + 1, !.last = t, !.locked = lock]
  BY DEF increment_active
<1> HIDE DEF lock
<1>3. /\ increment_active(x, t) \in Row
      /\ increment_active(x, t).present = x.present
      /\ increment_active(x, t).count = x.count + 1
      /\ increment_active(x, t).locked = lock
  BY <1>1, <1>2, Zenon DEF Row
<1> QED
  BY <1>3 DEF lock

\* A reading is a time no later than the fastest clock.
LEMMA ReadingBound ==
  ASSUME LockInv, NEW t \in Readings
  PROVE  t \in Nat /\ t <= clock + Skew
  BY FailedLoginAssumption DEF LockInv, TypeOK, Readings

\* Checked is finite, and smaller than Attempts when some login is not in it.
LEMMA CheckedCardinality ==
  /\ Cardinality(Checked) \in Nat /\ Cardinality(Attempts) \in Nat
  /\ \A a \in Attempts : at[a].pc # "checked" => Cardinality(Checked) < Cardinality(Attempts)
<1>1. IsFiniteSet(Attempts) /\ Checked \subseteq Attempts /\ IsFiniteSet(Checked)
  BY FailedLoginAssumption, FS_Subset DEF Checked
<1>2. ASSUME NEW a \in Attempts, at[a].pc # "checked"
      PROVE  Cardinality(Checked) < Cardinality(Attempts)
  <2>1. a \notin Checked
    BY <1>2 DEF Checked
  <2>2. Checked # Attempts
    BY <1>2, <2>1
  <2>3. Cardinality(Checked) <= Cardinality(Attempts)
        /\ Cardinality(Checked) # Cardinality(Attempts)
    BY <1>1, <2>2, FS_Subset
  <2>4. Cardinality(Checked) \in Nat /\ Cardinality(Attempts) \in Nat
    BY <1>1, FS_CardinalityType
  <2> QED
    BY <2>3, <2>4
<1> QED
  BY <1>1, <1>2, FS_CardinalityType

\* When a login leaves or changes its place, Checked grows by nobody unless the
\* login becomes checked, and shrinks by one when it was.
LEMMA CheckedMoves ==
  ASSUME TypeOK, NEW a \in Attempts, NEW q \in Attempt, Become(a, q), q.pc # "checked"
  PROVE  /\ Cardinality(Checked') <= Cardinality(Checked)
         /\ at[a].pc = "checked" => Cardinality(Checked') = Cardinality(Checked) - 1
<1>1. Checked' = Checked \ {a}
  BY DEF Checked, TypeOK
<1>2. IsFiniteSet(Checked) /\ Cardinality(Checked) \in Nat
  BY FailedLoginAssumption, FS_Subset, FS_CardinalityType DEF Checked
<1>3. CASE at[a].pc = "checked"
  <2>1. a \in Checked
    BY <1>3 DEF Checked
  <2>2. Cardinality(Checked \ {a}) = Cardinality(Checked) - 1
    BY <1>2, <2>1, FS_RemoveElement
  <2> QED
    BY <1>1, <1>2, <2>2
<1>4. CASE at[a].pc # "checked"
  <2>1. Checked' = Checked
    BY <1>1, <1>4 DEF Checked
  <2> QED
    BY <1>2, <1>4, <2>1
<1> QED
  BY <1>3, <1>4

-----------------------------------------------------------------------------
(* Steps *)

\* A step that changes one login only and does not let it past the check.
LEMMA MoveKeeps ==
  ASSUME LockInv, NEW a \in Attempts, NEW q \in Attempt, Become(a, q),
         q.pc # "checked", q.now <= clock + Skew,
         UNCHANGED <<clock, row, guesses, recorded, late>>
  PROVE  LockInv'
<1>1. at' \in [Attempts -> Attempt] /\ ReadingsPast'
  BY DEF LockInv, TypeOK, ReadingsPast
<1>2. Cardinality(Checked') <= Cardinality(Checked)
  BY CheckedMoves DEF LockInv
<1>3. Cardinality(Checked') \in Nat /\ Cardinality(Attempts) \in Nat
  <2>1. Checked' \subseteq Attempts
    BY DEF Checked
  <2> QED
    BY <2>1, FailedLoginAssumption, FS_Subset, FS_CardinalityType
<1>4. CheckedBound'
  BY <1>2, <1>3, CheckedCardinality DEF CheckedBound, LockedForAll, LockInv, TypeOK
<1> QED
  BY <1>1, <1>4 DEF LockInv, TypeOK, CountsEveryFailure

\* A statement that matches no row.
LEMMA NoMatchKeeps ==
  ASSUME LockInv, NEW a \in Attempts, NEW pc \in Statements, NoMatch(a, pc)
  PROVE  LockInv'
<1> DEFINE q == [at[a] EXCEPT !.pc = pc]
<1>1. q \in Attempt /\ q.pc = pc /\ q.now <= clock + Skew
  BY DEF LockInv, TypeOK, ReadingsPast, Attempt
<1>2. pc # "checked" /\ Become(a, q) /\ UNCHANGED <<clock, row, guesses, recorded, late>>
  BY DEF NoMatch, Statements
<1> HIDE DEF q
<1> QED
  BY <1>1, <1>2, MoveKeeps

\* The write that ends record_failure, given that it counts what it should.
LEMMA RecordKeeps ==
  ASSUME LockInv, NEW a \in Attempts, at[a].pc # "checked",
         NEW x \in Row, NEW n \in Nat, Record(a, x, n),
         x.present, x.count = n,
         x.locked = 0 => x.count < Threshold,
         x.locked > 0 => x.count >= Threshold
  PROVE  LockInv'
<1>1. /\ row' = x /\ recorded' = n /\ clock' = clock /\ guesses' = guesses
      /\ at' = [at EXCEPT ![a] = idle_attempt]
      /\ late' = IF x.locked > 0 /\ x.locked # row.locked THEN 0 ELSE late
  BY DEF Record
<1>2. idle_attempt \in Attempt /\ idle_attempt.pc = "idle" /\ idle_attempt.now = 0
  BY Written
<1>3. at' \in [Attempts -> Attempt] /\ ReadingsPast' /\ at'[a].pc # "checked"
  BY <1>1, <1>2, FailedLoginAssumption DEF LockInv, TypeOK, ReadingsPast
<1>4. TypeOK' /\ CountsEveryFailure'
  BY <1>1, <1>3 DEF LockInv, TypeOK, CountsEveryFailure
<1>5. /\ Cardinality(Checked') <= Cardinality(Checked)
      /\ Cardinality(Checked') \in Nat /\ Cardinality(Checked') < Cardinality(Attempts)
  <2>1. Cardinality(Checked') <= Cardinality(Checked)
    BY <1>1, <1>2, CheckedMoves DEF LockInv
  <2>2. IsFiniteSet(Checked') /\ Checked' \subseteq Attempts
    BY FailedLoginAssumption, FS_Subset DEF Checked
  <2>3. Cardinality(Checked') \in Nat
    BY <2>2, FS_CardinalityType
  <2> QED
    BY <2>1, <2>3, CheckedCardinality
<1>6. CheckedBound'
  <2>1. CASE x.locked > 0 /\ x.locked # row.locked
    BY <1>1, <1>5, <2>1, CheckedCardinality DEF CheckedBound
  <2>2. CASE x.locked = 0
    BY <1>1, <2>2, FailedLoginAssumption DEF CheckedBound, LockedForAll, LockInv, TypeOK
  <2>3. CASE x.locked > 0 /\ x.locked = row.locked
    <3>1. row.present
      BY <2>3, Written DEF LockInv
    <3>2. LockedForAll(row)' => LockedForAll(row)
      BY <1>1, <2>3, <3>1 DEF LockedForAll
    <3> QED
      BY <1>1, <1>5, <2>3, <3>2, CheckedCardinality DEF CheckedBound, LockInv, TypeOK
  <2> QED
    BY <2>1, <2>2, <2>3 DEF Row
<1> QED
  BY <1>1, <1>3, <1>4, <1>6 DEF LockInv

\* The row is forgotten: nothing is counted and nobody is locked out.
LEMMA ForgetKeeps ==
  ASSUME LockInv, row' = absent_row, recorded' = 0, clock' = clock,
         guesses' = guesses, late' = late,
         at' \in [Attempts -> Attempt], ReadingsPast'
  PROVE  LockInv'
<1>1. absent_row \in Row /\ ~absent_row.present /\ absent_row.count = 0 /\ absent_row.locked = 0
  BY Written
<1>2. CheckedBound'
  BY <1>1 DEF CheckedBound, LockedForAll
<1> QED
  BY <1>1, <1>2 DEF LockInv, TypeOK, CountsEveryFailure

\* Every step of every login preserves LockInv.
LEMMA NextKeeps == LockInv /\ [Next]_vars => LockInv'
<1> SUFFICES ASSUME LockInv, [Next]_vars PROVE LockInv'
  OBVIOUS
<1>1. /\ clock \in Nat /\ row \in Row /\ recorded \in Nat /\ late \in Nat /\ guesses \in Nat
      /\ at \in [Attempts -> Attempt]
      /\ \A a \in Attempts : at[a].now \in Nat
  BY FailedLoginAssumption DEF LockInv, TypeOK, Attempt
<1>2. CASE Tick
  <2>1. ReadingsPast'
    BY <1>1, <1>2, FailedLoginAssumption DEF Tick, LockInv, ReadingsPast
  <2>2. CheckedBound'
    <3>1. LockedForAll(row)' => LockedForAll(row)
      BY <1>1, <1>2, FailedLoginAssumption DEF Tick, LockedForAll, Row
    <3>2. Checked' = Checked
      BY <1>2 DEF Tick, Checked
    <3> QED
      BY <1>2, <3>1, <3>2 DEF Tick, CheckedBound, LockInv
  <2> QED
    BY <1>2, <2>1, <2>2, FailedLoginAssumption DEF Tick, LockInv, TypeOK, CountsEveryFailure
<1>3. CASE PurgeByOthers
  BY <1>1, <1>3, ForgetKeeps DEF PurgeByOthers, LockInv, ReadingsPast
<1>4. ASSUME NEW a \in Attempts, Admit(a) PROVE LockInv'
  <2>1. PICK t \in Readings : ~is_locked(row, t)
    BY <1>4 DEF Admit
  <2>2. ~LockedForAll(row)
    BY <1>1, <2>1, ReadingBound, FailedLoginAssumption DEF is_locked, LockedForAll, Row
  <2>3. at' \in [Attempts -> Attempt] /\ ReadingsPast'
    BY <1>1, <1>4 DEF Admit, Attempt, LockInv, ReadingsPast
  <2>4. CheckedBound'
    BY <1>4, <2>2 DEF Admit, CheckedBound, LockedForAll
  <2> QED
    BY <1>4, <2>3, <2>4 DEF Admit, LockInv, TypeOK, CountsEveryFailure
<1>5. ASSUME NEW a \in Attempts, Verify(a) PROVE LockInv'
  <2>1. PICK t \in Readings, pc \in {"increment", "clear"} :
          Become(a, [pc |-> pc, now |-> t, tries |-> 0])
    BY <1>5 DEF Verify
  <2> DEFINE q == [pc |-> pc, now |-> t, tries |-> 0]
  <2>2. q \in Attempt /\ q.now <= clock + Skew /\ q.pc # "checked"
    BY ReadingBound DEF Attempt, Statements
  <2>3. Become(a, q)
    BY <2>1
  <2> HIDE DEF q
  <2>4. at' \in [Attempts -> Attempt] /\ ReadingsPast'
    BY <1>1, <1>5, <2>2, <2>3 DEF Verify, LockInv, ReadingsPast
  <2>5. Cardinality(Checked') = Cardinality(Checked) - 1
    BY <1>5, <2>2, <2>3, CheckedMoves DEF Verify, LockInv
  <2>6. CheckedBound'
    BY <1>1, <1>5, <2>5, CheckedCardinality DEF Verify, CheckedBound, LockedForAll, LockInv
  <2> QED
    BY <1>1, <1>5, <2>4, <2>6 DEF Verify, LockInv, TypeOK, CountsEveryFailure
<1>6. ASSUME NEW a \in Attempts, IncrementActive(a) PROVE LockInv'
  <2>1. CASE active(row, at[a].now)
             /\ Record(a, increment_active(row, at[a].now), recorded + 1)
    <3>1. row.present
      BY <2>1 DEF active
    <3> DEFINE x == increment_active(row, at[a].now)
    <3>2. /\ x \in Row /\ x.present /\ x.count = recorded + 1
          /\ x.locked = IF row.locked = 0 /\ row.count + 1 >= Threshold
                          THEN at[a].now + Duration ELSE row.locked
      BY <1>1, <3>1, Incremented DEF LockInv, CountsEveryFailure
    <3>3. /\ x.locked = 0 => x.count < Threshold
          /\ x.locked > 0 => x.count >= Threshold
      BY <1>1, <3>1, <3>2, FailedLoginAssumption DEF LockInv, CountsEveryFailure, Row
    <3> HIDE DEF x
    <3>4. Record(a, x, recorded + 1) /\ recorded + 1 \in Nat /\ at[a].pc # "checked"
      BY <1>1, <1>6, <2>1 DEF x, IncrementActive
    <3> QED
      BY <3>2, <3>3, <3>4, RecordKeeps
  <2> QED
    BY <1>6, <2>1, NoMatchKeeps DEF IncrementActive, Statements
<1>7. ASSUME NEW a \in Attempts, NEW n \in Nat, n = 1, at[a].pc # "checked",
             Record(a, first_failure(at[a].now), n)
      PROVE  LockInv'
  <2> DEFINE x == first_failure(at[a].now)
  <2>1. /\ x \in Row /\ x.present /\ x.count = n
        /\ x.locked = 0 => x.count < Threshold
        /\ x.locked > 0 => x.count >= Threshold
    BY <1>1, <1>7, Written, FailedLoginAssumption
  <2>2. Record(a, x, n)
    BY <1>7
  <2> HIDE DEF x
  <2> QED
    BY <1>7, <2>1, <2>2, RecordKeeps
<1>8. ASSUME NEW a \in Attempts, ResetExpiredLock(a) PROVE LockInv'
  BY <1>7, <1>8, NoMatchKeeps DEF ResetExpiredLock, Statements
<1>9. ASSUME NEW a \in Attempts, ResetStaleSequence(a) PROVE LockInv'
  BY <1>7, <1>9, NoMatchKeeps DEF ResetStaleSequence, Statements
<1>10. ASSUME NEW a \in Attempts, InsertFirst(a) PROVE LockInv'
  <2>1. recorded = 0
    BY <1>10, Written DEF InsertFirst, InsertConflicts, LockInv, CountsEveryFailure
  <2> QED
    BY <1>7, <1>10, <2>1 DEF InsertFirst
<1>11. ASSUME NEW a \in Attempts, NEW q \in {idle_attempt, retry(at[a])}, Become(a, q),
              UNCHANGED <<clock, row, guesses, recorded, late>>
       PROVE  LockInv'
  <2>1. idle_attempt \in Attempt /\ idle_attempt.pc # "checked"
        /\ idle_attempt.now <= clock + Skew
    BY <1>1, Written, FailedLoginAssumption
  <2>2. retry(at[a]) \in Attempt /\ retry(at[a]).pc # "checked"
        /\ retry(at[a]).now <= clock + Skew
    <3>1. at[a] \in Attempt /\ at[a].now <= clock + Skew /\ at[a].tries + 1 \in Nat
      BY <1>1 DEF Attempt, LockInv, ReadingsPast
    <3> QED
      BY <3>1, Zenon DEF Attempt, Statements, retry
  <2> QED
    BY <1>11, <2>1, <2>2, MoveKeeps
<1>12. ASSUME NEW a \in Attempts, InsertConflict(a) \/ Fail(a) PROVE LockInv'
  BY <1>11, <1>12 DEF InsertConflict, Fail
<1>13. ASSUME NEW a \in Attempts, Clear(a) PROVE LockInv'
  <2>1. at' \in [Attempts -> Attempt] /\ ReadingsPast'
    BY <1>1, <1>13, Written, FailedLoginAssumption DEF Clear, LockInv, ReadingsPast
  <2> QED
    BY <1>13, <2>1, ForgetKeeps DEF Clear
<1>14. CASE UNCHANGED vars
  BY <1>14 DEF vars, LockInv, TypeOK, CountsEveryFailure, ReadingsPast, CheckedBound,
     LockedForAll, Checked
<1> QED
  BY <1>2, <1>3, <1>4, <1>5, <1>6, <1>8, <1>9, <1>10, <1>12, <1>13, <1>14 DEF Next, Step

-----------------------------------------------------------------------------
(* Theorems *)

\* LockInv holds throughout.
THEOREM LockSafety == Spec => []LockInv
<1>1. Init => LockInv
  <2> SUFFICES ASSUME Init PROVE LockInv
    OBVIOUS
  <2>1. /\ absent_row \in Row /\ ~absent_row.present /\ absent_row.count = 0
        /\ absent_row.locked = 0 /\ idle_attempt \in Attempt /\ idle_attempt.now = 0
    BY Written
  <2>2. CheckedBound
    BY <2>1 DEF Init, CheckedBound, LockedForAll
  <2> QED
    BY <2>1, <2>2, FailedLoginAssumption
    DEF Init, LockInv, TypeOK, CountsEveryFailure, ReadingsPast
<1> QED
  BY <1>1, NextKeeps, PTL DEF Spec

\* However many logins update, reset and insert the row of an identity at once,
\* it counts every failure recorded since it was last forgotten.
THEOREM NoLostFailure == Spec => []CountsEveryFailure
<1>1. LockInv => CountsEveryFailure
  BY DEF LockInv
<1> QED
  BY <1>1, LockSafety, PTL

\* A lock in force lets each login that was past the check guess once, and the
\* one that started it not at all.
THEOREM FewLateGuesses == Spec => []LateGuessesBounded
<1>1. LockInv => LateGuessesBounded
  BY CheckedCardinality DEF LockInv, TypeOK, CheckedBound, LateGuessesBounded
<1> QED
  BY <1>1, LockSafety, PTL

\* Before its time a lock is neither moved nor dropped and a count not lowered,
\* except by a login that succeeds.
THEOREM MemoryStays == Spec => MemoryKept
<1> DEFINE end == IF row.locked > 0 THEN row.locked ELSE row.last + Retention
           kept == row'.count >= row.count /\ (row.locked > 0 => row'.locked = row.locked)
<1>1. ASSUME LockInv, [Next]_vars, row.present, clock + Skew < end,
             ~ \E a \in Attempts : Clear(a)
      PROVE  kept
  <2>1. /\ clock \in Nat /\ row \in Row
        /\ \A a \in Attempts : at[a].now \in Nat /\ at[a].now <= clock + Skew
    BY <1>1, FailedLoginAssumption DEF LockInv, TypeOK, Attempt, ReadingsPast
  <2>2. \A t \in Nat : t <= clock + Skew => ~ExpiredLock(row, t) /\ ~StaleSequence(row, t)
    BY <1>1, <2>1, FailedLoginAssumption DEF ExpiredLock, StaleSequence, Row
  <2>3. ~PurgeByOthers
    BY <1>1, <2>2, ReadingBound DEF PurgeByOthers, reapable
  <2>4. ASSUME NEW a \in Attempts, IncrementActive(a) PROVE kept
    BY <2>1, <2>4, Incremented DEF IncrementActive, Record, NoMatch, Row
  <2>5. ASSUME NEW a \in Attempts,
               ResetExpiredLock(a) \/ ResetStaleSequence(a) \/ InsertFirst(a)
        PROVE  row' = row
    BY <1>1, <2>1, <2>2, <2>5
    DEF ResetExpiredLock, ResetStaleSequence, InsertFirst, InsertConflicts, NoMatch
  <2>6. ASSUME \/ Tick \/ UNCHANGED vars
               \/ \E a \in Attempts : Admit(a) \/ Verify(a) \/ InsertConflict(a) \/ Fail(a)
        PROVE  row' = row
    BY <2>6 DEF Tick, vars, Admit, Verify, InsertConflict, Fail
  <2>7. row' = row => kept
    BY <2>1 DEF Row
  <2> HIDE DEF kept
  <2> QED
    BY <1>1, <2>3, <2>4, <2>5, <2>6, <2>7 DEF Next, Step
<1>2. LockInv /\ [Next]_vars =>
        [row.present /\ clock + Skew < end => (\E a \in Attempts : Clear(a)) \/ kept]_vars
  BY <1>1
<1> QED
  BY <1>2, LockSafety, PTL DEF Spec, MemoryKept
==============================================================================
