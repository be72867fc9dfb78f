--------------------------- MODULE FailedLoginLock ---------------------------
(***************************************************************************)
(* The durable failed-login memory of one opaque identity and the logins    *)
(* that consult it.  Sources: app/infrastructure/database/                  *)
(* failed_login_lock_store.py (the SQL store), app/launch/                  *)
(* failed_login_lock.py (the policy) and login, _reject_if_login_locked,    *)
(* _record_durable_login_failure and _clear_durable_login_failure of        *)
(* app/auth/service.py.                                                     *)
(*                                                                          *)
(* A login checks the lock, verifies the password and then writes: three    *)
(* calls with a clock reading each, the reading of record_failure carried   *)
(* by every retry.  The statements of record_failure that match no row take *)
(* no lock, so other logins run between them; the one that matches ends the *)
(* transaction (the purge that follows never matches the row just written). *)
(* Identities meet only in that purge: PurgeByOthers.  The in-memory store  *)
(* runs each call under a lock: its behaviours are among these.  A refused  *)
(* login changes nothing and is not a step.  first_failure is never read.   *)
(***************************************************************************)
EXTENDS Naturals, FiniteSets

CONSTANTS
  Attempts,     \* logins in progress for this identity
  Threshold,    \* FAILED_LOGIN_LOCK_THRESHOLD
  Duration,     \* FAILED_LOGIN_LOCK_DURATION_SECONDS, in clock ticks
  Retention,    \* FAILED_LOGIN_FAILURE_RETENTION_SECONDS, in clock ticks
  MaxAttempts,  \* _MAX_ATTEMPTS of record_failure
  Skew,         \* how far a host's clock may be from the reference clock
  MaxTime,      \* bound: the reference clock stops here
  MaxGuesses    \* bound: passwords verified

ASSUME FailedLoginAssumption ==
  /\ Threshold \in Nat \ {0} /\ Duration \in Nat \ {0}
  /\ Retention \in Nat \ {0} /\ MaxAttempts \in Nat \ {0}
  /\ Skew \in Nat /\ MaxTime \in Nat /\ MaxGuesses \in Nat
  /\ IsFiniteSet(Attempts)

VARIABLES
  clock,     \* reference time
  row,       \* the identity's row
  at,        \* per login: control state and local variables
  guesses,   \* passwords verified
  recorded,  \* history: failures recorded since the memory was last forgotten
  late       \* history: passwords verified under the lock in force

vars == <<clock, row, at, guesses, recorded, late>>

\* locked is locked_until, 0 for NULL.
Row == [present: BOOLEAN, count: Nat, locked: Nat, last: Nat]
Statements == {"increment", "expired", "stale", "insert"}
Attempt == [pc: {"idle", "checked", "clear"} \cup Statements, now: Nat, tries: Nat]

absent_row == [present |-> FALSE, count |-> 0, locked |-> 0, last |-> 0]
idle_attempt == [pc |-> "idle", now |-> 0, tries |-> 0]

Init ==
  /\ clock = 0
  /\ row = absent_row
  /\ at = [a \in Attempts |-> idle_attempt]
  /\ guesses = 0
  /\ recorded = 0
  /\ late = 0

-----------------------------------------------------------------------------
(* The rows the statements match and write *)

\* Mutant: the check waits for one failure more than the threshold.
is_locked_after_threshold(x, now) == x.present /\ x.count > Threshold

is_locked(x, now) == x.present /\ x.locked > now

ExpiredLock(x, now) == x.present /\ x.locked > 0 /\ x.locked <= now

\* Mutant: a row is stale by its last failure alone, locked or not.
StaleLockedToo(x, now) == x.present /\ x.last + Retention <= now

StaleSequence(x, now) == x.present /\ x.locked = 0 /\ x.last + Retention <= now

reapable(x, now) == ExpiredLock(x, now) \/ StaleSequence(x, now)

active(x, now) ==
  x.present /\ (x.locked > now \/ (x.locked = 0 /\ x.last + Retention > now))

increment_active(x, now) ==
  [x EXCEPT !.count = @ + 1, !.last = now,
            !.locked = IF @ = 0 /\ x.count + 1 >= Threshold
                         THEN now + Duration ELSE @]

first_failure(now) ==
  [present |-> TRUE, count |-> 1, last |-> now,
   locked |-> IF Threshold <= 1 THEN now + Duration ELSE 0]

\* Mutant: the insert replaces a row that another login wrote meanwhile.
InsertNeverConflicts(x) == FALSE

InsertConflicts(x) == x.present

\* Mutant: only the insert is tried again, for as long as it conflicts.
retry_insert(q) == [q EXCEPT !.pc = "insert"]

retry(q) == [q EXCEPT !.pc = "increment", !.tries = @ + 1]

-----------------------------------------------------------------------------
Readings == {t \in 0..(MaxTime + Skew) : t <= clock + Skew /\ clock <= t + Skew}

At(a, pc) == at[a].pc = pc
Become(a, q) == at' = [at EXCEPT ![a] = q]
Return(a) == Become(a, idle_attempt)
Goto(a, pc) == Become(a, [at[a] EXCEPT !.pc = pc])

\* The lock is in force whatever clock reads it.
LockedForAll(x) == x.present /\ x.locked > clock + Skew

Tick ==
  /\ clock < MaxTime
  /\ clock' = clock + 1
  /\ UNCHANGED <<row, at, guesses, recorded, late>>

\* _reject_if_login_locked lets the login through (the rate limiter too).
Admit(a) ==
  /\ At(a, "idle")
  /\ guesses < MaxGuesses
  /\ \E t \in Readings : ~is_locked(row, t)
  /\ Goto(a, "checked")
  /\ UNCHANGED <<clock, row, guesses, recorded, late>>

\* The password (or the lack of an account) is found out, right or wrong; the
\* call that follows reads the clock.
Verify(a) ==
  /\ At(a, "checked")
  /\ \E t \in Readings :
       \/ Become(a, [pc |-> "increment", now |-> t, tries |-> 0])
       \/ Become(a, [pc |-> "clear", now |-> t, tries |-> 0])
  /\ guesses' = guesses + 1
  /\ late' = IF LockedForAll(row) THEN late + 1 ELSE late
  /\ UNCHANGED <<clock, row, recorded>>

\* The write that ends record_failure; a lock that starts now has no late
\* guesses yet.
Record(a, x, n) ==
  /\ row' = x
  /\ recorded' = n
  /\ late' = IF x.locked > 0 /\ x.locked # row.locked THEN 0 ELSE late
  /\ Return(a)
  /\ UNCHANGED <<clock, guesses>>

\* A statement of record_failure that matches no row.
NoMatch(a, pc) ==
  /\ Goto(a, pc)
  /\ UNCHANGED <<clock, row, guesses, recorded, late>>

IncrementActive(a) ==
  /\ At(a, "increment")
  /\ IF active(row, at[a].now)
       THEN Record(a, increment_active(row, at[a].now), recorded + 1)
       ELSE NoMatch(a, "expired")

ResetExpiredLock(a) ==
  /\ At(a, "expired")
  /\ IF ExpiredLock(row, at[a].now)
       THEN Record(a, first_failure(at[a].now), 1)
       ELSE NoMatch(a, "stale")

ResetStaleSequence(a) ==
  /\ At(a, "stale")
  /\ IF StaleSequence(row, at[a].now)
       THEN Record(a, first_failure(at[a].now), 1)
       ELSE NoMatch(a, "insert")

InsertFirst(a) ==
  /\ At(a, "insert")
  /\ ~InsertConflicts(row)
  /\ Record(a, first_failure(at[a].now), recorded + 1)

\* IntegrityError: the whole transaction again with the same reading, and
\* after _MAX_ATTEMPTS the store is unavailable.
InsertConflict(a) ==
  /\ At(a, "insert")
  /\ InsertConflicts(row)
  /\ IF at[a].tries + 1 < MaxAttempts
       THEN Become(a, retry(at[a]))
       ELSE Return(a)
  /\ UNCHANGED <<clock, row, guesses, recorded, late>>

\* clear: the login succeeded.
Clear(a) ==
  /\ At(a, "clear")
  /\ row' = absent_row
  /\ recorded' = 0
  /\ Return(a)
  /\ UNCHANGED <<clock, guesses, late>>

\* The store fails (the login is refused), or the host stops.
Fail(a) ==
  /\ ~At(a, "idle")
  /\ Return(a)
  /\ UNCHANGED <<clock, row, guesses, recorded, late>>

\* The purge of a login of another identity.
PurgeByOthers ==
  /\ \E t \in Readings : reapable(row, t)
  /\ row' = absent_row
  /\ recorded' = 0
  /\ UNCHANGED <<clock, at, guesses, late>>

Step(a) ==
  \/ Verify(a)
  \/ IncrementActive(a)
  \/ ResetExpiredLock(a)
  \/ ResetStaleSequence(a)
  \/ InsertFirst(a)
  \/ InsertConflict(a)
  \/ Clear(a)

Next ==
  \/ Tick
  \/ PurgeByOthers
  \/ \E a \in Attempts : Admit(a) \/ Step(a) \/ Fail(a)

\* A login that has been admitted runs on; nothing makes time pass or sends
\* another login.
Spec == Init /\ [][Next]_vars /\ \A a \in Attempts : WF_vars(Step(a))

-----------------------------------------------------------------------------
(* Properties *)

TypeOK ==
  /\ clock \in 0..MaxTime
  /\ row \in Row
  /\ at \in [Attempts -> Attempt]
  /\ guesses \in Nat /\ recorded \in Nat /\ late \in Nat

\* "Concurrent failures cannot lose counts": whatever logins interleave their
\* updates, resets and inserts, the row counts exactly the failures recorded
\* since the memory was last forgotten, and a row without a lock is below the
\* threshold.
CountsEveryFailure ==
  /\ row.count = recorded
  /\ row.present /\ row.locked = 0 => row.count < Threshold
  /\ row.locked > 0 => row.count >= Threshold

\* A lock in force lets through only the logins that were past the check when
\* it started: however many are in progress, each verifies one password more.
LateGuessesBounded ==
  LockedForAll(row) => late < Cardinality(Attempts)

\* What an identity's memory may lose.  Unless a login succeeds, a lock is not
\* moved or dropped before some host's clock has reached its end, and the count
\* of an unlocked row is not lowered before some host's clock is Retention past
\* the last failure: a login that read the clock long ago, or that found no row
\* a moment ago, does not reset what others have recorded since.
MemoryKept ==
  [][ LET end == IF row.locked > 0 THEN row.locked ELSE row.last + Retention
      IN  row.present /\ clock + Skew < end =>
            \/ \E a \in Attempts : Clear(a)
            \/ /\ row'.count >= row.count
               /\ row.locked > 0 => row'.locked = row.locked
    ]_vars

\* Every login that was admitted is answered: retries after an insert conflict
\* end, whatever the others do.
LoginsAnswered ==
  \A a \in Attempts : at[a].pc # "idle" ~> at[a].pc = "idle"
=============================================================================
