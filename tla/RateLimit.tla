------------------------------ MODULE RateLimit ------------------------------
(***************************************************************************)
(* The shared fixed-window counter of one scope and identity, as hosts      *)
(* consume it.  Sources: app/infrastructure/database/rate_limit_store.py    *)
(* (SqlRateLimitStore) and its two callers, ConfigurableRateLimiter.check   *)
(* (app/launch/rate_limit.py) and RateLimiterHook (app/auth/security.py).   *)
(*                                                                          *)
(* A call reads the clock once; its statements, and the retries of all of   *)
(* them, carry that reading.  A statement that matches no row takes no      *)
(* lock, so others run before the next one.  Rows meet only in the delete   *)
(* of expired rows that every call runs over the table: PurgeByOthers.      *)
(***************************************************************************)
EXTENDS Naturals

CONSTANTS
  Calls,        \* calls of consume in progress
  Limit,        \* the rule's max_requests
  Window,       \* the rule's window_seconds, in clock ticks
  MaxAttempts,  \* _MAX_ATTEMPTS of consume
  Skew,         \* how far a host's clock may be from the reference clock
  MaxTime,      \* bound: the reference clock stops here
  MaxResets     \* bound: logins that reset the counter

ASSUME RateLimitAssumption ==
  /\ Limit \in Nat \ {0} /\ Window \in Nat \ {0} /\ MaxAttempts \in Nat \ {0}
  /\ Skew \in Nat /\ MaxTime \in Nat /\ MaxResets \in Nat

VARIABLES
  clock,     \* reference time
  row,       \* the counter's row
  call,      \* per call: control state and local variables
  resets,    \* resets so far
  admitted   \* history: calls allowed since the window in force was opened

vars == <<clock, row, call, resets, admitted>>

Row == [present: BOOLEAN, hits: Nat, expires: Nat]
Call == [pc: {"idle", "delete", "update", "insert", "select"}, now: Nat, tries: Nat]

absent_row == [present |-> FALSE, hits |-> 0, expires |-> 0]
idle_call == [pc |-> "idle", now |-> 0, tries |-> 0]
first_hit(now) == [present |-> TRUE, hits |-> 1, expires |-> now + Window]

Init ==
  /\ clock = 0
  /\ row = absent_row
  /\ call = [c \in Calls |-> idle_call]
  /\ resets = 0
  /\ admitted = 0

-----------------------------------------------------------------------------
Expired(x, now) == x.present /\ x.expires < now

\* Mutant: the update compares the hits with the limit inclusively.
ConsumableInclusive(x, now) == x.present /\ x.hits <= Limit /\ x.expires >= now

Consumable(x, now) == x.present /\ x.hits < Limit /\ x.expires >= now

\* Mutant: the insert overwrites the row it conflicts with.
ConflictsNever(x) == FALSE

Conflicts(x) == x.present

\* The row the conflicting insert met, read again: full for this reading.
Full(x, now) == x.present /\ x.expires >= now /\ x.hits >= Limit

Readings == {t \in 0..(MaxTime + Skew) : t <= clock + Skew /\ clock <= t + Skew}

At(c, pc) == call[c].pc = pc
Become(c, q) == call' = [call EXCEPT ![c] = q]
Return(c) == Become(c, idle_call)
Goto(c, pc) == Become(c, [call[c] EXCEPT !.pc = pc])

Tick ==
  /\ clock < MaxTime
  /\ clock' = clock + 1
  /\ UNCHANGED <<row, call, resets, admitted>>

Consume(c) ==
  /\ At(c, "idle")
  /\ \E t \in Readings : Become(c, [pc |-> "delete", now |-> t, tries |-> 0])
  /\ UNCHANGED <<clock, row, resets, admitted>>

\* The call returns allowed, having written x.
Allow(c, x, n) ==
  /\ row' = x
  /\ admitted' = n
  /\ Return(c)
  /\ UNCHANGED <<clock, resets>>

NoMatch(c, pc) ==
  /\ Goto(c, pc)
  /\ UNCHANGED <<clock, row, resets, admitted>>

\* Deleting its own expired row locks it to the commit: the insert succeeds.
DeleteExpired(c) ==
  /\ At(c, "delete")
  /\ IF Expired(row, call[c].now)
       THEN Allow(c, first_hit(call[c].now), 1)
       ELSE NoMatch(c, "update")

UpdateHits(c) ==
  /\ At(c, "update")
  /\ IF Consumable(row, call[c].now)
       THEN Allow(c, [row EXCEPT !.hits = @ + 1], admitted + 1)
       ELSE NoMatch(c, "insert")

InsertFirst(c) ==
  /\ At(c, "insert")
  /\ IF Conflicts(row)
       THEN NoMatch(c, "select")
       ELSE Allow(c, first_hit(call[c].now), admitted + 1)

\* Denied when the row is full; otherwise _Retry, and after _MAX_ATTEMPTS the
\* store is unavailable, which denies as well.
SelectExisting(c) ==
  /\ At(c, "select")
  /\ IF Full(row, call[c].now) \/ call[c].tries + 1 >= MaxAttempts
       THEN Return(c)
       ELSE Become(c, [call[c] EXCEPT !.pc = "delete", !.tries = @ + 1])
  /\ UNCHANGED <<clock, row, resets, admitted>>

\* The store fails (denied), or the host stops.
Fail(c) ==
  /\ ~At(c, "idle")
  /\ Return(c)
  /\ UNCHANGED <<clock, row, resets, admitted>>

\* A login succeeded.
Reset ==
  /\ resets < MaxResets
  /\ resets' = resets + 1
  /\ row' = absent_row
  /\ admitted' = 0
  /\ UNCHANGED <<clock, call>>

PurgeByOthers ==
  /\ \E t \in Readings : Expired(row, t)
  /\ row' = absent_row
  /\ admitted' = 0
  /\ UNCHANGED <<clock, call, resets>>

Step(c) ==
  \/ DeleteExpired(c)
  \/ UpdateHits(c)
  \/ InsertFirst(c)
  \/ SelectExisting(c)

Next ==
  \/ Tick
  \/ Reset
  \/ PurgeByOthers
  \/ \E c \in Calls : Consume(c) \/ Step(c) \/ Fail(c)

Spec == Init /\ [][Next]_vars

-----------------------------------------------------------------------------
(* Properties *)

TypeOK ==
  /\ clock \in 0..MaxTime
  /\ row \in Row
  /\ call \in [Calls -> Call]
  /\ resets \in Nat /\ admitted \in Nat

\* "Concurrent writers cannot increment past the limit": however their updates
\* and inserts interleave, the row counts exactly the calls allowed since the
\* window was opened, and those are never more than the limit.
NeverPastLimit ==
  /\ row.hits = admitted
  /\ admitted <= Limit

\* A window in force ends only by a reset or when some host's clock is past its
\* expiry; until then its hits only grow and its expiry stays, whatever old
\* readings the calls in progress carry.
WindowKept ==
  [][ row.present /\ row.expires >= clock + Skew =>
        \/ Reset
        \/ row'.hits >= row.hits /\ row'.expires = row.expires
    ]_vars
=============================================================================
