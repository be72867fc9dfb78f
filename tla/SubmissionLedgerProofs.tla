----------------------- MODULE SubmissionLedgerProofs -----------------------
(***************************************************************************)
(* Proofs about SubmissionLedger, for any number of requests and payloads.  *)
(* LedgerInv is inductive; the two safety properties follow from it.        *)
(***************************************************************************)
EXTENDS SubmissionLedger, SequenceTheorems, TLAPS

USE DEF At, Become, Return

Runs == [print: Prints, now: Nat]

\* What LedgerInv says of the row alone, and of the requests alone.
RowPart ==
  /\ row \in Row
  /\ RowFits
  /\ ~overtaken => (ran # <<>> => RowGuards)
RequestPart ==
  /\ rq \in [Requests -> Request]
  /\ \A r \in Requests : RequestFits(rq[r])
  /\ ~overtaken => OnlyLastInFlight

\* LedgerInv is the conjunction of its two parts and the other types.
LEMMA Parts ==
  LedgerInv <=> /\ clock \in Nat /\ ran \in Seq(Runs) /\ overtaken \in BOOLEAN
                /\ RowPart /\ RequestPart
  BY DEF LedgerInv, TypeOK, RowPart, RequestPart, Runs

\* The last run is a run.
LEMMA LastIsRun ==
  ASSUME ran \in Seq(Runs), ran # <<>>
  PROVE  Len(ran) \in Nat \ {0} /\ Last \in Runs
<1>1. Len(ran) \in Nat /\ Len(ran) # 0
  BY EmptySeq, LenProperties
<1> QED
  BY <1>1, ElementOfSeq DEF Last

\* A sweep leaves the row, seals it or removes it.
LEMMA SweepCases ==
  ASSUME NEW x \in Row, NEW t \in Nat
  PROVE  \/ sweep(x, t) = x
         \/ /\ x.state = "processing" /\ x.expires <= t
            /\ sweep(x, t) = indeterminate_record(x, t)
         \/ /\ x.state \in Terminal /\ x.expires <= t
            /\ sweep(x, t) = absent_row
<1>1. CASE x.state = "processing" /\ x.expires <= t
  <2>1. indeterminate_record(x, t).expires = t + Retention
    BY <1>1 DEF indeterminate_record, Row
  <2>2. ~ Expired(indeterminate_record(x, t), t)
    BY <2>1, LedgerAssumption DEF Expired
  <2> QED
    BY <1>1, <2>2 DEF sweep, seal, purge
<1>2. CASE ~ (x.state = "processing" /\ x.expires <= t)
  BY <1>2 DEF sweep, seal, purge, Expired, Terminal
<1> QED
  BY <1>1, <1>2

\* A sealed row still guards the last execution: the seal's expiry counts from
\* a reading that is past the horizon.
LEMMA IndeterminateKeeps ==
  ASSUME LedgerInv, UNCHANGED <<clock, ran, overtaken>>,
         NEW t \in Nat, row.state = "processing",
         ~overtaken => t >= Last.now,
         row' = indeterminate_record(row, t)
  PROVE  RowPart'
<1>1. ran \in Seq(Runs) /\ row \in Row /\ RowFits
  BY Parts DEF RowPart
<1>2. ran # <<>> /\ row.print \in Prints
  BY <1>1 DEF RowFits
<1>3. row' \in Row /\ row'.state = "indeterminate" /\ row'.print = row.print
      /\ row'.expires = t + Retention
  <2>1. t + Retention \in Nat
    BY LedgerAssumption
  <2>2. row' = [state |-> "indeterminate", print |-> row.print, response |-> 0,
                expires |-> t + Retention]
    BY <1>1 DEF indeterminate_record, Row
  <2> QED
    BY <1>1, <2>1, <2>2 DEF Row
<1>4. RowFits'
  BY <1>2, <1>3 DEF RowFits
<1>5. ~overtaken => row'.expires >= Last.now + Retention
  BY <1>1, <1>2, <1>3, LastIsRun, LedgerAssumption DEF Runs
<1>6. ~overtaken' => RowGuards'
  BY <1>3, <1>5 DEF RowGuards, Last, Terminal
<1> QED
  BY <1>3, <1>4, <1>6 DEF RowPart

\* Any sweep, by this key's claims or by another's.
LEMMA SweepKeeps ==
  ASSUME LedgerInv, UNCHANGED <<clock, ran, overtaken>>,
         NEW t \in Nat, t <= clock + Skew,
         row' = sweep(row, t)
  PROVE  RowPart'
<1>1. /\ clock \in Nat /\ ran \in Seq(Runs) /\ row \in Row /\ RowFits
      /\ ~overtaken => (ran # <<>> => RowGuards)
  BY Parts DEF RowPart
<1>2. CASE row' = row
  BY <1>1, <1>2 DEF RowPart, RowFits, RowGuards, Last
<1>3. CASE row.state = "processing" /\ row.expires <= t
           /\ row' = indeterminate_record(row, t)
  <2>1. ran # <<>>
    BY <1>1, <1>3 DEF RowFits
  <2>2. ~overtaken => t >= Last.now
    BY <1>1, <1>3, <2>1, LastIsRun, LedgerAssumption DEF RowGuards, Runs, Row
  <2> QED
    BY <1>3, <2>2, IndeterminateKeeps
<1>4. CASE row.state \in Terminal /\ row.expires <= t /\ row' = absent_row
  <2>1. ran # <<>>
    BY <1>1, <1>4 DEF RowFits, Terminal
  <2>2. ~overtaken => clock + Skew >= Last.now + Retention
    BY <1>1, <1>4, <2>1, LastIsRun, LedgerAssumption DEF RowGuards, Runs, Row
  <2>3. row' \in Row /\ row'.state = "absent"
    BY <1>4 DEF absent_row, Row
  <2> QED
    BY <2>2, <2>3 DEF RowPart, RowFits, RowGuards, Last, Terminal
<1> QED
  BY <1>1, <1>2, <1>3, <1>4, SweepCases

\* fail_closed by a submission in flight.
LEMMA FailKeeps ==
  ASSUME LedgerInv, UNCHANGED <<clock, ran, overtaken>>,
         NEW r \in Requests, rq[r].pc \in InFlight,
         row' = fail_closed(row, rq[r].now)
  PROVE  RowPart'
<1>1. /\ clock \in Nat /\ ran \in Seq(Runs) /\ row \in Row /\ RowFits
      /\ ~overtaken => (ran # <<>> => RowGuards)
      /\ rq[r] \in Request /\ RequestFits(rq[r])
      /\ ~overtaken => OnlyLastInFlight
  BY Parts DEF RowPart, RequestPart
<1>2. CASE row.state = "processing"
  <2>1. ~overtaken => rq[r].now >= Last.now
    BY <1>1 DEF OnlyLastInFlight, RequestFits, Last, Request
  <2>2. rq[r].now \in Nat
    BY <1>1 DEF Request
  <2> QED
    BY <1>2, <2>1, <2>2, IndeterminateKeeps DEF fail_closed
<1>3. CASE row.state # "processing"
  BY <1>1, <1>3 DEF fail_closed, RowPart, RowFits, RowGuards, Last
<1> QED
  BY <1>2, <1>3

\* A request that changes its own memory only.
LEMMA RequestKeeps ==
  ASSUME LedgerInv, UNCHANGED <<clock, ran, overtaken>>,
         NEW r \in Requests, NEW q \in Request,
         RequestFits(q),
         ~overtaken /\ q.pc \in InFlight => q.run = Len(ran),
         Become(r, q)
  PROVE  RequestPart'
<1>1. /\ rq \in [Requests -> Request]
      /\ \A v \in Requests : RequestFits(rq[v])
      /\ ~overtaken => OnlyLastInFlight
  BY Parts DEF RequestPart
<1>2. rq' \in [Requests -> Request]
  BY <1>1
<1>3. ASSUME NEW v \in Requests PROVE RequestFits(rq[v])'
  BY <1>1 DEF RequestFits
<1>4. ~overtaken => OnlyLastInFlight'
  BY <1>1 DEF OnlyLastInFlight
<1> QED
  BY <1>2, <1>3, <1>4 DEF RequestPart

\* The records a request becomes when it arrives and when it wins.
LEMMA WinnerIsRequest ==
  ASSUME NEW q \in Request, NEW n \in Nat
  PROVE  LET z == [q EXCEPT !.pc = "executing", !.run = n] IN
         /\ z \in Request /\ z.pc = "executing" /\ z.run = n
         /\ z.print = q.print /\ z.now = q.now
  BY DEF Request, InFlight
LEMMA ArrivalIsRequest ==
  ASSUME NEW p \in Prints, NEW t \in Nat
  PROVE  LET z == [idle_request EXCEPT !.pc = "claim", !.print = p, !.now = t] IN
         z \in Request /\ z.pc = "claim" /\ z.print = p /\ z.now = t
<1>1. idle_request \in Request
  BY DEF idle_request, Request
<1> QED
  BY <1>1 DEF Request

\* The insert: the winner is the last run, and nobody else is in flight
\* unless the winner has overtaken somebody.
LEMMA WinKeeps ==
  ASSUME LedgerInv, NEW r \in Requests, rq[r].pc \in {"claim", "insert"},
         Win(r), clock' = clock
  PROVE  LedgerInv'
<1> DEFINE q == rq[r]
           e == [print |-> q.print, now |-> q.now]
           z == [q EXCEPT !.pc = "executing", !.run = Len(ran) + 1]
<1>1. /\ clock \in Nat /\ ran \in Seq(Runs) /\ overtaken \in BOOLEAN
      /\ rq \in [Requests -> Request]
      /\ \A v \in Requests : RequestFits(rq[v])
  BY Parts DEF RequestPart
<1>2. q \in Request /\ q.print \in Prints /\ q.now \in Nat
      /\ q.now <= clock + Skew
  BY <1>1 DEF RequestFits, Request
<1>3. e \in Runs
  BY <1>2 DEF Runs
<1>4. /\ row' = processing_record(q.print, q.now)
      /\ ran' = Append(ran, e)
      /\ overtaken' = (overtaken \/ \E v \in Requests : rq[v].pc \in InFlight)
      /\ rq' = [rq EXCEPT ![r] = z]
  BY DEF Win
<1>5. /\ ran' \in Seq(Runs) /\ ran' # <<>> /\ Len(ran') = Len(ran) + 1
      /\ \A i \in 1..Len(ran) : ran'[i] = ran[i]
      /\ ran'[Len(ran) + 1] = e
      /\ Len(ran) \in Nat
  BY <1>1, <1>3, <1>4, AppendProperties, LenProperties
<1>6. /\ z \in Request /\ z.pc = "executing" /\ z.run = Len(ran) + 1
      /\ z.print = q.print /\ z.now = q.now
  <2>1. Len(ran) + 1 \in Nat
    BY <1>5
  <2> QED
    BY <1>2, <2>1, WinnerIsRequest
<1>7. RowPart'
  <2>1. row' = [state |-> "processing", print |-> q.print, response |-> 0,
                expires |-> q.now + Horizon]
    BY <1>4 DEF processing_record
  <2>2. row' \in Row
    BY <1>2, <2>1, LedgerAssumption DEF Row
  <2>3. Last'.now = q.now
    BY <1>5 DEF Last
  <2> QED
    BY <1>2, <1>5, <2>1, <2>2, <2>3 DEF RowPart, RowFits, RowGuards, Terminal
<1>8. RequestPart'
  <2> HIDE DEF z
  <2>1. rq' \in [Requests -> Request]
    BY <1>1, <1>4, <1>6
  <2>2. ASSUME NEW v \in Requests PROVE RequestFits(rq[v])'
    <3>1. CASE v = r
      <4>1. rq'[v] = z
        BY <1>1, <1>4, <3>1
      <4>2. z.run \in 1..Len(ran') /\ ran'[z.run] = [print |-> z.print, now |-> z.now]
        BY <1>5, <1>6
      <4> QED
        BY <1>2, <1>6, <4>1, <4>2 DEF RequestFits
    <3>2. CASE v # r
      <4>1. rq'[v] = rq[v] /\ RequestFits(rq[v])
        BY <1>1, <1>4, <3>2
      <4>2. rq[v].pc \in InFlight =>
              rq[v].run \in 1..Len(ran') /\ ran'[rq[v].run] = ran[rq[v].run]
        BY <1>5, <4>1 DEF RequestFits
      <4> QED
        BY <4>1, <4>2 DEF RequestFits
    <3> QED
      BY <3>1, <3>2
  <2>3. ~overtaken' => OnlyLastInFlight'
    BY <1>1, <1>4, <1>5, <1>6 DEF OnlyLastInFlight
  <2> QED
    BY <2>1, <2>2, <2>3 DEF RequestPart
<1>9. overtaken' \in BOOLEAN
  BY <1>4
<1> QED
  BY <1>1, <1>5, <1>7, <1>8, <1>9
     DEF LedgerInv, TypeOK, RowPart, RequestPart, Runs

\* A request that returns, crashes or forgets.
LEMMA IdleFits ==
  ASSUME LedgerInv
  PROVE  /\ idle_request \in Request /\ idle_request.pc \notin InFlight
         /\ RequestFits(idle_request)
<1>1. clock \in Nat
  BY Parts
<1> QED
  BY <1>1, LedgerAssumption DEF idle_request, Request, RequestFits, InFlight

\* A request that moves on inside an execution keeps what it knows.
LEMMA MoveFits ==
  ASSUME LedgerInv, NEW r \in Requests, rq[r].pc \in InFlight,
         NEW pc \in InFlight
  PROVE  LET q == [rq[r] EXCEPT !.pc = pc] IN
         /\ q \in Request /\ RequestFits(q)
         /\ ~overtaken => q.run = Len(ran)
<1>1. /\ rq[r] \in Request /\ RequestFits(rq[r])
      /\ ~overtaken => OnlyLastInFlight
  BY Parts DEF RequestPart
<1> DEFINE q == [rq[r] EXCEPT !.pc = pc]
<1>2. q \in Request /\ q.pc = pc /\ q.print = rq[r].print /\ q.now = rq[r].now
      /\ q.run = rq[r].run
  BY <1>1 DEF Request
<1>3. pc # "idle" /\ rq[r].pc # "idle"
  BY DEF InFlight
<1> QED
  BY <1>1, <1>2, <1>3 DEF RequestFits, OnlyLastInFlight

\* complete(): the response of the last run, or of an overtaken one.
LEMMA CompleteKeeps ==
  ASSUME LedgerInv, UNCHANGED <<clock, ran, overtaken>>,
         NEW r \in Requests, rq[r].pc \in InFlight, Completes(row, rq[r]),
         row' = completed_record(row, rq[r])
  PROVE  RowPart'
<1>1. /\ ran \in Seq(Runs) /\ row \in Row /\ RowFits
      /\ rq[r] \in Request /\ RequestFits(rq[r])
      /\ ~overtaken => OnlyLastInFlight
  BY Parts DEF RowPart, RequestPart
<1>2. row.print = rq[r].print /\ row.print \in Prints /\ ran # <<>>
  BY <1>1 DEF Completes, RowFits
<1>3. rq[r].now \in Nat /\ rq[r].run \in Nat /\ rq[r].now + Retention \in Nat
  BY <1>1, LedgerAssumption DEF Request
<1>4. row' = [state |-> "completed", print |-> row.print,
              response |-> rq[r].run, expires |-> rq[r].now + Retention]
  BY <1>1 DEF completed_record, Row
<1>5. row' \in Row
  BY <1>2, <1>3, <1>4 DEF Row
<1>6. RowFits'
  BY <1>1, <1>2, <1>4 DEF RowFits, RequestFits
<1>7. ~overtaken => Last.now = rq[r].now
  BY <1>1 DEF OnlyLastInFlight, RequestFits, Last
<1>8. ~overtaken' => RowGuards'
  BY <1>3, <1>4, <1>7 DEF RowGuards, Last, Terminal
<1> QED
  BY <1>5, <1>6, <1>8 DEF RowPart

-----------------------------------------------------------------------------
\* Every step keeps the two parts of the invariant.
LEMMA NextKeeps ==
  ASSUME LedgerInv, [Next]_vars
  PROVE  LedgerInv'
<1>1. /\ clock \in Nat /\ ran \in Seq(Runs) /\ overtaken \in BOOLEAN
      /\ RowPart /\ RequestPart
  BY Parts
<1>2. ASSUME UNCHANGED <<clock, ran, overtaken>>, RowPart', RequestPart'
      PROVE  LedgerInv'
  BY <1>1, <1>2 DEF LedgerInv, TypeOK, RowPart, RequestPart, Runs
<1>3. ASSUME UNCHANGED <<clock, row, ran, overtaken>> PROVE RowPart'
  BY <1>1, <1>3 DEF RowPart, RowFits, RowGuards, Last
<1>4. ASSUME UNCHANGED <<clock, rq, ran, overtaken>> PROVE RequestPart'
  BY <1>1, <1>4 DEF RequestPart, RequestFits, OnlyLastInFlight
<1>5. ASSUME NEW r \in Requests, UNCHANGED <<clock, ran, overtaken>>, Return(r)
      PROVE  RequestPart'
  BY <1>5, IdleFits, RequestKeeps
<1>6. ASSUME NEW r \in Requests, UNCHANGED <<clock, ran, overtaken>>,
             rq[r].pc \in InFlight, NEW pc \in InFlight,
             Become(r, [rq[r] EXCEPT !.pc = pc])
      PROVE  RequestPart'
  BY <1>6, MoveFits, RequestKeeps
<1>7. ASSUME NEW r \in Requests
      PROVE  rq[r] \in Request /\ RequestFits(rq[r])
             /\ rq[r].now \in Nat /\ rq[r].now <= clock + Skew
  BY <1>1, <1>7 DEF RequestPart, RequestFits, Request
<1>8. CASE Tick
  <2>1. clock' = clock + 1 /\ UNCHANGED <<row, rq, ran, overtaken>>
    BY <1>8 DEF Tick
  <2>2. clock' \in Nat /\ clock' + Skew >= clock + Skew
    BY <1>1, <2>1, LedgerAssumption
  <2>3. RowPart'
    <3>1. ran # <<>> => Last.now \in Nat
      BY <1>1, LastIsRun DEF Runs
    <3> QED
      BY <1>1, <2>1, <3>1, LedgerAssumption DEF RowPart, RowFits, RowGuards, Last
  <2>4. RequestPart'
    <3>1. ASSUME NEW v \in Requests PROVE RequestFits(rq[v])'
      BY <1>1, <1>7, <2>1, LedgerAssumption DEF RequestFits
    <3> QED
      BY <1>1, <2>1, <3>1 DEF RequestPart, OnlyLastInFlight
  <2> QED
    BY <1>1, <2>1, <2>2, <2>3, <2>4
       DEF LedgerInv, TypeOK, RowPart, RequestPart, Runs
<1>9. CASE SweepByOthers
  <2>1. PICK t \in Readings : row' = sweep(row, t)
    BY <1>9 DEF SweepByOthers
  <2>2. t \in Nat /\ t <= clock + Skew
    BY LedgerAssumption DEF Readings
  <2>3. UNCHANGED <<clock, rq, ran, overtaken>>
    BY <1>9 DEF SweepByOthers
  <2> QED
    BY <1>2, <1>4, <2>1, <2>2, <2>3, SweepKeeps
<1>10. ASSUME NEW r \in Requests, NEW p \in Prints, Submit(r, p)
       PROVE  LedgerInv'
  <2>1. PICK t \in Readings :
          Become(r, [idle_request EXCEPT !.pc = "claim", !.print = p, !.now = t])
    BY <1>10 DEF Submit
  <2>2. t \in Nat /\ t <= clock + Skew
    BY LedgerAssumption DEF Readings
  <2> DEFINE q == [idle_request EXCEPT !.pc = "claim", !.print = p, !.now = t]
  <2>3. q \in Request /\ q.pc = "claim" /\ q.print = p /\ q.now = t
    BY <2>2, ArrivalIsRequest
  <2>4. RequestFits(q) /\ q.pc \notin InFlight
    BY <2>2, <2>3 DEF RequestFits, InFlight
  <2>5. UNCHANGED <<clock, row, ran, overtaken>>
    BY <1>10 DEF Submit
  <2>6. Become(r, q)
    BY <2>1
  <2> HIDE DEF q
  <2>7. RequestPart'
    BY <2>3, <2>4, <2>5, <2>6, RequestKeeps
  <2> QED
    BY <1>2, <1>3, <2>5, <2>7
<1>11. ASSUME NEW r \in Requests, ClaimSweep(r)
       PROVE  LedgerInv'
  <2> DEFINE swept == sweep(row, rq[r].now)
  <2>1. rq[r].pc = "claim" /\ clock' = clock
    BY <1>11 DEF ClaimSweep
  <2>2. CASE /\ Become(r, [rq[r] EXCEPT !.pc = "insert"])
             /\ UNCHANGED <<row, ran, overtaken>>
    <3> DEFINE q == [rq[r] EXCEPT !.pc = "insert"]
    <3>1. /\ q \in Request /\ q.pc = "insert" /\ q.print = rq[r].print
          /\ q.now = rq[r].now
      BY <1>7 DEF Request
    <3>2. RequestFits(q) /\ q.pc \notin InFlight
      BY <1>7, <2>1, <3>1 DEF RequestFits, InFlight
    <3>3. RequestPart'
      BY <2>1, <2>2, <3>1, <3>2, RequestKeeps
    <3> QED
      BY <1>2, <1>3, <2>1, <2>2, <3>3
  <2>3. CASE Win(r)
    BY <2>1, <2>3, WinKeeps
  <2>4. CASE row' = swept /\ Interpret(r)
    BY <1>2, <1>5, <1>7, <2>1, <2>4, SweepKeeps DEF Interpret
  <2> QED
    BY <1>11, <2>2, <2>3, <2>4 DEF ClaimSweep
<1>12. ASSUME NEW r \in Requests, ClaimInsert(r)
       PROVE  LedgerInv'
  <2>1. rq[r].pc = "insert" /\ clock' = clock
    BY <1>12 DEF ClaimInsert
  <2>2. CASE /\ Become(r, [rq[r] EXCEPT !.pc = "claim"])
             /\ UNCHANGED <<row, ran, overtaken>>
    <3> DEFINE q == [rq[r] EXCEPT !.pc = "claim"]
    <3>1. /\ q \in Request /\ q.pc = "claim" /\ q.print = rq[r].print
          /\ q.now = rq[r].now
      BY <1>7 DEF Request
    <3>2. RequestFits(q) /\ q.pc \notin InFlight
      BY <1>7, <2>1, <3>1 DEF RequestFits, InFlight
    <3>3. RequestPart'
      BY <2>1, <2>2, <3>1, <3>2, RequestKeeps
    <3> QED
      BY <1>2, <1>3, <2>1, <2>2, <3>3
  <2>3. CASE Win(r)
    BY <2>1, <2>3, WinKeeps
  <2>4. CASE Interpret(r) /\ UNCHANGED row
    BY <1>2, <1>3, <1>5, <2>1, <2>4 DEF Interpret
  <2> QED
    BY <1>12, <2>2, <2>3, <2>4 DEF ClaimInsert
<1>13. ASSUME NEW r \in Requests, ExecuteReturns(r)
       PROVE  LedgerInv'
  <2>1. PICK pc \in {"answered", "raised"} : Become(r, [rq[r] EXCEPT !.pc = pc])
    BY <1>13 DEF ExecuteReturns
  <2>2. rq[r].pc \in InFlight /\ pc \in InFlight
        /\ UNCHANGED <<clock, row, ran, overtaken>>
    BY <1>13 DEF ExecuteReturns, InFlight
  <2> QED
    BY <1>2, <1>3, <1>6, <2>1, <2>2
<1>14. ASSUME NEW r \in Requests, Complete(r)
       PROVE  LedgerInv'
  <2>1. rq[r].pc \in InFlight /\ "unstored" \in InFlight
        /\ UNCHANGED <<clock, ran, overtaken>>
    BY <1>14 DEF Complete, InFlight
  <2>2. Return(r) \/ Become(r, [rq[r] EXCEPT !.pc = "unstored"])
    BY <1>14 DEF Complete
  <2>3. RequestPart'
    BY <1>5, <1>6, <2>1, <2>2
  <2>4. \/ row' = row
        \/ Completes(row, rq[r]) /\ row' = completed_record(row, rq[r])
    BY <1>14 DEF Complete
  <2>5. RowPart'
    BY <1>3, <2>1, <2>4, CompleteKeeps
  <2> QED
    BY <1>2, <2>1, <2>3, <2>5
<1>15. ASSUME NEW r \in Requests, CompleteFails(r) \/ FailClosed(r)
       PROVE  LedgerInv'
  <2>1. rq[r].pc \in InFlight /\ "unstored" \in InFlight
        /\ UNCHANGED <<clock, ran, overtaken>>
    BY <1>15 DEF CompleteFails, FailClosed, InFlight
  <2>2. Return(r) \/ Become(r, [rq[r] EXCEPT !.pc = "unstored"])
    BY <1>15 DEF CompleteFails, FailClosed
  <2>3. RequestPart'
    BY <1>5, <1>6, <2>1, <2>2
  <2>4. row' = row \/ row' = fail_closed(row, rq[r].now)
    BY <1>15 DEF CompleteFails, FailClosed
  <2>5. RowPart'
    BY <1>3, <2>1, <2>4, FailKeeps
  <2> QED
    BY <1>2, <2>1, <2>3, <2>5
<1>16. ASSUME NEW r \in Requests, Crash(r)
       PROVE  LedgerInv'
  BY <1>2, <1>3, <1>5, <1>16 DEF Crash
<1>17. CASE UNCHANGED vars
  BY <1>2, <1>3, <1>4, <1>17 DEF vars
<1> QED
  BY <1>8, <1>9, <1>10, <1>11, <1>12, <1>13, <1>14, <1>15, <1>16, <1>17
     DEF Next, RequestStep

\* The ledger's inductive invariant: the row, the history of claims that were
\* won and the requests in flight agree; while nobody has been overtaken, the
\* row guards the last execution until its retention is over.
THEOREM LedgerSafety == Spec => []LedgerInv
<1>1. Init => LedgerInv
  <2> SUFFICES ASSUME Init PROVE LedgerInv
    OBVIOUS
  <2>1. clock = 0 /\ row = absent_row /\ ran = <<>> /\ overtaken = FALSE
        /\ rq = [r \in Requests |-> idle_request]
    BY DEF Init
  <2>2. idle_request \in Request /\ RequestFits(idle_request)
        /\ idle_request.pc \notin InFlight
    BY <2>1, LedgerAssumption DEF idle_request, Request, RequestFits, InFlight
  <2>3. row \in Row /\ RowFits
    BY <2>1 DEF absent_row, Row, RowFits
  <2>4. ran \in Seq(Runs)
    BY <2>1
  <2>5. rq \in [Requests -> Request]
        /\ (\A r \in Requests : RequestFits(rq[r])) /\ OnlyLastInFlight
    BY <2>1, <2>2 DEF OnlyLastInFlight
  <2> QED
    BY <2>1, <2>3, <2>4, <2>5 DEF LedgerInv, TypeOK, Runs
<1>2. LedgerInv /\ [Next]_vars => LedgerInv'
  BY NextKeeps
<1> QED
  BY <1>1, <1>2, PTL DEF Spec

\* No response is ever replayed to a payload it was not computed for.
THEOREM NoForeignReplay == Spec => []ReplayMatchesPayload
<1>1. LedgerInv => ReplayMatchesPayload
  BY DEF LedgerInv, RowFits, ReplayMatchesPayload, Replays
<1> QED
  BY <1>1, LedgerSafety, PTL

\* A key executes again only after the retention of its last execution, unless
\* an execution that outlasted the retention was overtaken before.
THEOREM NoEarlyReexecution == Spec => SpacedExecutions
<1>1. ASSUME LedgerInv, [Next]_vars, ran' # ran, ran # <<>>, ~overtaken
      PROVE  clock + Skew >= Last.now + Retention
  <2>1. /\ clock \in Nat /\ ran \in Seq(Runs) /\ row \in Row /\ RowGuards
        /\ \A r \in Requests : rq[r] \in Request /\ RequestFits(rq[r])
    BY <1>1, Parts DEF RowPart, RequestPart
  <2>2. Last.now \in Nat
    BY <1>1, <2>1, LastIsRun DEF Runs
  <2>3. PICK r \in Requests :
          \/ row.state = "absent"
          \/ /\ sweep(row, rq[r].now) # row
             /\ sweep(row, rq[r].now).state = "absent"
    BY <1>1 DEF Next, RequestStep, vars, Tick, SweepByOthers, Submit, ClaimSweep,
       ClaimInsert, Interpret, ExecuteReturns, Complete, CompleteFails, FailClosed,
       Crash
  <2>4. CASE row.state = "absent"
    BY <2>1, <2>4 DEF RowGuards
  <2>5. CASE sweep(row, rq[r].now) # row /\ sweep(row, rq[r].now).state = "absent"
    <3>1. rq[r].now \in Nat /\ rq[r].now <= clock + Skew
      BY <2>1 DEF Request, RequestFits
    <3>2. indeterminate_record(row, rq[r].now).state = "indeterminate"
      BY <2>1 DEF indeterminate_record, Row
    <3>3. row.state \in Terminal /\ row.expires <= rq[r].now
      BY <2>1, <2>5, <3>1, <3>2, SweepCases
    <3> QED
      BY <2>1, <2>2, <3>1, <3>3, LedgerAssumption DEF RowGuards, Row
  <2> QED
    BY <2>3, <2>4, <2>5
<1>2. LedgerInv /\ [Next]_vars =>
        [(ran' # ran /\ ran # <<>> /\ ~overtaken)
           => clock + Skew >= Last.now + Retention]_vars
  BY <1>1
<1> QED
  BY <1>2, LedgerSafety, PTL DEF Spec, SpacedExecutions
=============================================================================
