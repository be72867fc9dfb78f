----------------------- MODULE ResultsIntegrationProofs -----------------------
(***************************************************************************)
(* Proofs about ResultsIntegration for any number of processes, executions, *)
(* other turns, crashes and failing inserts.  ResultsInv is inductive.  Its *)
(* core is that a record's version never changes once the row exists, and   *)
(* that a snapshot is only written at the version its record names.         *)
(***************************************************************************)
EXTENDS ResultsIntegration, SequenceTheorems, TLAPS

USE DEF At, Goto, Return

-----------------------------------------------------------------------------
(* The inductive invariant.  r stands for record, s for snapshots. *)

\* Version v is what e's evidence makes of the version before it.
Holds(s, v, e) == v \in 2..Len(s) /\ s[v] = Append(s[v - 1], e)

\* A record names an existing version or the one after the latest.
RecordsBounded(r, s) ==
  \A e \in Executions : r[e].state # "none" =>
    r[e].version \in 1..(Len(s) + 1) /\ (r[e].state # "set_aside" => r[e].version >= 2)

\* Every version was added by the execution whose record names it.
Lineage(r, s) ==
  \A v \in 2..Len(s) : \E e \in Executions :
    Holds(s, v, e) /\ r[e].state # "none" /\ r[e].version = v

\* The evidence of a version is of executions recorded at that version or before.
EvidenceRecorded(r, s) ==
  \A v \in 1..Len(s) : \A i \in 1..Len(s[v]) :
    r[s[v][i]].state # "none" /\ r[s[v][i]].version <= v

\* WrittenMeansHeld.
WrittenHeld(r, s) ==
  \A e \in Executions :
    r[e].state \in {"snapshot_written", "bound"} => Holds(s, r[e].version, e)

StoreFits(r, s) ==
  /\ Len(s) >= 1
  /\ RecordsBounded(r, s)
  /\ Lineage(r, s)
  /\ EvidenceRecorded(r, s)
  /\ WrittenHeld(r, s)

\* The places in the code where a worker has a record in hand.
Holding == {"add", "settle", "promote", "reload", "bind", "recheck", "mark",
            "resume", "recover"}

\* What a worker has in hand is worth: the latest version it read exists, the
\* record it read has its row's version still, and it promotes only what the
\* snapshots hold.
HandFits(q, r, s) ==
  /\ q.pc # "idle" => q.base \in 1..Len(s)
  /\ q.pc \in Holding =>
       /\ r[q.execution].state # "none"
       /\ q.rec.version = r[q.execution].version
       /\ q.rec.state = "pending" => q.rec.version >= 2
  /\ q.pc \in {"add", "recover", "promote"} => q.rec.version >= 2
  /\ q.pc = "promote" => Holds(s, q.rec.version, q.execution)
  /\ q.pc = "settle" => q.goal \in {"integration_conflict", "snapshot_failed"}

ResultsInv ==
  /\ TypeOK
  /\ StoreFits(record, snapshots)
  /\ \A w \in Workers : HandFits(wk[w], record, snapshots)

-----------------------------------------------------------------------------
(* How a store may change *)

Rows == [Executions -> Record]
Versions == Seq(Seq(Executions))

\* A row is created, or replaced under the version it has.
LEMMA RowWritten ==
  ASSUME NEW r \in Rows, NEW s \in Versions, StoreFits(r, s),
         NEW e \in Executions, NEW x \in Record, x.state # "none",
         \/ /\ r[e].state = "none"
            /\ x.version \in 1..(Len(s) + 1)
            /\ x.state # "set_aside" => x.version >= 2
         \/ /\ r[e].state \notin {"none", "set_aside"}
            /\ x.version = r[e].version,
         x.state \in {"snapshot_written", "bound"} => Holds(s, x.version, e)
  PROVE  /\ StoreFits([r EXCEPT ![e] = x], s)
         /\ \A q \in Worker : HandFits(q, r, s) => HandFits(q, [r EXCEPT ![e] = x], s)
         /\ [r EXCEPT ![e] = x] \in Rows
<1> DEFINE n == [r EXCEPT ![e] = x]
<1>1. /\ n \in Rows /\ n[e] = x
      /\ \A f \in Executions : f # e => n[f] = r[f]
  BY DEF Rows
<1>2. \A f \in Executions : r[f].state # "none" =>
        n[f].state # "none" /\ n[f].version = r[f].version
  BY <1>1
<1> HIDE DEF n
<1>3. RecordsBounded(n, s)
  BY <1>1 DEF StoreFits, RecordsBounded
<1>4. Lineage(n, s)
  BY <1>2 DEF StoreFits, Lineage
<1>5. EvidenceRecorded(n, s)
  <2> SUFFICES ASSUME NEW v \in 1..Len(s), NEW i \in 1..Len(s[v])
               PROVE  n[s[v][i]].state # "none" /\ n[s[v][i]].version <= v
    BY DEF EvidenceRecorded
  <2>1. s[v][i] \in Executions
    <3>1. s[v] \in Seq(Executions)
      BY ElementOfSeq DEF Versions
    <3> QED
      BY <3>1, ElementOfSeq
  <2>2. r[s[v][i]].state # "none" /\ r[s[v][i]].version <= v
    BY DEF StoreFits, EvidenceRecorded
  <2> QED
    BY <1>2, <2>1, <2>2
<1>6. WrittenHeld(n, s)
  BY <1>1 DEF StoreFits, WrittenHeld
<1>7. \A q \in Worker : HandFits(q, r, s) => HandFits(q, n, s)
  <2> SUFFICES ASSUME NEW q \in Worker, HandFits(q, r, s) PROVE HandFits(q, n, s)
    OBVIOUS
  <2>1. q.execution \in Executions
    BY DEF Worker
  <2> QED
    BY <1>2, <2>1 DEF HandFits
<1> QED
  BY <1>1, <1>3, <1>4, <1>5, <1>6, <1>7 DEF StoreFits, n

\* The next version is stored by an execution whose record names it.
LEMMA VersionAdded ==
  ASSUME NEW r \in Rows, NEW s \in Versions, StoreFits(r, s),
         NEW e \in Executions, r[e].state # "none", r[e].version = Len(s) + 1,
         NEW t, t = Append(s, Append(s[Len(s)], e))
  PROVE  /\ t \in Versions /\ StoreFits(r, t) /\ Holds(t, Len(s) + 1, e)
         /\ \A q \in Worker : HandFits(q, r, s) => HandFits(q, r, t)
<1>1. Len(s) \in Nat \ {0} /\ s[Len(s)] \in Seq(Executions)
  <2>1. Len(s) \in Nat /\ Len(s) >= 1
    BY LenProperties DEF StoreFits, Versions
  <2> QED
    BY <2>1, ElementOfSeq DEF Versions
<1> DEFINE l == s[Len(s)]
           n == Append(l, e)
<1>2. /\ n \in Seq(Executions) /\ Len(n) = Len(l) + 1 /\ Len(l) \in Nat
      /\ \A i \in 1..Len(l) : n[i] = l[i]
      /\ n[Len(n)] = e
  <2> HIDE DEF l
  <2>1. l \in Seq(Executions)
    BY <1>1 DEF l
  <2> QED
    BY <2>1, AppendProperties, LenProperties
<1>3. /\ t \in Versions /\ Len(t) = Len(s) + 1
      /\ \A v \in 1..Len(s) : t[v] = s[v]
      /\ t[Len(s) + 1] = n
  <2> HIDE DEF n
  <2>1. n \in Seq(Executions) /\ t = Append(s, n)
    BY <1>2 DEF n
  <2> QED
    BY <2>1, AppendProperties DEF Versions
<1> HIDE DEF n, l
<1>4. \A v \in 2..Len(s), f \in Executions : Holds(s, v, f) => Holds(t, v, f)
  BY <1>1, <1>3 DEF Holds
<1>5. Holds(t, Len(s) + 1, e)
  BY <1>1, <1>3 DEF Holds, n, l
<1>6. RecordsBounded(r, t)
  BY <1>1, <1>3 DEF StoreFits, RecordsBounded
<1>7. Lineage(r, t)
  <2> SUFFICES ASSUME NEW v \in 2..Len(t)
               PROVE  \E f \in Executions :
                        Holds(t, v, f) /\ r[f].state # "none" /\ r[f].version = v
    BY DEF Lineage
  <2>1. CASE v = Len(s) + 1
    BY <1>5, <2>1
  <2>2. CASE v \in 2..Len(s)
    BY <1>4, <2>2 DEF StoreFits, Lineage
  <2> QED
    BY <1>1, <1>3, <2>1, <2>2
<1>8. EvidenceRecorded(r, t)
  <2> SUFFICES ASSUME NEW v \in 1..Len(t), NEW i \in 1..Len(t[v])
               PROVE  r[t[v][i]].state # "none" /\ r[t[v][i]].version <= v
    BY DEF EvidenceRecorded
  <2>1. CASE v \in 1..Len(s)
    BY <1>3, <2>1 DEF StoreFits, EvidenceRecorded
  <2>2. CASE v = Len(s) + 1 /\ i \in 1..Len(l)
    <3>1. t[v][i] = s[Len(s)][i]
      BY <1>2, <1>3, <2>2 DEF l
    <3>2. Len(s) \in 1..Len(s) /\ i \in 1..Len(s[Len(s)])
      BY <1>1, <2>2 DEF l
    <3>3. r[t[v][i]].state # "none" /\ r[t[v][i]].version <= Len(s)
      BY <3>1, <3>2 DEF StoreFits, EvidenceRecorded
    <3>4. t[v][i] \in Executions
      BY <1>1, <3>1, <3>2, ElementOfSeq
    <3>5. r[t[v][i]].version \in Nat
      BY <3>4 DEF Rows, Record
    <3> QED
      BY <1>1, <2>2, <3>3, <3>5
  <2>3. CASE v = Len(s) + 1 /\ i = Len(l) + 1
    BY <1>1, <1>2, <1>3, <2>3
  <2>4. v \in 1..Len(s) \/ v = Len(s) + 1
    BY <1>1, <1>3
  <2>5. v = Len(s) + 1 => i \in 1..Len(l) \/ i = Len(l) + 1
    BY <1>2, <1>3
  <2> QED
    BY <2>1, <2>2, <2>3, <2>4, <2>5
<1>9. WrittenHeld(r, t)
  <2> SUFFICES ASSUME NEW f \in Executions, r[f].state \in {"snapshot_written", "bound"}
               PROVE  Holds(t, r[f].version, f)
    BY DEF WrittenHeld
  <2>1. Holds(s, r[f].version, f)
    BY DEF StoreFits, WrittenHeld
  <2>2. r[f].version \in 2..Len(s)
    BY <2>1 DEF Holds
  <2> QED
    BY <1>4, <2>1, <2>2
<1>10. \A q \in Worker : HandFits(q, r, s) => HandFits(q, r, t)
  <2> SUFFICES ASSUME NEW q \in Worker, HandFits(q, r, s) PROVE HandFits(q, r, t)
    OBVIOUS
  <2>1. q.pc # "idle" => q.base \in 1..Len(t)
    BY <1>1, <1>3 DEF HandFits, Worker
  <2>2. q.pc = "promote" => Holds(t, q.rec.version, q.execution)
    <3> SUFFICES ASSUME q.pc = "promote" PROVE Holds(t, q.rec.version, q.execution)
      OBVIOUS
    <3>1. Holds(s, q.rec.version, q.execution) /\ q.execution \in Executions
      BY DEF HandFits, Worker
    <3>2. q.rec.version \in 2..Len(s)
      BY <3>1 DEF Holds
    <3> QED
      BY <1>4, <3>1, <3>2
  <2> QED
    BY <2>1, <2>2 DEF HandFits
<1> QED
  BY <1>1, <1>3, <1>5, <1>6, <1>7, <1>8, <1>9, <1>10 DEF StoreFits

-----------------------------------------------------------------------------
(* Steps *)

Unmoved(w) == \A p \in Workers \ {w} : wk'[p] = wk[p]
SameHand(w) ==
  /\ wk'[w].execution = wk[w].execution /\ wk'[w].base = wk[w].base
  /\ wk'[w].rec = wk[w].rec /\ wk'[w].goal = wk[w].goal

\* One worker moves, and what the others have in hand stays worth what it was.
LEMMA WorkerMoves ==
  ASSUME ResultsInv, NEW w \in Workers, Unmoved(w),
         wk' \in [Workers -> Worker], TypeOK',
         StoreFits(record', snapshots'), HandFits(wk'[w], record', snapshots'),
         \A q \in Worker :
           HandFits(q, record, snapshots) => HandFits(q, record', snapshots')
  PROVE  ResultsInv'
<1>1. \A p \in Workers : HandFits(wk'[p], record', snapshots')
  <2> SUFFICES ASSUME NEW p \in Workers, p # w
               PROVE  HandFits(wk'[p], record', snapshots')
    OBVIOUS
  <2>1. wk'[p] = wk[p] /\ wk[p] \in Worker
    BY DEF Unmoved, ResultsInv, TypeOK
  <2> QED
    BY <2>1 DEF ResultsInv
<1> QED
  BY <1>1 DEF ResultsInv

\* The ways an action changes the worker's own fields.
LEMMA GotoMoves ==
  ASSUME ResultsInv, NEW w \in Workers, NEW pc \in Steps, Goto(w, pc)
  PROVE  /\ wk' \in [Workers -> Worker] /\ Unmoved(w)
         /\ wk'[w].pc = pc /\ SameHand(w)
  BY DEF ResultsInv, TypeOK, Worker, Unmoved, SameHand

LEMMA ReturnMoves ==
  ASSUME ResultsInv, NEW w \in Workers, Return(w)
  PROVE  /\ wk' \in [Workers -> Worker] /\ Unmoved(w) /\ wk'[w].pc = "idle"
<1>1. wk[w] \in Worker /\ no_record \in Record
  BY DEF ResultsInv, TypeOK, no_record, Record, States
<1>2. Idle(w) \in Worker /\ Idle(w).pc = "idle"
  BY <1>1, Zenon DEF Idle, Worker, Steps, States
<1> QED
  BY <1>2 DEF ResultsInv, TypeOK, Unmoved

LEMMA TakeRecord ==
  ASSUME ResultsInv, NEW w \in Workers, NEW pc \in Steps, NEW x \in Record,
         wk' = [wk EXCEPT ![w].pc = pc, ![w].rec = x]
  PROVE  /\ wk' \in [Workers -> Worker] /\ Unmoved(w)
         /\ wk'[w].pc = pc /\ wk'[w].rec = x
         /\ wk'[w].execution = wk[w].execution /\ wk'[w].base = wk[w].base
  BY DEF ResultsInv, TypeOK, Worker, Unmoved

LEMMA GoalMoves ==
  ASSUME ResultsInv, NEW w \in Workers, NEW g \in States,
         wk' = [wk EXCEPT ![w].pc = "settle", ![w].goal = g]
  PROVE  /\ wk' \in [Workers -> Worker] /\ Unmoved(w)
         /\ wk'[w].pc = "settle" /\ wk'[w].goal = g /\ wk'[w].rec = wk[w].rec
         /\ wk'[w].execution = wk[w].execution /\ wk'[w].base = wk[w].base
  BY DEF ResultsInv, TypeOK, Worker, Unmoved, Steps

LEMMA SeenMoves ==
  ASSUME ResultsInv, NEW w \in Workers, NEW v \in Nat,
         wk' = [wk EXCEPT ![w].pc = "record", ![w].seen = v]
  PROVE  /\ wk' \in [Workers -> Worker] /\ Unmoved(w)
         /\ wk'[w].pc = "record" /\ wk'[w].base = wk[w].base
<1>1. wk \in [Workers -> Worker] /\ wk[w] \in Worker
  BY DEF ResultsInv, TypeOK
<1>2. Unmoved(w) /\ wk'[w].pc = "record" /\ wk'[w].base = wk[w].base
  BY <1>1 DEF Unmoved, Worker
<1>3. wk' \in [Workers -> Worker]
  BY <1>1, Zenon DEF Worker, Steps
<1> QED
  BY <1>2, <1>3

LEMMA BindMoves ==
  ASSUME ResultsInv, NEW w \in Workers, NEW v \in Nat, NEW b \in BOOLEAN,
         wk' = [wk EXCEPT ![w].pc = "bind", ![w].pv = v, ![w].fresh = b]
  PROVE  /\ wk' \in [Workers -> Worker] /\ Unmoved(w)
         /\ wk'[w].pc = "bind" /\ SameHand(w)
<1>1. wk \in [Workers -> Worker] /\ wk[w] \in Worker
  BY DEF ResultsInv, TypeOK
<1>2. Unmoved(w) /\ wk'[w].pc = "bind" /\ SameHand(w)
  BY <1>1 DEF Unmoved, Worker, SameHand
<1>3. wk' \in [Workers -> Worker]
  BY <1>1, Zenon DEF Worker, Steps
<1> QED
  BY <1>2, <1>3

\* A worker moves and at most the conversation is written.
LEMMA MoveKeeps ==
  ASSUME ResultsInv, NEW w \in Workers, Unmoved(w), wk' \in [Workers -> Worker],
         HandFits(wk'[w], record, snapshots),
         UNCHANGED <<outside, snapshots, record>>, conv' \in [bound : Nat, pv : Nat],
         turns' = turns, faults' \in 0..MaxFaults
  PROVE  ResultsInv'
<1>1. TypeOK'
  BY DEF ResultsInv, TypeOK
<1> QED
  BY <1>1, WorkerMoves DEF ResultsInv

\* integrate returns, or its process dies.
LEMMA ReturnKeeps ==
  ASSUME ResultsInv, NEW w \in Workers, Return(w),
         UNCHANGED <<outside, snapshots, record>>, conv' \in [bound : Nat, pv : Nat],
         turns' = turns, faults' \in 0..MaxFaults
  PROVE  ResultsInv'
<1>1. /\ wk' \in [Workers -> Worker] /\ Unmoved(w) /\ wk'[w].pc = "idle"
  BY ReturnMoves
<1>2. HandFits(wk'[w], record, snapshots)
  BY <1>1 DEF HandFits, Holding
<1> QED
  BY <1>1, <1>2, MoveKeeps DEF ResultsInv, TypeOK

\* What is known of a worker's memory and of its row.
LEMMA InHand ==
  ASSUME ResultsInv, NEW w \in Workers
  PROVE  /\ wk[w] \in Worker /\ wk[w].execution \in Executions
         /\ wk[w].rec \in Record /\ wk[w].base \in Nat
         /\ record \in Rows /\ record[wk[w].execution] \in Record
         /\ snapshots \in Versions /\ Len(snapshots) \in Nat /\ Len(snapshots) >= 1
         /\ StoreFits(record, snapshots) /\ HandFits(wk[w], record, snapshots)
         /\ conv \in [bound : Nat, pv : Nat]
         /\ turns \in 0..MaxTurns /\ faults \in 0..MaxFaults
<1>1. snapshots \in Versions /\ Len(snapshots) \in Nat
  BY LenProperties DEF ResultsInv, TypeOK, Versions
<1> QED
  BY <1>1 DEF ResultsInv, TypeOK, Worker, Rows, StoreFits

\* A row that exists is taken in hand by _resume.
LEMMA ResumeKeeps ==
  ASSUME ResultsInv, NEW w \in Workers, wk[w].pc # "idle",
         record[wk[w].execution].state # "none",
         wk' = [wk EXCEPT ![w].pc = "resume", ![w].rec = record[wk[w].execution]],
         UNCHANGED stores, Outsiders
  PROVE  ResultsInv'
<1> DEFINE e == wk[w].execution
<1>1. /\ wk' \in [Workers -> Worker] /\ Unmoved(w)
      /\ wk'[w].pc = "resume" /\ wk'[w].rec = record[e]
      /\ wk'[w].execution = e /\ wk'[w].base = wk[w].base
  BY InHand, TakeRecord DEF Steps
<1>2. record[e].state = "pending" => record[e].version >= 2
  BY InHand DEF StoreFits, RecordsBounded
<1>3. HandFits(wk'[w], record, snapshots)
  BY <1>1, <1>2, InHand DEF HandFits, Holding
<1> QED
  BY <1>1, <1>3, MoveKeeps, InHand DEF stores, Outsiders

\* A call begins with the latest version in hand.
LEMMA StartMoves ==
  ASSUME ResultsInv, NEW w \in Workers, NEW e \in Executions, Start(w, e)
  PROVE  /\ wk' \in [Workers -> Worker] /\ Unmoved(w)
         /\ wk'[w].pc = "conversation" /\ wk'[w].base = Latest
<1> DEFINE q == [Idle(w) EXCEPT !.pc = "conversation", !.execution = e, !.base = Latest]
<1>1. Idle(w) \in Worker
  <2>1. wk[w] \in Worker /\ no_record \in Record
    BY DEF ResultsInv, TypeOK, no_record, Record, States
  <2> QED
    BY <2>1, Zenon DEF Idle, Worker, Steps, States
<1>2. q \in Worker /\ q.pc = "conversation" /\ q.base = Latest
  <2> DEFINE i == Idle(w)
  <2>1. i \in Worker /\ Latest \in Nat
    BY <1>1, InHand DEF Latest
  <2> HIDE DEF i
  <2>2. [i EXCEPT !.pc = "conversation", !.execution = e, !.base = Latest] \in Worker
    BY <2>1, Zenon DEF Worker, Steps
  <2>3. /\ [i EXCEPT !.pc = "conversation", !.execution = e, !.base = Latest].pc = "conversation"
        /\ [i EXCEPT !.pc = "conversation", !.execution = e, !.base = Latest].base = Latest
    BY <2>1, Zenon DEF Worker
  <2> QED
    BY <2>2, <2>3 DEF i
<1>3. wk' = [wk EXCEPT ![w] = q]
  BY DEF Start
<1> HIDE DEF q
<1> QED
  BY <1>2, <1>3 DEF ResultsInv, TypeOK, Unmoved

LEMMA StartKeeps ==
  ASSUME ResultsInv, NEW w \in Workers, NEW e \in Executions, Start(w, e)
  PROVE  ResultsInv'
<1>1. HandFits(wk'[w], record, snapshots)
  BY StartMoves, InHand DEF HandFits, Holding, Latest
<1> QED
  BY <1>1, StartMoves, MoveKeeps, InHand DEF Start, stores, Outsiders

LEMMA ReadsKeep ==
  ASSUME ResultsInv, NEW w \in Workers, ReadConversation(w) \/ ReadRecord(w) \/ ReadAgain(w)
  PROVE  ResultsInv'
<1>1. CASE ReadConversation(w)
  <2>1. /\ wk' \in [Workers -> Worker] /\ Unmoved(w)
        /\ wk'[w].pc = "record" /\ wk'[w].base = wk[w].base
    <3>1. conv.bound \in Nat
      BY InHand
    <3> QED
      BY <1>1, <3>1, SeenMoves DEF ReadConversation
  <2>2. HandFits(wk'[w], record, snapshots)
    BY <1>1, <2>1, InHand DEF ReadConversation, HandFits, Holding
  <2> QED
    BY <1>1, <2>1, <2>2, MoveKeeps, InHand DEF ReadConversation, stores, Outsiders
<1>2. ASSUME NEW pc \in {"remember", "again", "insert"}, Goto(w, pc), wk[w].pc # "idle",
             UNCHANGED stores, Outsiders
      PROVE  ResultsInv'
  <2>1. /\ wk' \in [Workers -> Worker] /\ Unmoved(w)
        /\ wk'[w].pc = pc /\ wk'[w].base = wk[w].base
    BY <1>2, GotoMoves DEF Steps, SameHand
  <2>2. HandFits(wk'[w], record, snapshots)
    BY <1>2, <2>1, InHand DEF HandFits, Holding
  <2> QED
    BY <1>2, <2>1, <2>2, MoveKeeps, InHand DEF stores, Outsiders
<1>3. CASE ReadRecord(w)
  <2>1. wk[w].pc # "idle" /\ UNCHANGED stores /\ Outsiders
    BY <1>3 DEF ReadRecord
  <2>2. CASE Return(w)
    BY <2>1, <2>2, ReturnKeeps, InHand DEF stores, Outsiders
  <2>3. CASE wk' = [wk EXCEPT ![w].pc = "resume", ![w].rec = record[wk[w].execution]]
             /\ existing(w)
    BY <2>1, <2>3, ResumeKeeps DEF existing
  <2> QED
    BY <1>2, <1>3, <2>1, <2>2, <2>3 DEF ReadRecord
<1>4. CASE ReadAgain(w)
  BY <1>2, <1>4, ResumeKeeps DEF ReadAgain, existing
<1> QED
  BY <1>1, <1>3, <1>4

\* The row of a worker's execution is written and the worker moves on.
LEMMA RecordKeeps ==
  ASSUME ResultsInv, NEW w \in Workers, Unmoved(w), wk' \in [Workers -> Worker],
         NEW x \in Record, x.state # "none",
         record' = [record EXCEPT ![wk[w].execution] = x],
         \/ /\ record[wk[w].execution].state = "none"
            /\ x.version \in 1..(Len(snapshots) + 1)
            /\ x.state # "set_aside" => x.version >= 2
         \/ /\ record[wk[w].execution].state \notin {"none", "set_aside"}
            /\ x.version = record[wk[w].execution].version,
         x.state \in {"snapshot_written", "bound"} =>
           Holds(snapshots, x.version, wk[w].execution),
         HandFits(wk'[w], record', snapshots),
         UNCHANGED <<outside, snapshots, conv>>, Outsiders
  PROVE  ResultsInv'
<1>1. /\ StoreFits(record', snapshots) /\ record' \in Rows
      /\ \A q \in Worker : HandFits(q, record, snapshots) => HandFits(q, record', snapshots)
  BY RowWritten, InHand
<1>2. TypeOK'
  BY <1>1 DEF ResultsInv, TypeOK, Rows, Outsiders
<1> QED
  BY <1>1, <1>2, WorkerMoves

\* transition replaces a row that has the version in hand, and moves it on.
LEMMA MovedRow ==
  ASSUME ResultsInv, NEW w \in Workers, wk[w].pc \in Holding, NEW g \in States,
         Moves(wk[w].execution, wk[w].rec, g)
  PROVE  /\ moved(wk[w].rec, g) \in Record /\ moved(wk[w].rec, g).state = g
         /\ moved(wk[w].rec, g).version = record[wk[w].execution].version
         /\ moved(wk[w].rec, g).version = wk[w].rec.version
         /\ record[wk[w].execution].state \in {"pending", "snapshot_written"}
         /\ g = "bound" => record[wk[w].execution].state = "snapshot_written"
         /\ g \in {"snapshot_written", "snapshot_failed", "integration_conflict", "bound"}
<1> DEFINE rec == wk[w].rec
           e == wk[w].execution
<1>1. rec \in Record /\ rec.revision + 1 \in Nat /\ record[e] \in Record
  BY InHand DEF Record
<1>2. rec.version = record[e].version
  BY InHand DEF HandFits
<1>3. g \in forward[record[e].state] /\ record[e].state \in States
  BY <1>1 DEF Moves, Record
<1>4. moved(rec, g) \in Record /\ moved(rec, g).state = g
      /\ moved(rec, g).version = rec.version
  <2> HIDE DEF rec
  <2> QED
    BY <1>1, Zenon DEF moved, Record
<1>5. /\ record[e].state \in {"pending", "snapshot_written"}
      /\ g = "bound" => record[e].state = "snapshot_written"
      /\ g \in {"snapshot_written", "snapshot_failed", "integration_conflict", "bound"}
  BY <1>3 DEF forward, States
<1> QED
  BY <1>2, <1>4, <1>5

LEMMA RememberKeeps ==
  ASSUME ResultsInv, NEW w \in Workers, Remember(w)
  PROVE  ResultsInv'
<1> DEFINE e == wk[w].execution
           x == [state |-> "set_aside", version |-> wk[w].base, revision |-> 1]
<1>1. CASE existing(w)
  BY <1>1, ReturnKeeps, InHand DEF Remember, Outsiders
<1>2. CASE ~existing(w)
  <2>1. record' = [record EXCEPT ![e] = x] /\ Return(w) /\ record[e].state = "none"
    BY <1>2 DEF Remember, existing
  <2>2. x \in Record /\ x.state = "set_aside" /\ x.version = wk[w].base
    BY InHand DEF Record, States
  <2>3. x.version \in 1..(Len(snapshots) + 1)
    BY <2>2, InHand DEF Remember, HandFits
  <2>4. wk' \in [Workers -> Worker] /\ Unmoved(w) /\ wk'[w].pc = "idle"
    BY <2>1, ReturnMoves
  <2>5. HandFits(wk'[w], record', snapshots)
    BY <2>4 DEF HandFits, Holding
  <2> HIDE DEF x
  <2> QED
    BY <2>1, <2>2, <2>3, <2>4, <2>5, RecordKeeps DEF Remember
<1> QED
  BY <1>1, <1>2

LEMMA InsertKeeps ==
  ASSUME ResultsInv, NEW w \in Workers, Insert(w)
  PROVE  ResultsInv'
<1> DEFINE e == wk[w].execution
           x == [state |-> "pending", version |-> wk[w].base + 1, revision |-> 1]
<1>1. CASE existing(w)
  <2>1. UNCHANGED stores /\ Outsiders /\ wk[w].pc # "idle" /\ record[e].state # "none"
        /\ wk' = [wk EXCEPT ![w].pc = "resume", ![w].rec = record[e]]
    BY <1>1 DEF Insert, existing, stores
  <2> QED
    BY <2>1, ResumeKeeps
<1>2. CASE ~existing(w)
  <2>1. /\ record' = [record EXCEPT ![e] = x] /\ record[e].state = "none"
        /\ wk' = [wk EXCEPT ![w].pc = "add", ![w].rec = x] /\ wk[w].pc # "idle"
    BY <1>2 DEF Insert, existing
  <2>2. /\ x \in Record /\ x.state = "pending" /\ x.version = wk[w].base + 1
    BY InHand DEF Record, States
  <2>3. x.version \in 2..(Len(snapshots) + 1)
    BY <2>1, <2>2, InHand DEF HandFits
  <2> HIDE DEF x
  <2>4. /\ wk' \in [Workers -> Worker] /\ Unmoved(w)
        /\ wk'[w].pc = "add" /\ wk'[w].rec = x
        /\ wk'[w].execution = e /\ wk'[w].base = wk[w].base
    BY <2>1, <2>2, TakeRecord DEF Steps
  <2>5. record'[e] = x
    BY <2>1, InHand DEF Rows
  <2>6. HandFits(wk'[w], record', snapshots)
    BY <2>1, <2>2, <2>3, <2>4, <2>5, InHand DEF HandFits, Holding
  <2>7. /\ x.version \in 1..(Len(snapshots) + 1) /\ x.version >= 2
        /\ x.state \notin {"none", "snapshot_written", "bound"}
    BY <2>2, <2>3
  <2> QED
    BY <2>1, <2>2, <2>4, <2>6, <2>7, RecordKeeps DEF Insert
<1> QED
  BY <1>1, <1>2

\* A stored version that matches the update is the one the execution made.
LEMMA MatchHolds ==
  ASSUME ResultsInv, NEW w \in Workers, wk[w].pc \in {"add", "recover"},
         wk[w].rec.version # Latest + 1,
         matches_research_update(wk[w].rec.version - 1, wk[w].execution)
  PROVE  Holds(snapshots, wk[w].rec.version, wk[w].execution)
<1> DEFINE v == wk[w].rec.version
           e == wk[w].execution
<1>1. v \in Nat /\ v >= 2 /\ v <= Len(snapshots) + 1
  <2>1. wk[w].rec \in Record /\ e \in Executions /\ HandFits(wk[w], record, snapshots)
    BY InHand
  <2>2. RecordsBounded(record, snapshots)
    BY InHand DEF StoreFits
  <2>3. wk[w].pc \in Holding
    BY DEF Holding
  <2>4. v = record[e].version /\ record[e].state # "none" /\ v >= 2
    BY <2>1, <2>3 DEF HandFits
  <2>5. v \in Nat
    BY <2>1 DEF Record
  <2> QED
    BY <2>1, <2>2, <2>4, <2>5 DEF RecordsBounded
<1>2. v \in 2..Len(snapshots) /\ (v - 1) + 1 = v
  BY <1>1, InHand DEF Latest
<1> QED
  BY <1>2 DEF matches_research_update, next_snapshot, Holds

\* A worker that keeps its record in hand goes on to another place.
LEMMA OnwardKeeps ==
  ASSUME ResultsInv, NEW w \in Workers, wk[w].pc \in Holding,
         NEW pc \in Holding \ {"settle"}, Goto(w, pc),
         pc \in {"add", "recover", "promote"} => wk[w].rec.version >= 2,
         pc = "promote" => Holds(snapshots, wk[w].rec.version, wk[w].execution),
         UNCHANGED <<outside, snapshots, record>>, conv' \in [bound : Nat, pv : Nat], Outsiders
  PROVE  ResultsInv'
<1>1. wk' \in [Workers -> Worker] /\ Unmoved(w) /\ wk'[w].pc = pc /\ SameHand(w)
  BY GotoMoves DEF Steps, Holding
<1>2. HandFits(wk'[w], record, snapshots)
  BY <1>1, InHand DEF HandFits, Holding, SameHand
<1> QED
  BY <1>1, <1>2, MoveKeeps, InHand DEF Outsiders

\* A record is to be closed without a version.
LEMMA GoalKeeps ==
  ASSUME ResultsInv, NEW w \in Workers, wk[w].pc \in Holding,
         NEW g \in {"integration_conflict", "snapshot_failed"},
         wk' = [wk EXCEPT ![w].pc = "settle", ![w].goal = g],
         UNCHANGED stores, turns' = turns, faults' \in 0..MaxFaults
  PROVE  ResultsInv'
<1>1. /\ wk' \in [Workers -> Worker] /\ Unmoved(w)
      /\ wk'[w].pc = "settle" /\ wk'[w].goal = g /\ wk'[w].rec = wk[w].rec
      /\ wk'[w].execution = wk[w].execution /\ wk'[w].base = wk[w].base
  BY GoalMoves DEF States
<1>2. HandFits(wk'[w], record, snapshots)
  BY <1>1, InHand DEF HandFits, Holding
<1> QED
  BY <1>1, <1>2, MoveKeeps, InHand DEF stores

LEMMA AddKeeps ==
  ASSUME ResultsInv, NEW w \in Workers, Add(w)
  PROVE  ResultsInv'
<1> DEFINE e == wk[w].execution
           v == wk[w].rec.version
<1>1. /\ wk[w].pc = "add" /\ wk[w].pc \in Holding /\ v >= 2
      /\ record[e].state # "none" /\ v = record[e].version
  BY InHand DEF Add, HandFits, Holding
<1>2. CASE v = Latest + 1
  <2>1. /\ snapshots' = Append(snapshots, next_snapshot(v - 1, e)) /\ Goto(w, "promote")
        /\ UNCHANGED <<outside, record, conv>> /\ Outsiders
    BY <1>2 DEF Add
  <2>2. v - 1 = Len(snapshots) /\ v = Len(snapshots) + 1
    BY <1>2, InHand DEF Latest
  <2>3. snapshots' = Append(snapshots, Append(snapshots[Len(snapshots)], e))
    BY <2>1, <2>2 DEF next_snapshot
  <2>4. /\ snapshots' \in Versions /\ StoreFits(record, snapshots') /\ Holds(snapshots', v, e)
        /\ \A q \in Worker : HandFits(q, record, snapshots) => HandFits(q, record, snapshots')
    <3>1. /\ record \in Rows /\ snapshots \in Versions /\ StoreFits(record, snapshots)
          /\ e \in Executions /\ record[e].state # "none"
          /\ record[e].version = Len(snapshots) + 1
      BY <1>1, <2>2, InHand
    <3> HIDE DEF e, v
    <3>2. /\ snapshots' \in Versions /\ StoreFits(record, snapshots')
          /\ Holds(snapshots', Len(snapshots) + 1, e)
          /\ \A q \in Worker : HandFits(q, record, snapshots) => HandFits(q, record, snapshots')
      BY <2>3, <3>1, VersionAdded, ZenonT(60)
    <3>3. v = Len(snapshots) + 1
      BY <2>2
    <3> QED
      BY <3>2, <3>3, Zenon
  <2>5. wk' \in [Workers -> Worker] /\ Unmoved(w) /\ wk'[w].pc = "promote" /\ SameHand(w)
    BY <2>1, GotoMoves DEF Steps
  <2>6. HandFits(wk[w], record, snapshots')
    BY <2>4, InHand
  <2>7. HandFits(wk'[w], record, snapshots')
    BY <1>1, <2>4, <2>5, <2>6 DEF HandFits, Holding, SameHand
  <2>8. TypeOK'
    BY <2>1, <2>4, <2>5 DEF ResultsInv, TypeOK, Versions, Outsiders
  <2> QED
    BY <2>1, <2>4, <2>5, <2>7, <2>8, WorkerMoves
<1>3. CASE v # Latest + 1 /\ matches_research_update(v - 1, e)
  <2>1. wk' = [wk EXCEPT ![w].pc = "promote"] /\ UNCHANGED stores /\ Outsiders
    BY <1>3 DEF Add, stores
  <2>2. Holds(snapshots, v, e)
    BY <1>1, <1>3, MatchHolds
  <2> QED
    BY <1>1, <2>1, <2>2, OnwardKeeps, InHand DEF Holding, stores
<1>4. CASE v # Latest + 1 /\ ~ matches_research_update(v - 1, e)
  <2>1. wk' = [wk EXCEPT ![w].pc = "settle", ![w].goal = "integration_conflict"]
    BY <1>4 DEF Add
  <2>2. UNCHANGED stores /\ Outsiders
    BY <1>4 DEF Add, stores
  <2> QED
    BY <1>1, <2>1, <2>2, GoalKeeps, InHand DEF Outsiders
<1> QED
  BY <1>2, <1>3, <1>4

LEMMA AddRaisesKeeps ==
  ASSUME ResultsInv, NEW w \in Workers, AddRaises(w)
  PROVE  ResultsInv'
<1>1. wk[w].pc \in Holding /\ faults' \in 0..MaxFaults
  BY InHand, ResultsAssumption DEF AddRaises, Holding
<1> QED
  BY <1>1, GoalKeeps DEF AddRaises

LEMMA SettleKeeps ==
  ASSUME ResultsInv, NEW w \in Workers, Settle(w)
  PROVE  ResultsInv'
<1> DEFINE e == wk[w].execution
           x == moved(wk[w].rec, wk[w].goal)
<1>1. CASE Moves(e, wk[w].rec, wk[w].goal)
  <2>1. /\ wk[w].pc \in Holding
        /\ wk[w].goal \in {"integration_conflict", "snapshot_failed"}
    BY InHand DEF Settle, Holding, HandFits
  <2>2. /\ x \in Record /\ x.state = wk[w].goal /\ x.version = record[e].version
        /\ record[e].state \in {"pending", "snapshot_written"}
    BY <1>1, <2>1, MovedRow DEF States
  <2>3. /\ record' = [record EXCEPT ![e] = x] /\ Return(w)
        /\ UNCHANGED <<outside, snapshots, conv>> /\ Outsiders
    BY <1>1 DEF Settle
  <2>4. wk' \in [Workers -> Worker] /\ Unmoved(w) /\ wk'[w].pc = "idle"
    BY <2>3, ReturnMoves
  <2>5. HandFits(wk'[w], record', snapshots)
    BY <2>4 DEF HandFits, Holding
  <2> HIDE DEF x
  <2> QED
    BY <2>1, <2>2, <2>3, <2>4, <2>5, RecordKeeps
<1>2. CASE ~ Moves(e, wk[w].rec, wk[w].goal)
  BY <1>2, ReturnKeeps, InHand DEF Settle, Outsiders
<1> QED
  BY <1>1, <1>2

LEMMA PromoteKeeps ==
  ASSUME ResultsInv, NEW w \in Workers, Promote(w)
  PROVE  ResultsInv'
<1> DEFINE e == wk[w].execution
           x == moved(wk[w].rec, "snapshot_written")
<1>0. /\ wk[w].pc = "promote" /\ wk[w].pc \in Holding
      /\ record[e].state # "none" /\ Holds(snapshots, wk[w].rec.version, e)
  BY InHand DEF Promote, Holding, HandFits
<1>1. CASE Moves(e, wk[w].rec, "snapshot_written")
  <2>1. /\ x \in Record /\ x.state = "snapshot_written" /\ x.version = record[e].version
        /\ x.version = wk[w].rec.version
        /\ record[e].state \in {"pending", "snapshot_written"}
    BY <1>0, <1>1, MovedRow DEF States
  <2>2. /\ record' = [record EXCEPT ![e] = x]
        /\ wk' = [wk EXCEPT ![w].pc = "reload", ![w].rec = x]
        /\ UNCHANGED <<outside, snapshots, conv>> /\ Outsiders
    BY <1>1 DEF Promote
  <2> HIDE DEF x
  <2>3. /\ wk' \in [Workers -> Worker] /\ Unmoved(w)
        /\ wk'[w].pc = "reload" /\ wk'[w].rec = x
        /\ wk'[w].execution = e /\ wk'[w].base = wk[w].base
    BY <2>1, <2>2, TakeRecord DEF Steps
  <2>4. record'[e] = x
    BY <2>2, InHand DEF Rows
  <2>5. HandFits(wk'[w], record', snapshots)
    BY <1>0, <2>1, <2>3, <2>4, InHand DEF HandFits, Holding
  <2> QED
    BY <1>0, <2>1, <2>2, <2>3, <2>5, RecordKeeps
<1>2. CASE ~ Moves(e, wk[w].rec, "snapshot_written")
  <2>1. UNCHANGED stores /\ Outsiders /\ wk[w].pc # "idle"
        /\ wk' = [wk EXCEPT ![w].pc = "resume", ![w].rec = record[e]]
    BY <1>2 DEF Promote, stores
  <2> QED
    BY <1>0, <2>1, ResumeKeeps
<1> QED
  BY <1>1, <1>2

\* Binding leaves records and snapshots alone until the record is marked.
LEMMA BindingKeeps ==
  ASSUME ResultsInv, NEW w \in Workers, Reload(w) \/ Bind(w) \/ Recheck(w) \/ Mark(w)
  PROVE  ResultsInv'
<1>1. CASE Reload(w)
  <2>1. conv.pv \in Nat
    BY InHand
  <2>2. wk' \in [Workers -> Worker] /\ Unmoved(w) /\ wk'[w].pc = "bind" /\ SameHand(w)
    BY <1>1, <2>1, BindMoves DEF Reload
  <2>3. HandFits(wk'[w], record, snapshots)
    BY <1>1, <2>2, InHand DEF Reload, HandFits, Holding, SameHand
  <2> QED
    BY <1>1, <2>2, <2>3, MoveKeeps, InHand DEF Reload, stores, Outsiders
<1>2. CASE Bind(w)
  <2>1. /\ conv' \in [bound : Nat, pv : Nat] /\ wk[w].pc \in Holding
        /\ UNCHANGED <<outside, snapshots, record>> /\ Outsiders
    BY <1>2, InHand DEF Bind, Holding, Record
  <2>2. CASE Return(w)
    BY <2>1, <2>2, ReturnKeeps, InHand DEF Outsiders
  <2>3. CASE Goto(w, "mark") \/ Goto(w, "recheck")
    BY <2>1, <2>3, OnwardKeeps DEF Holding
  <2> QED
    BY <1>2, <2>2, <2>3 DEF Bind
<1>3. CASE Recheck(w)
  <2>1. wk[w].pc \in Holding /\ UNCHANGED stores /\ Outsiders
    BY <1>3 DEF Recheck, Holding
  <2>2. CASE Return(w)
    BY <2>1, <2>2, ReturnKeeps, InHand DEF stores, Outsiders
  <2>3. CASE Goto(w, "mark")
    BY <2>1, <2>3, OnwardKeeps, InHand DEF Holding, stores
  <2> QED
    BY <1>3, <2>2, <2>3 DEF Recheck
<1>4. CASE Mark(w)
  <2> DEFINE e == wk[w].execution
             x == moved(wk[w].rec, "bound")
  <2>1. CASE Moves(e, wk[w].rec, "bound")
    <3>1. wk[w].pc \in Holding
      BY <1>4 DEF Mark, Holding
    <3>2. /\ x \in Record /\ x.state = "bound" /\ x.version = record[e].version
          /\ record[e].state = "snapshot_written"
      BY <2>1, <3>1, MovedRow DEF States
    <3>3. Holds(snapshots, x.version, e)
      BY <3>2, InHand DEF StoreFits, WrittenHeld
    <3>4. /\ record' = [record EXCEPT ![e] = x] /\ Return(w)
          /\ UNCHANGED <<outside, snapshots, conv>> /\ Outsiders
      BY <1>4, <2>1 DEF Mark
    <3>5. wk' \in [Workers -> Worker] /\ Unmoved(w) /\ wk'[w].pc = "idle"
      BY <3>4, ReturnMoves
    <3>6. HandFits(wk'[w], record', snapshots)
      BY <3>5 DEF HandFits, Holding
    <3> HIDE DEF x
    <3> QED
      BY <3>2, <3>3, <3>4, <3>5, <3>6, RecordKeeps
  <2>2. CASE ~ Moves(e, wk[w].rec, "bound")
    BY <1>4, <2>2, ReturnKeeps, InHand DEF Mark, Outsiders
  <2> QED
    BY <2>1, <2>2
<1> QED
  BY <1>1, <1>2, <1>3, <1>4

LEMMA RecoveryKeeps ==
  ASSUME ResultsInv, NEW w \in Workers, Resume(w) \/ Recover(w)
  PROVE  ResultsInv'
<1> DEFINE e == wk[w].execution
           rec == wk[w].rec
<1>0. UNCHANGED stores /\ Outsiders /\ wk[w].pc \in Holding
  BY DEF Resume, Recover, Holding
<1>1. CASE Resume(w)
  <2>1. CASE rec.state = "pending" /\ Goto(w, "recover")
    BY <1>0, <2>1, OnwardKeeps, InHand DEF Holding, HandFits, stores
  <2>2. CASE wk' = [wk EXCEPT ![w].pc = "bind", ![w].pv = conv.pv, ![w].fresh = FALSE]
    <3>1. conv.pv \in Nat
      BY InHand
    <3>2. wk' \in [Workers -> Worker] /\ Unmoved(w) /\ wk'[w].pc = "bind" /\ SameHand(w)
      BY <2>2, <3>1, BindMoves
    <3>3. HandFits(wk'[w], record, snapshots)
      BY <1>0, <3>2, InHand DEF HandFits, Holding, SameHand
    <3> QED
      BY <1>0, <3>2, <3>3, MoveKeeps, InHand DEF stores, Outsiders
  <2>3. CASE Return(w)
    BY <1>0, <2>3, ReturnKeeps, InHand DEF stores, Outsiders
  <2> QED
    BY <1>1, <2>1, <2>2, <2>3 DEF Resume
<1>2. CASE Recover(w)
  <2>1. rec.version >= 2 /\ wk[w].pc = "recover"
    BY <1>2, InHand DEF Recover, HandFits
  <2>2. CASE rec.version = Latest + 1
    <3>1. Goto(w, "add")
      BY <1>2, <2>2 DEF Recover
    <3> QED
      BY <1>0, <2>1, <3>1, OnwardKeeps, InHand DEF Holding, stores
  <2>3. CASE rec.version # Latest + 1 /\ matches_research_update(rec.version - 1, e)
    <3>1. Goto(w, "promote")
      BY <1>2, <2>3 DEF Recover
    <3>2. Holds(snapshots, rec.version, e)
      BY <2>1, <2>3, MatchHolds
    <3> QED
      BY <1>0, <2>1, <3>1, <3>2, OnwardKeeps, InHand DEF Holding, stores
  <2>4. CASE rec.version # Latest + 1 /\ ~ matches_research_update(rec.version - 1, e)
    <3>1. wk' = [wk EXCEPT ![w].pc = "settle", ![w].goal = "integration_conflict"]
      BY <1>2, <2>4 DEF Recover
    <3> QED
      BY <1>0, <3>1, GoalKeeps, InHand DEF Outsiders
  <2> QED
    BY <2>2, <2>3, <2>4
<1> QED
  BY <1>1, <1>2

\* Every step preserves ResultsInv.
LEMMA NextKeeps == ResultsInv /\ [Next]_vars => ResultsInv'
<1> SUFFICES ASSUME ResultsInv, [Next]_vars PROVE ResultsInv'
  OBVIOUS
<1>1. CASE OtherTurn
  <2>1. conv' \in [bound : Nat, pv : Nat] /\ turns' \in 0..MaxTurns
    BY <1>1, ResultsAssumption DEF OtherTurn, ResultsInv, TypeOK
  <2>2. TypeOK'
    BY <1>1, <2>1 DEF OtherTurn, ResultsInv, TypeOK
  <2> QED
    BY <1>1, <2>2 DEF OtherTurn, ResultsInv
<1>2. ASSUME NEW w \in Workers, Crash(w) PROVE ResultsInv'
  <2>1. faults' \in 0..MaxFaults
    BY <1>2, InHand, ResultsAssumption DEF Crash
  <2> QED
    BY <1>2, <2>1, ReturnKeeps, InHand DEF Crash, stores
<1>3. CASE UNCHANGED vars
  BY <1>3 DEF vars, stores, ResultsInv, TypeOK
<1> QED
  BY <1>1, <1>2, <1>3, StartKeeps, ReadsKeep, RememberKeeps, InsertKeeps, AddKeeps,
     AddRaisesKeeps, SettleKeeps, PromoteKeeps, BindingKeeps, RecoveryKeeps
  DEF Next, Step

-----------------------------------------------------------------------------
(* Theorems *)

\* ResultsInv holds throughout.
THEOREM ResultsSafety == Spec => []ResultsInv
<1>1. Init => ResultsInv
  <2> SUFFICES ASSUME Init PROVE ResultsInv
    OBVIOUS
  <2>1. snapshots \in Versions /\ Len(snapshots) = 1 /\ snapshots[1] = <<>>
    BY DEF Init, Versions
  <2>2. (CHOOSE e \in Executions : TRUE) \in Executions /\ no_record \in Record
    BY ResultsAssumption DEF no_record, Record, States
  <2>3. wk \in [Workers -> Worker] /\ \A w \in Workers : wk[w].pc = "idle"
    BY <2>2, Zenon DEF Init, Worker, Steps, States
  <2>4. TypeOK
    BY <2>1, <2>2, <2>3, ResultsAssumption DEF Init, TypeOK, Versions
  <2>5. \A e \in Executions : record[e].state = "none"
    BY DEF Init, no_record
  <2>6. StoreFits(record, snapshots)
    BY <2>1, <2>5
    DEF StoreFits, RecordsBounded, Lineage, EvidenceRecorded, WrittenHeld
  <2>7. \A w \in Workers : HandFits(wk[w], record, snapshots)
    BY <2>3 DEF HandFits, Holding
  <2> QED
    BY <2>4, <2>6, <2>7 DEF ResultsInv
<1> QED
  BY <1>1, NextKeeps, PTL DEF Spec

\* Every version adds one new execution to the one before it.
OneVersionPerExecution ==
  \A v \in 2..Latest :
    \E e \in Executions :
      /\ snapshots[v] = Append(snapshots[v - 1], e)
      /\ \A i \in DOMAIN snapshots[v - 1] : snapshots[v - 1][i] # e

\* However processes race, crash and retry in _integrate, no execution's
\* evidence enters two versions of the decision.
THEOREM EvidenceOnce == Spec => []OneVersionPerExecution
<1>1. ResultsInv => OneVersionPerExecution
  <2> SUFFICES ASSUME ResultsInv, NEW v \in 2..Latest
               PROVE  \E e \in Executions :
                        /\ snapshots[v] = Append(snapshots[v - 1], e)
                        /\ \A i \in DOMAIN snapshots[v - 1] : snapshots[v - 1][i] # e
    BY DEF OneVersionPerExecution
  <2>1. snapshots \in Versions /\ StoreFits(record, snapshots) /\ Len(snapshots) \in Nat
    BY LenProperties DEF ResultsInv, TypeOK, Versions
  <2>2. v - 1 \in 1..Len(snapshots)
    BY <2>1 DEF Latest
  <2>3. PICK e \in Executions : Holds(snapshots, v, e) /\ record[e].version = v
    BY <2>1 DEF StoreFits, Lineage, Latest
  <2>4. DOMAIN snapshots[v - 1] = 1..Len(snapshots[v - 1])
    BY <2>1, <2>2, ElementOfSeq, LenProperties DEF Versions
  <2>5. \A i \in 1..Len(snapshots[v - 1]) : record[snapshots[v - 1][i]].version <= v - 1
    BY <2>1, <2>2 DEF StoreFits, EvidenceRecorded
  <2>6. ~ (v <= v - 1)
    BY <2>1 DEF Latest
  <2> QED
    BY <2>3, <2>4, <2>5, <2>6 DEF Holds
<1> QED
  BY <1>1, ResultsSafety, PTL

\* A record promoted by _promote_and_bind names the version that holds its
\* evidence, also when it was recovered after a crash.
THEOREM WrittenIsHeld == Spec => []WrittenMeansHeld
<1>1. ResultsInv => WrittenMeansHeld
  BY DEF ResultsInv, StoreFits, WrittenHeld, Holds, WrittenMeansHeld, Latest
<1> QED
  BY <1>1, ResultsSafety, PTL

\* What a step does to the versions: only Add adds one, of an execution whose
\* record names the version after the latest and so is in no version yet.
LEMMA AddPublishes ==
  ASSUME ResultsInv, NEW w \in Workers, Add(w)
  PROVE  (\E e \in Executions : Decision!Publish(e)) \/ UNCHANGED <<snapshots, conv>>
<1> DEFINE e == wk[w].execution
           v == wk[w].rec.version
<1>1. /\ wk[w].pc = "add" /\ wk[w].pc \in Holding /\ v >= 2
      /\ record[e].state # "none" /\ v = record[e].version
  BY InHand DEF Add, HandFits, Holding
<1>2. conv' = conv
  BY DEF Add
<1>3. CASE v # Latest + 1
  BY <1>2, <1>3 DEF Add
<1>4. CASE v = Latest + 1
  <2>1. /\ snapshots \in Versions /\ StoreFits(record, snapshots) /\ Len(snapshots) \in Nat
        /\ e \in Executions
    BY InHand, LenProperties DEF Versions
  <2>2. v - 1 = Len(snapshots) /\ v = Len(snapshots) + 1 /\ Len(snapshots) \in 1..Len(snapshots)
    BY <1>4, <2>1 DEF Latest, StoreFits
  <2>3. snapshots' = Append(snapshots, Append(snapshots[Len(snapshots)], e))
    BY <1>4, <2>2 DEF Add, next_snapshot
  <2> DEFINE last == snapshots[Len(snapshots)]
  <2>4. DOMAIN last = 1..Len(last)
    BY <2>1, <2>2, ElementOfSeq, LenProperties DEF Versions
  <2>5. \A i \in 1..Len(last) : record[last[i]].version <= Len(snapshots)
    BY <2>1, <2>2 DEF StoreFits, EvidenceRecorded
  <2>6. ~ (v <= Len(snapshots))
    BY <2>1, <2>2
  <2>7. \A i \in DOMAIN last : last[i] # e
    BY <1>1, <2>4, <2>5, <2>6
  <2>8. Decision!Publish(e)
    BY <1>2, <2>3, <2>7 DEF Decision!Publish, Decision!Last
  <2> QED
    BY <2>1, <2>8
<1> QED
  BY <1>3, <1>4

\* The binding moves only in _bind, to the stored version after the bound one.
LEMMA BindFollows ==
  ASSUME ResultsInv, NEW w \in Workers, Bind(w)
  PROVE  Decision!Follow \/ UNCHANGED <<snapshots, conv>>
<1>1. snapshots' = snapshots
  BY DEF Bind
<1>2. CASE conv' = conv
  BY <1>1, <1>2
<1>3. CASE Advances(w) /\ conv' = [bound |-> wk[w].rec.version, pv |-> conv.pv + 1]
  <2>1. conv.bound \in Nat /\ Latest \in Nat
    BY LenProperties DEF ResultsInv, TypeOK, Latest
  <2>2. conv'.bound = conv.bound + 1 /\ conv.bound < Len(snapshots)
    BY <1>3, <2>1 DEF Advances, Latest
  <2> QED
    BY <1>1, <2>2 DEF Decision!Follow
<1> QED
  BY <1>2, <1>3 DEF Bind

\* The detailed specification implements DecisionHistory: however processes race,
\* crash and retry, stored versions are never rewritten, every new one adds the
\* evidence of one execution that no version had, and the conversation moves to
\* the next stored version only.
THEOREM ImplementsDecisionHistory == Spec => DecisionGrows
<1>1. Init => Decision!DInit
  BY DEF Init, Decision!DInit
<1>2. ResultsInv /\ [Next]_vars => [Decision!DNext]_<<snapshots, conv.bound>>
  <2> SUFFICES ASSUME ResultsInv, [Next]_vars
               PROVE  Decision!DNext \/ UNCHANGED <<snapshots, conv.bound>>
    OBVIOUS
  <2>1. ASSUME NEW w \in Workers, Add(w)
        PROVE  Decision!DNext \/ UNCHANGED <<snapshots, conv.bound>>
    BY <2>1, AddPublishes DEF Decision!DNext
  <2>2. ASSUME NEW w \in Workers, Bind(w)
        PROVE  Decision!DNext \/ UNCHANGED <<snapshots, conv.bound>>
    BY <2>2, BindFollows DEF Decision!DNext
  <2>3. CASE OtherTurn
    BY <2>3 DEF OtherTurn, ResultsInv, TypeOK
  <2>4. CASE UNCHANGED <<snapshots, conv>>
    BY <2>4
  <2> QED
    BY <2>1, <2>2, <2>3, <2>4
       DEF Next, Step, Start, ReadConversation, ReadRecord, Remember, ReadAgain, Insert,
           AddRaises, Settle, Promote, Reload, Recheck, Mark, Resume, Recover, Crash,
           stores, vars
<1> QED
  BY <1>1, <1>2, ResultsSafety, PTL DEF Spec, DecisionGrows, Decision!DSpec, Decision!dvars

-----------------------------------------------------------------------------
(* The conversation follows.  b stands for its bound version. *)

\* Records that do not say that the version they name is no version of theirs.
Live == {"pending", "snapshot_written", "bound", "snapshot_failed"}

\* At most one version is not bound, and every version is of a live record.
RowsFollow(r, b, s) ==
  /\ b \in 1..Len(s) /\ Len(s) <= b + 1
  /\ \A e \in Executions : r[e].state # "none" => r[e].version <= b + 1
  /\ \A e \in Executions : r[e].state = "bound" => r[e].version <= b
  /\ \A e \in Executions :
       r[e].state \in {"set_aside", "integration_conflict"} => r[e].version <= Len(s)
  /\ \A v \in 2..Len(s) : \E e \in Executions :
       Holds(s, v, e) /\ r[e].version = v /\ r[e].state \in Live

\* A worker that will extend a version read it as the bound one; one that marks a
\* record saw its version bound; one that gives up met another's version.
HandFollows(q, b, s) ==
  /\ q.pc \notin {"idle", "conversation"} => q.seen <= b
  /\ q.pc \in {"remember", "again", "insert"} => q.base = q.seen
  /\ q.pc = "mark" => q.rec.version <= b
  /\ q.pc = "settle" /\ q.goal = "integration_conflict" =>
       q.rec.version <= Len(s) /\ ~ Holds(s, q.rec.version, q.execution)

FollowInv ==
  /\ RowsFollow(record, conv.bound, snapshots)
  /\ \A w \in Workers : HandFollows(wk[w], conv.bound, snapshots)

\* What a worker has in hand stays so when versions are added and the binding
\* goes forward.
LEMMA FollowMoves ==
  ASSUME ResultsInv, FollowInv, NEW w \in Workers, Unmoved(w),
         RowsFollow(record', conv'.bound, snapshots'),
         HandFollows(wk'[w], conv'.bound, snapshots'),
         conv'.bound \in Nat, conv.bound <= conv'.bound,
         Len(snapshots') \in Nat, Len(snapshots) <= Len(snapshots'),
         \A v \in 1..Len(snapshots) : snapshots'[v] = snapshots[v]
  PROVE  FollowInv'
<1>1. ASSUME NEW p \in Workers PROVE HandFollows(wk'[p], conv'.bound, snapshots')
  <2>1. CASE p # w
    <3>1. /\ wk'[p] = wk[p] /\ wk[p] \in Worker /\ HandFollows(wk[p], conv.bound, snapshots)
          /\ conv.bound \in Nat /\ Len(snapshots) \in Nat
      BY <2>1, InHand DEF Unmoved, FollowInv
    <3> DEFINE v == wk[p].rec.version
               e == wk[p].execution
    <3>2. v \in Nat /\ wk[p].seen \in Nat
      BY <3>1 DEF Worker, Record
    <3>3. v <= Len(snapshots) /\ ~ Holds(snapshots, v, e) =>
            v <= Len(snapshots') /\ ~ Holds(snapshots', v, e)
      <4> HIDE DEF v, e
      <4> SUFFICES ASSUME v <= Len(snapshots), Holds(snapshots', v, e)
                   PROVE  Holds(snapshots, v, e)
        BY <3>1, <3>2
      <4>1. v \in 2..Len(snapshots) /\ v - 1 \in 1..Len(snapshots) /\ v \in 1..Len(snapshots)
        BY <3>1, <3>2 DEF Holds
      <4>2. snapshots'[v] = snapshots[v] /\ snapshots'[v - 1] = snapshots[v - 1]
        BY <4>1
      <4> QED
        BY <4>1, <4>2 DEF Holds
    <3> QED
      BY <3>1, <3>2, <3>3 DEF HandFollows
  <2> QED
    BY <2>1
<1> QED
  BY <1>1 DEF FollowInv

\* A worker moves and no store is written but the conversation's other fields.
LEMMA FollowStays ==
  ASSUME ResultsInv, FollowInv, NEW w \in Workers, Unmoved(w),
         UNCHANGED <<snapshots, record>>, conv'.bound = conv.bound,
         HandFollows(wk'[w], conv.bound, snapshots)
  PROVE  FollowInv'
<1>1. conv.bound \in Nat /\ Len(snapshots) \in Nat
  BY InHand
<1> QED
  BY <1>1, FollowMoves DEF FollowInv

\* integrate returns, or its process dies.
LEMMA ReturnFollows ==
  ASSUME ResultsInv, FollowInv, NEW w \in Workers, Return(w),
         UNCHANGED <<snapshots, record>>, conv'.bound = conv.bound
  PROVE  FollowInv'
<1>1. Unmoved(w) /\ wk'[w].pc = "idle"
  BY ReturnMoves
<1> QED
  BY <1>1, FollowStays DEF HandFollows

\* A row is written.
LEMMA RowFollows ==
  ASSUME ResultsInv, FollowInv, NEW w \in Workers, Unmoved(w),
         NEW x \in Record, x.state # "none",
         record' = [record EXCEPT ![wk[w].execution] = x],
         UNCHANGED <<snapshots, conv>>, HandFollows(wk'[w], conv.bound, snapshots),
         \/ record[wk[w].execution].state = "none" /\ x.version <= conv.bound + 1
         \/ record[wk[w].execution].version = x.version /\ x.state # "set_aside"
            /\ record[wk[w].execution].state # "none",
         x.state = "bound" => x.version <= conv.bound,
         x.state \in {"set_aside", "integration_conflict"} => x.version <= Len(snapshots),
         x.state = "integration_conflict" => ~ Holds(snapshots, x.version, wk[w].execution)
  PROVE  FollowInv'
<1> DEFINE e == wk[w].execution
           b == conv.bound
           s == snapshots
<1>1. /\ e \in Executions /\ record \in Rows /\ b \in Nat /\ Len(s) \in Nat
      /\ RowsFollow(record, b, s) /\ s \in Versions
  BY InHand DEF FollowInv
<1>2. /\ record'[e] = x /\ \A f \in Executions : f # e => record'[f] = record[f]
  BY <1>1 DEF Rows
<1>3. x.state \notin Live => x.state \in {"set_aside", "integration_conflict"}
  BY DEF Record, States, Live
<1> HIDE DEF e, b, s
<1>4. \A f \in Executions : record'[f].state # "none" => record'[f].version <= b + 1
  BY <1>1, <1>2 DEF RowsFollow, e, b
<1>5. /\ \A f \in Executions : record'[f].state = "bound" => record'[f].version <= b
      /\ \A f \in Executions : record'[f].state \in {"set_aside", "integration_conflict"} =>
                                 record'[f].version <= Len(s)
  BY <1>1, <1>2 DEF RowsFollow, e, b, s
<1>6. ASSUME NEW v \in 2..Len(s)
      PROVE  \E f \in Executions :
               Holds(s, v, f) /\ record'[f].version = v /\ record'[f].state \in Live
  <2>1. PICK f \in Executions :
          Holds(s, v, f) /\ record[f].version = v /\ record[f].state \in Live
    BY <1>1 DEF RowsFollow
  <2>2. CASE f # e
    BY <1>2, <2>1, <2>2
  <2>3. CASE f = e
    <3>1. record[e].state # "none"
      BY <2>1, <2>3 DEF Live
    <3>2. x.version = v /\ x.state # "set_aside"
      BY <2>1, <2>3, <3>1 DEF e
    <3>3. x.state # "integration_conflict"
      BY <2>1, <2>3, <3>2 DEF e, s
    <3>4. record'[f].version = v /\ record'[f].state \in Live
      BY <1>2, <1>3, <2>3, <3>2, <3>3
    <3> QED
      BY <2>1, <3>4
  <2> QED
    BY <2>2, <2>3
<1>7. RowsFollow(record', b, s)
  BY <1>1, <1>4, <1>5, <1>6 DEF RowsFollow
<1>8. /\ RowsFollow(record', conv'.bound, snapshots')
      /\ HandFollows(wk'[w], conv'.bound, snapshots')
      /\ conv'.bound \in Nat /\ conv.bound <= conv'.bound
      /\ Len(snapshots') \in Nat /\ Len(snapshots) <= Len(snapshots')
      /\ \A v \in 1..Len(snapshots) : snapshots'[v] = snapshots[v]
  BY <1>1, <1>7 DEF b, s
<1> QED
  BY <1>8, FollowMoves

\* add or _recover_pending found another version where the record's should be.
LEMMA GiveUpFollows ==
  ASSUME ResultsInv, FollowInv, NEW w \in Workers, wk[w].pc \in {"add", "recover"},
         wk[w].rec.version # Latest + 1,
         ~ matches_research_update(wk[w].rec.version - 1, wk[w].execution),
         wk' = [wk EXCEPT ![w].pc = "settle", ![w].goal = "integration_conflict"],
         UNCHANGED <<snapshots, record>>, conv'.bound = conv.bound
  PROVE  FollowInv'
<1> DEFINE v == wk[w].rec.version
           e == wk[w].execution
<1>1. /\ wk \in [Workers -> Worker] /\ wk[w] \in Worker
      /\ HandFollows(wk[w], conv.bound, snapshots)
  BY DEF ResultsInv, TypeOK, FollowInv
<1>2. v \in Nat /\ v <= Len(snapshots) + 1 /\ Len(snapshots) \in Nat
  <2>1. /\ HandFits(wk[w], record, snapshots) /\ RecordsBounded(record, snapshots)
        /\ wk[w].pc \in Holding /\ e \in Executions /\ wk[w].rec \in Record
    BY InHand DEF StoreFits, Holding
  <2>2. v = record[e].version /\ record[e].state # "none"
    BY <2>1 DEF HandFits
  <2> QED
    BY <2>1, <2>2, InHand DEF RecordsBounded, Record
<1>3. v <= Len(snapshots)
  BY <1>2 DEF Latest
<1>4. ~ Holds(snapshots, v, e)
  <2>1. (v - 1) + 1 = v
    BY <1>2
  <2> QED
    BY <2>1 DEF Holds, matches_research_update, next_snapshot
<1>5. /\ Unmoved(w) /\ wk'[w].pc = "settle" /\ wk'[w].rec = wk[w].rec
      /\ wk'[w].execution = wk[w].execution /\ wk'[w].seen = wk[w].seen
  BY <1>1 DEF Unmoved, Worker
<1>6. HandFollows(wk'[w], conv.bound, snapshots)
  BY <1>1, <1>3, <1>4, <1>5 DEF HandFollows
<1> QED
  BY <1>5, <1>6, FollowStays

\* The steps that write no store.
LEMMA PassFollows ==
  ASSUME ResultsInv, FollowInv, NEW w \in Workers,
         \/ \E e \in Executions : Start(w, e)
         \/ ReadConversation(w) \/ ReadRecord(w) \/ ReadAgain(w) \/ Reload(w)
         \/ AddRaises(w) \/ Recheck(w) \/ Resume(w) \/ Recover(w) \/ Crash(w)
  PROVE  FollowInv'
<1>0. UNCHANGED <<snapshots, record, conv>>
  <2>1. ASSUME NEW e \in Executions, Start(w, e) PROVE UNCHANGED <<snapshots, record, conv>>
    BY <2>1 DEF Start, stores
  <2> QED
    BY <2>1 DEF ReadConversation, ReadRecord, ReadAgain, Reload, AddRaises, Recheck, Resume,
                Recover, Crash, stores
<1>1. /\ wk \in [Workers -> Worker] /\ wk[w] \in Worker /\ conv.bound \in Nat
      /\ HandFollows(wk[w], conv.bound, snapshots)
  BY InHand DEF ResultsInv, TypeOK, FollowInv
<1>2. CASE Return(w)
  BY <1>0, <1>2, ReturnFollows
<1>3. ASSUME \A p \in Workers \ {w} : wk'[p] = wk[p],
             wk'[w].pc \notin {"mark", "remember", "again", "insert", "settle"},
             wk'[w].seen = wk[w].seen, wk[w].pc \notin {"idle", "conversation"}
      PROVE  FollowInv'
  BY <1>0, <1>1, <1>3, FollowStays DEF Unmoved, HandFollows
<1>4. ASSUME NEW e \in Executions, Start(w, e) PROVE FollowInv'
  BY <1>0, <1>4, StartMoves, FollowStays DEF HandFollows
<1>5. CASE ReadConversation(w)
  <2>1. Unmoved(w) /\ wk'[w].pc = "record" /\ wk'[w].seen = conv.bound
    BY <1>1, <1>5 DEF ReadConversation, Unmoved, Worker
  <2> QED
    BY <1>0, <1>1, <2>1, FollowStays DEF HandFollows
<1>6. CASE ReadRecord(w) /\ ~ Return(w)
  <2>1. CASE wk' = [wk EXCEPT ![w].pc = "resume", ![w].rec = record[wk[w].execution]]
    BY <1>1, <1>3, <1>6, <2>1 DEF ReadRecord, Worker
  <2>2. ASSUME NEW pc \in {"remember", "again"}, Goto(w, pc), wk[w].seen = wk[w].base
        PROVE  FollowInv'
    <3>1. /\ Unmoved(w) /\ wk'[w].pc = pc /\ wk'[w].seen = wk[w].seen
          /\ wk'[w].base = wk[w].base
      BY <1>1, <2>2 DEF Unmoved, Worker
    <3> QED
      BY <1>0, <1>1, <1>6, <2>2, <3>1, FollowStays DEF ReadRecord, HandFollows
  <2> QED
    BY <1>6, <2>1, <2>2 DEF ReadRecord, extends_bound
<1>7. CASE ReadAgain(w)
  <2>1. CASE wk' = [wk EXCEPT ![w].pc = "resume", ![w].rec = record[wk[w].execution]]
    BY <1>1, <1>3, <1>7, <2>1 DEF ReadAgain, Worker
  <2>2. CASE Goto(w, "insert")
    <3>1. /\ Unmoved(w) /\ wk'[w].pc = "insert" /\ wk'[w].seen = wk[w].seen
          /\ wk'[w].base = wk[w].base
      BY <1>1, <2>2 DEF Unmoved, Worker
    <3> QED
      BY <1>0, <1>1, <1>7, <3>1, FollowStays DEF ReadAgain, HandFollows
  <2> QED
    BY <1>7, <2>1, <2>2 DEF ReadAgain
<1>8. CASE Reload(w)
  BY <1>1, <1>3, <1>8 DEF Reload, Worker
<1>9. CASE AddRaises(w)
  <2>1. /\ Unmoved(w) /\ wk'[w].pc = "settle" /\ wk'[w].goal = "snapshot_failed"
        /\ wk'[w].seen = wk[w].seen
    BY <1>1, <1>9 DEF AddRaises, Unmoved, Worker
  <2> QED
    BY <1>0, <1>1, <1>9, <2>1, FollowStays DEF AddRaises, HandFollows
<1>10. CASE Recheck(w) /\ ~ Return(w)
  <2>1. Goto(w, "mark") /\ conv.bound = wk[w].rec.version
    BY <1>10 DEF Recheck
  <2>2. /\ Unmoved(w) /\ wk'[w].pc = "mark" /\ wk'[w].seen = wk[w].seen
        /\ wk'[w].rec = wk[w].rec
    BY <1>1, <2>1 DEF Unmoved, Worker
  <2> QED
    BY <1>0, <1>1, <1>10, <2>1, <2>2, FollowStays DEF Recheck, HandFollows
<1>11. CASE Resume(w) /\ ~ Return(w)
  <2>1. \/ Goto(w, "recover")
        \/ wk' = [wk EXCEPT ![w].pc = "bind", ![w].pv = conv.pv, ![w].fresh = FALSE]
    BY <1>11 DEF Resume
  <2> QED
    BY <1>1, <1>3, <1>11, <2>1 DEF Resume, Worker
<1>12. CASE Recover(w)
  <2> DEFINE v == wk[w].rec.version
  <2>1. CASE v = Latest + 1 \/ matches_research_update(v - 1, wk[w].execution)
    <3>1. Goto(w, "add") \/ Goto(w, "promote")
      BY <1>12, <2>1 DEF Recover
    <3> QED
      BY <1>1, <1>3, <1>12, <3>1 DEF Recover, Worker
  <2>2. CASE v # Latest + 1 /\ ~ matches_research_update(v - 1, wk[w].execution)
    <3>1. wk' = [wk EXCEPT ![w].pc = "settle", ![w].goal = "integration_conflict"]
          /\ wk[w].pc = "recover"
      BY <1>12, <2>2 DEF Recover
    <3> QED
      BY <1>0, <2>2, <3>1, GiveUpFollows
  <2> QED
    BY <2>1, <2>2
<1> QED
  BY <1>2, <1>4, <1>5, <1>6, <1>7, <1>8, <1>9, <1>10, <1>11, <1>12 DEF Crash

\* The row of evidence set aside names the version that was latest.
LEMMA RememberFollows ==
  ASSUME ResultsInv, FollowInv, NEW w \in Workers, Remember(w)
  PROVE  FollowInv'
<1> DEFINE e == wk[w].execution
           x == [state |-> "set_aside", version |-> wk[w].base, revision |-> 1]
<1>1. CASE existing(w)
  BY <1>1, ReturnFollows DEF Remember
<1>2. CASE ~ existing(w)
  <2>1. /\ record' = [record EXCEPT ![e] = x] /\ Return(w) /\ record[e].state = "none"
        /\ UNCHANGED <<snapshots, conv>> /\ wk[w].pc = "remember"
    BY <1>2 DEF Remember, existing
  <2>2. Unmoved(w) /\ HandFollows(wk'[w], conv.bound, snapshots)
    BY <2>1, ReturnMoves DEF HandFollows
  <2>3. /\ HandFits(wk[w], record, snapshots) /\ HandFollows(wk[w], conv.bound, snapshots)
        /\ conv.bound \in Nat /\ wk[w].base \in Nat /\ Len(snapshots) \in Nat
    BY InHand DEF FollowInv
  <2>4. wk[w].base \in 1..Len(snapshots) /\ wk[w].base <= conv.bound + 1
    BY <2>1, <2>3 DEF HandFits, HandFollows
  <2>5. /\ x \in Record /\ x.state = "set_aside" /\ x.version = wk[w].base
    BY <2>3 DEF Record, States
  <2> HIDE DEF x
  <2>6. x.version <= conv.bound + 1 /\ x.version <= Len(snapshots) /\ x.state # "none"
    BY <2>3, <2>4, <2>5
  <2> QED
    BY <2>1, <2>2, <2>5, <2>6, RowFollows
<1> QED
  BY <1>1, <1>2

\* The pending row names the version after the bound one.
LEMMA InsertFollows ==
  ASSUME ResultsInv, FollowInv, NEW w \in Workers, Insert(w)
  PROVE  FollowInv'
<1> DEFINE e == wk[w].execution
           x == [state |-> "pending", version |-> wk[w].base + 1, revision |-> 1]
<1>1. /\ wk \in [Workers -> Worker] /\ wk[w] \in Worker /\ conv.bound \in Nat
      /\ HandFollows(wk[w], conv.bound, snapshots) /\ wk[w].pc = "insert"
      /\ wk[w].base \in Nat /\ UNCHANGED <<snapshots, conv>>
  BY InHand DEF ResultsInv, TypeOK, FollowInv, Insert
<1>2. CASE existing(w)
  <2>1. wk' = [wk EXCEPT ![w].pc = "resume", ![w].rec = record[e]] /\ record' = record
    BY <1>2 DEF Insert
  <2>2. Unmoved(w) /\ wk'[w].pc = "resume" /\ wk'[w].seen = wk[w].seen
    BY <1>1, <2>1 DEF Unmoved, Worker
  <2> QED
    BY <1>1, <2>1, <2>2, FollowStays DEF HandFollows
<1>3. CASE ~ existing(w)
  <2>1. /\ record' = [record EXCEPT ![e] = x] /\ record[e].state = "none"
        /\ wk' = [wk EXCEPT ![w].pc = "add", ![w].rec = x]
    BY <1>3 DEF Insert, existing
  <2>2. /\ x \in Record /\ x.state = "pending" /\ x.version = wk[w].base + 1
    BY <1>1 DEF Record, States
  <2> HIDE DEF x
  <2>3. Unmoved(w) /\ wk'[w].pc = "add" /\ wk'[w].seen = wk[w].seen
    BY <1>1, <2>1 DEF Unmoved, Worker
  <2>4. HandFollows(wk'[w], conv.bound, snapshots)
    BY <1>1, <2>3 DEF HandFollows
  <2>5. x.version <= conv.bound + 1
    <3>1. wk[w].base = wk[w].seen /\ wk[w].seen <= conv.bound /\ wk[w].seen \in Nat
      BY <1>1 DEF HandFollows, Worker
    <3> QED
      BY <1>1, <2>2, <3>1
  <2> QED
    BY <1>1, <2>1, <2>2, <2>3, <2>4, <2>5, RowFollows
<1> QED
  BY <1>2, <1>3

\* A version that is added is the one after the bound one, and of a live record.
LEMMA AddFollows ==
  ASSUME ResultsInv, FollowInv, NEW w \in Workers, Add(w)
  PROVE  FollowInv'
<1> DEFINE e == wk[w].execution
           v == wk[w].rec.version
<1>1. /\ wk[w].pc = "add" /\ wk[w].pc \in Holding /\ v >= 2
      /\ record[e].state # "none" /\ v = record[e].version /\ UNCHANGED <<record, conv>>
  BY InHand DEF Add, HandFits, Holding
<1>2. /\ wk \in [Workers -> Worker] /\ wk[w] \in Worker /\ conv.bound \in Nat
      /\ HandFollows(wk[w], conv.bound, snapshots) /\ RowsFollow(record, conv.bound, snapshots)
      /\ snapshots \in Versions /\ Len(snapshots) \in Nat /\ e \in Executions
      /\ record[e] \in Record
  BY InHand DEF ResultsInv, TypeOK, FollowInv
<1>3. ASSUME Goto(w, "promote")
      PROVE  Unmoved(w) /\ HandFollows(wk'[w], conv.bound, snapshots')
  <2>1. Unmoved(w) /\ wk'[w].pc = "promote" /\ wk'[w].seen = wk[w].seen
    BY <1>2, <1>3 DEF Unmoved, Worker
  <2> QED
    BY <1>1, <1>2, <2>1 DEF HandFollows
<1>4. CASE v = Latest + 1
  <2> DEFINE n == Len(snapshots)
             x == next_snapshot(v - 1, e)
  <2>1. snapshots' = Append(snapshots, x) /\ Goto(w, "promote") /\ v = n + 1 /\ v - 1 = n
    BY <1>2, <1>4 DEF Add, Latest
  <2>2. x = Append(snapshots[n], e) /\ snapshots[n] \in Seq(Executions)
    <3>1. n \in 1..n
      BY <1>2 DEF RowsFollow
    <3> QED
      BY <1>2, <2>1, <3>1, ElementOfSeq DEF next_snapshot, Versions
  <2>3. x \in Seq(Executions)
    BY <1>2, <2>2, AppendProperties
  <2> HIDE DEF x
  <2>4. /\ Len(snapshots') = n + 1 /\ snapshots'[n + 1] = x
        /\ \A i \in 1..n : snapshots'[i] = snapshots[i]
    BY <1>2, <2>1, <2>3, AppendProperties DEF Versions
  <2>0. record[e].version = n + 1 /\ n = Len(snapshots) /\ n \in Nat
    BY <1>1, <1>2, <2>1
  <2> HIDE DEF e, v, n
  <2>5. record[e].state \in Live
    <3>1. record[e].state \notin {"set_aside", "integration_conflict"}
      <4>1. record[e].state \in {"set_aside", "integration_conflict"} =>
              record[e].version <= n
        BY <1>2, <2>0 DEF RowsFollow
      <4> QED
        BY <2>0, <4>1
    <3> QED
      BY <1>1, <1>2, <3>1 DEF Record, States, Live
  <2>6. n + 1 <= conv.bound + 1 /\ n \in Nat /\ n >= 1
    <3>1. record[e].version <= conv.bound + 1 /\ conv.bound \in 1..n
      BY <1>1, <1>2, <2>0 DEF RowsFollow
    <3> QED
      BY <1>2, <2>0, <3>1
  <2>7. ASSUME NEW i \in 2..Len(snapshots')
        PROVE  \E f \in Executions :
                 Holds(snapshots', i, f) /\ record[f].version = i /\ record[f].state \in Live
    <3>1. CASE i = n + 1
      <4>1. snapshots'[n] = snapshots[n] /\ i - 1 = n /\ i \in 2..Len(snapshots')
        BY <2>4, <2>6, <3>1
      <4>2. Holds(snapshots', i, e)
        BY <2>2, <2>4, <3>1, <4>1 DEF Holds
      <4> QED
        BY <1>1, <1>2, <2>1, <2>5, <3>1, <4>2
    <3>2. CASE i # n + 1
      <4>1. i \in 2..n /\ i \in 1..n /\ i - 1 \in 1..n /\ i \in 2..Len(snapshots')
        BY <2>4, <2>6, <3>2
      <4>2. PICK f \in Executions :
              Holds(snapshots, i, f) /\ record[f].version = i /\ record[f].state \in Live
        BY <1>2, <4>1 DEF RowsFollow, n
      <4>3. snapshots'[i] = snapshots[i] /\ snapshots'[i - 1] = snapshots[i - 1]
        BY <2>4, <4>1
      <4>4. Holds(snapshots', i, f)
        BY <4>1, <4>2, <4>3 DEF Holds
      <4> QED
        BY <4>2, <4>4
    <3> QED
      BY <3>1, <3>2
  <2>8. \A f \in Executions :
          record[f].state \in {"set_aside", "integration_conflict"} =>
            record[f].version <= n + 1
    <3> SUFFICES ASSUME NEW f \in Executions,
                        record[f].state \in {"set_aside", "integration_conflict"}
                 PROVE  record[f].version <= n + 1
      OBVIOUS
    <3>1. record[f].version <= n /\ record[f].version \in Nat
      BY <1>2, InHand DEF RowsFollow, Rows, Record, n
    <3> QED
      BY <2>6, <3>1
  <2>9. RowsFollow(record, conv.bound, snapshots')
    <3>1. conv.bound \in 1..Len(snapshots') /\ Len(snapshots') <= conv.bound + 1
      BY <1>2, <2>4, <2>6 DEF RowsFollow, n
    <3> QED
      BY <1>2, <2>4, <2>7, <2>8, <3>1 DEF RowsFollow
  <2>10. /\ RowsFollow(record', conv'.bound, snapshots')
         /\ HandFollows(wk'[w], conv'.bound, snapshots') /\ Unmoved(w)
         /\ conv'.bound \in Nat /\ conv.bound <= conv'.bound
         /\ Len(snapshots') \in Nat /\ Len(snapshots) <= Len(snapshots')
         /\ \A i \in 1..Len(snapshots) : snapshots'[i] = snapshots[i]
    BY <1>1, <1>2, <1>3, <2>1, <2>4, <2>6, <2>9 DEF n
  <2> QED
    BY <2>10, FollowMoves
<1>5. CASE v # Latest + 1 /\ matches_research_update(v - 1, e)
  <2>1. Goto(w, "promote") /\ snapshots' = snapshots
    BY <1>5 DEF Add
  <2> QED
    BY <1>1, <1>3, <2>1, FollowStays
<1>6. CASE v # Latest + 1 /\ ~ matches_research_update(v - 1, e)
  <2>1. /\ wk' = [wk EXCEPT ![w].pc = "settle", ![w].goal = "integration_conflict"]
        /\ snapshots' = snapshots
    BY <1>6 DEF Add
  <2> QED
    BY <1>1, <1>6, <2>1, GiveUpFollows
<1> QED
  BY <1>4, <1>5, <1>6

\* The moves of a record: settle, snapshot_written, bound.
LEMMA MovesFollow ==
  ASSUME ResultsInv, FollowInv, NEW w \in Workers, Settle(w) \/ Promote(w) \/ Mark(w)
  PROVE  FollowInv'
<1> DEFINE e == wk[w].execution
           rec == wk[w].rec
<1>1. /\ wk \in [Workers -> Worker] /\ wk[w] \in Worker /\ conv.bound \in Nat
      /\ HandFollows(wk[w], conv.bound, snapshots) /\ wk[w].pc \in Holding
      /\ wk[w].pc \notin {"idle", "conversation"} /\ UNCHANGED <<snapshots, conv>>
  BY InHand DEF ResultsInv, TypeOK, FollowInv, Settle, Promote, Mark, Holding
<1>2. CASE Return(w) /\ record' = record
  BY <1>1, <1>2, ReturnFollows
<1>3. ASSUME NEW g \in {"snapshot_written", "bound", "integration_conflict", "snapshot_failed"},
             Moves(e, rec, g), record' = [record EXCEPT ![e] = moved(rec, g)],
             Unmoved(w), HandFollows(wk'[w], conv.bound, snapshots),
             g = "bound" => rec.version <= conv.bound,
             g = "integration_conflict" =>
               rec.version <= Len(snapshots) /\ ~ Holds(snapshots, rec.version, e)
      PROVE  FollowInv'
  <2> DEFINE x == moved(rec, g)
  <2>1. /\ x \in Record /\ x.state = g /\ x.version = record[e].version
        /\ x.version = rec.version /\ record[e].state \in {"pending", "snapshot_written"}
    BY <1>1, <1>3, MovedRow DEF States
  <2> HIDE DEF x
  <2> QED
    BY <1>1, <1>3, <2>1, RowFollows DEF x
<1>4. CASE Settle(w)
  <2>1. CASE Moves(e, rec, wk[w].goal)
    <3>1. wk[w].goal \in {"integration_conflict", "snapshot_failed"}
      BY <1>4, InHand DEF Settle, HandFits
    <3>2. Unmoved(w) /\ HandFollows(wk'[w], conv.bound, snapshots)
      BY <1>4, ReturnMoves DEF Settle, HandFollows
    <3>3. wk[w].goal = "integration_conflict" =>
            rec.version <= Len(snapshots) /\ ~ Holds(snapshots, rec.version, e)
      BY <1>1, <1>4 DEF Settle, HandFollows
    <3> QED
      BY <1>3, <1>4, <2>1, <3>1, <3>2, <3>3 DEF Settle
  <2> QED
    BY <1>2, <1>4, <2>1 DEF Settle
<1>5. CASE Promote(w)
  <2>1. CASE Moves(e, rec, "snapshot_written")
    <3> DEFINE x == moved(rec, "snapshot_written")
    <3>1. /\ record' = [record EXCEPT ![e] = x]
          /\ wk' = [wk EXCEPT ![w].pc = "reload", ![w].rec = x]
      BY <1>5, <2>1 DEF Promote
    <3> HIDE DEF x
    <3>2. Unmoved(w) /\ wk'[w].pc = "reload" /\ wk'[w].seen = wk[w].seen
      BY <1>1, <3>1 DEF Unmoved, Worker
    <3>3. HandFollows(wk'[w], conv.bound, snapshots)
      BY <1>1, <3>2 DEF HandFollows
    <3> QED
      BY <1>3, <2>1, <3>1, <3>2, <3>3 DEF x
  <2>2. CASE ~ Moves(e, rec, "snapshot_written")
    <3>1. wk' = [wk EXCEPT ![w].pc = "resume", ![w].rec = record[e]] /\ record' = record
      BY <1>5, <2>2 DEF Promote
    <3>2. Unmoved(w) /\ wk'[w].pc = "resume" /\ wk'[w].seen = wk[w].seen
      BY <1>1, <3>1 DEF Unmoved, Worker
    <3> QED
      BY <1>1, <3>1, <3>2, FollowStays DEF HandFollows
  <2> QED
    BY <2>1, <2>2
<1>6. CASE Mark(w)
  <2>1. CASE Moves(e, rec, "bound")
    <3>1. Unmoved(w) /\ HandFollows(wk'[w], conv.bound, snapshots)
      BY <1>6, ReturnMoves DEF Mark, HandFollows
    <3>2. rec.version <= conv.bound
      BY <1>1, <1>6 DEF Mark, HandFollows
    <3> QED
      BY <1>3, <1>6, <2>1, <3>1, <3>2 DEF Mark
  <2> QED
    BY <1>2, <1>6, <2>1 DEF Mark
<1> QED
  BY <1>4, <1>5, <1>6

\* The binding goes forward to a stored version.
LEMMA BindingFollows ==
  ASSUME ResultsInv, FollowInv, NEW w \in Workers, Bind(w)
  PROVE  FollowInv'
<1> DEFINE v == wk[w].rec.version
<1>1. /\ wk \in [Workers -> Worker] /\ wk[w] \in Worker /\ conv.bound \in Nat
      /\ HandFollows(wk[w], conv.bound, snapshots) /\ RowsFollow(record, conv.bound, snapshots)
      /\ wk[w].pc = "bind" /\ UNCHANGED <<snapshots, record>> /\ Len(snapshots) \in Nat
      /\ v \in Nat /\ wk[w].seen \in Nat /\ record \in Rows
  BY InHand DEF ResultsInv, TypeOK, FollowInv, Bind, Record, Worker
<1>2. CASE ~ (conv.bound = v \/ Advances(w))
  <2>1. conv' = conv /\ (Goto(w, "recheck") \/ Return(w))
    BY <1>2 DEF Bind
  <2>2. CASE Goto(w, "recheck")
    <3>1. Unmoved(w) /\ wk'[w].pc = "recheck" /\ wk'[w].seen = wk[w].seen
      BY <1>1, <2>2 DEF Unmoved, Worker
    <3> QED
      BY <1>1, <2>1, <3>1, FollowStays DEF HandFollows
  <2> QED
    BY <1>1, <2>1, <2>2, ReturnFollows
<1>3. CASE conv.bound = v \/ Advances(w)
  <2>1. /\ conv'.bound = v /\ v \in 1..Len(snapshots) /\ conv.bound <= v
        /\ v <= conv.bound + 1
    BY <1>1, <1>3 DEF Bind, Advances, Latest, RowsFollow
  <2>2. Unmoved(w) /\ HandFollows(wk'[w], v, snapshots)
    <3>1. CASE Return(w)
      BY <3>1, ReturnMoves DEF HandFollows
    <3>2. CASE Goto(w, "mark")
      <4>1. /\ Unmoved(w) /\ wk'[w].pc = "mark" /\ wk'[w].seen = wk[w].seen
            /\ wk'[w].rec = wk[w].rec
        BY <1>1, <3>2 DEF Unmoved, Worker
      <4>2. wk[w].seen <= v
        BY <1>1, <2>1 DEF HandFollows
      <4> QED
        BY <1>1, <4>1, <4>2 DEF HandFollows
    <3> QED
      BY <1>3, <3>1, <3>2 DEF Bind
  <2>3. RowsFollow(record, v, snapshots)
    <3>1. \A f \in Executions : record[f].version \in Nat
      BY <1>1 DEF Rows, Record
    <3>2. Len(snapshots) <= v + 1
      BY <1>1, <2>1 DEF RowsFollow
    <3>3. \A f \in Executions : /\ record[f].state # "none" => record[f].version <= v + 1
                                /\ record[f].state = "bound" => record[f].version <= v
      BY <1>1, <2>1, <3>1 DEF RowsFollow
    <3> QED
      BY <1>1, <2>1, <3>2, <3>3 DEF RowsFollow
  <2>4. /\ RowsFollow(record', conv'.bound, snapshots')
        /\ HandFollows(wk'[w], conv'.bound, snapshots')
        /\ conv'.bound \in Nat /\ conv.bound <= conv'.bound
        /\ Len(snapshots') \in Nat /\ Len(snapshots) <= Len(snapshots')
        /\ \A i \in 1..Len(snapshots) : snapshots'[i] = snapshots[i]
    BY <1>1, <2>1, <2>2, <2>3
  <2> QED
    BY <2>2, <2>4, FollowMoves
<1> QED
  BY <1>2, <1>3

LEMMA FollowNext == ResultsInv /\ FollowInv /\ [Next]_vars => FollowInv'
<1> SUFFICES ASSUME ResultsInv, FollowInv, [Next]_vars PROVE FollowInv'
  OBVIOUS
<1>1. CASE OtherTurn
  <2>1. UNCHANGED <<record, snapshots, wk>> /\ conv'.bound = conv.bound
    BY <1>1 DEF OtherTurn, ResultsInv, TypeOK
  <2> QED
    BY <2>1 DEF FollowInv
<1>2. CASE UNCHANGED vars
  BY <1>2 DEF vars, stores, FollowInv
<1>3. ASSUME NEW w \in Workers, NEW e \in Executions, Start(w, e) PROVE FollowInv'
  BY <1>3, PassFollows
<1>4. ASSUME NEW w \in Workers, Step(w) \/ Crash(w) PROVE FollowInv'
  BY <1>4, PassFollows, RememberFollows, InsertFollows, AddFollows, MovesFollow,
     BindingFollows DEF Step
<1> QED
  BY <1>1, <1>2, <1>3, <1>4 DEF Next

\* However processes race and die in _integrate, the conversation is at most one
\* version behind, and a further call for the execution of the version it misses
\* goes on from its record, unless an insert that raised closed that record.
THEOREM MissedResumes == Spec => []MissedIsResumable
<1>1. Init => FollowInv
  <2> SUFFICES ASSUME Init PROVE FollowInv
    OBVIOUS
  <2>1. /\ Len(snapshots) = 1 /\ conv.bound = 1 /\ \A w \in Workers : wk[w].pc = "idle"
        /\ \A e \in Executions : record[e].state = "none"
    BY DEF Init, no_record
  <2> QED
    BY <2>1 DEF FollowInv, RowsFollow, HandFollows
<1>2. ResultsInv /\ FollowInv => MissedIsResumable
  <2> SUFFICES ASSUME ResultsInv, FollowInv, conv.bound # Latest
               PROVE  /\ Latest = conv.bound + 1
                      /\ \E e \in Executions :
                           /\ record[e].version = Latest
                           /\ snapshots[Latest] = next_snapshot(conv.bound, e)
                           /\ record[e].state \in {"pending", "snapshot_written",
                                                   "snapshot_failed"}
    BY DEF MissedIsResumable
  <2>1. RowsFollow(record, conv.bound, snapshots) /\ conv.bound \in Nat /\ Len(snapshots) \in Nat
    BY LenProperties DEF FollowInv, ResultsInv, TypeOK
  <2>2. Latest = conv.bound + 1 /\ Latest \in 2..Len(snapshots) /\ Latest - 1 = conv.bound
    BY <2>1 DEF RowsFollow, Latest
  <2>3. PICK e \in Executions :
          Holds(snapshots, Latest, e) /\ record[e].version = Latest /\ record[e].state \in Live
    BY <2>1, <2>2 DEF RowsFollow
  <2>4. record[e].state # "bound"
    BY <2>1, <2>2, <2>3 DEF RowsFollow
  <2>5. snapshots[Latest] = next_snapshot(conv.bound, e)
    BY <2>2, <2>3 DEF Holds, next_snapshot
  <2> QED
    BY <2>2, <2>3, <2>4, <2>5 DEF Live
<1> QED
  BY <1>1, <1>2, FollowNext, ResultsSafety, PTL DEF Spec
==============================================================================
