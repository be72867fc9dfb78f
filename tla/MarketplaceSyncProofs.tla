------------------------- MODULE MarketplaceSyncProofs -------------------------
(***************************************************************************)
(* Proofs about MarketplaceSync for any number of processes, requests with  *)
(* and without keys, queries, offers, slice sizes, faults and crashes.      *)
(* SyncInv is inductive.  Its core is what a run still owes (RunFits): each *)
(* offer of the page it fetched is stored, has been saved as a dead letter, *)
(* or is still on its list or in its hand.  LetterInv is the part about the *)
(* dead letters of one key: its run is the only one, and the numbers it has *)
(* not used yet are free.                                                   *)
(***************************************************************************)
EXTENDS MarketplaceSync, TLAPS

USE DEF At, Goto

-----------------------------------------------------------------------------
(* The inductive invariant *)

Holding == {"offer", "price", "inventory", "letter"}
Paging == {"read", "find", "cursor"} \cup Holding

page(r) == slice(r.from) \cap r.query
hand(r) == IF r.pc \in Holding THEN {r.offer} ELSE {}

\* Run r, the stored offers and prices, the recorded offers, and the offers a
\* cursor may move over.
RunFits(r, os, ps, rec, over) ==
  /\ r.pc \in {"fetch"} \cup Paging => 1..r.from \subseteq over
  /\ r.pc \in Paging => /\ r.cursor = next_cursor(r.from)
                        /\ page(r) \subseteq os \cup rec \cup r.todo \cup hand(r)
  /\ r.pc = "cursor" => r.todo = {}
  /\ r.pc \in Holding => r.offer \in Offers
  /\ r.pc \in {"price", "inventory"} => r.offer \in os
  /\ r.pc = "inventory" => r.offer \in ps
  /\ r.pc = "final" => r.status \in FinalStatuses

Over == passed \cup filtered
CursorCovered == checkpoint # None => 1..checkpoint \subseteq Over
PassedKept == passed \subseteq offers \cup recorded

\* Run r is about to finish the record of offer o, or to save it as a letter.
Pending(r, o) == r.pc \in {"price", "inventory", "letter"} /\ r.offer = o

HistoryKept ==
  crashes = 0 =>
    \A o \in offers : \/ o \in prices \cap inventory
                      \/ o \in recorded
                      \/ \E p \in Processes : Pending(pr[p], o)

\* A request with a key that was never sent beside its own run.
Single(j) == key_of(j) # NoKey /\ j \notin doubled

\* Run r of such a request, its job's status and its dead letters.
OwnFits(r, status, row) ==
  /\ (r.pc = "job") <=> (status = "none")
  /\ \A n \in Numbers : n > r.failed => row[n] = None

LetterInv ==
  \A j \in JobIds : Single(j) =>
    /\ job[j] = "none" => \A n \in Numbers : letters[j][n] = None
    /\ \A p \in Processes : pr[p].pc # "idle" /\ pr[p].job = j =>
         /\ OwnFits(pr[p], job[j], letters[j])
         /\ \A q \in Processes : q # p /\ pr[q].pc # "idle" => pr[q].job # j

RowTypes ==
  /\ job \in [JobIds -> JobStatuses] /\ checkpoint \in {None} \cup 0..Records
  /\ health \in Health
  /\ offers \subseteq Offers /\ prices \subseteq Offers /\ inventory \subseteq Offers
  /\ letters \in [JobIds -> [Numbers -> Offers \cup {None}]]
  /\ passed \subseteq Offers /\ filtered \subseteq Offers /\ recorded \subseteq Offers
  /\ doubled \subseteq JobIds
  /\ runs \in 0..MaxRuns /\ faults \in 0..MaxFaults /\ crashes \in 0..MaxCrashes

SyncInv ==
  /\ TypeOK
  /\ CursorCovered /\ PassedKept
  /\ \A p \in Processes : RunFits(pr[p], offers, prices, recorded, Over)
  /\ HistoryKept
  /\ LetterInv

-----------------------------------------------------------------------------
(* Frames *)

LEMMA Types ==
  ASSUME SyncInv
  PROVE  RowTypes /\ pr \in [Processes -> Run]
  BY DEF SyncInv, TypeOK, RowTypes

\* The types and facts about one process.
LEMMA Facts ==
  ASSUME SyncInv, NEW p \in Processes
  PROVE  /\ pr \in [Processes -> Run] /\ pr[p] \in Run /\ pr[p].job \in JobIds
         /\ pr[p].query \subseteq Offers /\ pr[p].todo \subseteq Offers
         /\ pr[p].from \in 0..Records /\ pr[p].offer \in Offers \cup {None}
         /\ pr[p].cursor \in {None} \cup 0..Records /\ pr[p].failed \in Nat
         /\ pr[p].written \in Nat /\ pr[p].streak \in Nat /\ pr[p].attempt \in Nat
         /\ pr[p].succeeded \in BOOLEAN /\ pr[p].status \in JobStatuses
         /\ RunFits(pr[p], offers, prices, recorded, Over)
         /\ Records \in Nat /\ Limit \in Nat /\ Limit >= 1
<1>1. pr[p] \in Run
  BY DEF SyncInv, TypeOK
<1> QED
  BY <1>1, SyncAssumption DEF SyncInv, TypeOK, Run

\* A run still fits rows that another one added to.
LEMMA Frame ==
  ASSUME NEW r, NEW os, NEW os2, NEW ps, NEW ps2, NEW rec, NEW rec2, NEW ov, NEW ov2,
         RunFits(r, os, ps, rec, ov), os \subseteq os2, ps \subseteq ps2,
         rec \subseteq rec2, ov \subseteq ov2
  PROVE  RunFits(r, os2, ps2, rec2, ov2)
  BY DEF RunFits

LEMMA IdleFits ==
  ASSUME NEW os, NEW ps, NEW rec, NEW ov
  PROVE  /\ idle \in Run /\ idle.pc = "idle" /\ idle.failed = 0
         /\ RunFits(idle, os, ps, rec, ov)
<1>1. idle.pc = "idle" /\ idle.failed = 0
  BY DEF idle
<1>2. (CHOOSE j \in JobIds : TRUE) \in JobIds
  BY SyncAssumption DEF JobIds
<1>3. idle \in Run
  BY <1>2, SyncAssumption DEF idle, Run, Steps, JobStatuses, None
<1> QED
  BY <1>1, <1>3 DEF RunFits, Paging, Holding

\* What a step of one process owes: its own run, and rows that only grow.
LEMMA OneMoves ==
  ASSUME SyncInv, NEW p \in Processes, NEW x \in Run,
         pr' = [pr EXCEPT ![p] = x], RowTypes',
         offers \subseteq offers', prices \subseteq prices', inventory \subseteq inventory',
         recorded \subseteq recorded', passed \subseteq passed', filtered \subseteq filtered',
         RunFits(x, offers', prices', recorded', Over'),
         CursorCovered', PassedKept', LetterInv',
         crashes' = 0 => crashes = 0,
         \A o \in offers' : o \in offers \/ Pending(x, o),
         crashes' = 0 => \A o \in offers : Pending(pr[p], o) =>
            o \in prices' \cap inventory' \/ o \in recorded' \/ Pending(x, o)
  PROVE  SyncInv'
<1>1. pr \in [Processes -> Run]
  BY Facts
<1>2. \A q \in Processes : pr'[q] = IF q = p THEN x ELSE pr[q]
  BY <1>1
<1>3. pr' \in [Processes -> Run]
  BY <1>1
<1>4. TypeOK'
  BY <1>3 DEF RowTypes, TypeOK
<1>5. Over \subseteq Over'
  BY DEF Over
<1>6. ASSUME NEW q \in Processes
      PROVE  RunFits(pr'[q], offers', prices', recorded', Over')
  <2>1. CASE q = p
    BY <1>2, <2>1
  <2>2. CASE q # p
    <3>1. RunFits(pr[q], offers, prices, recorded, Over)
      BY Facts
    <3>2. RunFits(pr[q], offers', prices', recorded', Over')
      BY <1>5, <3>1, Frame
    <3> QED
      BY <1>2, <2>2, <3>2
  <2> QED
    BY <2>1, <2>2
<1>7. HistoryKept'
  <2> SUFFICES ASSUME crashes' = 0, NEW o \in offers'
               PROVE  \/ o \in prices' \cap inventory'
                      \/ o \in recorded'
                      \/ \E q \in Processes : Pending(pr'[q], o)
    BY DEF HistoryKept
  <2>1. CASE Pending(x, o)
    BY <1>2, <2>1
  <2>2. CASE o \in offers
    <3>1. CASE o \in prices \cap inventory \/ o \in recorded
      BY <3>1
    <3>2. CASE Pending(pr[p], o)
      BY <2>1, <2>2, <3>2
    <3>3. ASSUME NEW q \in Processes, q # p, Pending(pr[q], o)
          PROVE  Pending(pr'[q], o)
      BY <1>2, <3>3
    <3> QED
      BY <2>2, <3>1, <3>2, <3>3 DEF SyncInv, HistoryKept
  <2> QED
    BY <2>1, <2>2
<1> QED
  BY <1>4, <1>6, <1>7 DEF SyncInv

\* LetterInv does not see a step that leaves jobs and letters alone.
LEMMA LettersFrame ==
  ASSUME SyncInv, NEW p \in Processes, NEW x, pr' = [pr EXCEPT ![p] = x],
         UNCHANGED <<job, letters, doubled>>,
         \/ x.pc = "idle"
         \/ /\ pr[p].pc \notin {"idle", "job"} /\ x.pc \notin {"idle", "job"}
            /\ x.job = pr[p].job /\ x.failed = pr[p].failed
  PROVE  LetterInv'
<1>1. /\ job' = job /\ letters' = letters /\ doubled' = doubled
      /\ \A q \in Processes : pr'[q] = IF q = p THEN x ELSE pr[q]
  BY Facts
<1> SUFFICES ASSUME NEW j \in JobIds, Single(j)
             PROVE  /\ job[j] = "none" => \A n \in Numbers : letters[j][n] = None
                    /\ \A q \in Processes : pr'[q].pc # "idle" /\ pr'[q].job = j =>
                         /\ OwnFits(pr'[q], job[j], letters[j])
                         /\ \A o \in Processes : o # q /\ pr'[o].pc # "idle" =>
                                                   pr'[o].job # j
  BY <1>1 DEF LetterInv, Single
<1>2. /\ job[j] = "none" => \A n \in Numbers : letters[j][n] = None
      /\ \A q \in Processes : pr[q].pc # "idle" /\ pr[q].job = j =>
           /\ OwnFits(pr[q], job[j], letters[j])
           /\ \A o \in Processes : o # q /\ pr[o].pc # "idle" => pr[o].job # j
  BY DEF SyncInv, LetterInv
<1>3. \A q \in Processes : pr'[q].pc # "idle" =>
        pr[q].pc # "idle" /\ pr'[q].job = pr[q].job
  BY <1>1
<1>4. ASSUME NEW q \in Processes, pr'[q].pc # "idle", pr'[q].job = j
      PROVE  OwnFits(pr'[q], job[j], letters[j])
  <2>1. OwnFits(pr[q], job[j], letters[j])
    BY <1>2, <1>3, <1>4
  <2>2. CASE q # p
    BY <1>1, <2>1, <2>2
  <2>3. CASE q = p
    BY <1>1, <1>4, <2>1, <2>3 DEF OwnFits
  <2> QED
    BY <2>2, <2>3
<1> QED
  BY <1>2, <1>3, <1>4

\* A step of a run past its job row that changes no row but the health.
LEMMA RunMoves ==
  ASSUME SyncInv, NEW p \in Processes, NEW x \in Run,
         pr' = [pr EXCEPT ![p] = x],
         \/ x.pc = "idle"
         \/ /\ pr[p].pc \notin {"idle", "job"} /\ x.pc \notin {"idle", "job"}
            /\ x.job = pr[p].job /\ x.failed = pr[p].failed,
         UNCHANGED <<job, checkpoint, stored_offers, letters, seen, recorded, doubled, runs>>,
         health' \in Health, faults' \in 0..MaxFaults, crashes' \in 0..MaxCrashes,
         RunFits(x, offers, prices, recorded, Over),
         crashes' = 0 => crashes = 0,
         crashes' = 0 => \A o \in offers : Pending(pr[p], o) => Pending(x, o)
  PROVE  SyncInv'
<1>1. /\ job' = job /\ checkpoint' = checkpoint /\ offers' = offers /\ prices' = prices
      /\ inventory' = inventory /\ letters' = letters /\ runs' = runs
      /\ passed' = passed /\ filtered' = filtered /\ recorded' = recorded
      /\ doubled' = doubled /\ Over' = Over
  BY DEF stored_offers, seen, Over
<1>2. RowTypes'
  BY <1>1, Types DEF RowTypes
<1>3. LetterInv'
  BY <1>1, LettersFrame
<1>4. CursorCovered' /\ PassedKept'
  BY <1>1 DEF SyncInv, CursorCovered, PassedKept
<1>5. RunFits(x, offers', prices', recorded', Over')
  BY <1>1
<1> QED
  BY <1>1, <1>2, <1>3, <1>4, <1>5, OneMoves

\* The same for a step that changes no row at all.
LEMMA PlainMoves ==
  ASSUME SyncInv, NEW p \in Processes, NEW x \in Run,
         pr' = [pr EXCEPT ![p] = x],
         /\ pr[p].pc \notin {"idle", "job"} /\ x.pc \notin {"idle", "job"}
         /\ x.job = pr[p].job /\ x.failed = pr[p].failed,
         UNCHANGED <<rows, doubled, runs, crashes>>, faults' \in 0..MaxFaults,
         RunFits(x, offers, prices, recorded, Over),
         \A o \in offers : Pending(pr[p], o) => Pending(x, o)
  PROVE  SyncInv'
<1>1. /\ UNCHANGED <<job, checkpoint, stored_offers, letters, seen, recorded, doubled, runs>>
      /\ health' = health /\ crashes' = crashes
  BY DEF rows
<1>2. health' \in Health /\ crashes' \in 0..MaxCrashes
  BY <1>1, Types DEF RowTypes
<1> QED
  BY <1>1, <1>2, RunMoves

-----------------------------------------------------------------------------
(* The head of a run *)

LEMMA EndKeeps ==
  ASSUME SyncInv, NEW p \in Processes, pr' = [pr EXCEPT ![p] = idle],
         UNCHANGED <<job, checkpoint, stored_offers, letters, seen, recorded, doubled, runs>>,
         health' \in Health, faults' \in 0..MaxFaults, crashes' \in 0..MaxCrashes,
         crashes' = 0 => crashes = 0,
         crashes' = 0 => \A o \in offers : ~ Pending(pr[p], o)
  PROVE  SyncInv'
<1>1. idle \in Run /\ idle.pc = "idle" /\ RunFits(idle, offers, prices, recorded, Over)
  BY IdleFits
<1> HIDE DEF Pending
<1> QED
  BY <1>1, RunMoves

\* A request starts beside no run of its job, or its job id counts as doubled.
LEMMA BeginKeeps ==
  ASSUME SyncInv, NEW p \in Processes, NEW j \in Requests, NEW query \in Queries,
         Begin(p, j, query)
  PROVE  SyncInv'
<1> DEFINE x == [idle EXCEPT !.pc = "job", !.job = j, !.query = query]
<1>1. /\ pr[p].pc = "idle" /\ runs < MaxRuns /\ runs' = runs + 1
      /\ ~ prior_job(key_of(j)) /\ j \in JobIds
      /\ pr' = [pr EXCEPT ![p] = x]
      /\ doubled' = IF \E q \in Processes : pr[q].pc # "idle" /\ pr[q].job = j
                      THEN doubled \cup {j} ELSE doubled
      /\ UNCHANGED <<rows, faults, crashes>>
  BY DEF Begin, JobIds
<1>2. /\ job' = job /\ checkpoint' = checkpoint /\ health' = health /\ offers' = offers
      /\ prices' = prices /\ inventory' = inventory /\ letters' = letters
      /\ passed' = passed /\ filtered' = filtered /\ recorded' = recorded
      /\ faults' = faults /\ crashes' = crashes /\ Over' = Over
  BY <1>1 DEF rows, stored_offers, seen, Over
<1>3. key_of(j) # NoKey => job[j] = "none"
  BY <1>1 DEF prior_job
<1>4. idle \in Run /\ pr \in [Processes -> Run] /\ query \subseteq Offers
  BY IdleFits, Facts, SyncAssumption DEF Offers
<1>5. x \in Run
  BY <1>1, <1>4, Zenon DEF Run, Steps
<1>6. x.pc = "job" /\ x.job = j /\ x.failed = 0
  <2>1. x.pc = "job" /\ x.job = j /\ x.failed = idle.failed
    BY <1>4 DEF Run
  <2> QED
    BY <2>1 DEF idle
<1> HIDE DEF x
<1>7. \A q \in Processes : pr'[q] = IF q = p THEN x ELSE pr[q]
  BY <1>1, <1>4
<1>8. RowTypes'
  <2>1. runs' \in 0..MaxRuns
    BY <1>1, Types, SyncAssumption DEF RowTypes
  <2>2. doubled' \subseteq JobIds
    BY <1>1, Types DEF RowTypes
  <2> QED
    BY <1>2, <2>1, <2>2, Types DEF RowTypes
<1>9. LetterInv'
  <2> SUFFICES ASSUME NEW i \in JobIds, key_of(i) # NoKey, i \notin doubled'
               PROVE  /\ job[i] = "none" => \A n \in Numbers : letters[i][n] = None
                      /\ \A q \in Processes : pr'[q].pc # "idle" /\ pr'[q].job = i =>
                           /\ OwnFits(pr'[q], job[i], letters[i])
                           /\ \A o \in Processes : o # q /\ pr'[o].pc # "idle" =>
                                                     pr'[o].job # i
    BY <1>2 DEF LetterInv, Single
  <2>1. i \notin doubled /\ (i = j => \A q \in Processes : pr[q].pc # "idle" => pr[q].job # j)
    BY <1>1
  <2>2. /\ job[i] = "none" => \A n \in Numbers : letters[i][n] = None
        /\ \A q \in Processes : pr[q].pc # "idle" /\ pr[q].job = i =>
             /\ OwnFits(pr[q], job[i], letters[i])
             /\ \A o \in Processes : o # q /\ pr[o].pc # "idle" => pr[o].job # i
    BY <2>1 DEF SyncInv, LetterInv, Single
  <2>3. CASE i = j
    <3>1. job[j] = "none" /\ \A n \in Numbers : letters[j][n] = None
      BY <1>3, <2>2, <2>3
    <3>2. OwnFits(x, job[j], letters[j])
      BY <1>6, <3>1 DEF OwnFits
    <3> QED
      BY <1>6, <1>7, <2>1, <2>3, <3>1, <3>2
  <2>4. CASE i # j
    <3>1. \A q \in Processes : pr'[q].job = i => q # p /\ pr'[q] = pr[q]
      BY <1>6, <1>7, <2>4
    <3> QED
      BY <2>2, <3>1
  <2> QED
    BY <2>3, <2>4
<1>10. RunFits(x, offers', prices', recorded', Over')
  BY <1>6 DEF RunFits, Paging, Holding
<1>11. CursorCovered' /\ PassedKept'
  BY <1>2 DEF SyncInv, CursorCovered, PassedKept
<1>12. \A o \in offers : ~ Pending(pr[p], o)
  BY <1>1 DEF Pending
<1> QED
  BY <1>1, <1>2, <1>5, <1>8, <1>9, <1>10, <1>11, <1>12, OneMoves

LEMMA SaveJobKeeps ==
  ASSUME SyncInv, NEW p \in Processes, SaveJob(p)
  PROVE  SyncInv'
<1> DEFINE r == pr[p]
           x == [r EXCEPT !.pc = "checkpoint"]
<1>1. /\ r.pc = "job"
      /\ \/ pr' = [pr EXCEPT ![p] = idle] /\ UNCHANGED job
         \/ job' = [job EXCEPT ![r.job] = "running"] /\ pr' = [pr EXCEPT ![p].pc = "checkpoint"]
      /\ UNCHANGED <<checkpoint, health, stored_offers, letters, seen, recorded, doubled, bounds>>
  BY DEF SaveJob
<1>2. /\ checkpoint' = checkpoint /\ health' = health /\ offers' = offers /\ prices' = prices
      /\ inventory' = inventory /\ letters' = letters /\ runs' = runs /\ faults' = faults
      /\ crashes' = crashes /\ passed' = passed /\ filtered' = filtered
      /\ recorded' = recorded /\ doubled' = doubled /\ Over' = Over
  BY <1>1 DEF stored_offers, seen, bounds, Over
<1>3. \A o \in offers : ~ Pending(r, o)
  BY <1>1 DEF Pending
<1>4. CASE pr' = [pr EXCEPT ![p] = idle] /\ UNCHANGED job
  <2>1. health' \in Health /\ faults' \in 0..MaxFaults /\ crashes' \in 0..MaxCrashes
    BY <1>2, Types DEF RowTypes
  <2> QED
    BY <1>1, <1>2, <1>3, <1>4, <2>1, EndKeeps
<1>5. CASE /\ job' = [job EXCEPT ![r.job] = "running"]
           /\ pr' = [pr EXCEPT ![p].pc = "checkpoint"]
  <2>1. r \in Run /\ pr \in [Processes -> Run] /\ r.job \in JobIds
    BY Facts
  <2>2. x \in Run
    BY <2>1, Zenon DEF Run, Steps
  <2>3. x.pc = "checkpoint" /\ x.job = r.job /\ x.failed = r.failed
    BY <2>1 DEF Run
  <2>4. pr' = [pr EXCEPT ![p] = x]
    BY <1>5, <2>1
  <2> HIDE DEF x
  <2>5. /\ job' \in [JobIds -> JobStatuses] /\ job'[r.job] = "running"
        /\ \A i \in JobIds : i # r.job => job'[i] = job[i]
    BY <1>5, <2>1, Types DEF RowTypes, JobStatuses
  <2>6. RowTypes'
    BY <1>2, <2>5, Types DEF RowTypes
  <2>7. \A q \in Processes : pr'[q] = IF q = p THEN x ELSE pr[q]
    BY <2>1, <2>4
  <2>8. LetterInv'
    <3> SUFFICES ASSUME NEW i \in JobIds, Single(i)
                 PROVE  /\ job'[i] = "none" => \A n \in Numbers : letters[i][n] = None
                        /\ \A q \in Processes : pr'[q].pc # "idle" /\ pr'[q].job = i =>
                             /\ OwnFits(pr'[q], job'[i], letters[i])
                             /\ \A o \in Processes : o # q /\ pr'[o].pc # "idle" =>
                                                       pr'[o].job # i
      BY <1>2 DEF LetterInv, Single
    <3>1. /\ job[i] = "none" => \A n \in Numbers : letters[i][n] = None
          /\ \A q \in Processes : pr[q].pc # "idle" /\ pr[q].job = i =>
               /\ OwnFits(pr[q], job[i], letters[i])
               /\ \A o \in Processes : o # q /\ pr[o].pc # "idle" => pr[o].job # i
      BY DEF SyncInv, LetterInv
    <3>2. \A q \in Processes : pr'[q].pc # "idle" =>
            pr[q].pc # "idle" /\ pr'[q].job = pr[q].job
      BY <1>1, <2>3, <2>7
    <3>3. CASE i = r.job
      <4>1. /\ OwnFits(r, job[i], letters[i])
            /\ \A o \in Processes : o # p /\ pr[o].pc # "idle" => pr[o].job # i
        BY <1>1, <3>1, <3>3
      <4>2. OwnFits(x, job'[i], letters[i])
        BY <2>3, <2>5, <3>3, <4>1 DEF OwnFits
      <4>3. ASSUME NEW q \in Processes, pr'[q].pc # "idle", pr'[q].job = i
            PROVE  q = p
        BY <3>2, <4>1, <4>3
      <4> QED
        BY <2>5, <2>7, <3>3, <4>2, <4>3
    <3>4. CASE i # r.job
      <4>1. job'[i] = job[i]
        BY <2>5, <3>4
      <4>2. \A q \in Processes : pr'[q].job = i => pr'[q] = pr[q]
        BY <2>3, <2>7, <3>4
      <4> QED
        BY <3>1, <3>2, <4>1, <4>2
    <3> QED
      BY <3>3, <3>4
  <2>9. RunFits(x, offers', prices', recorded', Over')
    BY <2>3 DEF RunFits, Paging, Holding
  <2>10. CursorCovered' /\ PassedKept'
    BY <1>2 DEF SyncInv, CursorCovered, PassedKept
  <2> QED
    BY <1>2, <1>3, <2>2, <2>4, <2>6, <2>8, <2>9, <2>10, OneMoves
<1> QED
  BY <1>1, <1>4, <1>5

\* An incremental run starts where the stored cursor ends.
LEMMA ReadCheckpointKeeps ==
  ASSUME SyncInv, NEW p \in Processes, ReadCheckpoint(p)
  PROVE  SyncInv'
<1> DEFINE r == pr[p]
           from == IF mode_of(r.job) = "full" \/ checkpoint = None THEN 0 ELSE checkpoint
           x == [r EXCEPT !.pc = "fetch", !.from = from]
<1>1. /\ r.pc = "checkpoint" /\ UNCHANGED <<rows, doubled, bounds>>
      /\ pr' = [pr EXCEPT ![p].pc = "fetch", ![p].from = from]
  BY DEF ReadCheckpoint
<1>2. r \in Run /\ pr \in [Processes -> Run] /\ Records \in Nat
  BY Facts
<1>3. from \in 0..Records /\ 1..from \subseteq Over
  <2>1. checkpoint \in {None} \cup 0..Records /\ (checkpoint # None => 1..checkpoint \subseteq Over)
    BY Types DEF RowTypes, SyncInv, CursorCovered
  <2>2. 0 \in 0..Records /\ 1..0 = {}
    BY <1>2
  <2> QED
    BY <2>1, <2>2
<1> HIDE DEF from
<1>4. x \in Run
  BY <1>2, <1>3, Zenon DEF Run, Steps
<1>5. x.pc = "fetch" /\ x.job = r.job /\ x.failed = r.failed /\ x.from = from
  BY <1>2 DEF Run
<1>6. pr' = [pr EXCEPT ![p] = x]
  BY <1>1, <1>2
<1> HIDE DEF x
<1>7. RunFits(x, offers, prices, recorded, Over)
  BY <1>3, <1>5 DEF RunFits, Paging, Holding
<1>8. /\ faults' \in 0..MaxFaults /\ UNCHANGED <<rows, doubled, runs, crashes>>
  BY <1>1, Types DEF RowTypes, bounds
<1>9. \A o \in offers : Pending(r, o) => Pending(x, o)
  BY <1>1 DEF Pending
<1> QED
  BY <1>1, <1>4, <1>5, <1>6, <1>7, <1>8, <1>9, PlainMoves

-----------------------------------------------------------------------------
(* The fetch loop *)

LEMMA CursorType ==
  ASSUME NEW from \in 0..Records
  PROVE  /\ next_cursor(from) \in {None} \cup 0..Records
         /\ slice(from) \subseteq Offers
         /\ next_cursor(from) # None =>
              1..next_cursor(from) \subseteq (1..from) \cup slice(from)
<1>1. Records \in Nat /\ Limit \in Nat
  BY SyncAssumption
<1>2. slice(from) \subseteq Offers
  BY DEF slice
<1>3. CASE from + Limit < Records
  <2>1. next_cursor(from) = from + Limit /\ from + Limit \in 0..Records
    BY <1>1, <1>3 DEF next_cursor
  <2>2. ASSUME NEW o \in 1..(from + Limit) PROVE o \in (1..from) \cup slice(from)
    BY <1>1, <1>3, <2>2 DEF slice, Offers
  <2> QED
    BY <1>2, <2>1, <2>2
<1>4. CASE ~ (from + Limit < Records)
  BY <1>2, <1>4 DEF next_cursor
<1> QED
  BY <1>3, <1>4

\* The whole page of the query is on the run's list.
LEMMA FetchKeeps ==
  ASSUME SyncInv, NEW p \in Processes, Fetch(p)
  PROVE  SyncInv'
<1> DEFINE r == pr[p]
           todo == slice(r.from) \cap r.query
           cursor == next_cursor(r.from)
           attempt == counted(r.attempt)
           x == [r EXCEPT !.pc = "read", !.attempt = attempt, !.todo = todo, !.cursor = cursor]
<1>1. /\ r.pc = "fetch" /\ UNCHANGED <<rows, doubled, bounds>>
      /\ pr' = [pr EXCEPT ![p].pc = "read", ![p].attempt = attempt, ![p].todo = todo,
                          ![p].cursor = cursor]
  BY DEF Fetch
<1>2. r \in Run /\ pr \in [Processes -> Run] /\ r.attempt \in Nat
  BY Facts
<1>3. attempt \in Nat /\ todo \subseteq Offers /\ cursor \in {None} \cup 0..Records
  BY <1>2, Facts, CursorType DEF counted
<1> HIDE DEF attempt
<1>4. x \in Run
  <2> HIDE DEF todo, cursor
  <2>1. todo \in SUBSET Offers
    BY <1>3
  <2> QED
    BY <1>2, <1>3, <2>1, Zenon DEF Run, Steps
<1>5. /\ x.pc = "read" /\ x.job = r.job /\ x.failed = r.failed /\ x.from = r.from
      /\ x.query = r.query /\ x.todo = todo /\ x.cursor = cursor
  BY <1>2 DEF Run
<1>6. pr' = [pr EXCEPT ![p] = x]
  BY <1>1, <1>2
<1> HIDE DEF x
<1>7. RunFits(x, offers, prices, recorded, Over)
  <2>1. 1..r.from \subseteq Over
    BY <1>1, Facts DEF RunFits
  <2>2. page(x) = x.todo
    BY <1>5 DEF page
  <2> QED
    BY <1>5, <2>1, <2>2 DEF RunFits, Holding
<1>8. /\ faults' \in 0..MaxFaults /\ UNCHANGED <<rows, doubled, runs, crashes>>
  BY <1>1, Types DEF RowTypes, bounds
<1>9. \A o \in offers : Pending(r, o) => Pending(x, o)
  BY <1>1 DEF Pending
<1> QED
  BY <1>1, <1>4, <1>5, <1>6, <1>7, <1>8, <1>9, PlainMoves

LEMMA FetchFailsKeeps ==
  ASSUME SyncInv, NEW p \in Processes, NEW retryable \in BOOLEAN, FetchFails(p, retryable)
  PROVE  SyncInv'
<1> DEFINE r == pr[p]
           attempt == counted(r.attempt)
           pc == IF should_retry(attempt, retryable) THEN "fetch" ELSE "failing"
           x == [r EXCEPT !.attempt = attempt, !.pc = pc]
<1>1. /\ r.pc = "fetch" /\ UNCHANGED <<rows, doubled, bounds>>
      /\ pr' = [pr EXCEPT ![p].attempt = attempt, ![p].pc = pc]
  BY DEF FetchFails
<1>2. r \in Run /\ pr \in [Processes -> Run] /\ r.attempt \in Nat
  BY Facts
<1>3. attempt \in Nat /\ pc \in {"fetch", "failing"}
  BY <1>2 DEF counted
<1> HIDE DEF attempt, pc
<1>4. pc \in Steps
  BY <1>3 DEF Steps
<1>5. x \in Run
  BY <1>2, <1>3, <1>4, Zenon DEF Run
<1>6. x.pc = pc /\ x.job = r.job /\ x.failed = r.failed /\ x.from = r.from
  BY <1>2 DEF Run
<1>7. pr' = [pr EXCEPT ![p] = x]
  BY <1>1, <1>2
<1> HIDE DEF x
<1>8. RunFits(x, offers, prices, recorded, Over)
  <2>1. 1..r.from \subseteq Over
    BY <1>1, Facts DEF RunFits
  <2> QED
    BY <1>3, <1>6, <2>1 DEF RunFits, Paging, Holding
<1>9. /\ faults' \in 0..MaxFaults /\ UNCHANGED <<rows, doubled, runs, crashes>>
  BY <1>1, Types DEF RowTypes, bounds
<1>10. \A o \in offers : Pending(r, o) => Pending(x, o)
  BY <1>1 DEF Pending
<1> QED
  BY <1>1, <1>3, <1>5, <1>6, <1>7, <1>8, <1>9, <1>10, PlainMoves

LEMMA ReadHealthKeeps ==
  ASSUME SyncInv, NEW p \in Processes, ReadHealth(p)
  PROVE  SyncInv'
<1> DEFINE r == pr[p]
           pc == IF r.pc = "failing" THEN "unhealthy"
                 ELSE IF r.todo = {} THEN "cursor" ELSE "find"
           x == [r EXCEPT !.streak = health.streak, !.succeeded = health.succeeded, !.pc = pc]
<1>1. /\ r.pc \in {"failing", "read"} /\ UNCHANGED <<rows, doubled, bounds>>
      /\ pr' = [pr EXCEPT ![p].streak = health.streak, ![p].succeeded = health.succeeded,
           ![p].pc = IF @ = "failing" THEN "unhealthy"
                     ELSE IF pr[p].todo = {} THEN "cursor" ELSE "find"]
  BY DEF ReadHealth
<1>2. r \in Run /\ pr \in [Processes -> Run]
  BY Facts
<1>3. health.streak \in Nat /\ health.succeeded \in BOOLEAN
  BY Types DEF RowTypes, Health
<1>4. pr' = [pr EXCEPT ![p] = x]
  BY <1>1, <1>2
<1>5. /\ pc \in Steps /\ pc \in {"unhealthy", "cursor", "find"}
      /\ pc # "unhealthy" => r.pc = "read"
      /\ pc = "cursor" => r.todo = {}
  BY <1>1 DEF Steps
<1> HIDE DEF pc
<1>6. x \in Run
  BY <1>2, <1>3, <1>5, Zenon DEF Run
<1>7. /\ x.pc = pc /\ x.job = r.job /\ x.failed = r.failed /\ x.from = r.from
      /\ x.query = r.query /\ x.todo = r.todo /\ x.cursor = r.cursor
  BY <1>2 DEF Run
<1> HIDE DEF x
<1>8. RunFits(x, offers, prices, recorded, Over)
  <2>1. CASE pc = "unhealthy"
    BY <1>7, <2>1 DEF RunFits, Paging, Holding
  <2>2. CASE pc # "unhealthy"
    <3>1. r.pc = "read" /\ RunFits(r, offers, prices, recorded, Over)
      BY <1>5, <2>2, Facts
    <3>2. page(x) = page(r) /\ hand(r) = {} /\ hand(x) = {}
      BY <1>5, <1>7, <3>1 DEF page, hand, Holding
    <3> QED
      BY <1>5, <1>7, <3>1, <3>2 DEF RunFits, Paging, Holding
  <2> QED
    BY <2>1, <2>2
<1>9. /\ faults' \in 0..MaxFaults /\ UNCHANGED <<rows, doubled, runs, crashes>>
  BY <1>1, Types DEF RowTypes, bounds
<1>10. \A o \in offers : Pending(r, o) => Pending(x, o)
  BY <1>1 DEF Pending
<1> QED
  BY <1>1, <1>4, <1>5, <1>6, <1>7, <1>8, <1>9, <1>10, PlainMoves

LEMMA SaveUnhealthyKeeps ==
  ASSUME SyncInv, NEW p \in Processes, SaveUnhealthy(p)
  PROVE  SyncInv'
<1> DEFINE r == pr[p]
           x == [r EXCEPT !.pc = "final", !.status = "failed"]
<1>1. /\ r.pc = "unhealthy"
      /\ health' = [status |-> "unavailable", succeeded |-> r.succeeded,
                    streak |-> r.streak + 1]
      /\ pr' = [pr EXCEPT ![p].pc = "final", ![p].status = "failed"]
      /\ UNCHANGED <<job, checkpoint, stored_offers, letters, seen, recorded, doubled, bounds>>
  BY DEF SaveUnhealthy
<1>2. r \in Run /\ pr \in [Processes -> Run] /\ r.streak \in Nat /\ r.succeeded \in BOOLEAN
  BY Facts
<1>3. health' \in Health
  BY <1>1, <1>2 DEF Health
<1>4. x \in Run
  BY <1>2, Zenon DEF Run, Steps, JobStatuses, FinalStatuses
<1>5. x.pc = "final" /\ x.job = r.job /\ x.failed = r.failed /\ x.status = "failed"
  BY <1>2 DEF Run
<1>6. pr' = [pr EXCEPT ![p] = x]
  BY <1>1, <1>2
<1> HIDE DEF x
<1>7. RunFits(x, offers, prices, recorded, Over)
  BY <1>5 DEF RunFits, Paging, Holding, FinalStatuses
<1>8. /\ faults' \in 0..MaxFaults /\ crashes' \in 0..MaxCrashes /\ crashes' = crashes
      /\ UNCHANGED <<job, checkpoint, stored_offers, letters, seen, recorded, doubled, runs>>
  BY <1>1, Types DEF RowTypes, bounds
<1>9. \A o \in offers : Pending(r, o) => Pending(x, o)
  BY <1>1 DEF Pending
<1> QED
  BY <1>1, <1>3, <1>4, <1>5, <1>6, <1>7, <1>8, <1>9, RunMoves

-----------------------------------------------------------------------------
(* The records *)

\* Taking up an offer and being done with one keep what the run owes.
LEMMA TakenUp ==
  ASSUME NEW r \in Run, NEW o \in r.todo, NEW pc \in Steps
  PROVE  /\ taken_up(r, o, pc) \in Run /\ o \in Offers
         /\ taken_up(r, o, pc).pc = pc /\ taken_up(r, o, pc).offer = o
         /\ taken_up(r, o, pc).todo = r.todo \ {o}
         /\ taken_up(r, o, pc).job = r.job /\ taken_up(r, o, pc).failed = r.failed
         /\ taken_up(r, o, pc).from = r.from /\ taken_up(r, o, pc).query = r.query
         /\ taken_up(r, o, pc).cursor = r.cursor /\ taken_up(r, o, pc).written = r.written
<1>1. r.todo \subseteq Offers /\ o \in Offers
  BY DEF Run
<1>2. r.todo \ {o} \in SUBSET Offers /\ o \in Offers \cup {None}
  BY <1>1
<1>3. taken_up(r, o, pc) \in Run
  BY <1>2, Zenon DEF Run, taken_up
<1> QED
  BY <1>1, <1>3 DEF Run, taken_up

LEMMA NextRecord ==
  ASSUME NEW r \in Run
  PROVE  /\ next_record(r) \in Run
         /\ next_record(r).pc = (IF r.todo = {} THEN "cursor" ELSE "find")
         /\ next_record(r).todo = r.todo
         /\ next_record(r).job = r.job /\ next_record(r).failed = r.failed
         /\ next_record(r).from = r.from /\ next_record(r).query = r.query
         /\ next_record(r).cursor = r.cursor /\ next_record(r).written = r.written
<1> DEFINE pc == IF r.todo = {} THEN "cursor" ELSE "find"
<1>1. next_record(r) = [r EXCEPT !.offer = None, !.pc = pc]
  BY DEF next_record
<1>2. pc \in Steps /\ None \in Offers \cup {None}
  BY DEF Steps
<1> HIDE DEF pc
<1>3. next_record(r) \in Run
  BY <1>1, <1>2, Zenon DEF Run
<1>4. /\ next_record(r).pc = pc /\ next_record(r).todo = r.todo
      /\ next_record(r).job = r.job /\ next_record(r).failed = r.failed
      /\ next_record(r).from = r.from /\ next_record(r).query = r.query
      /\ next_record(r).cursor = r.cursor /\ next_record(r).written = r.written
  BY <1>1 DEF Run
<1> QED
  BY <1>3, <1>4 DEF pc

\* A run that is done with offer o, which is stored or recorded by now.
LEMMA DoneFits ==
  ASSUME NEW r, NEW x, NEW o, NEW os, NEW ps, NEW rec, NEW ov,
         1..r.from \subseteq ov, r.cursor = next_cursor(r.from),
         page(r) \subseteq os \cup rec \cup r.todo \cup {o}, o \in os \cup rec,
         x.pc = (IF x.todo = {} THEN "cursor" ELSE "find"),
         x.from = r.from, x.query = r.query, x.cursor = r.cursor, r.todo \subseteq x.todo \cup {o}
  PROVE  RunFits(x, os, ps, rec, ov)
<1>1. page(x) = page(r)
  BY DEF page
<1>2. page(x) \subseteq os \cup rec \cup x.todo
  BY <1>1
<1> QED
  BY <1>2 DEF RunFits, Paging, Holding

\* A run that took up offer o of its list.
LEMMA HeldFits ==
  ASSUME NEW r, NEW x, NEW o \in Offers, NEW os, NEW ps, NEW rec, NEW ov,
         r.pc = "find", RunFits(r, os, ps, rec, ov), x.pc \in {"letter", "offer"},
         x.offer = o, x.todo = r.todo \ {o},
         x.from = r.from, x.query = r.query, x.cursor = r.cursor
  PROVE  RunFits(x, os, ps, rec, ov)
<1>1. page(x) = page(r) /\ hand(x) = {o} /\ hand(r) = {}
  BY DEF page, hand, Holding
<1>2. page(r) \subseteq os \cup rec \cup r.todo \cup hand(r)
  BY DEF RunFits, Paging
<1>3. page(x) \subseteq os \cup rec \cup x.todo \cup hand(x)
  BY <1>1, <1>2
<1> QED
  BY <1>3 DEF RunFits, Paging, Holding

LEMMA FindOfferKeeps ==
  ASSUME SyncInv, NEW p \in Processes, FindOffer(p)
  PROVE  SyncInv'
<1> DEFINE r == pr[p]
<1>1. r \in Run /\ pr \in [Processes -> Run] /\ RunFits(r, offers, prices, recorded, Over)
  BY Facts
<1>2. PICK o \in r.todo :
        pr' = [pr EXCEPT ![p] =
            IF o \in offers THEN next_record(taken_up(@, o, "find"))
            ELSE taken_up(@, o, IF o \in Malformed THEN "letter" ELSE "offer")]
  BY DEF FindOffer
<1>3. r.pc = "find" /\ UNCHANGED <<rows, doubled, bounds>>
  BY DEF FindOffer
<1>4. /\ faults' \in 0..MaxFaults /\ UNCHANGED <<rows, doubled, runs, crashes>>
  BY <1>3, Types DEF RowTypes, bounds
<1>5. \A i \in offers : ~ Pending(r, i)
  BY <1>3 DEF Pending
<1>6. CASE o \in offers
  <2> DEFINE y == taken_up(r, o, "find")
             x == next_record(y)
  <2>1. /\ y \in Run /\ y.todo = r.todo \ {o} /\ y.job = r.job /\ y.failed = r.failed
        /\ y.from = r.from /\ y.query = r.query /\ y.cursor = r.cursor
    BY <1>1, TakenUp DEF Steps
  <2>2. pr' = [pr EXCEPT ![p] = x]
    BY <1>1, <1>2, <1>6
  <2> HIDE DEF y
  <2>3. /\ x \in Run /\ x.pc = (IF y.todo = {} THEN "cursor" ELSE "find") /\ x.todo = y.todo
        /\ x.job = y.job /\ x.failed = y.failed /\ x.from = y.from /\ x.query = y.query
        /\ x.cursor = y.cursor
    BY <2>1, NextRecord
  <2> HIDE DEF x
  <2>4. /\ 1..r.from \subseteq Over /\ r.cursor = next_cursor(r.from)
        /\ page(r) \subseteq offers \cup recorded \cup r.todo \cup {o}
    BY <1>1, <1>3 DEF RunFits, Paging, hand, Holding
  <2>5. RunFits(x, offers, prices, recorded, Over)
    BY <1>6, <2>1, <2>3, <2>4, DoneFits
  <2>6. x.pc \notin {"idle", "job"}
    BY <2>3
  <2> QED
    BY <1>3, <1>4, <1>5, <2>1, <2>2, <2>3, <2>5, <2>6, PlainMoves
<1>7. CASE o \notin offers
  <2> DEFINE pc == IF o \in Malformed THEN "letter" ELSE "offer"
             x == taken_up(r, o, pc)
  <2>1. pc \in Steps /\ pc \in {"letter", "offer"}
    BY DEF Steps
  <2>2. pr' = [pr EXCEPT ![p] = x]
    BY <1>1, <1>2, <1>7
  <2> HIDE DEF pc
  <2>3. /\ x \in Run /\ o \in Offers /\ x.pc = pc /\ x.offer = o /\ x.todo = r.todo \ {o}
        /\ x.job = r.job /\ x.failed = r.failed /\ x.from = r.from /\ x.query = r.query
        /\ x.cursor = r.cursor
    BY <1>1, <2>1, TakenUp
  <2> HIDE DEF x
  <2>4. RunFits(x, offers, prices, recorded, Over)
    BY <1>1, <1>3, <2>1, <2>3, HeldFits
  <2> QED
    BY <1>3, <1>4, <1>5, <2>1, <2>2, <2>3, <2>4, PlainMoves
<1> QED
  BY <1>6, <1>7

\* A run in the midst of an offer that has gone on to step x.pc.
LEMMA HandFits ==
  ASSUME NEW r, NEW x, NEW os, NEW os2, NEW ps, NEW ps2, NEW rec, NEW ov,
         RunFits(r, os, ps, rec, ov), os \subseteq os2, ps \subseteq ps2,
         r.pc \in Holding, x.pc \in Holding,
         x.pc \in {"price", "inventory"} => r.offer \in os2,
         x.pc = "inventory" => r.offer \in ps2,
         x.offer = r.offer, x.todo = r.todo, x.from = r.from, x.query = r.query,
         x.cursor = r.cursor
  PROVE  RunFits(x, os2, ps2, rec, ov)
<1>1. page(x) = page(r) /\ hand(x) = hand(r)
  BY DEF page, hand
<1> QED
  BY <1>1 DEF RunFits, Paging, Holding

LEMMA SaveOfferKeeps ==
  ASSUME SyncInv, NEW p \in Processes, SaveOffer(p)
  PROVE  SyncInv'
<1> DEFINE r == pr[p]
           x == [r EXCEPT !.pc = "price"]
<1>1. /\ r.pc = "offer" /\ offers' = offers \cup {r.offer} /\ pr' = [pr EXCEPT ![p].pc = "price"]
      /\ UNCHANGED <<job, checkpoint, health, prices, inventory, letters, seen, recorded,
                     doubled, bounds>>
  BY DEF SaveOffer
<1>2. /\ job' = job /\ checkpoint' = checkpoint /\ health' = health /\ prices' = prices
      /\ inventory' = inventory /\ letters' = letters /\ runs' = runs /\ faults' = faults
      /\ crashes' = crashes /\ passed' = passed /\ filtered' = filtered
      /\ recorded' = recorded /\ doubled' = doubled /\ Over' = Over
  BY <1>1 DEF seen, bounds, Over
<1>3. /\ r \in Run /\ pr \in [Processes -> Run] /\ RunFits(r, offers, prices, recorded, Over)
      /\ r.offer \in Offers
  BY <1>1, Facts DEF RunFits, Holding
<1>4. x \in Run
  BY <1>3, Zenon DEF Run, Steps
<1>5. /\ x.pc = "price" /\ x.job = r.job /\ x.failed = r.failed /\ x.from = r.from
      /\ x.query = r.query /\ x.todo = r.todo /\ x.cursor = r.cursor /\ x.offer = r.offer
  BY <1>3 DEF Run
<1>6. pr' = [pr EXCEPT ![p] = x]
  BY <1>1, <1>3
<1> HIDE DEF x
<1>7. RowTypes'
  BY <1>1, <1>2, <1>3, Types DEF RowTypes
<1>8. RunFits(x, offers', prices, recorded, Over)
  BY <1>1, <1>3, <1>5, HandFits DEF Holding
<1>9. RunFits(x, offers', prices', recorded', Over')
  BY <1>2, <1>8
<1>10. LetterInv'
  BY <1>1, <1>2, <1>5, <1>6, LettersFrame
<1>11. CursorCovered' /\ PassedKept'
  BY <1>1, <1>2 DEF SyncInv, CursorCovered, PassedKept
<1>12. /\ \A o \in offers' : o \in offers \/ Pending(x, o)
       /\ \A o \in offers : ~ Pending(r, o)
  BY <1>1, <1>5 DEF Pending
<1> QED
  BY <1>1, <1>2, <1>4, <1>6, <1>7, <1>9, <1>10, <1>11, <1>12, OneMoves

LEMMA SavePriceKeeps ==
  ASSUME SyncInv, NEW p \in Processes, SavePrice(p)
  PROVE  SyncInv'
<1> DEFINE r == pr[p]
           x == [r EXCEPT !.pc = "inventory"]
<1>1. /\ r.pc = "price" /\ prices' = prices \cup {r.offer}
      /\ pr' = [pr EXCEPT ![p].pc = "inventory"]
      /\ UNCHANGED <<job, checkpoint, health, offers, inventory, letters, seen, recorded,
                     doubled, bounds>>
  BY DEF SavePrice
<1>2. /\ job' = job /\ checkpoint' = checkpoint /\ health' = health /\ offers' = offers
      /\ inventory' = inventory /\ letters' = letters /\ runs' = runs /\ faults' = faults
      /\ crashes' = crashes /\ passed' = passed /\ filtered' = filtered
      /\ recorded' = recorded /\ doubled' = doubled /\ Over' = Over
  BY <1>1 DEF seen, bounds, Over
<1>3. /\ r \in Run /\ pr \in [Processes -> Run] /\ RunFits(r, offers, prices, recorded, Over)
      /\ r.offer \in Offers /\ r.offer \in offers
  BY <1>1, Facts DEF RunFits, Holding
<1>4. x \in Run
  BY <1>3, Zenon DEF Run, Steps
<1>5. /\ x.pc = "inventory" /\ x.job = r.job /\ x.failed = r.failed /\ x.from = r.from
      /\ x.query = r.query /\ x.todo = r.todo /\ x.cursor = r.cursor /\ x.offer = r.offer
  BY <1>3 DEF Run
<1>6. pr' = [pr EXCEPT ![p] = x]
  BY <1>1, <1>3
<1> HIDE DEF x
<1>7. RowTypes'
  BY <1>1, <1>2, <1>3, Types DEF RowTypes
<1>8. RunFits(x, offers, prices', recorded, Over)
  BY <1>1, <1>3, <1>5, HandFits DEF Holding
<1>9. RunFits(x, offers', prices', recorded', Over')
  BY <1>2, <1>8
<1>10. LetterInv'
  BY <1>1, <1>2, <1>5, <1>6, LettersFrame
<1>11. CursorCovered' /\ PassedKept'
  BY <1>2 DEF SyncInv, CursorCovered, PassedKept
<1>12. \A o \in offers : Pending(r, o) => Pending(x, o)
  BY <1>5 DEF Pending
<1> QED
  BY <1>1, <1>2, <1>4, <1>6, <1>7, <1>9, <1>10, <1>11, <1>12, OneMoves

\* What a run past its offer owes.
LEMMA HeldPage ==
  ASSUME SyncInv, NEW p \in Processes, pr[p].pc \in Holding
  PROVE  /\ 1..pr[p].from \subseteq Over /\ pr[p].cursor = next_cursor(pr[p].from)
         /\ page(pr[p]) \subseteq offers \cup recorded \cup pr[p].todo \cup {pr[p].offer}
         /\ pr[p].offer \in Offers
  BY Facts DEF RunFits, Paging, hand

LEMMA SaveInventoryKeeps ==
  ASSUME SyncInv, NEW p \in Processes, SaveInventory(p)
  PROVE  SyncInv'
<1> DEFINE r == pr[p]
           y == next_record(r)
           x == [y EXCEPT !.written = @ + 1]
<1>1. /\ r.pc = "inventory" /\ inventory' = inventory \cup {r.offer}
      /\ pr' = [pr EXCEPT ![p] = x]
      /\ UNCHANGED <<job, checkpoint, health, offers, prices, letters, seen, recorded,
                     doubled, bounds>>
  BY DEF SaveInventory
<1>2. /\ job' = job /\ checkpoint' = checkpoint /\ health' = health /\ offers' = offers
      /\ prices' = prices /\ letters' = letters /\ runs' = runs /\ faults' = faults
      /\ crashes' = crashes /\ passed' = passed /\ filtered' = filtered
      /\ recorded' = recorded /\ doubled' = doubled /\ Over' = Over
  BY <1>1 DEF seen, bounds, Over
<1>3. /\ r \in Run /\ pr \in [Processes -> Run] /\ r.written \in Nat
      /\ r.offer \in offers /\ r.offer \in prices /\ r.offer \in Offers
  BY <1>1, Facts DEF RunFits, Holding
<1>4. /\ y \in Run /\ y.pc = (IF r.todo = {} THEN "cursor" ELSE "find") /\ y.todo = r.todo
      /\ y.job = r.job /\ y.failed = r.failed /\ y.from = r.from /\ y.query = r.query
      /\ y.cursor = r.cursor /\ y.written = r.written
  BY <1>3, NextRecord
<1> HIDE DEF y
<1>5. y.written + 1 \in Nat
  BY <1>3, <1>4
<1>6. x \in Run
  BY <1>4, <1>5, Zenon DEF Run
<1>7. /\ x.pc = y.pc /\ x.todo = y.todo /\ x.job = y.job /\ x.failed = y.failed
      /\ x.from = y.from /\ x.query = y.query /\ x.cursor = y.cursor
  BY <1>4 DEF Run
<1> HIDE DEF x
<1>8. RowTypes'
  BY <1>1, <1>2, <1>3, Types DEF RowTypes
<1>9. /\ 1..r.from \subseteq Over /\ r.cursor = next_cursor(r.from)
      /\ page(r) \subseteq offers \cup recorded \cup r.todo \cup {r.offer}
  BY <1>1, HeldPage DEF Holding
<1>10. RunFits(x, offers, prices, recorded, Over)
  BY <1>3, <1>4, <1>7, <1>9, DoneFits
<1>11. RunFits(x, offers', prices', recorded', Over')
  BY <1>2, <1>10
<1>12. LetterInv'
  BY <1>1, <1>2, <1>4, <1>7, LettersFrame
<1>13. CursorCovered' /\ PassedKept'
  BY <1>2 DEF SyncInv, CursorCovered, PassedKept
<1>14. \A o \in offers : Pending(r, o) => o \in prices' \cap inventory'
  BY <1>1, <1>2, <1>3 DEF Pending
<1> QED
  BY <1>1, <1>2, <1>6, <1>8, <1>11, <1>12, <1>13, <1>14, OneMoves

\* The offer in the run's hand goes to the dead letters.
LEMMA RecordFailsKeeps ==
  ASSUME SyncInv, NEW p \in Processes, RecordFails(p)
  PROVE  SyncInv'
<1> DEFINE r == pr[p]
<1>1. /\ faults < MaxFaults /\ faults' = faults + 1 /\ UNCHANGED <<rows, doubled, runs, crashes>>
      /\ \/ /\ r.pc = "find"
            /\ \E o \in r.todo : pr' = [pr EXCEPT ![p] = after_failure(taken_up(@, o, "find"))]
         \/ /\ r.pc \in {"offer", "price", "inventory"}
            /\ pr' = [pr EXCEPT ![p] = after_failure(@)]
  BY DEF RecordFails
<1>2. r \in Run /\ pr \in [Processes -> Run] /\ RunFits(r, offers, prices, recorded, Over)
  BY Facts
<1>3. faults' \in 0..MaxFaults
  BY <1>1, Types, SyncAssumption DEF RowTypes
<1>4. ASSUME NEW y \in Run
      PROVE  /\ after_failure(y) \in Run /\ after_failure(y).pc = "letter"
             /\ after_failure(y).todo = y.todo /\ after_failure(y).offer = y.offer
             /\ after_failure(y).job = y.job /\ after_failure(y).failed = y.failed
             /\ after_failure(y).from = y.from /\ after_failure(y).query = y.query
             /\ after_failure(y).cursor = y.cursor
  <2>1. after_failure(y) \in Run
    BY Zenon DEF Run, Steps, after_failure
  <2> QED
    BY <2>1 DEF Run, after_failure
<1>5. ASSUME r.pc = "find", NEW o \in r.todo,
             pr' = [pr EXCEPT ![p] = after_failure(taken_up(@, o, "find"))]
      PROVE  SyncInv'
  <2> DEFINE y == taken_up(r, o, "find")
             x == after_failure(y)
  <2>1. /\ y \in Run /\ o \in Offers /\ y.todo = r.todo \ {o} /\ y.offer = o /\ y.job = r.job
        /\ y.failed = r.failed /\ y.from = r.from /\ y.query = r.query /\ y.cursor = r.cursor
    BY <1>2, TakenUp DEF Steps
  <2>2. pr' = [pr EXCEPT ![p] = x]
    BY <1>2, <1>5
  <2> HIDE DEF y
  <2>3. /\ x \in Run /\ x.pc = "letter" /\ x.todo = y.todo /\ x.offer = y.offer
        /\ x.job = y.job /\ x.failed = y.failed /\ x.from = y.from /\ x.query = y.query
        /\ x.cursor = y.cursor
    BY <1>4, <2>1
  <2> HIDE DEF x
  <2>4. RunFits(x, offers, prices, recorded, Over)
    BY <1>2, <1>5, <2>1, <2>3, HeldFits
  <2>5. \A i \in offers : ~ Pending(r, i)
    BY <1>5 DEF Pending
  <2> QED
    BY <1>1, <1>3, <1>5, <2>1, <2>2, <2>3, <2>4, <2>5, PlainMoves
<1>6. ASSUME r.pc \in {"offer", "price", "inventory"},
             pr' = [pr EXCEPT ![p] = after_failure(@)]
      PROVE  SyncInv'
  <2> DEFINE x == after_failure(r)
  <2>1. pr' = [pr EXCEPT ![p] = x]
    BY <1>2, <1>6
  <2>2. /\ x \in Run /\ x.pc = "letter" /\ x.todo = r.todo /\ x.offer = r.offer
        /\ x.job = r.job /\ x.failed = r.failed /\ x.from = r.from /\ x.query = r.query
        /\ x.cursor = r.cursor
    BY <1>2, <1>4
  <2> HIDE DEF x
  <2>3. RunFits(x, offers, prices, recorded, Over)
    BY <1>2, <1>6, <2>2, HandFits DEF Holding
  <2>4. \A i \in offers : Pending(r, i) => Pending(x, i)
    BY <2>2 DEF Pending
  <2> QED
    BY <1>1, <1>3, <1>6, <2>1, <2>2, <2>3, <2>4, PlainMoves
<1> QED
  BY <1>1, <1>5, <1>6

\* A dead letter takes a number its run has not used.
LEMMA SaveDeadLetterKeeps ==
  ASSUME SyncInv, NEW p \in Processes, SaveDeadLetter(p)
  PROVE  SyncInv'
<1> DEFINE r == pr[p]
           n == r.failed + 1
           y == next_record(r)
           x == [y EXCEPT !.failed = n]
<1>1. /\ r.pc = "letter" /\ letters' = [letters EXCEPT ![r.job][n] = r.offer]
      /\ recorded' = recorded \cup {r.offer} /\ pr' = [pr EXCEPT ![p] = x]
      /\ UNCHANGED <<job, checkpoint, health, stored_offers, seen, doubled, bounds>>
  BY DEF SaveDeadLetter
<1>2. /\ job' = job /\ checkpoint' = checkpoint /\ health' = health /\ offers' = offers
      /\ prices' = prices /\ inventory' = inventory /\ runs' = runs /\ faults' = faults
      /\ crashes' = crashes /\ passed' = passed /\ filtered' = filtered
      /\ doubled' = doubled /\ Over' = Over
  BY <1>1 DEF stored_offers, seen, bounds, Over
<1>3. /\ r \in Run /\ pr \in [Processes -> Run] /\ r.failed \in Nat /\ r.job \in JobIds
      /\ r.offer \in Offers
  BY <1>1, Facts DEF RunFits, Holding
<1>4. /\ y \in Run /\ y.pc = (IF r.todo = {} THEN "cursor" ELSE "find") /\ y.todo = r.todo
      /\ y.job = r.job /\ y.from = r.from /\ y.query = r.query /\ y.cursor = r.cursor
  BY <1>3, NextRecord
<1>5. n \in Nat /\ n > r.failed
  BY <1>3
<1> HIDE DEF y, n
<1>6. x \in Run
  BY <1>4, <1>5, Zenon DEF Run
<1>7. /\ x.pc = y.pc /\ x.todo = y.todo /\ x.job = y.job /\ x.failed = n
      /\ x.from = y.from /\ x.query = y.query /\ x.cursor = y.cursor
  BY <1>4 DEF Run
<1> HIDE DEF x
<1>8. /\ letters' \in [JobIds -> [Numbers -> Offers \cup {None}]]
      /\ \A j \in JobIds, i \in Numbers :
           letters'[j][i] = IF j = r.job /\ i = n THEN r.offer ELSE letters[j][i]
  BY <1>1, <1>3, Types DEF RowTypes
<1>9. RowTypes'
  BY <1>1, <1>2, <1>3, <1>8, Types DEF RowTypes
<1>10. /\ 1..r.from \subseteq Over /\ r.cursor = next_cursor(r.from)
       /\ page(r) \subseteq offers \cup recorded' \cup r.todo \cup {r.offer}
       /\ r.offer \in offers \cup recorded'
  BY <1>1, HeldPage DEF Holding
<1>11. RunFits(x, offers, prices, recorded', Over)
  BY <1>4, <1>7, <1>10, DoneFits
<1>12. RunFits(x, offers', prices', recorded', Over')
  BY <1>2, <1>11
<1>13. \A q \in Processes : pr'[q] = IF q = p THEN x ELSE pr[q]
  BY <1>1, <1>3
<1>14. LetterInv'
  <2> SUFFICES ASSUME NEW j \in JobIds, Single(j)
               PROVE  /\ job[j] = "none" => \A i \in Numbers : letters'[j][i] = None
                      /\ \A q \in Processes : pr'[q].pc # "idle" /\ pr'[q].job = j =>
                           /\ OwnFits(pr'[q], job[j], letters'[j])
                           /\ \A o \in Processes : o # q /\ pr'[o].pc # "idle" =>
                                                     pr'[o].job # j
    BY <1>2 DEF LetterInv, Single
  <2>1. /\ job[j] = "none" => \A i \in Numbers : letters[j][i] = None
        /\ \A q \in Processes : pr[q].pc # "idle" /\ pr[q].job = j =>
             /\ OwnFits(pr[q], job[j], letters[j])
             /\ \A o \in Processes : o # q /\ pr[o].pc # "idle" => pr[o].job # j
    BY DEF SyncInv, LetterInv
  <2>2. \A q \in Processes : pr'[q].pc # "idle" => pr[q].pc # "idle" /\ pr'[q].job = pr[q].job
    BY <1>1, <1>4, <1>7, <1>13
  <2>3. CASE j = r.job
    <3>1. /\ OwnFits(r, job[j], letters[j])
          /\ \A o \in Processes : o # p /\ pr[o].pc # "idle" => pr[o].job # j
      BY <1>1, <2>1, <2>3
    <3>2. job[j] # "none"
      BY <1>1, <3>1 DEF OwnFits
    <3>3. ASSUME NEW i \in Numbers, i > n PROVE letters'[j][i] = None
      <4>1. i \in Nat /\ i # n /\ i > r.failed
        BY <1>3, <1>5, <3>3, SyncAssumption DEF Numbers
      <4> QED
        BY <1>8, <3>1, <4>1 DEF OwnFits
    <3>4. OwnFits(x, job[j], letters'[j])
      BY <1>4, <1>7, <3>2, <3>3 DEF OwnFits
    <3>5. ASSUME NEW q \in Processes, pr'[q].pc # "idle", pr'[q].job = j
          PROVE  q = p
      BY <2>2, <3>1, <3>5
    <3> QED
      BY <1>13, <3>2, <3>4, <3>5
  <2>4. CASE j # r.job
    <3>1. \A i \in Numbers : letters'[j][i] = letters[j][i]
      BY <1>8, <2>4
    <3>2. \A q \in Processes : pr'[q].job = j => pr'[q] = pr[q]
      BY <1>4, <1>7, <1>13, <2>4
    <3>3. \A q \in Processes : pr'[q].pc # "idle" /\ pr'[q].job = j =>
            OwnFits(pr'[q], job[j], letters'[j])
      BY <2>1, <3>1, <3>2 DEF OwnFits
    <3> QED
      BY <2>1, <2>2, <3>1, <3>2, <3>3
  <2> QED
    BY <2>3, <2>4
<1>15. CursorCovered' /\ PassedKept'
  BY <1>1, <1>2 DEF SyncInv, CursorCovered, PassedKept
<1>16. \A o \in offers : Pending(r, o) => o \in recorded'
  BY <1>1 DEF Pending
<1> QED
  BY <1>1, <1>2, <1>6, <1>9, <1>12, <1>14, <1>15, <1>16, OneMoves

-----------------------------------------------------------------------------
(* The end of a run *)

\* When the cursor is saved nothing of the page is left on the run's list, and
\* the cursor ends where the page does.
LEMMA SaveCheckpointKeeps ==
  ASSUME SyncInv, NEW p \in Processes, SaveCheckpoint(p)
  PROVE  SyncInv'
<1> DEFINE r == pr[p]
           x == [r EXCEPT !.pc = "health"]
<1>1. /\ r.pc = "cursor" /\ pr' = [pr EXCEPT ![p].pc = "health"]
      /\ checkpoint' = IF r.cursor = None THEN checkpoint ELSE r.cursor
      /\ passed' = passed \cup page(r)
      /\ filtered' = IF r.cursor = None THEN filtered
                     ELSE filtered \cup (slice(r.from) \ r.query)
      /\ UNCHANGED <<job, health, stored_offers, letters, recorded, doubled, bounds>>
  BY DEF SaveCheckpoint, page
<1>2. /\ job' = job /\ health' = health /\ offers' = offers /\ prices' = prices
      /\ inventory' = inventory /\ letters' = letters /\ runs' = runs /\ faults' = faults
      /\ crashes' = crashes /\ recorded' = recorded /\ doubled' = doubled
  BY <1>1 DEF stored_offers, bounds
<1>3. /\ r \in Run /\ pr \in [Processes -> Run] /\ r.from \in 0..Records
      /\ r.cursor \in {None} \cup 0..Records /\ RunFits(r, offers, prices, recorded, Over)
  BY Facts
<1>4. /\ 1..r.from \subseteq Over /\ r.cursor = next_cursor(r.from)
      /\ page(r) \subseteq offers \cup recorded
  BY <1>1, <1>3 DEF RunFits, Paging, hand, Holding
<1>5. /\ slice(r.from) \subseteq Offers
      /\ r.cursor # None => 1..r.cursor \subseteq (1..r.from) \cup slice(r.from)
  BY <1>3, <1>4, CursorType
<1>6. CursorCovered'
  <2>1. Over \subseteq Over'
    BY <1>1 DEF Over
  <2>2. CASE r.cursor = None
    BY <1>1, <2>1, <2>2 DEF SyncInv, CursorCovered
  <2>3. CASE r.cursor # None
    <3>1. slice(r.from) \subseteq Over'
      BY <1>1, <2>3 DEF Over, page
    <3>2. 1..r.cursor \subseteq Over'
      BY <1>4, <1>5, <2>1, <2>3, <3>1
    <3> QED
      BY <1>1, <2>3, <3>2 DEF CursorCovered
  <2> QED
    BY <2>2, <2>3
<1>7. PassedKept'
  BY <1>1, <1>2, <1>4 DEF SyncInv, PassedKept
<1>8. x \in Run
  BY <1>3, Zenon DEF Run, Steps
<1>9. x.pc = "health" /\ x.job = r.job /\ x.failed = r.failed
  BY <1>3 DEF Run
<1>10. pr' = [pr EXCEPT ![p] = x]
  BY <1>1, <1>3
<1> HIDE DEF x
<1>11. RowTypes'
  <2>1. page(r) \subseteq Offers
    BY <1>5 DEF page
  <2>2. /\ checkpoint' \in {None} \cup 0..Records
        /\ passed' \subseteq Offers /\ filtered' \subseteq Offers
    BY <1>1, <1>3, <1>5, <2>1, Types DEF RowTypes
  <2> QED
    BY <1>2, <2>2, Types DEF RowTypes
<1>12. RunFits(x, offers', prices', recorded', Over')
  BY <1>9 DEF RunFits, Paging, Holding
<1>13. LetterInv'
  BY <1>1, <1>2, <1>9, <1>10, LettersFrame
<1>14. \A o \in offers : ~ Pending(r, o)
  BY <1>1 DEF Pending
<1>15. passed \subseteq passed' /\ filtered \subseteq filtered'
  BY <1>1
<1> QED
  BY <1>2, <1>6, <1>7, <1>8, <1>10, <1>11, <1>12, <1>13, <1>14, <1>15, OneMoves

LEMMA SaveHealthKeeps ==
  ASSUME SyncInv, NEW p \in Processes, SaveHealth(p)
  PROVE  SyncInv'
<1> DEFINE r == pr[p]
           st == result_status(r)
           x == [r EXCEPT !.pc = "final", !.status = st]
<1>1. /\ r.pc = "health"
      /\ health' = [status |-> health_status[st], succeeded |-> r.written > 0,
                    streak |-> IF r.written > 0 THEN 0 ELSE r.streak + 1]
      /\ pr' = [pr EXCEPT ![p].pc = "final", ![p].status = st]
      /\ UNCHANGED <<job, checkpoint, stored_offers, letters, seen, recorded, doubled, bounds>>
  BY DEF SaveHealth
<1>2. /\ r \in Run /\ pr \in [Processes -> Run] /\ r.written \in Nat /\ r.streak \in Nat
  BY Facts
<1>3. st \in FinalStatuses /\ st \in JobStatuses
  BY DEF result_status, FinalStatuses, JobStatuses
<1> HIDE DEF st
<1>4. health' \in Health
  <2>1. health_status[st] \in {"unconfigured", "healthy", "degraded", "unavailable"}
    BY <1>3 DEF health_status, FinalStatuses
  <2>2. (r.written > 0) \in BOOLEAN /\ (IF r.written > 0 THEN 0 ELSE r.streak + 1) \in Nat
    BY <1>2
  <2> QED
    BY <1>1, <2>1, <2>2 DEF Health
<1>5. x \in Run
  BY <1>2, <1>3, Zenon DEF Run, Steps
<1>6. /\ x.pc = "final" /\ x.job = r.job /\ x.failed = r.failed /\ x.status = st
  BY <1>2 DEF Run
<1>7. pr' = [pr EXCEPT ![p] = x]
  BY <1>1, <1>2
<1> HIDE DEF x
<1>8. RunFits(x, offers, prices, recorded, Over)
  BY <1>3, <1>6 DEF RunFits, Paging, Holding
<1>9. /\ faults' \in 0..MaxFaults /\ crashes' \in 0..MaxCrashes /\ crashes' = crashes
      /\ UNCHANGED <<job, checkpoint, stored_offers, letters, seen, recorded, doubled, runs>>
  BY <1>1, Types DEF RowTypes, bounds
<1>10. \A o \in offers : Pending(r, o) => Pending(x, o)
  BY <1>1 DEF Pending
<1> QED
  BY <1>1, <1>4, <1>5, <1>6, <1>7, <1>8, <1>9, <1>10, RunMoves

LEMMA FinalizeKeeps ==
  ASSUME SyncInv, NEW p \in Processes, Finalize(p)
  PROVE  SyncInv'
<1> DEFINE r == pr[p]
<1>1. /\ r.pc = "final" /\ pr' = [pr EXCEPT ![p] = idle]
      /\ job' = [job EXCEPT ![r.job] = r.status]
      /\ UNCHANGED <<checkpoint, health, stored_offers, letters, seen, recorded, doubled, bounds>>
  BY DEF Finalize
<1>2. /\ checkpoint' = checkpoint /\ health' = health /\ offers' = offers /\ prices' = prices
      /\ inventory' = inventory /\ letters' = letters /\ runs' = runs /\ faults' = faults
      /\ crashes' = crashes /\ passed' = passed /\ filtered' = filtered
      /\ recorded' = recorded /\ doubled' = doubled /\ Over' = Over
  BY <1>1 DEF stored_offers, seen, bounds, Over
<1>3. r \in Run /\ pr \in [Processes -> Run] /\ r.job \in JobIds /\ r.status \in JobStatuses
  BY Facts
<1>4. /\ job' \in [JobIds -> JobStatuses] /\ job'[r.job] = r.status
      /\ \A i \in JobIds : i # r.job => job'[i] = job[i]
  BY <1>1, <1>3, Types DEF RowTypes
<1>5. RowTypes'
  BY <1>2, <1>4, Types DEF RowTypes
<1>6. idle \in Run /\ idle.pc = "idle" /\ RunFits(idle, offers', prices', recorded', Over')
  BY IdleFits
<1>7. \A q \in Processes : pr'[q] = IF q = p THEN idle ELSE pr[q]
  BY <1>1, <1>3
<1>8. LetterInv'
  <2> SUFFICES ASSUME NEW j \in JobIds, Single(j)
               PROVE  /\ job'[j] = "none" => \A n \in Numbers : letters[j][n] = None
                      /\ \A q \in Processes : pr'[q].pc # "idle" /\ pr'[q].job = j =>
                           /\ OwnFits(pr'[q], job'[j], letters[j])
                           /\ \A o \in Processes : o # q /\ pr'[o].pc # "idle" =>
                                                     pr'[o].job # j
    BY <1>2 DEF LetterInv, Single
  <2>1. /\ job[j] = "none" => \A n \in Numbers : letters[j][n] = None
        /\ \A q \in Processes : pr[q].pc # "idle" /\ pr[q].job = j =>
             /\ OwnFits(pr[q], job[j], letters[j])
             /\ \A o \in Processes : o # q /\ pr[o].pc # "idle" => pr[o].job # j
    BY DEF SyncInv, LetterInv
  <2>2. \A q \in Processes : pr'[q].pc # "idle" => q # p /\ pr'[q] = pr[q]
    BY <1>6, <1>7
  <2>3. CASE j = r.job
    <3>1. r.status # "none"
      BY <1>1, Facts DEF RunFits, FinalStatuses
    <3> QED
      BY <1>1, <1>4, <2>1, <2>2, <2>3, <3>1
  <2>4. CASE j # r.job
    BY <1>4, <2>1, <2>2, <2>4
  <2> QED
    BY <2>3, <2>4
<1>9. CursorCovered' /\ PassedKept'
  BY <1>2 DEF SyncInv, CursorCovered, PassedKept
<1>10. \A o \in offers : ~ Pending(r, o)
  BY <1>1 DEF Pending
<1> QED
  BY <1>1, <1>2, <1>5, <1>6, <1>8, <1>9, <1>10, OneMoves

LEMMA CrashKeeps ==
  ASSUME SyncInv, NEW p \in Processes, Crash(p)
  PROVE  SyncInv'
<1>1. /\ pr' = [pr EXCEPT ![p] = idle] /\ crashes < MaxCrashes /\ crashes' = crashes + 1
      /\ UNCHANGED <<rows, doubled, runs, faults>>
  BY DEF Crash
<1>2. /\ crashes' \in 0..MaxCrashes /\ crashes' # 0
  BY <1>1, Types, SyncAssumption DEF RowTypes
<1>3. /\ health' \in Health /\ faults' \in 0..MaxFaults
      /\ UNCHANGED <<job, checkpoint, stored_offers, letters, seen, recorded, doubled, runs>>
  BY <1>1, Types DEF rows, RowTypes
<1> QED
  BY <1>1, <1>2, <1>3, EndKeeps

-----------------------------------------------------------------------------
(* The theorems *)

LEMMA InitHolds ==
  ASSUME Init
  PROVE  SyncInv
<1>1. /\ job = [j \in JobIds |-> "none"] /\ checkpoint = None /\ offers = {}
      /\ prices = {} /\ inventory = {} /\ runs = 0 /\ faults = 0 /\ crashes = 0
      /\ letters = [j \in JobIds |-> [n \in Numbers |-> None]]
      /\ pr = [p \in Processes |-> idle]
      /\ passed = {} /\ filtered = {} /\ recorded = {} /\ doubled = {}
      /\ health = [status |-> "unconfigured", succeeded |-> FALSE, streak |-> 0]
  BY DEF Init
<1>2. idle \in Run /\ idle.pc = "idle" /\ RunFits(idle, offers, prices, recorded, Over)
  BY IdleFits
<1>3. \A p \in Processes : pr[p] = idle
  BY <1>1
<1>4. TypeOK
  <2>1. runs \in 0..MaxRuns /\ faults \in 0..MaxFaults /\ crashes \in 0..MaxCrashes
    BY <1>1, SyncAssumption
  <2>2. health \in Health
    BY <1>1 DEF Health
  <2>3. job \in [JobIds -> JobStatuses]
    BY <1>1 DEF JobStatuses
  <2>4. letters \in [JobIds -> [Numbers -> Offers \cup {None}]]
    BY <1>1
  <2>5. pr \in [Processes -> Run]
    BY <1>1, <1>2
  <2> QED
    BY <1>1, <2>1, <2>2, <2>3, <2>4, <2>5 DEF TypeOK
<1>5. LetterInv
  BY <1>1, <1>2, <1>3 DEF LetterInv
<1>6. CursorCovered /\ PassedKept
  BY <1>1 DEF CursorCovered, PassedKept
<1>7. HistoryKept
  BY <1>1 DEF HistoryKept
<1> QED
  BY <1>2, <1>3, <1>4, <1>5, <1>6, <1>7 DEF SyncInv

LEMMA NextKeeps ==
  ASSUME SyncInv, [Next]_vars
  PROVE  SyncInv'
<1>1. CASE UNCHANGED vars
  <2>1. /\ job' = job /\ checkpoint' = checkpoint /\ health' = health /\ offers' = offers
        /\ prices' = prices /\ inventory' = inventory /\ letters' = letters /\ pr' = pr
        /\ runs' = runs /\ faults' = faults /\ crashes' = crashes /\ passed' = passed
        /\ filtered' = filtered /\ recorded' = recorded /\ doubled' = doubled
        /\ Over' = Over
    BY <1>1 DEF vars, Over
  <2>2. TypeOK'
    BY <2>1 DEF SyncInv, TypeOK
  <2>3. CursorCovered' /\ PassedKept' /\ HistoryKept'
    BY <2>1 DEF SyncInv, CursorCovered, PassedKept, HistoryKept
  <2>4. LetterInv'
    BY <2>1 DEF SyncInv, LetterInv, Single
  <2>5. \A p \in Processes : RunFits(pr'[p], offers', prices', recorded', Over')
    BY <2>1 DEF SyncInv
  <2> QED
    BY <2>2, <2>3, <2>4, <2>5 DEF SyncInv
<1>2. ASSUME NEW p \in Processes, NEW j \in Requests, NEW query \in Queries,
             Begin(p, j, query)
      PROVE  SyncInv'
  BY <1>2, BeginKeeps
<1>3. ASSUME NEW p \in Processes, Crash(p) PROVE SyncInv'
  BY <1>3, CrashKeeps
<1>4. ASSUME NEW p \in Processes, Progress(p) PROVE SyncInv'
  <2>1. CASE SaveJob(p) \/ ReadCheckpoint(p) \/ Fetch(p)
    BY <2>1, SaveJobKeeps, ReadCheckpointKeeps, FetchKeeps
  <2>2. ASSUME NEW retryable \in BOOLEAN, FetchFails(p, retryable) PROVE SyncInv'
    BY <2>2, FetchFailsKeeps
  <2>3. CASE SaveUnhealthy(p) \/ ReadHealth(p) \/ FindOffer(p)
    BY <2>3, SaveUnhealthyKeeps, ReadHealthKeeps, FindOfferKeeps
  <2>4. CASE SaveOffer(p) \/ SavePrice(p) \/ SaveInventory(p)
    BY <2>4, SaveOfferKeeps, SavePriceKeeps, SaveInventoryKeeps
  <2>5. CASE RecordFails(p) \/ SaveDeadLetter(p)
    BY <2>5, RecordFailsKeeps, SaveDeadLetterKeeps
  <2>6. CASE SaveCheckpoint(p) \/ SaveHealth(p) \/ Finalize(p)
    BY <2>6, SaveCheckpointKeeps, SaveHealthKeeps, FinalizeKeeps
  <2> QED
    BY <1>4, <2>1, <2>2, <2>3, <2>4, <2>5, <2>6 DEF Progress
<1> QED
  BY <1>1, <1>2, <1>3, <1>4 DEF Next

\* The runs of trigger_sync keep SyncInv: the types, what every run owes, who
\* finishes a half-written offer, and the free numbers of the dead letters.
THEOREM SyncSafety == Spec => []SyncInv
<1>1. Init => SyncInv
  BY InitHolds
<1>2. SyncInv /\ [Next]_vars => SyncInv'
  BY NextKeeps
<1> QED
  BY <1>1, <1>2, PTL DEF Spec

\* No offer given to a run that got to its cursor is lost, and save_checkpoint
\* moves the cursor over these and the filtered offers only, for any number of
\* requests with and without keys, queries, failures and crashes.
THEOREM NothingLost == Spec => []NothingSkipped
<1>1. SyncInv => NothingSkipped
  BY DEF SyncInv, CursorCovered, PassedKept, Over, NothingSkipped
<1> QED
  BY <1>1, SyncSafety, PTL

\* While no run is under way no offer that was stored or given to a run lacks a
\* snapshot, unless it is recorded as a dead letter: of two runs that meet at an
\* offer, the one that stored it finishes it or records it.
THEOREM HistoryWhole == Spec => []HistoryComplete
<1>1. ASSUME SyncInv PROVE HistoryComplete
  <2> SUFFICES ASSUME crashes = 0, \A p \in Processes : pr[p].pc = "idle",
                      NEW o \in offers \cup passed
               PROVE  o \in recorded \cup (prices \cap inventory)
    BY DEF HistoryComplete
  <2>1. o \in offers \/ o \in recorded
    BY <1>1 DEF SyncInv, PassedKept
  <2>2. \A p \in Processes : ~ Pending(pr[p], o)
    BY DEF Pending
  <2> QED
    BY <1>1, <2>1, <2>2 DEF SyncInv, HistoryKept
<1> QED
  BY <1>1, SyncSafety, PTL

\* save_dead_letter never overwrites a dead letter of a request with a key that
\* is not sent again before it is answered.
THEOREM LettersStay == Spec => LettersKept
<1> DEFINE Kept == \A j \in JobIds, n \in Numbers :
             key_of(j) # NoKey /\ j \notin doubled /\ letters[j][n] # None =>
               letters'[j][n] = letters[j][n]
<1>1. ASSUME SyncInv, [Next]_vars PROVE [Kept]_vars
  <2> SUFFICES ASSUME NEW j \in JobIds, NEW n \in Numbers, Single(j), letters[j][n] # None,
                      letters' # letters
               PROVE  letters'[j][n] = letters[j][n]
    BY DEF Single
  <2>1. PICK p \in Processes : SaveDeadLetter(p)
    BY <1>1 DEF Next, vars, Progress, Begin, SaveJob, ReadCheckpoint, Fetch, FetchFails,
       ReadHealth, SaveUnhealthy, FindOffer, SaveOffer, SavePrice, SaveInventory, RecordFails,
       SaveCheckpoint, SaveHealth, Finalize, Crash, rows
  <2>2. /\ pr[p].pc = "letter"
        /\ letters' = [letters EXCEPT ![pr[p].job][pr[p].failed + 1] = pr[p].offer]
    BY <2>1 DEF SaveDeadLetter
  <2>3. CASE pr[p].job = j
    <3>1. OwnFits(pr[p], job[j], letters[j])
      BY <1>1, <2>2, <2>3 DEF SyncInv, LetterInv
    <3>2. n # pr[p].failed + 1
      <4>1. pr[p].failed \in Nat /\ pr[p].failed + 1 > pr[p].failed
        BY <1>1, Facts
      <4> QED
        BY <3>1, <4>1 DEF OwnFits
    <3> QED
      BY <1>1, <2>2, <2>3, <3>2, Types DEF RowTypes
  <2>4. CASE pr[p].job # j
    BY <1>1, <2>2, <2>4, Types DEF RowTypes
  <2> QED
    BY <2>3, <2>4
<1>2. Spec => [][Kept]_vars
  <2>1. SyncInv /\ [Next]_vars => [Kept]_vars
    BY <1>1
  <2> HIDE DEF Kept
  <2> QED
    BY <2>1, SyncSafety, PTL DEF Spec
<1> QED
  BY <1>2 DEF LettersKept
==============================================================================
