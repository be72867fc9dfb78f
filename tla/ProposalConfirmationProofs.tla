---------------------- MODULE ProposalConfirmationProofs ----------------------
(***************************************************************************)
(* Proofs about ProposalConfirmation for any number of replies, proposals,  *)
(* attempts and crashes.  ProposalInv is inductive.  Its core is what the   *)
(* authorizations in a reply's hand are worth: at the moment its save wins  *)
(* the compare-and-swap they are the stored ones, or none is stored and     *)
(* they are the reply's own; and the id it would create is fresh.           *)
(***************************************************************************)
EXTENDS ProposalConfirmation, SequenceTheorems, TLAPS

USE DEF At, Goto, Return

-----------------------------------------------------------------------------
(* The inductive invariant *)

\* A list of authorizations with one per proposal and one per id, made by the
\* first n replies.
Sound(auths, n) ==
  /\ auths \in Seq(Authorization)
  /\ \A i, j \in DOMAIN auths : auths[i].proposal = auths[j].proposal => i = j
  /\ \A i, j \in DOMAIN auths : auths[i].id = auths[j].id => i = j
  /\ \A i \in DOMAIN auths : auths[i].id[1] <= n

\* The id of the next authorization of q is in no list.
Fresh(q, auths) ==
  \A i \in DOMAIN auths : auths[i].id[1] = q.ask =>
    /\ auths[i].id[2] <= q.try
    /\ q.pc \in {"load", "save"} => auths[i].id[2] # q.try

\* A reply q against the row c after n replies.
ReplyFits(q, c, n) ==
  /\ q.pc # "idle" => q.ask \in 1..n /\ q.try \in 1..Attempts
  /\ q.pc = "idle" => q.ask = 0
  /\ Sound(q.stored, n) /\ Fresh(q, q.stored) /\ Fresh(q, c.auths)
  /\ q.pc = "save" => /\ q.pv <= c.pv
                      /\ q.pv = c.pv /\ c.auths # <<>> => q.stored = c.auths
  /\ c.auths = <<>> => \A i \in DOMAIN q.stored : q.stored[i].id[1] = q.ask

AsksDistinct ==
  \A r, s \in Requests : r # s /\ rq[r].pc # "idle" => rq[r].ask # rq[s].ask

ProposalInv ==
  /\ TypeOK
  /\ Sound(conv.auths, asks)
  /\ \A r \in Requests : ReplyFits(rq[r], conv, asks)
  /\ AsksDistinct

-----------------------------------------------------------------------------
(* Lists of authorizations *)

\* An id is the reply and the attempt that made it.
LEMMA IdParts ==
  /\ \A x \in AuthIds : x[1] \in 1..MaxAsks /\ x[2] \in 1..Attempts
  /\ \A a \in 1..MaxAsks, t \in 1..Attempts :
       <<a, t>> \in AuthIds /\ <<a, t>>[1] = a /\ <<a, t>>[2] = t
  BY DEF AuthIds

LEMMA EmptySound == ASSUME NEW n \in Nat PROVE Sound(<<>>, n)
  BY DEF Sound

\* A list's elements are authorizations.
LEMMA Elements ==
  ASSUME NEW auths \in Seq(Authorization)
  PROVE  /\ Len(auths) \in Nat /\ DOMAIN auths = 1..Len(auths)
         /\ \A i \in DOMAIN auths : /\ auths[i] \in Authorization
                                    /\ auths[i].id \in AuthIds
                                    /\ auths[i].proposal \in Ids
                                    /\ auths[i].status \in Statuses
<1>1. Len(auths) \in Nat /\ DOMAIN auths = 1..Len(auths)
  BY LenProperties
<1>2. \A i \in DOMAIN auths : auths[i] \in Authorization
  BY <1>1, ElementOfSeq
<1> QED
  BY <1>1, <1>2 DEF Authorization

LEMMA NoElements ==
  ASSUME NEW auths \in Seq(Authorization), DOMAIN auths = {}
  PROVE  auths = <<>>
<1>1. Len(auths) = 0
  BY Elements
<1> QED
  BY <1>1, EmptySeq

\* A change of status keeps length, ids and proposals.
LEMMA StatusChange ==
  ASSUME NEW auths \in Seq(Authorization), NEW S, NEW status \in Statuses
  PROVE  /\ with_status(auths, S, status) \in Seq(Authorization)
         /\ DOMAIN with_status(auths, S, status) = DOMAIN auths
         /\ \A i \in DOMAIN auths :
              /\ with_status(auths, S, status)[i].id = auths[i].id
              /\ with_status(auths, S, status)[i].proposal = auths[i].proposal
              /\ i \notin S => with_status(auths, S, status)[i] = auths[i]
<1> DEFINE A == with_status(auths, S, status)
<1>1. A = [i \in DOMAIN auths |->
             IF i \in S THEN [auths[i] EXCEPT !.status = status] ELSE auths[i]]
  BY DEF with_status
<1>2. \A i \in DOMAIN auths :
        /\ A[i] \in Authorization
        /\ A[i].id = auths[i].id /\ A[i].proposal = auths[i].proposal
        /\ i \notin S => A[i] = auths[i]
  BY <1>1, Elements DEF Authorization
<1>3. A \in [1..Len(auths) -> Authorization] /\ Len(auths) \in Nat
  BY <1>1, <1>2, Elements
<1>4. A \in Seq(Authorization)
  BY <1>3, SeqDef
<1>5. DOMAIN A = DOMAIN auths
  BY <1>1
<1> QED
  BY <1>2, <1>4, <1>5

LEMMA StatusSound ==
  ASSUME NEW auths, NEW n, Sound(auths, n), NEW S, NEW status \in Statuses
  PROVE  Sound(with_status(auths, S, status), n)
<1> DEFINE A == with_status(auths, S, status)
<1>1. auths \in Seq(Authorization)
  BY DEF Sound
<1>2. /\ A \in Seq(Authorization) /\ DOMAIN A = DOMAIN auths
      /\ \A i \in DOMAIN auths : A[i].id = auths[i].id /\ A[i].proposal = auths[i].proposal
  BY <1>1, StatusChange
<1> HIDE DEF A
<1> QED
  BY <1>2 DEF Sound, A

\* An authorization for a proposal without one, with a fresh id.
LEMMA AppendSound ==
  ASSUME NEW auths, NEW n \in Nat, Sound(auths, n), NEW x \in Authorization,
         x.id[1] <= n,
         \A i \in DOMAIN auths : auths[i].proposal # x.proposal /\ auths[i].id # x.id
  PROVE  /\ Sound(Append(auths, x), n)
         /\ DOMAIN Append(auths, x) = DOMAIN auths \cup {Len(auths) + 1}
         /\ \A i \in DOMAIN auths : Append(auths, x)[i] = auths[i]
         /\ Append(auths, x)[Len(auths) + 1] = x
         /\ Len(auths) + 1 \notin DOMAIN auths
<1>1. auths \in Seq(Authorization)
  BY DEF Sound
<1>2. Len(auths) \in Nat /\ DOMAIN auths = 1..Len(auths)
  BY <1>1, Elements
<1> DEFINE A == Append(auths, x)
<1>3. /\ A \in Seq(Authorization) /\ Len(A) = Len(auths) + 1
      /\ \A i \in 1..Len(auths) : A[i] = auths[i]
      /\ A[Len(auths) + 1] = x
  BY <1>1, AppendProperties
<1>4. DOMAIN A = 1..(Len(auths) + 1)
  BY <1>3, Elements
<1> HIDE DEF A
<1>5. DOMAIN A = DOMAIN auths \cup {Len(auths) + 1} /\ Len(auths) + 1 \notin DOMAIN auths
  BY <1>2, <1>4
<1>6. Sound(A, n)
  BY <1>2, <1>3, <1>5 DEF Sound
<1> QED
  BY <1>2, <1>3, <1>5, <1>6 DEF A

-----------------------------------------------------------------------------
(* What a reply would store *)

\* The types and facts about one reply and the row.
LEMMA Reply ==
  ASSUME ProposalInv, NEW r \in Requests
  PROVE  /\ rq \in [Requests -> Request] /\ rq[r] \in Request
         /\ rq[r].ask \in 0..MaxAsks /\ rq[r].try \in 0..Attempts
         /\ rq[r].proposal \in Proposal /\ rq[r].stored \in Seq(Authorization)
         /\ rq[r].pv \in Nat /\ rq[r].made \in Nat
         /\ ReplyFits(rq[r], conv, asks) /\ Sound(conv.auths, asks)
         /\ conv \in [proposal : Proposal, auths : Seq(Authorization), pv : Nat]
         /\ conv.auths \in Seq(Authorization) /\ conv.pv \in Nat
         /\ asks \in 0..MaxAsks /\ proposals \in Ids /\ crashes \in 0..MaxCrashes
  BY DEF ProposalInv, TypeOK, Request

\* _authorization_for_persist adds at most one authorization, for a proposal
\* that has none, under a fresh id, and leaves final ones alone.
LEMMA Stored ==
  ASSUME ProposalInv, NEW r \in Requests, rq[r].pc = "save",
         NEW A, A = authorizations_to_store(r)
  PROVE  /\ Sound(A, asks)
         /\ DOMAIN rq[r].stored \subseteq DOMAIN A
         /\ \A i \in DOMAIN A : \/ A[i].id = <<rq[r].ask, rq[r].try>>
                                \/ i \in DOMAIN rq[r].stored /\ A[i].id = rq[r].stored[i].id
         /\ \A i \in DOMAIN rq[r].stored :
              rq[r].stored[i].status # "pending" => A[i] = rq[r].stored[i]
         /\ rq[r].lifecycle \in {"confirm", "reconfirm"} =>
              find_by_idempotency(A, rq[r].proposal.id) # {}
<1> DEFINE auths == rq[r].stored
           p == rq[r].proposal.id
           x == [id |-> <<rq[r].ask, rq[r].try>>, proposal |-> p, status |-> "pending"]
<1>1. /\ Sound(auths, asks) /\ Fresh(rq[r], auths) /\ auths \in Seq(Authorization)
      /\ rq[r].ask \in 1..asks /\ rq[r].try \in 1..Attempts /\ asks \in 0..MaxAsks
      /\ MaxAsks \in Nat /\ Attempts \in Nat
  BY Reply, ProposalAssumption DEF ReplyFits
<1>2. p \in Ids
  BY Reply DEF Proposal
<1>3. CASE rq[r].lifecycle \in {"confirm", "reconfirm"} /\ find_by_idempotency(auths, p) # {}
  <2>1. A = auths
    BY <1>3 DEF authorizations_to_store
  <2> QED
    BY <1>1, <1>3, <2>1
<1>4. CASE rq[r].lifecycle \in {"confirm", "reconfirm"} /\ find_by_idempotency(auths, p) = {}
  <2>1. A = Append(auths, x)
    BY <1>4 DEF authorizations_to_store
  <2>2. rq[r].ask \in 1..MaxAsks
    BY <1>1
  <2>3. /\ x \in Authorization /\ x.proposal = p /\ x.id = <<rq[r].ask, rq[r].try>>
        /\ x.id[1] = rq[r].ask /\ x.id[2] = rq[r].try
    BY <1>1, <1>2, <2>2, IdParts DEF Authorization, Statuses
  <2>4. \A i \in DOMAIN auths : auths[i].proposal # x.proposal /\ auths[i].id # x.id
    BY <1>1, <1>4, <2>3 DEF find_by_idempotency, Fresh
  <2>5. x.id[1] <= asks /\ asks \in Nat
    BY <1>1, <2>3
  <2> HIDE DEF x, auths
  <2>6. /\ Sound(A, asks) /\ DOMAIN A = DOMAIN auths \cup {Len(auths) + 1}
        /\ \A i \in DOMAIN auths : A[i] = auths[i]
        /\ A[Len(auths) + 1] = x
    BY <1>1, <2>1, <2>3, <2>4, <2>5, AppendSound
  <2>7. find_by_idempotency(A, p) # {}
    BY <2>3, <2>6 DEF find_by_idempotency
  <2> QED
    BY <2>3, <2>6, <2>7 DEF auths
<1>5. CASE rq[r].lifecycle \notin {"confirm", "reconfirm", "cancel", "replace"}
  <2>1. A = auths
    BY <1>5 DEF authorizations_to_store
  <2> QED
    BY <1>1, <1>5, <2>1
<1>6. CASE rq[r].lifecycle \in {"cancel", "replace"}
  <2> DEFINE S == current_unconsumed(auths)
  <2>1. PICK status \in Statuses : A = with_status(auths, S, status)
    BY <1>6 DEF authorizations_to_store, Statuses
  <2>2. \A i \in S : auths[i].status = "pending"
    BY DEF current_unconsumed
  <2> HIDE DEF S, auths
  <2>3. /\ DOMAIN A = DOMAIN auths
        /\ \A i \in DOMAIN auths : A[i].id = auths[i].id /\ (i \notin S => A[i] = auths[i])
    BY <1>1, <2>1, StatusChange
  <2>4. Sound(A, asks)
    BY <1>1, <2>1, StatusSound
  <2>5. rq[r].lifecycle \notin {"confirm", "reconfirm"}
    BY <1>6
  <2> QED
    BY <2>2, <2>3, <2>4, <2>5 DEF auths
<1> QED
  BY <1>3, <1>4, <1>5, <1>6

\* Every id a reply would store is fresh or known to it.
LEMMA StoredFresh ==
  ASSUME ProposalInv, NEW r \in Requests, rq[r].pc = "save",
         NEW A, A = authorizations_to_store(r), NEW i \in DOMAIN A
  PROVE  A[i].id[1] = rq[r].ask => A[i].id[2] \in Nat /\ A[i].id[2] <= rq[r].try
<1>1. /\ rq[r].ask \in 1..MaxAsks /\ rq[r].try \in 1..Attempts /\ Attempts \in Nat
      /\ Fresh(rq[r], rq[r].stored) /\ rq[r].stored \in Seq(Authorization)
  BY Reply, ProposalAssumption DEF ReplyFits
<1>2. CASE A[i].id = <<rq[r].ask, rq[r].try>>
  BY <1>1, <1>2
<1>3. CASE i \in DOMAIN rq[r].stored /\ A[i].id = rq[r].stored[i].id
  <2>1. rq[r].stored[i].id \in AuthIds
    BY <1>1, <1>3, Elements
  <2> QED
    BY <1>1, <1>3, <2>1, IdParts DEF Fresh
<1> QED
  BY <1>2, <1>3, Stored

\* With one authorization per proposal, a reply's own has one position.
LEMMA OwnPosition ==
  ASSUME ProposalInv, NEW r \in Requests, rq[r].pc = "save",
         NEW A, A = authorizations_to_store(r)
  PROVE  own_authorization(r, A) \in Nat
<1> DEFINE F == find_by_idempotency(A, rq[r].proposal.id)
<1>1. Sound(A, asks)
  BY Stored
<1>2. \A i \in F : i \in Nat /\ \A j \in F : j = i
  BY <1>1, Elements DEF find_by_idempotency, Sound
<1>3. CASE rq[r].lifecycle \in {"confirm", "reconfirm"}
  <2>1. F # {}
    BY <1>3, Stored
  <2>2. \E i \in F : \A j \in F : j <= i
    BY <1>2, <2>1
  <2>3. own_authorization(r, A) \in F
    BY <1>3, <2>2 DEF own_authorization
  <2> QED
    BY <1>2, <2>3
<1>4. CASE rq[r].lifecycle \notin {"confirm", "reconfirm"}
  BY <1>4 DEF own_authorization
<1> QED
  BY <1>3, <1>4

-----------------------------------------------------------------------------
(* One reply moves, the others stand *)

LEMMA SoundMonotone ==
  ASSUME NEW auths, NEW n \in Nat, NEW m \in Nat, n <= m, Sound(auths, n)
  PROVE  Sound(auths, m)
<1>1. \A i \in DOMAIN auths : auths[i].id[1] \in Nat
  BY Elements, IdParts, ProposalAssumption DEF Sound
<1>2. \A i \in DOMAIN auths : auths[i].id[1] <= m
  BY <1>1 DEF Sound
<1> QED
  BY <1>2 DEF Sound

\* A reply still fits a row that was saved by another one, and later replies.
LEMMA Frame ==
  ASSUME NEW q \in Request, NEW c, NEW d, NEW n \in Nat, NEW m \in Nat, n <= m,
         ReplyFits(q, c, n), c.pv \in Nat, d.pv \in Nat,
         d = c \/ d.pv > c.pv,
         d.auths = <<>> => c.auths = <<>>,
         Fresh(q, d.auths)
  PROVE  ReplyFits(q, d, m)
<1>1. Sound(q.stored, m)
  BY SoundMonotone DEF ReplyFits
<1>2. q.pv \in Nat /\ q.ask \in Nat
  BY ProposalAssumption DEF Request
<1>3. q.pc = "save" => /\ q.pv <= d.pv
                       /\ q.pv = d.pv /\ d.auths # <<>> => q.stored = d.auths
  <2>1. CASE d = c
    BY <2>1 DEF ReplyFits
  <2>2. CASE d.pv > c.pv
    BY <1>2, <2>2 DEF ReplyFits
  <2> QED
    BY <2>1, <2>2
<1>4. /\ q.pc # "idle" => q.ask \in 1..m /\ q.try \in 1..Attempts
      /\ q.pc = "idle" => q.ask = 0
      /\ Fresh(q, q.stored)
      /\ d.auths = <<>> => \A i \in DOMAIN q.stored : q.stored[i].id[1] = q.ask
  BY DEF ReplyFits
<1> QED
  BY <1>1, <1>3, <1>4 DEF ReplyFits

\* A reply that has not begun, or has ended.
LEMMA IdleFits ==
  ASSUME NEW c, NEW n \in Nat, c.auths \in Seq(Authorization)
  PROVE  ReplyFits(idle, c, n) /\ idle \in Request
<1>1. \A i \in DOMAIN c.auths : c.auths[i].id[1] # 0
  BY Elements, IdParts, ProposalAssumption
<1>2. /\ idle.pc = "idle" /\ idle.ask = 0 /\ idle.stored = <<>>
  BY DEF idle
<1>3. Fresh(idle, c.auths) /\ Fresh(idle, <<>>)
  BY <1>1, <1>2 DEF Fresh
<1>4. <<>> \in Seq(Authorization)
  OBVIOUS
<1>5. idle \in Request
  BY <1>4, ProposalAssumption DEF idle, Request, Proposal, no_proposal, Ids, Steps, Lifecycles
<1> QED
  BY <1>2, <1>3, <1>5, EmptySound DEF ReplyFits

\* What a step of one reply owes: its own new state and the new row.
LEMMA OneMoves ==
  ASSUME ProposalInv, NEW r \in Requests, NEW q \in Request, rq[r].pc # "idle",
         rq' = [rq EXCEPT ![r] = q],
         q.ask = rq[r].ask \/ q = idle,
         conv' \in [proposal : Proposal, auths : Seq(Authorization), pv : Nat],
         conv' = conv \/ conv'.pv > conv.pv,
         conv'.auths = <<>> => conv.auths = <<>>,
         \A i \in DOMAIN conv'.auths :
            \/ conv'.auths[i].id[1] = rq[r].ask
            \/ \E j \in DOMAIN conv.auths : conv'.auths[i].id = conv.auths[j].id,
         Sound(conv'.auths, asks), ReplyFits(q, conv', asks),
         asks' = asks, proposals' = proposals, crashes' \in 0..MaxCrashes,
         \A a \in DOMAIN execution' : a \in AuthIds /\ execution'[a] \in Execution
  PROVE  ProposalInv'
<1>1. TypeOK'
  BY DEF ProposalInv, TypeOK
<1>2. /\ asks \in Nat /\ conv.pv \in Nat /\ conv'.pv \in Nat
      /\ conv'.auths \in Seq(Authorization) /\ conv.auths \in Seq(Authorization)
  BY Reply, ProposalAssumption
<1>3. \A s \in Requests : rq'[s] = IF s = r THEN q ELSE rq[s]
  BY Reply
<1>4. ASSUME NEW s \in Requests PROVE ReplyFits(rq'[s], conv', asks')
  <2>1. CASE s = r
    BY <1>3, <2>1
  <2>2. CASE s # r
    <3>1. /\ rq'[s] = rq[s] /\ rq[s] \in Request /\ ReplyFits(rq[s], conv, asks)
          /\ rq[s].ask # rq[r].ask
      BY <1>3, <2>2, Reply DEF ProposalInv, AsksDistinct
    <3>2. Fresh(rq[s], conv'.auths)
      BY <3>1 DEF ReplyFits, Fresh
    <3>3. ReplyFits(rq[s], conv', asks)
      BY <1>2, <3>1, <3>2, Frame
    <3> QED
      BY <3>1, <3>3
  <2> QED
    BY <2>1, <2>2
<1>5. AsksDistinct'
  <2>1. idle.pc = "idle"
    BY DEF idle
  <2>2. \A s \in Requests : rq[s].pc # "idle" => rq[s].ask # 0
    BY <1>2, Reply DEF ReplyFits
  <2>3. idle.ask = 0
    BY DEF idle
  <2> QED
    BY <1>3, <2>1, <2>2, <2>3 DEF ProposalInv, AsksDistinct
<1> QED
  BY <1>1, <1>4, <1>5 DEF ProposalInv

-----------------------------------------------------------------------------
(* The steps *)

\* A reply that ends, answered, refused, raised or dead.
LEMMA EndKeeps ==
  ASSUME ProposalInv, NEW r \in Requests, rq[r].pc # "idle", Return(r),
         conv' \in [proposal : Proposal, auths : Seq(Authorization), pv : Nat],
         conv' = conv \/ (conv'.pv > conv.pv /\ conv'.auths = conv.auths),
         asks' = asks, proposals' = proposals, crashes' \in 0..MaxCrashes,
         \A a \in DOMAIN execution' : a \in AuthIds /\ execution'[a] \in Execution
  PROVE  ProposalInv'
<1>1. Sound(conv'.auths, asks) /\ conv'.auths = conv.auths /\ asks \in Nat
  BY Reply, ProposalAssumption
<1>2. ReplyFits(idle, conv', asks) /\ idle \in Request
  BY <1>1, Reply, IdleFits
<1> QED
  BY <1>1, <1>2, OneMoves

\* A reply's hand with another position, version or list in it.
LEMMA HandFits ==
  ASSUME NEW q \in Request, NEW x \in Request, NEW c, NEW n \in Nat,
         ReplyFits(q, c, n), q.pc # "idle", x.pc \in Steps \ {"idle", "save"},
         x.pc = "load" => x.try = q.try + 1,
         x.ask = q.ask, x.try \in {q.try, q.try + 1}, x.try \in 1..Attempts,
         c.auths \in Seq(Authorization),
         Sound(x.stored, n),
         \A i \in DOMAIN x.stored : x.stored[i].id[1] = q.ask => x.stored[i].id[2] <= q.try,
         c.auths = <<>> => \A i \in DOMAIN x.stored : x.stored[i].id[1] = q.ask
  PROVE  ReplyFits(x, c, n)
<1>1. q.try \in Nat /\ Attempts \in Nat
  BY ProposalAssumption DEF Request
<1>2. /\ \A i \in DOMAIN x.stored : x.stored[i].id[2] \in Nat
      /\ \A i \in DOMAIN c.auths : c.auths[i].id[2] \in Nat
  BY <1>1, Elements, IdParts DEF Sound
<1>3. \A i \in DOMAIN c.auths : c.auths[i].id[1] = q.ask => c.auths[i].id[2] <= q.try
  BY DEF ReplyFits, Fresh
<1>4. Fresh(x, c.auths)
  BY <1>1, <1>2, <1>3 DEF Fresh
<1>5. Fresh(x, x.stored)
  BY <1>1, <1>2 DEF Fresh
<1>6. q.ask \in 1..n
  BY DEF ReplyFits
<1> QED
  BY <1>4, <1>5, <1>6 DEF ReplyFits

LEMMA LoadKeeps ==
  ASSUME ProposalInv, NEW r \in Requests, Load(r)
  PROVE  ProposalInv'
<1> DEFINE q == rq[r]
           list == IF conv.auths # <<>> THEN conv.auths ELSE q.stored
           x == [q EXCEPT !.pc = "save", !.pv = conv.pv, !.stored = list]
<1>1. /\ q \in Request /\ q.pc = "load" /\ ReplyFits(q, conv, asks)
      /\ Sound(conv.auths, asks) /\ Sound(q.stored, asks)
      /\ conv.pv \in Nat /\ conv.auths \in Seq(Authorization)
      /\ q.stored \in Seq(Authorization)
  BY Reply DEF Load, ReplyFits
<1>2. x \in Request
  BY <1>1 DEF Request, Steps
<1>3. /\ x.pc = "save" /\ x.pv = conv.pv /\ x.stored = list
      /\ x.ask = q.ask /\ x.try = q.try
  BY <1>1 DEF Request
<1>4. rq' = [rq EXCEPT ![r] = x]
  BY Reply DEF Load, Request
<1> HIDE DEF x
<1>5. Fresh(x, conv.auths) /\ Fresh(x, x.stored) /\ Sound(x.stored, asks)
  BY <1>1, <1>3 DEF ReplyFits, Fresh
<1>6. ReplyFits(x, conv, asks)
  BY <1>1, <1>3, <1>5 DEF ReplyFits
<1>7. conv' = conv /\ execution' = execution /\ asks' = asks /\ proposals' = proposals
        /\ crashes' = crashes
  BY DEF Load, Others
<1> QED
  BY <1>1, <1>2, <1>3, <1>4, <1>6, <1>7, Reply, OneMoves DEF ProposalInv, TypeOK

\* A lost compare-and-swap: the list in hand is still one a save may store.
LEMMA ConflictKeeps ==
  ASSUME ProposalInv, NEW r \in Requests, rq[r].pc # "idle", NEW A, Conflict(r, A),
         Sound(A, asks),
         \A i \in DOMAIN A : A[i].id[1] = rq[r].ask => A[i].id[2] <= rq[r].try,
         conv.auths = <<>> => \A i \in DOMAIN A : A[i].id[1] = rq[r].ask,
         UNCHANGED <<conv, execution>>, Others
  PROVE  ProposalInv'
<1>1. conv' = conv /\ execution' = execution /\ asks' = asks /\ proposals' = proposals
        /\ crashes' = crashes
  BY DEF Others
<1>2. CASE rq[r].try < Attempts
  <2> DEFINE q == rq[r]
             x == [q EXCEPT !.pc = "load", !.try = q.try + 1, !.pv = 0, !.made = 0,
                            !.stored = A]
  <2>1. /\ q \in Request /\ ReplyFits(q, conv, asks) /\ q.try \in Nat /\ Attempts \in Nat
        /\ conv.auths \in Seq(Authorization) /\ A \in Seq(Authorization) /\ asks \in Nat
    BY Reply, ProposalAssumption DEF Sound
  <2>2. q.try + 1 \in 0..Attempts /\ q.try + 1 \in 1..Attempts
    BY <1>2, <2>1
  <2>3. x \in Request
    BY <2>1, <2>2, Zenon DEF Request, Steps
  <2>4. /\ x.pc = "load" /\ x.stored = A /\ x.ask = q.ask /\ x.try = q.try + 1
    BY <2>1 DEF Request
  <2>5. rq' = [rq EXCEPT ![r] = x]
    BY <1>2, Reply DEF Conflict, Request
  <2> HIDE DEF x, q
  <2>6. ReplyFits(x, conv, asks)
    BY <2>1, <2>2, <2>3, <2>4, HandFits DEF Steps, q
  <2> QED
    BY <1>1, <2>1, <2>3, <2>4, <2>5, <2>6, Reply, OneMoves DEF ProposalInv, TypeOK, q
<1>3. CASE ~ (rq[r].try < Attempts)
  BY <1>1, <1>3, EndKeeps, Reply DEF Conflict, ProposalInv, TypeOK
<1> QED
  BY <1>2, <1>3

LEMMA SaveConflictKeeps ==
  ASSUME ProposalInv, NEW r \in Requests, SaveConflict(r)
  PROVE  ProposalInv'
<1> DEFINE A == authorizations_to_store(r)
<1>1. rq[r].pc = "save" /\ Conflict(r, A) /\ UNCHANGED <<conv, execution>> /\ Others
  BY DEF SaveConflict
<1>2. /\ Sound(A, asks)
      /\ \A i \in DOMAIN A : \/ A[i].id = <<rq[r].ask, rq[r].try>>
                             \/ i \in DOMAIN rq[r].stored /\ A[i].id = rq[r].stored[i].id
  BY <1>1, Stored
<1>3. \A i \in DOMAIN A : A[i].id[1] = rq[r].ask => A[i].id[2] <= rq[r].try
  BY <1>1, StoredFresh
<1>4. conv.auths = <<>> => \A i \in DOMAIN A : A[i].id[1] = rq[r].ask
  BY <1>2, Reply DEF ReplyFits
<1> HIDE DEF A
<1> QED
  BY <1>1, <1>2, <1>3, <1>4, ConflictKeeps

\* At a winning save the list in hand is the stored one, or none is stored.
LEMMA SaveKnowsRow ==
  ASSUME ProposalInv, NEW r \in Requests, rq[r].pc = "save", Saves(r)
  PROVE  \/ rq[r].stored = conv.auths
         \/ conv.auths = <<>> /\ \A i \in DOMAIN rq[r].stored : rq[r].stored[i].id[1] = rq[r].ask
  BY Reply DEF ReplyFits, Saves

LEMMA SaveKeeps ==
  ASSUME ProposalInv, NEW r \in Requests, Save(r)
  PROVE  ProposalInv'
<1> DEFINE A == authorizations_to_store(r)
           own == own_authorization(r, A)
           q == rq[r]
           x == [q EXCEPT !.pc = "turn", !.stored = A, !.pv = 0, !.made = own]
<1>1. /\ q.pc = "save" /\ Saves(r)
      /\ conv' = [proposal |-> proposal_to_store(r), auths |-> A, pv |-> conv.pv + 1]
      /\ rq' = [rq EXCEPT ![r].pc = "turn", ![r].stored = A, ![r].pv = 0, ![r].made = own]
      /\ UNCHANGED execution /\ Others
  BY DEF Save
<1>2. /\ Sound(A, asks)
      /\ DOMAIN q.stored \subseteq DOMAIN A
      /\ \A i \in DOMAIN A : \/ A[i].id = <<q.ask, q.try>>
                             \/ i \in DOMAIN q.stored /\ A[i].id = q.stored[i].id
  BY <1>1, Stored
<1>3. own \in Nat
  BY <1>1, OwnPosition
<1>4. \A i \in DOMAIN A : A[i].id[1] = q.ask => A[i].id[2] <= q.try
  BY <1>1, StoredFresh
<1>5. /\ q \in Request /\ rq \in [Requests -> Request] /\ ReplyFits(q, conv, asks)
      /\ conv.pv \in Nat /\ A \in Seq(Authorization) /\ q.proposal \in Proposal
      /\ conv.auths \in Seq(Authorization)
  BY <1>2, Reply DEF Sound
<1>6. proposal_to_store(r) \in Proposal
  BY <1>5, ProposalAssumption DEF proposal_to_store, Proposal, no_proposal, Ids
<1> HIDE DEF A, own
<1>7. x \in Request
  BY <1>3, <1>5, Zenon DEF Request, Steps
<1>8. x.pc = "turn" /\ x.stored = A /\ x.ask = q.ask /\ x.try = q.try
  BY <1>5 DEF Request
<1>9. rq' = [rq EXCEPT ![r] = x]
  BY <1>1, <1>5 DEF Request
<1>10. /\ conv'.auths = A /\ conv'.pv > conv.pv
       /\ conv' \in [proposal : Proposal, auths : Seq(Authorization), pv : Nat]
  BY <1>1, <1>5, <1>6
<1>11. A = <<>> => conv.auths = <<>>
  <2>1. q.stored = conv.auths \/ conv.auths = <<>>
    BY <1>1, SaveKnowsRow
  <2>2. ASSUME q.stored = conv.auths, A = <<>> PROVE conv.auths = <<>>
    <3>1. DOMAIN conv.auths = {}
      BY <1>2, <2>2
    <3> QED
      BY <1>5, <3>1, NoElements
  <2> QED
    BY <2>1, <2>2
<1>12. \A i \in DOMAIN A : \/ A[i].id[1] = q.ask
                           \/ \E j \in DOMAIN conv.auths : A[i].id = conv.auths[j].id
  BY <1>1, <1>2, SaveKnowsRow
<1> HIDE DEF x
<1>13. Fresh(x, A)
  BY <1>4, <1>8 DEF Fresh
<1>14. ReplyFits(x, conv', asks)
  BY <1>1, <1>2, <1>5, <1>8, <1>10, <1>13 DEF ReplyFits
<1>15. /\ asks' = asks /\ proposals' = proposals /\ crashes' \in 0..MaxCrashes
       /\ \A a \in DOMAIN execution' : a \in AuthIds /\ execution'[a] \in Execution
  BY <1>1, Reply DEF ProposalInv, TypeOK, Others
<1>16. /\ conv'.auths = <<>> => conv.auths = <<>>
       /\ \A i \in DOMAIN conv'.auths :
            \/ conv'.auths[i].id[1] = rq[r].ask
            \/ \E j \in DOMAIN conv.auths : conv'.auths[i].id = conv.auths[j].id
       /\ Sound(conv'.auths, asks)
       /\ rq[r].pc # "idle" /\ x.ask = rq[r].ask
  BY <1>1, <1>2, <1>8, <1>10, <1>11, <1>12
<1> QED
  BY <1>7, <1>9, <1>10, <1>14, <1>15, <1>16, OneMoves, Zenon

\* A reply that goes on with the list it has, over a row whose ids are the same.
LEMMA MoveKeeps ==
  ASSUME ProposalInv, NEW r \in Requests, NEW x \in Request, rq[r].pc # "idle",
         rq' = [rq EXCEPT ![r] = x],
         x.pc \in Steps \ {"idle", "load", "save"},
         x.ask = rq[r].ask, x.try = rq[r].try, x.stored = rq[r].stored,
         conv' \in [proposal : Proposal, auths : Seq(Authorization), pv : Nat],
         conv' = conv \/ conv'.pv > conv.pv,
         DOMAIN conv'.auths = DOMAIN conv.auths,
         \A i \in DOMAIN conv.auths : conv'.auths[i].id = conv.auths[i].id,
         Sound(conv'.auths, asks), Others,
         \A a \in DOMAIN execution' : a \in AuthIds /\ execution'[a] \in Execution
  PROVE  ProposalInv'
<1> DEFINE q == rq[r]
<1>1. /\ q \in Request /\ ReplyFits(q, conv, asks) /\ conv.pv \in Nat /\ asks \in Nat
      /\ conv.auths \in Seq(Authorization) /\ conv'.auths \in Seq(Authorization)
      /\ conv'.pv \in Nat /\ q.stored \in Seq(Authorization)
  BY Reply, ProposalAssumption
<1>2. conv'.auths = <<>> => conv.auths = <<>>
  BY <1>1
<1>3. Fresh(q, conv'.auths)
  BY <1>1 DEF ReplyFits, Fresh
<1>4. ReplyFits(q, conv', asks)
  BY <1>1, <1>2, <1>3, Frame
<1>5. /\ Sound(q.stored, asks) /\ q.try \in 1..Attempts
      /\ \A i \in DOMAIN q.stored : q.stored[i].id[1] = q.ask => q.stored[i].id[2] <= q.try
      /\ conv'.auths = <<>> => \A i \in DOMAIN q.stored : q.stored[i].id[1] = q.ask
  BY <1>4 DEF ReplyFits, Fresh
<1> HIDE DEF q
<1>6. ReplyFits(x, conv', asks)
  BY <1>1, <1>4, <1>5, HandFits DEF q
<1> QED
  BY <1>1, <1>2, <1>6, Reply, OneMoves DEF Others, q

LEMMA ReadTurnKeeps ==
  ASSUME ProposalInv, NEW r \in Requests, ReadTurn(r)
  PROVE  ProposalInv'
<1> DEFINE q == rq[r]
           x == [q EXCEPT !.pc = "turn_save", !.pv = conv.pv]
<1>1. q \in Request /\ q.pc = "turn" /\ conv.pv \in Nat /\ rq \in [Requests -> Request]
  BY Reply DEF ReadTurn
<1>2. x \in Request
  BY <1>1, Zenon DEF Request, Steps
<1>3. x.pc = "turn_save" /\ x.stored = q.stored /\ x.ask = q.ask /\ x.try = q.try
  BY <1>1 DEF Request
<1>4. rq' = [rq EXCEPT ![r] = x]
  BY <1>1 DEF ReadTurn, Request
<1>5. conv' = conv /\ execution' = execution /\ Others
  BY DEF ReadTurn
<1> HIDE DEF x
<1> QED
  BY <1>1, <1>2, <1>3, <1>4, <1>5, Reply, MoveKeeps DEF Steps, ProposalInv, TypeOK

\* Only the step changes.
LEMMA GotoKeeps ==
  ASSUME ProposalInv, NEW r \in Requests, NEW pc \in {"continue", "claimed", "running"},
         rq[r].pc # "idle", Goto(r, pc),
         conv' \in [proposal : Proposal, auths : Seq(Authorization), pv : Nat],
         conv' = conv \/ conv'.pv > conv.pv, DOMAIN conv'.auths = DOMAIN conv.auths,
         \A i \in DOMAIN conv.auths : conv'.auths[i].id = conv.auths[i].id,
         Sound(conv'.auths, asks), Others,
         \A a \in DOMAIN execution' : a \in AuthIds /\ execution'[a] \in Execution
  PROVE  ProposalInv'
<1> DEFINE q == rq[r]
           x == [q EXCEPT !.pc = pc]
<1>1. q \in Request /\ rq \in [Requests -> Request]
  BY Reply
<1>2. x \in Request
  BY <1>1 DEF Request, Steps
<1>3. x.pc = pc /\ x.stored = q.stored /\ x.ask = q.ask /\ x.try = q.try
  BY <1>1 DEF Request
<1>4. rq' = [rq EXCEPT ![r] = x]
  BY <1>1 DEF Request
<1> HIDE DEF x
<1> QED
  BY <1>2, <1>3, <1>4, MoveKeeps DEF Steps

LEMMA SaveTurnKeeps ==
  ASSUME ProposalInv, NEW r \in Requests, SaveTurn(r)
  PROVE  ProposalInv'
<1>1. /\ rq[r].pc = "turn_save" /\ execution' = execution /\ Others
      /\ asks' = asks /\ proposals' = proposals /\ crashes' \in 0..MaxCrashes
      /\ \A a \in DOMAIN execution' : a \in AuthIds /\ execution'[a] \in Execution
      /\ conv.pv \in Nat /\ conv \in [proposal : Proposal, auths : Seq(Authorization), pv : Nat]
  BY Reply DEF SaveTurn, Others, ProposalInv, TypeOK
<1>2. CASE conv.pv = rq[r].pv
  <2>1. /\ conv' = [conv EXCEPT !.pv = @ + 1]
        /\ Goto(r, "continue") \/ Return(r)
    BY <1>2 DEF SaveTurn
  <2>2. conv.pv + 1 \in Nat /\ conv.pv + 1 > conv.pv
    BY <1>1
  <2>3. /\ conv' \in [proposal : Proposal, auths : Seq(Authorization), pv : Nat]
        /\ conv'.pv > conv.pv /\ conv'.auths = conv.auths
    BY <1>1, <2>1, <2>2
  <2>4. CASE Goto(r, "continue")
    BY <1>1, <2>3, <2>4, Reply, GotoKeeps
  <2>5. CASE Return(r)
    BY <1>1, <2>3, <2>5, EndKeeps
  <2> QED
    BY <2>1, <2>4, <2>5
<1>3. CASE conv.pv # rq[r].pv
  <2>1. Conflict(r, rq[r].stored) /\ conv' = conv
    BY <1>3 DEF SaveTurn
  <2>2. /\ Sound(rq[r].stored, asks)
        /\ \A i \in DOMAIN rq[r].stored :
             rq[r].stored[i].id[1] = rq[r].ask => rq[r].stored[i].id[2] <= rq[r].try
        /\ conv.auths = <<>> => \A i \in DOMAIN rq[r].stored : rq[r].stored[i].id[1] = rq[r].ask
    BY Reply DEF ReplyFits, Fresh
  <2> QED
    BY <1>1, <2>1, <2>2, ConflictKeeps
<1> QED
  BY <1>2, <1>3

\* The authorization a claim consumes, and the row and executions it leaves.
LEMMA ClaimEffect ==
  ASSUME ProposalInv, NEW r \in Requests, Claim(r)
  PROVE  /\ conv' \in [proposal : Proposal, auths : Seq(Authorization), pv : Nat]
         /\ conv'.pv > conv.pv /\ DOMAIN conv'.auths = DOMAIN conv.auths
         /\ Sound(conv'.auths, asks)
         /\ \A i \in DOMAIN conv.auths :
              /\ conv'.auths[i].id = conv.auths[i].id
              /\ conv.auths[i].status # "pending" => conv'.auths[i] = conv.auths[i]
         /\ presented(r) \in AuthIds
         /\ DOMAIN execution' = DOMAIN execution \cup {presented(r)}
         /\ \A a \in DOMAIN execution' :
              execution'[a] = IF a = presented(r)
                                THEN [state |-> "claimed", by |-> rq[r].ask]
                                ELSE execution[a]
<1> DEFINE id == presented(r)
           S == {i \in DOMAIN conv.auths : conv.auths[i].id = id}
           A == with_status(conv.auths, S, "consumed")
<1>1. /\ conv' = [conv EXCEPT !.auths = A, !.pv = @ + 1]
      /\ execution' = [a \in DOMAIN execution \cup {id} |->
                         IF a = id THEN [state |-> "claimed", by |-> rq[r].ask]
                         ELSE execution[a]]
  BY DEF Claim
<1>2. PICK k \in DOMAIN conv.auths : conv.auths[k].id = id /\ conv.auths[k].status = "pending"
  BY DEF Claim, Claims
<1>3. /\ Sound(conv.auths, asks) /\ conv.auths \in Seq(Authorization) /\ conv.pv \in Nat
      /\ conv \in [proposal : Proposal, auths : Seq(Authorization), pv : Nat]
  BY Reply
<1>4. id \in AuthIds
  BY <1>2, <1>3, Elements
<1>5. \A i \in S : i = k
  BY <1>2, <1>3 DEF Sound
<1>6. "consumed" \in Statuses
  BY DEF Statuses
<1> HIDE DEF S
<1>7. /\ A \in Seq(Authorization) /\ DOMAIN A = DOMAIN conv.auths /\ Sound(A, asks)
      /\ \A i \in DOMAIN conv.auths : A[i].id = conv.auths[i].id /\ (i \notin S => A[i] = conv.auths[i])
  BY <1>3, <1>6, StatusChange, StatusSound
<1> HIDE DEF A
<1>8. conv.pv + 1 \in Nat /\ conv.pv + 1 > conv.pv
  BY <1>3
<1>9. /\ conv' \in [proposal : Proposal, auths : Seq(Authorization), pv : Nat]
      /\ conv'.pv > conv.pv /\ conv'.auths = A
  BY <1>1, <1>3, <1>7, <1>8
<1>10. \A i \in DOMAIN conv.auths : conv.auths[i].status # "pending" => A[i] = conv.auths[i]
  BY <1>2, <1>5, <1>7
<1> HIDE DEF id
<1>11. /\ DOMAIN execution' = DOMAIN execution \cup {id}
       /\ \A a \in DOMAIN execution' :
            execution'[a] = IF a = id THEN [state |-> "claimed", by |-> rq[r].ask]
                            ELSE execution[a]
  BY <1>1
<1> QED
  BY <1>4, <1>7, <1>9, <1>10, <1>11 DEF id

\* A reply in progress may be recorded as the one that claimed an execution.
LEMMA AskTyped ==
  ASSUME ProposalInv, NEW r \in Requests, rq[r].pc # "idle"
  PROVE  rq[r].ask \in 1..MaxAsks
<1>1. rq[r].ask \in 1..asks /\ asks \in 0..MaxAsks /\ MaxAsks \in Nat
  BY Reply, ProposalAssumption DEF ReplyFits, ProposalInv, TypeOK
<1> QED
  BY <1>1

LEMMA ClaimKeeps ==
  ASSUME ProposalInv, NEW r \in Requests, Claim(r)
  PROVE  ProposalInv'
<1>1. \A a \in DOMAIN execution' : a \in AuthIds /\ execution'[a] \in Execution
  <2> DEFINE id == presented(r)
             new == [state |-> "claimed", by |-> rq[r].ask]
  <2>1. /\ id \in AuthIds /\ DOMAIN execution' = DOMAIN execution \cup {id}
        /\ \A a \in DOMAIN execution' : execution'[a] = IF a = id THEN new ELSE execution[a]
    BY ClaimEffect
  <2>2. \A a \in DOMAIN execution : a \in AuthIds /\ execution[a] \in Execution
    BY DEF ProposalInv, TypeOK
  <2>3. new \in Execution
    BY AskTyped DEF Claim, Execution
  <2> HIDE DEF id, new
  <2> QED
    BY <2>1, <2>2, <2>3
<1>2. rq[r].pc = "continue" /\ Goto(r, "claimed") /\ Others
  BY DEF Claim
<1> QED
  BY <1>1, <1>2, ClaimEffect, GotoKeeps

\* The steps of a claimed execution neither open one nor end one.
LEMMA ExecutionKept ==
  ASSUME ProposalInv, NEW r \in Requests, Reclaim(r) \/ BeginAttempt(r) \/ Close(r)
  PROVE  /\ DOMAIN execution' = DOMAIN execution
         /\ \A a \in DOMAIN execution' : a \in AuthIds /\ execution'[a] \in Execution
<1> DEFINE id == presented(r)
<1>1. \A a \in DOMAIN execution : a \in AuthIds /\ execution[a] \in Execution
  BY DEF ProposalInv, TypeOK
<1>2. rq[r].ask \in 1..MaxAsks
  BY AskTyped DEF Reclaim, BeginAttempt, Close
<1>3. \/ execution' = [execution EXCEPT ![id].by = rq[r].ask]
      \/ execution' = [execution EXCEPT ![id].state = "running"]
      \/ execution' = [execution EXCEPT ![id].state = "closed"]
  BY DEF Reclaim, BeginAttempt, Close
<1> HIDE DEF id
<1> QED
  BY <1>1, <1>2, <1>3 DEF Execution

\* A reply that takes a claim over, or starts its attempt.
LEMMA AdvanceKeeps ==
  ASSUME ProposalInv, NEW r \in Requests, Reclaim(r) \/ BeginAttempt(r)
  PROVE  ProposalInv'
<1>1. /\ conv' = conv /\ Others /\ rq[r].pc # "idle"
      /\ Goto(r, "claimed") \/ Goto(r, "running")
  BY DEF Reclaim, BeginAttempt
<1>2. /\ conv \in [proposal : Proposal, auths : Seq(Authorization), pv : Nat]
      /\ Sound(conv.auths, asks)
  BY Reply
<1> QED
  BY <1>1, <1>2, ExecutionKept, GotoKeeps

\* A reply that is refused, closes its execution or leaves it, or dies.
LEMMA LeaveKeeps ==
  ASSUME ProposalInv, NEW r \in Requests,
         Refused(r) \/ Close(r) \/ NotClosed(r) \/ Crash(r)
  PROVE  ProposalInv'
<1>1. conv' = conv /\ asks' = asks /\ proposals' = proposals /\ rq[r].pc # "idle" /\ Return(r)
  BY DEF Refused, Close, NotClosed, Crash, Others
<1>2. crashes' \in 0..MaxCrashes
  BY Reply, ProposalAssumption DEF Refused, Close, NotClosed, Crash, Others
<1>3. \A a \in DOMAIN execution' : a \in AuthIds /\ execution'[a] \in Execution
  <2>1. CASE Close(r)
    BY <2>1, ExecutionKept
  <2>2. CASE execution' = execution
    BY <2>2 DEF ProposalInv, TypeOK
  <2> QED
    BY <2>1, <2>2 DEF Refused, NotClosed, Crash
<1> QED
  BY <1>1, <1>2, <1>3, Reply, EndKeeps

\* A new reply takes the next number, so its ids are in no list.
LEMMA AskKeeps ==
  ASSUME ProposalInv, NEW r \in Requests, NEW kind \in Kinds, NEW target, Ask(r, kind, target)
  PROVE  ProposalInv'
<1> DEFINE life == lifecycle(kind, conv.proposal, target)
           p == composed(life, conv.proposal)
           x == [idle EXCEPT !.pc = "load", !.ask = asks + 1, !.try = 1,
                             !.lifecycle = life, !.proposal = p]
<1>1. /\ rq[r].pc = "idle" /\ asks < MaxAsks /\ asks' = asks + 1
      /\ life \in {"propose", "replace"} => proposals < MaxProposals
      /\ proposals' = IF life \in {"propose", "replace"} THEN proposals + 1 ELSE proposals
      /\ rq' = [rq EXCEPT ![r] = x]
      /\ conv' = conv /\ crashes' = crashes /\ execution' = execution
  BY DEF Ask
<1>2. /\ asks \in Nat /\ MaxAsks \in Nat /\ Attempts \in Nat \ {0} /\ MaxProposals \in Nat
      /\ proposals \in 0..MaxProposals /\ conv.proposal \in Proposal
      /\ rq \in [Requests -> Request] /\ conv.auths \in Seq(Authorization) /\ conv.pv \in Nat
      /\ conv \in [proposal : Proposal, auths : Seq(Authorization), pv : Nat]
  BY Reply, ProposalAssumption DEF Ids
<1>3. asks' \in Nat /\ asks' \in 0..MaxAsks /\ asks' \in 1..MaxAsks /\ asks <= asks'
  BY <1>1, <1>2
<1>4. proposals' \in Ids
  BY <1>1, <1>2 DEF Ids
<1>5. life \in Lifecycles
  BY DEF lifecycle, Lifecycles
<1>6. p \in Proposal
  <2>1. CASE life \in {"propose", "replace"}
    BY <1>1, <1>2, <2>1 DEF composed, Proposal, Ids
  <2>2. CASE life = "confirm"
    BY <1>2, <2>2 DEF composed, Proposal
  <2>3. CASE life \notin {"propose", "replace", "confirm"}
    BY <1>2, <2>3 DEF composed
  <2> QED
    BY <2>1, <2>2, <2>3
<1>7. 1 \in 0..Attempts /\ 1 \in 1..Attempts
  BY <1>2
<1> HIDE DEF life, p
<1>8. idle \in Request
  BY <1>2, IdleFits
<1>9. x \in Request
  BY <1>1, <1>3, <1>5, <1>6, <1>7, <1>8, Zenon DEF Request, Steps
<1>10. x.pc = "load" /\ x.ask = asks' /\ x.try = 1 /\ x.stored = <<>>
  BY <1>1 DEF idle
<1> HIDE DEF x
<1>11. \A i \in DOMAIN conv.auths : conv.auths[i].id[1] # asks'
  <2>1. \A i \in DOMAIN conv.auths : conv.auths[i].id[1] \in Nat /\ conv.auths[i].id[1] <= asks
    BY <1>2, Reply, Elements, IdParts DEF Sound
  <2> QED
    BY <1>1, <1>2, <2>1
<1>12. ReplyFits(x, conv, asks')
  <2>1. Fresh(x, conv.auths) /\ Fresh(x, <<>>)
    BY <1>10, <1>11 DEF Fresh
  <2>2. Sound(<<>>, asks')
    BY <1>3, EmptySound
  <2>3. x.ask \in 1..asks'
    BY <1>1, <1>2, <1>10
  <2> QED
    BY <1>7, <1>10, <2>1, <2>2, <2>3 DEF ReplyFits
<1>13. \A s \in Requests : rq'[s] = IF s = r THEN x ELSE rq[s]
  BY <1>1, <1>2
<1>14. TypeOK'
  <2>1. rq' \in [Requests -> Request]
    BY <1>1, <1>2, <1>9
  <2>2. conv' \in [proposal : Proposal, auths : Seq(Authorization), pv : Nat]
    BY <1>1, <1>2
  <2> QED
    BY <1>1, <1>3, <1>4, <2>1, <2>2 DEF TypeOK, ProposalInv
<1>15. Sound(conv'.auths, asks')
  BY <1>1, <1>2, <1>3, Reply, SoundMonotone
<1>16. ASSUME NEW s \in Requests PROVE ReplyFits(rq'[s], conv', asks')
  <2>1. CASE s = r
    BY <1>1, <1>12, <1>13, <2>1
  <2>2. CASE s # r
    <3>1. rq'[s] = rq[s] /\ rq[s] \in Request /\ ReplyFits(rq[s], conv, asks)
      BY <1>13, <2>2, Reply
    <3>2. Fresh(rq[s], conv.auths)
      BY <3>1 DEF ReplyFits
    <3>3. ReplyFits(rq[s], conv, asks')
      BY <1>2, <1>3, <3>1, <3>2, Frame
    <3> QED
      BY <1>1, <3>1, <3>3
  <2> QED
    BY <2>1, <2>2
<1>17. AsksDistinct'
  <2>1. \A s \in Requests : rq[s].ask # asks'
    BY <1>1, <1>2, Reply DEF ReplyFits
  <2> QED
    BY <1>10, <1>13, <2>1 DEF AsksDistinct, ProposalInv
<1> QED
  BY <1>14, <1>15, <1>16, <1>17 DEF ProposalInv

LEMMA NextKeeps ==
  ASSUME ProposalInv, [Next]_vars
  PROVE  ProposalInv'
<1>1. CASE UNCHANGED vars
  BY <1>1 DEF vars, ProposalInv, TypeOK, AsksDistinct, At
<1>2. ASSUME NEW r \in Requests, NEW kind \in Kinds, NEW target, Ask(r, kind, target)
      PROVE  ProposalInv'
  BY <1>2, AskKeeps
<1>3. ASSUME NEW r \in Requests, Step(r)
      PROVE  ProposalInv'
  BY <1>3, LoadKeeps, SaveKeeps, SaveConflictKeeps, ReadTurnKeeps, SaveTurnKeeps,
     ClaimKeeps, AdvanceKeeps, LeaveKeeps DEF Step
<1>4. ASSUME NEW r \in Requests, Crash(r)
      PROVE  ProposalInv'
  BY <1>4, LeaveKeeps
<1> QED
  BY <1>1, <1>2, <1>3, <1>4 DEF Next

-----------------------------------------------------------------------------
(* The theorems *)

\* In every reachable state, for any number of replies and attempts: types, one
\* authorization per proposal in the row and in every hand, fresh ids, and a
\* list in hand that a winning save may store.
THEOREM ProposalSafety == Spec => []ProposalInv
<1>1. Init => ProposalInv
  <2> SUFFICES ASSUME Init PROVE ProposalInv
    OBVIOUS
  <2>1. /\ conv.auths = <<>> /\ asks = 0 /\ 0 \in Nat
        /\ \A r \in Requests : rq[r] = idle
        /\ conv \in [proposal : Proposal, auths : Seq(Authorization), pv : Nat]
    BY ProposalAssumption DEF Init, Proposal, no_proposal, Ids
  <2>2. \A r \in Requests : ReplyFits(rq[r], conv, asks) /\ rq[r] \in Request
    BY <2>1, IdleFits
  <2>3. TypeOK
    BY <2>1, <2>2, ProposalAssumption DEF Init, TypeOK, Ids
  <2>4. Sound(conv.auths, asks)
    BY <2>1, EmptySound
  <2>5. AsksDistinct
    BY <2>1 DEF AsksDistinct, idle
  <2> QED
    BY <2>2, <2>3, <2>4, <2>5 DEF ProposalInv
<1>2. ProposalInv /\ [Next]_vars => ProposalInv'
  BY NextKeeps
<1> QED
  BY <1>1, <1>2, PTL DEF Spec

\* Near-simultaneous and repeated confirmations leave one authorization per
\* proposal, whatever the number of replies that race in _persist_proposal.
THEOREM OneAuthorization == Spec => []OneAuthorizationPerProposal
<1>1. ProposalInv => OneAuthorizationPerProposal
  BY DEF ProposalInv, Sound, OneAuthorizationPerProposal
<1> QED
  BY <1>1, ProposalSafety, PTL

\* Only a save and a claim change the stored list; neither touches an
\* authorization that is consumed, cancelled or invalidated.
LEMMA ListChanges ==
  ASSUME ProposalInv, [Next]_vars
  PROVE  \/ conv'.auths = conv.auths
         \/ \E r \in Requests : Save(r) \/ Claim(r)
<1>1. ASSUME NEW r \in Requests, SaveTurn(r)
      PROVE  conv'.auths = conv.auths
  BY <1>1, Reply DEF SaveTurn
<1> QED
  BY <1>1 DEF Next, vars, Step, Ask, Load, SaveConflict, ReadTurn, Reclaim, Refused,
                BeginAttempt, Close, NotClosed, Crash

\* No late save brings back an authorization that reached a final status.
THEOREM FinalForGood == Spec => FinalStays
<1> DEFINE Kept == \A i \in DOMAIN conv.auths :
                     conv.auths[i].status # "pending" =>
                       i \in DOMAIN conv'.auths /\ conv'.auths[i] = conv.auths[i]
<1>1. ProposalInv /\ [Next]_vars => Kept
  <2> SUFFICES ASSUME ProposalInv, [Next]_vars PROVE Kept
    OBVIOUS
  <2>1. ASSUME NEW r \in Requests, Save(r) PROVE Kept
    <3> DEFINE A == authorizations_to_store(r)
    <3>1. conv'.auths = A /\ rq[r].pc = "save" /\ Saves(r)
      BY <2>1 DEF Save
    <3>2. /\ DOMAIN rq[r].stored \subseteq DOMAIN A
          /\ \A i \in DOMAIN rq[r].stored :
               rq[r].stored[i].status # "pending" => A[i] = rq[r].stored[i]
      BY <3>1, Stored
    <3>3. rq[r].stored = conv.auths \/ conv.auths = <<>>
      BY <3>1, SaveKnowsRow
    <3> HIDE DEF A
    <3>4. CASE rq[r].stored = conv.auths
      BY <3>1, <3>2, <3>4
    <3>5. CASE conv.auths = <<>>
      BY <3>5
    <3> QED
      BY <3>3, <3>4, <3>5
  <2>2. ASSUME NEW r \in Requests, Claim(r) PROVE Kept
    BY <2>2, ClaimEffect
  <2>3. CASE conv'.auths = conv.auths
    BY <2>3
  <2> QED
    BY <2>1, <2>2, <2>3, ListChanges
<1>2. ProposalInv /\ [Next]_vars => [Kept]_vars
  BY <1>1
<1> QED
  BY <1>2, ProposalSafety, PTL DEF Spec, FinalStays

\* Research starts at most once for a proposal, from an authorization that was
\* pending in the row.
THEOREM OneStart == Spec => OneStartPerProposal
<1> DEFINE Started ==
      \A a \in DOMAIN execution' \ DOMAIN execution :
        \E i \in DOMAIN conv.auths :
          /\ conv.auths[i].id = a /\ conv.auths[i].status = "pending"
          /\ ~ \E j \in DOMAIN conv.auths :
                 j # i /\ conv.auths[j].proposal = conv.auths[i].proposal
                 /\ conv.auths[j].id \in DOMAIN execution
<1>1. ProposalInv /\ [Next]_vars => Started
  <2> SUFFICES ASSUME ProposalInv, [Next]_vars PROVE Started
    OBVIOUS
  <2>1. ASSUME NEW r \in Requests, Claim(r) PROVE Started
    <3> DEFINE id == presented(r)
    <3>1. PICK i \in DOMAIN conv.auths : conv.auths[i].id = id /\ conv.auths[i].status = "pending"
      BY <2>1 DEF Claim, Claims
    <3>2. DOMAIN execution' = DOMAIN execution \cup {id}
      BY <2>1, ClaimEffect
    <3>3. \A j \in DOMAIN conv.auths : conv.auths[j].proposal = conv.auths[i].proposal => j = i
      BY DEF ProposalInv, Sound
    <3> HIDE DEF id
    <3> QED
      BY <3>1, <3>2, <3>3
  <2>2. CASE \E r \in Requests : Reclaim(r) \/ BeginAttempt(r) \/ Close(r)
    BY <2>2, ExecutionKept
  <2>3. CASE execution' = execution
    BY <2>3
  <2> QED
    BY <2>1, <2>2, <2>3 DEF Next, vars, Step, Ask, Load, Save, SaveConflict, ReadTurn,
                            SaveTurn, Refused, NotClosed, Crash
<1>2. ProposalInv /\ [Next]_vars => [Started]_vars
  BY <1>1
<1> QED
  BY <1>2, ProposalSafety, PTL DEF Spec, OneStartPerProposal
==============================================================================
