------------------------- MODULE ProposalConfirmation -------------------------
(***************************************************************************)
(* The research proposal of one conversation: how the shopper's replies     *)
(* propose, replace, cancel and confirm it, which authorizations that       *)
(* leaves, and when a confirmed one starts research.  Sources:              *)
(* app/services/propose_research.py (handle, compose_research_proposal,     *)
(* _persist_proposal), app/services/research_authorization.py,              *)
(* app/services/confirmed_research_execution.py (continue_confirmed) and    *)
(* the conversation repository's save and append_turn.                      *)
(*                                                                          *)
(* A reply is composed from the proposal read at its start, and saved up to *)
(* three times over the conversation as it is then, so replies in progress  *)
(* at the same time interleave between those reads and writes.  The claim   *)
(* and the execution behind it are LiveStartClaim; here a claim and each     *)
(* step of the adapter is the one transaction that it commits, and a claim  *)
(* may have run out whenever another reply looks at it.                     *)
(*                                                                          *)
(* A reply's wording is its kind and the proposal its chip names.  Proposal *)
(* ids are fresh, so proposal_version adds nothing to them.  The decision   *)
(* keeps its context version (ResultsIntegration moves it).                 *)
(***************************************************************************)
EXTENDS Naturals, Sequences, FiniteSets

CONSTANTS
  Requests,      \* replies in progress at the same time
  Attempts,      \* _PERSIST_ATTEMPTS
  MaxAsks,       \* bound: replies in all
  MaxProposals,  \* bound: proposals composed
  MaxCrashes     \* bound: processes that die during a reply

ASSUME ProposalAssumption ==
  /\ Attempts \in Nat \ {0} /\ MaxAsks \in Nat
  /\ MaxProposals \in Nat /\ MaxCrashes \in Nat

VARIABLES
  conv,       \* the conversation row
  rq,         \* per request: control state and local variables
  asks,       \* replies so far
  proposals,  \* proposals composed so far; their ids are 1..proposals
  crashes,    \* processes that died so far
  execution   \* per authorization id with a claim: its state and who claimed it last

vars == <<conv, rq, asks, proposals, crashes, execution>>

-----------------------------------------------------------------------------
Ids == 0..MaxProposals                       \* 0: no proposal
Proposal == [id : Ids, status : {"none", "pending", "confirmed"}]
no_proposal == [id |-> 0, status |-> "none"]

AuthIds == (1..MaxAsks) \X (1..Attempts)     \* the reply and attempt that made it
Statuses == {"pending", "consumed", "cancelled", "invalidated"}
Authorization == [id : AuthIds, proposal : Ids, status : Statuses]

Kinds == {"need", "confirm", "cancel", "ambiguous"}
Lifecycles == {"none", "propose", "replace", "confirm", "reconfirm", "cancel", "keep"}
Steps == {"idle", "load", "save", "turn", "turn_save", "continue", "claimed", "running"}

\* by: the reply that claimed it last.
Execution == [state : {"claimed", "running", "closed"}, by : 1..MaxAsks]

\* proposal: what the reply composed; stored: the authorizations in hand; pv:
\* the row version in hand; made: position in conv.auths of the reply's own.
Request == [pc : Steps, ask : 0..MaxAsks, try : 0..Attempts, lifecycle : Lifecycles,
            proposal : Proposal, stored : Seq(Authorization), pv : Nat, made : Nat]

idle == [pc |-> "idle", ask |-> 0, try |-> 0, lifecycle |-> "none",
         proposal |-> no_proposal, stored |-> <<>>, pv |-> 0, made |-> 0]

Init ==
  /\ conv = [proposal |-> no_proposal, auths |-> <<>>, pv |-> 0]
  /\ rq = [r \in Requests |-> idle]
  /\ asks = 0 /\ proposals = 0 /\ crashes = 0
  /\ execution = <<>>

At(r, pc) == rq[r].pc = pc
Goto(r, pc) == rq' = [rq EXCEPT ![r].pc = pc]
Return(r) == rq' = [rq EXCEPT ![r] = idle]
Others == UNCHANGED <<asks, proposals, crashes>>

-----------------------------------------------------------------------------
(* handle and compose_research_proposal *)

\* confirmation_correlation: the confirmation names the proposal that was read.
Confirms(existing, target) == target = existing.id

\* What a reply of some kind makes of the proposal it read: "keep" stands for
\* ambiguous, unbound, stale and no_pending replies, which save it unchanged.
lifecycle(kind, existing, target) ==
  LET active == existing.status # "none"
  IN CASE kind = "need" /\ active -> "replace"
       [] kind = "need" -> "propose"
       [] kind = "cancel" /\ active -> "cancel"
       [] kind = "confirm" /\ active /\ target # 0 /\ Confirms(existing, target) ->
            IF existing.status = "pending" THEN "confirm" ELSE "reconfirm"
       [] OTHER -> "keep"

composed(life, existing) ==
  CASE life \in {"propose", "replace"} -> [id |-> proposals + 1, status |-> "pending"]
    [] life = "confirm" -> [existing EXCEPT !.status = "confirmed"]
    [] OTHER -> existing

\* A reply arrives; the proposal is read and the answer composed from it.
Ask(r, kind, target) ==
  LET life == lifecycle(kind, conv.proposal, target)
  IN /\ At(r, "idle")
     /\ asks < MaxAsks
     /\ life \in {"propose", "replace"} => proposals < MaxProposals
     /\ asks' = asks + 1
     /\ proposals' = IF life \in {"propose", "replace"} THEN proposals + 1 ELSE proposals
     /\ rq' = [rq EXCEPT ![r] = [idle EXCEPT !.pc = "load", !.ask = asks + 1, !.try = 1,
                 !.lifecycle = life, !.proposal = composed(life, conv.proposal)]]
     /\ UNCHANGED <<conv, crashes, execution>>

-----------------------------------------------------------------------------
(* _persist_proposal *)

\* The conversation is read again; its authorizations replace those in hand
\* unless it has none.
Load(r) ==
  /\ At(r, "load")
  /\ rq' = [rq EXCEPT ![r].pc = "save", ![r].pv = conv.pv,
       ![r].stored = IF conv.auths # <<>> THEN conv.auths ELSE @]
  /\ UNCHANGED <<conv, execution>> /\ Others

\* Mutant: only an authorization that is still pending is reused.
find_pending(auths, p) ==
  {i \in DOMAIN auths : auths[i].proposal = p /\ auths[i].status = "pending"}

\* _find_by_idempotency: the positions of this proposal's authorizations.
find_by_idempotency(auths, p) == {i \in DOMAIN auths : auths[i].proposal = p}

\* current_unconsumed_authorization: the last pending one.
current_unconsumed(auths) ==
  LET pending == {i \in DOMAIN auths : auths[i].status = "pending"}
  IN {i \in pending : \A j \in pending : j <= i}

with_status(auths, S, status) ==
  [i \in DOMAIN auths |-> IF i \in S THEN [auths[i] EXCEPT !.status = status] ELSE auths[i]]

\* _authorization_for_persist and upsert_authorization.
authorizations_to_store(r) ==
  LET auths == rq[r].stored  p == rq[r].proposal.id
  IN CASE rq[r].lifecycle \in {"confirm", "reconfirm"} ->
            IF find_by_idempotency(auths, p) # {} THEN auths
            ELSE Append(auths, [id |-> <<rq[r].ask, rq[r].try>>, proposal |-> p,
                                status |-> "pending"])
       [] rq[r].lifecycle = "cancel" -> with_status(auths, current_unconsumed(auths), "cancelled")
       [] rq[r].lifecycle = "replace" -> with_status(auths, current_unconsumed(auths), "invalidated")
       [] OTHER -> auths

proposal_to_store(r) == IF rq[r].lifecycle = "cancel" THEN no_proposal ELSE rq[r].proposal

\* The position of the reply's own authorization, 0 without one.
own_authorization(r, auths) ==
  IF rq[r].lifecycle \in {"confirm", "reconfirm"}
    THEN CHOOSE i \in find_by_idempotency(auths, rq[r].proposal.id) :
           \A j \in find_by_idempotency(auths, rq[r].proposal.id) : j <= i
    ELSE 0

\* Mutant: the row version is not compared.
SavesBlindly(r) == TRUE

\* Compare-and-swap on persistence_version.
Saves(r) == conv.pv = rq[r].pv

\* ConversationVersionConflictError: the next attempt, or it is raised.
\* The authorizations of the lost attempt stay in hand.
Conflict(r, auths) ==
  IF rq[r].try < Attempts
    THEN rq' = [rq EXCEPT ![r].pc = "load", ![r].try = @ + 1, ![r].pv = 0,
                          ![r].made = 0, ![r].stored = auths]
    ELSE Return(r)

\* save: the composed proposal and the authorizations over the row just read.
Save(r) ==
  LET auths == authorizations_to_store(r)
  IN /\ At(r, "save")
     /\ Saves(r)
     /\ conv' = [proposal |-> proposal_to_store(r), auths |-> auths, pv |-> conv.pv + 1]
     /\ rq' = [rq EXCEPT ![r].pc = "turn", ![r].stored = auths, ![r].pv = 0,
                         ![r].made = own_authorization(r, auths)]
     /\ UNCHANGED execution /\ Others

SaveConflict(r) ==
  /\ At(r, "save")
  /\ ~ Saves(r)
  /\ Conflict(r, authorizations_to_store(r))
  /\ UNCHANGED <<conv, execution>> /\ Others

\* append_turn reads the row and saves it with one turn more.
ReadTurn(r) ==
  /\ At(r, "turn")
  /\ rq' = [rq EXCEPT ![r].pc = "turn_save", ![r].pv = conv.pv]
  /\ UNCHANGED <<conv, execution>> /\ Others

SaveTurn(r) ==
  /\ At(r, "turn_save")
  /\ IF conv.pv = rq[r].pv
       THEN /\ conv' = [conv EXCEPT !.pv = @ + 1]
            /\ IF rq[r].made # 0 /\ rq[r].stored[rq[r].made].status = "pending"
                 THEN Goto(r, "continue") ELSE Return(r)
       ELSE Conflict(r, rq[r].stored) /\ UNCHANGED conv
  /\ UNCHANGED execution /\ Others

-----------------------------------------------------------------------------
(* continue_confirmed *)

presented(r) == rq[r].stored[rq[r].made].id

\* Mutant: the authorization presented is consumed without a look at the row.
ClaimsPresented(r) == \E i \in DOMAIN conv.auths : conv.auths[i].id = presented(r)

\* The claim finds the presented authorization stored and still pending.
Claims(r) ==
  \E i \in DOMAIN conv.auths :
    /\ conv.auths[i].id = presented(r)
    /\ conv.auths[i].status = "pending"

\* The claim consumes the authorization and opens its execution.
Claim(r) ==
  LET id == presented(r)
      S == {i \in DOMAIN conv.auths : conv.auths[i].id = id}
  IN /\ At(r, "continue")
     /\ Claims(r)
     /\ conv' = [conv EXCEPT !.auths = with_status(@, S, "consumed"), !.pv = @ + 1]
     /\ execution' = [a \in DOMAIN execution \cup {id} |->
                        IF a = id THEN [state |-> "claimed", by |-> rq[r].ask]
                        ELSE execution[a]]
     /\ Goto(r, "claimed")
     /\ Others

\* A reply whose copy of the authorization is still pending resumes the claim of
\* another reply that ran out before the attempt.
Reclaim(r) ==
  LET id == presented(r)
  IN /\ At(r, "continue")
     /\ \E i \in DOMAIN conv.auths : conv.auths[i].id = id /\ conv.auths[i].status = "consumed"
     /\ id \in DOMAIN execution /\ execution[id].state = "claimed"
     /\ execution' = [execution EXCEPT ![id].by = rq[r].ask]
     /\ Goto(r, "claimed")
     /\ UNCHANGED conv /\ Others

\* A gate is closed, or the claim is refused.
Refused(r) ==
  /\ At(r, "continue")
  /\ Return(r)
  /\ UNCHANGED <<conv, execution>> /\ Others

\* The adapter starts the attempt of the reply that holds the claim.
BeginAttempt(r) ==
  LET id == presented(r)
  IN /\ At(r, "claimed")
     /\ execution[id] = [state |-> "claimed", by |-> rq[r].ask]
     /\ execution' = [execution EXCEPT ![id].state = "running"]
     /\ Goto(r, "running")
     /\ UNCHANGED conv /\ Others

\* The outcome is committed and closes the execution; the reply is answered.
Close(r) ==
  /\ At(r, "running")
  /\ execution' = [execution EXCEPT ![presented(r)].state = "closed"]
  /\ Return(r)
  /\ UNCHANGED conv /\ Others

\* The adapter refuses, before the attempt or after it, and leaves the execution
\* as it is; the reply is answered.
NotClosed(r) ==
  /\ rq[r].pc \in {"claimed", "running"}
  /\ Return(r)
  /\ UNCHANGED <<conv, execution>> /\ Others

Crash(r) ==
  /\ crashes < MaxCrashes
  /\ ~ At(r, "idle")
  /\ crashes' = crashes + 1
  /\ Return(r)
  /\ UNCHANGED <<conv, execution, asks, proposals>>

-----------------------------------------------------------------------------
Step(r) ==
  \/ Load(r) \/ Save(r) \/ SaveConflict(r) \/ ReadTurn(r) \/ SaveTurn(r)
  \/ Claim(r) \/ Reclaim(r) \/ Refused(r) \/ BeginAttempt(r) \/ Close(r) \/ NotClosed(r)

Next ==
  \E r \in Requests :
    \/ \E kind \in Kinds, target \in 0..proposals :
         (kind = "confirm" \/ target = 0) /\ Ask(r, kind, target)
    \/ Step(r)
    \/ Crash(r)

Spec == Init /\ [][Next]_vars

-----------------------------------------------------------------------------
TypeOK ==
  /\ conv \in [proposal : Proposal, auths : Seq(Authorization), pv : Nat]
  /\ rq \in [Requests -> Request]
  /\ asks \in 0..MaxAsks /\ proposals \in Ids /\ crashes \in 0..MaxCrashes
  /\ \A a \in DOMAIN execution : a \in AuthIds /\ execution[a] \in Execution

\* Near-simultaneous and repeated confirmations leave one authorization per
\* proposal: the loser of a compare-and-swap reuses the winner's.
OneAuthorizationPerProposal ==
  \A i, j \in DOMAIN conv.auths :
    conv.auths[i].proposal = conv.auths[j].proposal => i = j

\* An authorization never leaves a final status: no reply saved late brings a
\* cancelled, invalidated or consumed one back.
FinalStays ==
  [][\A i \in DOMAIN conv.auths :
       conv.auths[i].status # "pending" =>
         i \in DOMAIN conv'.auths /\ conv'.auths[i] = conv.auths[i]]_vars

\* Research starts at most once for a proposal, and only while its stored
\* authorization was pending.
OneStartPerProposal ==
  [][\A a \in DOMAIN execution' \ DOMAIN execution :
       \E i \in DOMAIN conv.auths :
         /\ conv.auths[i].id = a /\ conv.auths[i].status = "pending"
         /\ ~ \E j \in DOMAIN conv.auths :
                j # i /\ conv.auths[j].proposal = conv.auths[i].proposal
                /\ conv.auths[j].id \in DOMAIN execution]_vars
==============================================================================
