------------------------ MODULE AccountIdentityProofs ------------------------
(***************************************************************************)
(* Proofs about AccountIdentity for any number of sessions, tokens and      *)
(* addresses, and whatever fails.  Two invariants are inductive together.   *)
(* AccountInv is about requests that overlap in any way; what it says of    *)
(* verified addresses needs that no password reset is confirmed beside      *)
(* another request (Sound): the row a reset saves may be an old one, and    *)
(* then a verification confirms an address its token was not sent to.       *)
(* AloneInv is about requests that come one after another, each of which    *)
(* may stop at any call.                                                    *)
(***************************************************************************)
EXTENDS AccountIdentity, FiniteSetTheorems, TLAPS

USE DEF At, Stop, Proceed

-----------------------------------------------------------------------------
(* The inductive invariant *)

NoReset == "confirm_reset" \notin Ops

\* No reset saves a row that is older than a change: clients confirm none, or no
\* two requests of the account have overlapped.
Sound == NoReset \/ ~ overlapped

RowsOK ==
  /\ user \in Row
  /\ session \in [Sessions -> {"none", "live", "revoked", "gone"}]
  /\ token \in [Tokens -> TokenRow]
  /\ owned \subseteq Kept \cup {"consents"}
  /\ taken \subseteq Emails /\ expired \subseteq Sessions \cup Tokens
  /\ registered \in BOOLEAN
  /\ effected \subseteq Tokens /\ revoked_by_newer \subseteq Tokens
  /\ notices \in [Tokens -> 0..2] /\ proven \subseteq Emails

\* The confirmation q has saved its effect.
PastSave(q) ==
  \/ q.op \in {"confirm_reset", "confirm_verification"} /\ q.pc > 3
  \/ q.op = "confirm_change" /\ q.pc > 6

\* The account was created and is not unverified any more.
Settled(u, reg) == reg /\ (u.present => u.verified)

\* A user row, stored or in a request's hand: an address that is not the first
\* one was confirmed.
UserFits(u, reg, prov) ==
  /\ u.present => reg
  /\ u.present /\ u.verified => u.email \in prov
  /\ ~(u.present /\ u.verified) => u.email = First

\* Request q, which may hold an old copy of the row u.
CopyFits(q, u, reg, prov) ==
  /\ UserFits(q.user, reg, prov)
  /\ q.user.present /\ q.user.verified => Settled(u, reg)
ConfirmFits(q, tok, prov) ==
  /\ q.op = "confirm_reset" => ~ NoReset
  /\ q.op \in Confirmations => tok[q.token].state # "none"
  /\ q.op = "confirm_change" => /\ q.pc > 1 => q.email \in prov
                                /\ q.pc > 3 => q.user.present
  /\ q.op = "confirm_verification" =>
       /\ q.pc > 1 => tok[q.token].sent \in prov
       /\ q.pc > 2 => q.user.present /\ (q.user.verified \/ tok[q.token].sent = First)
RequestFits(q, u, reg, prov, tok) ==
  /\ CopyFits(q, u, reg, prov) /\ ConfirmFits(q, tok, prov)
  /\ q.op = "register" /\ q.pc <= 2 => ~reg

\* A link goes to the address it confirms; one that went to another address than
\* the first was sent after the account was verified.
TokensFit(tok, u, reg) ==
  \A k \in Tokens : tok[k].state # "none" =>
    /\ k \in Changes => tok[k].sent = tok[k].email
    /\ k \in Verifications /\ tok[k].sent # First => Settled(u, reg)

OneRegistration ==
  \A r, s \in Requests : rq[r].op = "register" /\ rq[s].op = "register" => r = s

AccountInv ==
  /\ RowsOK
  /\ rq \in [Requests -> Request] /\ \A r \in Requests : RequestOK(rq[r])
  /\ TokenSpentForEffect
  /\ \A r \in Requests : PastSave(rq[r]) => rq[r].token \in effected
  /\ Sound =>
       /\ UserFits(user, registered, proven) /\ TokensFit(token, user, registered)
       /\ \A r \in Requests : RequestFits(rq[r], user, registered, proven, token)
       /\ OneRegistration

-----------------------------------------------------------------------------
(* The inductive invariant of requests that come one after another *)

\* The places at which a request knows that the account exists.
Holds(q) ==
  \/ q.op = "register" /\ q.pc > 2
  \/ q.op \in {"login", "request_reset", "request_verification", "validate", "logout",
               "keep", "request_change", "delete"} /\ q.pc > 1
  \/ q.op \in {"confirm_reset", "confirm_verification"} /\ q.pc > 2
  \/ q.op = "confirm_change" /\ q.pc > 3

\* What the requests so far left in the rows, wherever each one stopped.  A token
\* whose notice was sent is applied, so that a retry sends no second one.
AloneRows ==
  /\ user.present => registered
  /\ ~ user.present => NothingLeft
  /\ \A k \in Tokens :
       /\ notices[k] <= 1 /\ (notices[k] # 0 => k \in Changes)
       /\ token[k].state = "none" => notices[k] = 0
       /\ token[k].state = "issued" /\ notices[k] # 0 =>
            user.verified /\ user.email = token[k].email
  /\ \A k, x \in Unconsumed : k = x

\* What the request r knows, if it is the only one: of the account,
AloneUser(r) ==
  LET q == rq[r]
  IN  /\ q.op = "register" /\ q.pc <= 2 => ~ registered
      /\ Holds(q) => user.present
      /\ q.op \in {"confirm_reset", "confirm_verification"} /\ q.pc = 3 => q.user = user
      /\ q.op \in {"validate", "logout", "keep", "request_change", "delete"} =>
           /\ q.pc = 1 => q.session \in Sessions
           /\ q.pc = 2 => session[q.session] = "live"
\* of the change tokens that a newer one invalidates,
AloneRequest(r) ==
  LET q == rq[r]
  IN  q.op = "request_change" => /\ q.pc = 6 => Unconsumed \subseteq q.todo
                                 /\ q.pc = 7 => Unconsumed = {}
\* of the address it changes,
AloneConfirm(r) ==
  LET q == rq[r]
  IN  q.op = "confirm_change" =>
        /\ q.pc > 1 => q.email = token[q.token].email
        /\ q.pc \in 2..8 => token[q.token].state = "issued"
        /\ q.pc \in 4..6 => q.user = user
        /\ q.pc = 6 => \A s \in Sessions : session[s] # "live"
        /\ q.pc = 7 => notices[q.token] = 0
        /\ q.pc \in 7..8 => user.email = q.email /\ user.verified
\* and of what a deletion has removed so far.
AloneDelete(r) ==
  LET q == rq[r]
  IN  q.op = "delete" =>
        /\ q.pc > 6 => \A s \in Sessions : session[s] \in {"none", "gone"}
        /\ q.pc > 7 => "profile" \notin owned
        /\ q.pc > 8 => "saved" \notin owned
        /\ q.pc > 9 => \A k \in Resets : ~ Stored(k)
        /\ q.pc > 10 => \A k \in Verifications : ~ Stored(k)
        /\ q.pc > 11 => \A k \in Changes : ~ Stored(k)
        /\ q.pc > 12 => "consents" \notin owned
        /\ q.pc = 14 => owned \cap Watchlists \subseteq q.lists
        /\ q.pc > 14 => owned \cap Watchlists = {}
        /\ q.pc > 15 => "preferences" \notin owned
AloneFits(r) == AloneUser(r) /\ AloneRequest(r) /\ AloneConfirm(r) /\ AloneDelete(r)

OneAtATime == \A r, s \in Requests : rq[r].op # "idle" /\ rq[s].op # "idle" => r = s

AloneInv ==
  /\ overlapped \in BOOLEAN
  /\ ~ overlapped => OneAtATime /\ AloneRows /\ \A r \in Requests : AloneFits(r)

-----------------------------------------------------------------------------
(* The lists of calls *)

LEMMA OperationNames ==
  Operations = {"register", "login", "validate", "logout", "expire", "request_reset",
                "confirm_reset", "request_verification", "confirm_verification",
                "request_change", "confirm_change", "keep", "delete"}
  BY DEF Operations, Calls

\* Where the calls are that write what the invariants are about.
LEMMA Places ==
  ASSUME NEW op \in Operations, NEW n \in 1..Len(Calls[op])
  PROVE  /\ Len(Calls[op]) \in Nat
         /\ Calls[op][n] = "token" => op \in Confirmations /\ n = 1
         /\ Calls[op][n] = "save" =>
              \/ op \in {"confirm_reset", "confirm_verification"} /\ n = 3
              \/ op = "confirm_change" /\ n = 6
         /\ Calls[op][n] = "consume" =>
              \/ op \in {"confirm_reset", "confirm_verification"} /\ n = 4
              \/ op = "confirm_change" /\ n = 8
         /\ Calls[op][n] = "notice" => op = "confirm_change"
         /\ Calls[op][n] = "create" => op = "register" /\ n = 2
         /\ Calls[op][n] = "mint" =>
              op \in {"register", "request_reset", "request_verification", "request_change"}
<1> USE DEF Calls, Confirmations
<1>1. CASE op = "register"
  BY <1>1 DEF register_calls
<1>2. CASE op = "login"
  BY <1>2 DEF login_calls
<1>3. CASE op = "validate"
  BY <1>3 DEF validate_calls
<1>4. CASE op = "logout"
  BY <1>4 DEF logout_calls
<1>5. CASE op = "expire"
  BY <1>5 DEF expire_calls
<1>6. CASE op \in {"request_reset", "request_verification"}
  BY <1>6 DEF request_token_calls
<1>7. CASE op = "confirm_reset"
  BY <1>7 DEF confirm_reset_calls
<1>8. CASE op = "confirm_verification"
  BY <1>8 DEF confirm_verification_calls
<1>9. CASE op = "request_change"
  BY <1>9 DEF request_change_calls
<1>10. CASE op = "confirm_change"
  BY <1>10 DEF confirm_change_calls
<1>11. CASE op = "delete"
  BY <1>11 DEF delete_calls
<1>12. CASE op = "keep"
  BY <1>12 DEF keep_calls
<1> QED
  BY <1>1, <1>2, <1>3, <1>4, <1>5, <1>6, <1>7, <1>8, <1>9, <1>10, <1>11, <1>12,
     OperationNames

\* And what the operations do there.
LEMMA CallsAt ==
  /\ Calls["confirm_reset"][3] = "save" /\ Calls["confirm_verification"][3] = "save"
  /\ Calls["confirm_change"][6] = "save"
  /\ Calls["confirm_change"][1] = "token" /\ Calls["confirm_verification"][1] = "token"
  /\ Calls["confirm_verification"][2] = "owner" /\ Calls["confirm_change"][3] = "owner"
  /\ Calls["confirm_change"][7] = "notice" /\ Len(Calls["confirm_change"]) = 10
  /\ Calls["register"][2] = "create" /\ Calls["register"][1] = "free"
  BY DEF Calls, confirm_reset_calls, confirm_verification_calls, confirm_change_calls,
         register_calls

LEMMA RepositoryTokens ==
  ASSUME NEW op
  PROVE  /\ Repository(op) \subseteq Tokens
         /\ op = "confirm_change" => Repository(op) = Changes
         /\ op = "confirm_verification" => Repository(op) = Verifications
         /\ op \in {"register", "request_verification"} => Repository(op) = Verifications
         /\ op = "request_reset" => Repository(op) = Resets
         /\ op = "request_change" => Repository(op) = Changes
  BY DEF Repository, Tokens

-----------------------------------------------------------------------------
(* Steps of one request *)

\* The request q one call further.
After(q) == [q EXCEPT !.pc = q.pc + 1]

\* What every step but the registration does to the rows.
Grows ==
  /\ Settled(user, registered) => Settled(user', registered')
  /\ registered' = registered /\ proven \subseteq proven' /\ overlapped' = overlapped
  /\ \A k \in Tokens : token[k].state # "none" =>
       token'[k].state # "none" /\ token'[k].sent = token[k].sent

LEMMA IdleOK ==
  /\ RequestOK(idle_request) /\ idle_request.op = "idle" /\ ~ PastSave(idle_request)
  /\ \A u, reg, prov, tok : RequestFits(idle_request, u, reg, prov, tok)
<1>1. /\ idle_request.op = "idle" /\ idle_request.user = no_user
  BY DEF idle_request
<1>2. no_user \in Row /\ ~ no_user.present /\ no_user.email = First
  BY AccountAssumption DEF no_user, Row
<1>3. idle_request \in Request
  BY <1>2, AccountAssumption DEF idle_request, Request
<1>4. "idle" \notin Confirmations
  BY DEF Confirmations
<1>5. RequestOK(idle_request) /\ ~ PastSave(idle_request)
  BY <1>1, <1>3, <1>4 DEF RequestOK, PastSave
<1>6. \A u, reg, prov, tok : RequestFits(idle_request, u, reg, prov, tok)
  BY <1>1, <1>2, <1>4 DEF RequestFits, CopyFits, UserFits, ConfirmFits
<1> QED
  BY <1>1, <1>5, <1>6

\* A request that did not move still fits.
LEMMA Frame ==
  ASSUME NEW q, RequestOK(q), RequestFits(q, user, registered, proven, token),
         Settled(user, registered) => Settled(user', registered'), proven \subseteq proven',
         registered => registered',
         q.op = "register" => registered' = registered,
         \A k \in Tokens : token[k].state # "none" =>
           token'[k].state # "none" /\ token'[k].sent = token[k].sent
  PROVE  RequestFits(q, user', registered', proven', token')
<1>1. CopyFits(q, user', registered', proven')
  BY DEF RequestFits, CopyFits, UserFits
<1>2. ConfirmFits(q, token', proven')
  <2>1. q.op \in Confirmations =>
          /\ q.token \in Tokens
          /\ token'[q.token].state # "none" /\ token'[q.token].sent = token[q.token].sent
    BY RepositoryTokens DEF RequestOK, RequestFits, ConfirmFits
  <2> QED
    BY <2>1 DEF RequestFits, ConfirmFits, Confirmations
<1> QED
  BY <1>1, <1>2 DEF RequestFits

\* A step of request r, which then is x.
LEMMA OneMoves ==
  ASSUME AccountInv, NEW r \in Requests, NEW x, RequestOK(x), rq' = [rq EXCEPT ![r] = x],
         RowsOK', TokenSpentForEffect', effected \subseteq effected', overlapped => overlapped',
         PastSave(x) => x.token \in effected',
         Sound /\ Settled(user, registered) => Settled(user', registered'),
         proven \subseteq proven',
         \A k \in Tokens : token[k].state # "none" =>
           token'[k].state # "none" /\ token'[k].sent = token[k].sent,
         registered => registered', registered' = registered \/ rq[r].op = "register",
         Sound =>
           /\ UserFits(user', registered', proven') /\ TokensFit(token', user', registered')
           /\ RequestFits(x, user', registered', proven', token')
           /\ x.op = "register" => rq[r].op = "register"
                                   \/ \A s \in Requests : rq[s].op # "register"
  PROVE  AccountInv'
<1>1. x \in Request /\ rq \in [Requests -> Request]
  BY DEF RequestOK, AccountInv
<1>2. \A s \in Requests : rq'[s] = IF s = r THEN x ELSE rq[s]
  BY <1>1
<1>3. rq' \in [Requests -> Request]
  BY <1>1
<1>4. \A s \in Requests : RequestOK(rq'[s]) /\ (PastSave(rq'[s]) => rq'[s].token \in effected')
  BY <1>2 DEF AccountInv
<1>5. ASSUME Sound PROVE OneRegistration'
  BY <1>2, <1>5 DEF AccountInv, OneRegistration
<1>6. ASSUME Sound, NEW s \in Requests
      PROVE  RequestFits(rq'[s], user', registered', proven', token')
  <2>1. CASE s = r
    BY <1>2, <1>6, <2>1
  <2>2. CASE s # r
    <3>1. rq'[s] = rq[s] /\ RequestOK(rq[s])
          /\ RequestFits(rq[s], user, registered, proven, token)
      BY <1>2, <1>6, <2>2 DEF AccountInv
    <3>2. rq[s].op = "register" => registered' = registered
      BY <1>6, <2>2 DEF AccountInv, OneRegistration
    <3>3. RequestFits(rq[s], user', registered', proven', token')
      BY <1>6, <3>1, <3>2, Frame
    <3> QED
      BY <3>1, <3>3
  <2> QED
    BY <2>1, <2>2
<1>7. Sound' => Sound
  BY DEF Sound, NoReset
<1> QED
  BY <1>3, <1>4, <1>5, <1>6, <1>7 DEF AccountInv

\* What is known of a request at one of its calls.
LEMMA Facts ==
  ASSUME AccountInv, NEW r \in Requests, NEW call, At(r, call), call # "none"
  PROVE  /\ rq \in [Requests -> Request] /\ rq[r] \in Request /\ RequestOK(rq[r])
         /\ rq[r].op \in Operations /\ rq[r].op # "idle" /\ rq[r].pc \in Nat
         /\ rq[r].pc \in 1..Len(Calls[rq[r].op]) /\ Len(Calls[rq[r].op]) \in Nat
         /\ Calls[rq[r].op][rq[r].pc] = call
         /\ rq[r].user \in Row /\ rq[r].email \in Emails /\ rq[r].todo \subseteq Changes
         /\ rq[r].op \in Confirmations => rq[r].token \in Repository(rq[r].op)
         /\ rq[r].op \in Confirmations => rq[r].token \in Tokens
         /\ PastSave(rq[r]) => rq[r].token \in effected
         /\ Sound => RequestFits(rq[r], user, registered, proven, token)
<1>1. /\ rq \in [Requests -> Request] /\ RequestOK(rq[r])
      /\ PastSave(rq[r]) => rq[r].token \in effected
      /\ Sound => RequestFits(rq[r], user, registered, proven, token)
  BY DEF AccountInv
<1>2. rq[r] \in Request
  BY <1>1
<1>3. /\ rq[r].op \in Operations \cup {"idle"} /\ rq[r].pc \in Nat /\ rq[r].user \in Row
      /\ rq[r].email \in Emails /\ rq[r].todo \subseteq Changes
  BY <1>2 DEF Request
<1>4. rq[r].op # "idle" /\ Calls[rq[r].op][rq[r].pc] = call
  BY DEF CallOf
<1>5. rq[r].pc \in 1..Len(Calls[rq[r].op])
  BY <1>1, <1>4 DEF RequestOK
<1>6. Len(Calls[rq[r].op]) \in Nat
  BY <1>3, <1>4, <1>5, Places
<1> QED
  BY <1>1, <1>2, <1>3, <1>4, <1>5, <1>6, RepositoryTokens DEF RequestOK

\* Request r moves on with the local variables q, or returns.
LEMMA Moves ==
  ASSUME AccountInv, NEW r \in Requests, NEW q, RequestOK(q), q.op = rq[r].op, q.op # "idle",
         Advance(r, q),
         RowsOK', TokenSpentForEffect', effected \subseteq effected', overlapped => overlapped',
         PastSave(After(q)) => q.token \in effected',
         Sound /\ Settled(user, registered) => Settled(user', registered'),
         proven \subseteq proven',
         \A k \in Tokens : token[k].state # "none" =>
           token'[k].state # "none" /\ token'[k].sent = token[k].sent,
         registered => registered', registered' = registered \/ rq[r].op = "register",
         Sound =>
           /\ UserFits(user', registered', proven') /\ TokensFit(token', user', registered')
           /\ RequestFits(After(q), user', registered', proven', token')
  PROVE  AccountInv'
<1>1. /\ q \in Request /\ q.pc \in 1..Len(Calls[q.op]) /\ q.op \in Operations
      /\ Len(Calls[q.op]) \in Nat
  <2>1. q \in Request /\ q.pc \in 1..Len(Calls[q.op])
    BY DEF RequestOK
  <2>2. q.op \in Operations
    BY <2>1 DEF Request
  <2> QED
    BY <2>1, <2>2, Places
<1>2. CASE q.pc = Len(Calls[q.op])
  <2>1. rq' = [rq EXCEPT ![r] = idle_request]
    BY <1>2 DEF Advance
  <2> QED
    BY <2>1, IdleOK, OneMoves
<1>3. CASE q.pc # Len(Calls[q.op])
  <2>1. rq' = [rq EXCEPT ![r] = After(q)]
    BY <1>3 DEF Advance, After
  <2>2. q.pc + 1 \in Nat /\ q.pc + 1 \in 1..Len(Calls[q.op])
    BY <1>1, <1>3
  <2>3. After(q) \in Request
    BY <1>1, <2>2, Zenon DEF After, Request
  <2>4. After(q).op = q.op /\ After(q).pc = q.pc + 1 /\ After(q).token = q.token
    BY <1>1 DEF After, Request
  <2>5. RequestOK(After(q))
    BY <2>2, <2>3, <2>4 DEF RequestOK
  <2> QED
    BY <2>1, <2>4, <2>5, OneMoves
<1> QED
  BY <1>2, <1>3

\* The fields of the next place.
LEMMA AfterFields ==
  ASSUME NEW q \in Request
  PROVE  /\ After(q).op = q.op /\ After(q).pc = q.pc + 1 /\ After(q).token = q.token
         /\ After(q).user = q.user /\ After(q).email = q.email
  BY DEF After, Request

\* A call that neither reads a token or the user row nor saves or creates it: the
\* request fits its next place.
Quiet == {"free", "exists", "occupant", "session", "newest", "list", "profile", "consents",
          "keep", "issue", "refresh", "revoke_one", "revoke", "mint", "notice", "consume",
          "invalidate", "drop_sessions", "drop_profile", "drop_saved", "drop_resets",
          "drop_verifications", "drop_changes", "drop_consents", "list_watchlists",
          "drop_watchlists", "drop_preferences", "drop_user"}

LEMMA QuietMoves ==
  ASSUME AccountInv, NEW r \in Requests, NEW call \in Quiet, At(r, call),
         NEW q, RequestOK(q), q.op = rq[r].op, q.pc = rq[r].pc, q.token = rq[r].token,
         q.user = rq[r].user, q.email = rq[r].email,
         Advance(r, q), RowsOK', TokenSpentForEffect', effected \subseteq effected', Grows,
         Sound =>
           UserFits(user', registered', proven') /\ TokensFit(token', user', registered')
  PROVE  AccountInv'
<1>1. /\ call # "none" /\ call \notin {"save", "token", "owner", "lookup", "create"}
  BY DEF Quiet
<1>2. /\ q \in Request /\ rq[r].op # "idle" /\ rq[r].op \in Operations /\ q.pc \in Nat
      /\ Calls[q.op][q.pc] = call /\ (PastSave(rq[r]) => rq[r].token \in effected)
      /\ Sound => RequestFits(rq[r], user, registered, proven, token)
      /\ q.op \in Confirmations => q.token \in Tokens
  BY <1>1, Facts DEF RequestOK
<1>3. /\ After(q).op = q.op /\ After(q).pc = q.pc + 1 /\ After(q).token = q.token
      /\ After(q).user = q.user /\ After(q).email = q.email
  BY <1>2, AfterFields
<1>4. /\ q.op \in {"confirm_reset", "confirm_verification"} => q.pc # 3
      /\ q.op = "confirm_verification" => q.pc # 1 /\ q.pc # 2
      /\ q.op = "confirm_change" => q.pc # 1 /\ q.pc # 3 /\ q.pc # 6
  BY <1>1, <1>2, CallsAt
<1>5. PastSave(After(q)) => q.token \in effected'
  BY <1>2, <1>3, <1>4 DEF PastSave
<1>6. ASSUME Sound PROVE RequestFits(After(q), user', registered', proven', token')
  <2>1. /\ CopyFits(rq[r], user, registered, proven) /\ ConfirmFits(rq[r], token, proven)
        /\ rq[r].op = "register" /\ rq[r].pc <= 2 => ~ registered
    BY <1>2, <1>6 DEF RequestFits
  <2>2. CopyFits(After(q), user', registered', proven')
    BY <1>3, <2>1 DEF CopyFits, UserFits, Grows
  <2>3. q.op \in Confirmations =>
          token'[q.token].state # "none" /\ token'[q.token].sent = token[q.token].sent
    BY <1>2, <2>1 DEF ConfirmFits, Grows
  <2>4. ConfirmFits(After(q), token', proven')
    <3>1. /\ q.op = "confirm_reset" => ~ NoReset
          /\ q.op \in Confirmations => token'[q.token].state # "none"
      BY <2>1, <2>3 DEF ConfirmFits
    <3>2. ASSUME q.op = "confirm_change"
          PROVE  q.email \in proven' /\ (q.pc + 1 > 3 => q.user.present)
      <4>1. q.pc > 1
        BY <1>2, <1>4, <3>2, Facts, <1>1
      <4>2. q.pc + 1 > 3 => q.pc > 3
        BY <1>2, <1>4, <3>2
      <4> QED
        BY <2>1, <3>2, <4>1, <4>2 DEF ConfirmFits, Grows
    <3>3. ASSUME q.op = "confirm_verification"
          PROVE  /\ token'[q.token].sent \in proven' /\ q.user.present
                 /\ q.user.verified \/ token'[q.token].sent = First
      <4>1. q.pc > 2
        BY <1>1, <1>2, <1>4, <3>3, Facts
      <4>2. q.pc > 1
        BY <1>2, <4>1
      <4>3. q.op \in Confirmations
        BY <3>3 DEF Confirmations
      <4> QED
        BY <2>1, <2>3, <3>3, <4>1, <4>2, <4>3 DEF ConfirmFits, Grows
    <3> QED
      BY <1>3, <3>1, <3>2, <3>3 DEF ConfirmFits
  <2>5. q.op = "register" /\ q.pc + 1 <= 2 => ~ registered'
    <3>1. q.pc + 1 <= 2 => q.pc <= 2
      BY <1>2
    <3> QED
      BY <2>1, <3>1 DEF Grows
  <2> QED
    BY <1>3, <2>2, <2>4, <2>5 DEF RequestFits
<1> QED
  BY <1>2, <1>5, <1>6, Moves DEF Grows

-----------------------------------------------------------------------------
(* The actions *)

LEMMA RowFacts ==
  ASSUME AccountInv
  PROVE  /\ RowsOK /\ TokenSpentForEffect
         /\ Sound => /\ UserFits(user, registered, proven)
                     /\ TokensFit(token, user, registered)
  BY DEF AccountInv

\* A quiet call that leaves the user row, the tokens and the history of both.
LEMMA QuietKeeps ==
  ASSUME AccountInv, NEW r \in Requests, NEW call \in Quiet, At(r, call), Proceed(r),
         UNCHANGED <<user, token, taken, expired, registered, effected, revoked_by_newer, proven,
                     overlapped>>,
         session' \in [Sessions -> {"none", "live", "revoked", "gone"}],
         owned' \subseteq Kept \cup {"consents"}, notices' \in [Tokens -> 0..2]
  PROVE  AccountInv'
<1>1. RowsOK' /\ TokenSpentForEffect'
  BY RowFacts DEF RowsOK, TokenSpentForEffect
<1>2. Grows
  BY DEF Grows
<1>3. Sound => UserFits(user', registered', proven') /\ TokensFit(token', user', registered')
  BY RowFacts
<1>4. RequestOK(rq[r])
  BY DEF AccountInv
<1> QED
  BY <1>1, <1>2, <1>3, <1>4, QuietMoves

LEMMA QuietReads ==
  ASSUME AccountInv, NEW r \in Requests,
         \/ ReadFree(r) \/ ReadExists(r) \/ ReadOccupant(r) \/ ReadNewest(r)
         \/ InvalidateDone(r) \/ WatchlistsDone(r)
  PROVE  AccountInv'
<1>1. /\ \E call \in {"free", "exists", "occupant", "newest", "invalidate",
                    "drop_watchlists"} : At(r, call)
      /\ Proceed(r)
      /\ UNCHANGED <<rows, registered, effected, revoked_by_newer, notices, proven, overlapped>>
  BY DEF ReadFree, ReadExists, ReadOccupant, ReadNewest, InvalidateDone,
         WatchlistsDone
<1>2. PICK call \in {"free", "exists", "occupant", "newest", "invalidate",
                    "drop_watchlists"} : At(r, call)
  BY <1>1
<1>3. call \in Quiet
  BY DEF Quiet
<1> QED
  BY <1>1, <1>2, <1>3, QuietKeeps, RowFacts DEF rows, RowsOK

LEMMA QuietWrites ==
  ASSUME AccountInv, NEW r \in Requests,
         \/ WriteOwned(r, "profile") \/ WriteOwned(r, "consents") \/ KeepRecord(r)
         \/ IssueSession(r) \/ RefreshSession(r) \/ RevokeOne(r) \/ RevokeAll(r)
         \/ SendNotice(r) \/ DropSessions(r)
         \/ DropOwned(r, "drop_profile", "profile") \/ DropOwned(r, "drop_saved", "saved")
         \/ DropOwned(r, "drop_consents", "consents")
         \/ DropOwned(r, "drop_preferences", "preferences")
  PROVE  AccountInv'
<1> DEFINE C == {"profile", "consents", "keep", "issue", "refresh", "revoke_one", "revoke",
                 "notice", "drop_sessions", "drop_profile", "drop_saved", "drop_consents",
                 "drop_preferences"}
<1>1. /\ session \in [Sessions -> {"none", "live", "revoked", "gone"}]
      /\ owned \subseteq Kept \cup {"consents"} /\ notices \in [Tokens -> 0..2]
  BY RowFacts DEF RowsOK
<1>2. /\ \E call \in C : At(r, call)
      /\ Proceed(r)
      /\ UNCHANGED <<user, token, taken, expired, registered, effected, revoked_by_newer, proven,
                     overlapped>>
  BY DEF WriteOwned, KeepRecord, IssueSession, RefreshSession, RevokeOne, RevokeAll, SendNotice,
         DropSessions, DropOwned, rows
<1>3. session' \in [Sessions -> {"none", "live", "revoked", "gone"}]
  <2>1. CASE IssueSession(r)
    BY <1>1, <2>1 DEF IssueSession
  <2>2. CASE RefreshSession(r)
    BY <1>1, <2>2 DEF RefreshSession
  <2>3. CASE RevokeOne(r)
    <3> DEFINE s == rq[r].session
    <3>1. session' = [session EXCEPT ![s] = IF session[s] = "live" THEN "revoked" ELSE session[s]]
      BY <2>3 DEF RevokeOne
    <3>2. CASE s \in Sessions
      BY <1>1, <3>1, <3>2
    <3>3. CASE s \notin Sessions
      BY <1>1, <3>1, <3>3
    <3> QED
      BY <3>2, <3>3
  <2>4. CASE RevokeAll(r)
    BY <1>1, <2>4 DEF RevokeAll, revoke_all_for_user
  <2>5. CASE DropSessions(r)
    BY <1>1, <2>5 DEF DropSessions
  <2>6. ASSUME session' = session PROVE session' \in [Sessions -> {"none", "live", "revoked", "gone"}]
    BY <1>1, <2>6
  <2> QED
    BY <2>1, <2>2, <2>3, <2>4, <2>5, <2>6 DEF WriteOwned, KeepRecord, SendNotice, DropOwned, rows
<1>4. owned' \subseteq Kept \cup {"consents"}
  <2>1. CASE WriteOwned(r, "profile") \/ WriteOwned(r, "consents")
    <3>1. "profile" \in Kept
      BY DEF Kept
    <3> QED
      BY <1>1, <2>1, <3>1 DEF WriteOwned
  <2>2. CASE KeepRecord(r)
    <3>1. PICK x \in Kept : owned' = owned \cup {x}
      BY <2>2 DEF KeepRecord
    <3> QED
      BY <1>1, <3>1
  <2>3. ASSUME owned' \subseteq owned PROVE owned' \subseteq Kept \cup {"consents"}
    BY <1>1, <2>3
  <2> QED
    BY <2>1, <2>2, <2>3 DEF IssueSession, RefreshSession, RevokeOne, RevokeAll, SendNotice,
       DropSessions, DropOwned, rows
<1>5. notices' \in [Tokens -> 0..2]
  <2>1. CASE SendNotice(r)
    <3> DEFINE k == rq[r].token
    <3>1. notices' = [notices EXCEPT ![k] = Capped(notices[k])] /\ At(r, "notice")
      BY <2>1 DEF SendNotice
    <3>2. rq[r].op = "confirm_change"
      BY <3>1, Facts, Places
    <3>3. k \in Tokens
      BY <3>1, <3>2, Facts DEF Confirmations
    <3>4. notices[k] \in 0..2
      BY <1>1, <3>3
    <3>5. Capped(notices[k]) \in 0..2
      BY <3>4 DEF Capped
    <3> QED
      BY <1>1, <3>1, <3>5
  <2>2. ASSUME notices' = notices PROVE notices' \in [Tokens -> 0..2]
    BY <1>1, <2>2
  <2> QED
    BY <2>1, <2>2 DEF WriteOwned, KeepRecord, IssueSession, RefreshSession, RevokeOne, RevokeAll,
         DropSessions, DropOwned
<1>6. PICK call \in C : At(r, call)
  BY <1>2
<1>7. call \in Quiet
  BY DEF Quiet
<1> QED
  BY <1>2, <1>3, <1>4, <1>5, <1>6, <1>7, QuietKeeps

\* A request ends, or changes without moving on, while no row changes.
LEMMA TurnsInto ==
  ASSUME AccountInv, NEW r \in Requests, NEW x, RequestOK(x), rq' = [rq EXCEPT ![r] = x],
         UNCHANGED <<rows, registered, effected, revoked_by_newer, notices, proven>>,
         overlapped => overlapped', PastSave(x) => x.token \in effected,
         Sound => /\ RequestFits(x, user, registered, proven, token)
                  /\ x.op = "register" => \A s \in Requests : rq[s].op # "register"
  PROVE  AccountInv'
<1>1. /\ user' = user /\ session' = session /\ token' = token /\ owned' = owned
      /\ taken' = taken /\ expired' = expired /\ registered' = registered
      /\ effected' = effected /\ revoked_by_newer' = revoked_by_newer
      /\ notices' = notices /\ proven' = proven
  BY DEF rows
<1>2. RowsOK' /\ TokenSpentForEffect'
  BY <1>1, RowFacts DEF RowsOK, TokenSpentForEffect
<1>3. Sound =>
        /\ UserFits(user', registered', proven') /\ TokensFit(token', user', registered')
        /\ RequestFits(x, user', registered', proven', token')
  BY <1>1, RowFacts
<1>4. /\ PastSave(x) => x.token \in effected'
      /\ Sound /\ Settled(user, registered) => Settled(user', registered')
      /\ \A k \in Tokens : token[k].state # "none" =>
           token'[k].state # "none" /\ token'[k].sent = token[k].sent
  BY <1>1
<1>5. /\ effected \subseteq effected' /\ proven \subseteq proven'
      /\ (registered => registered') /\ registered' = registered
  BY <1>1
<1>6. Sound => (x.op = "register" => rq[r].op = "register"
                                      \/ \A s \in Requests : rq[s].op # "register")
  OBVIOUS
<1> QED
  BY <1>2, <1>3, <1>4, <1>5, <1>6, OneMoves

LEMMA StopKeeps ==
  ASSUME AccountInv, NEW r \in Requests, Refuse(r) \/ Fail(r)
  PROVE  AccountInv'
<1>1. /\ rq' = [rq EXCEPT ![r] = idle_request]
      /\ UNCHANGED <<rows, registered, effected, revoked_by_newer, notices, proven, overlapped>>
  BY DEF Refuse, Fail
<1> QED
  BY <1>1, IdleOK, TurnsInto

LEMMA ReadSessionKeeps ==
  ASSUME AccountInv, NEW r \in Requests, ReadSession(r)
  PROVE  AccountInv'
<1>1. /\ At(r, "session") /\ "session" \in Quiet
      /\ UNCHANGED <<rows, registered, effected, revoked_by_newer, notices, proven, overlapped>>
      /\ \/ rq' = [rq EXCEPT ![r].op = "expire", ![r].pc = 1]
         \/ Proceed(r)
  BY DEF ReadSession, Quiet
<1>2. CASE Proceed(r)
  BY <1>1, <1>2, QuietKeeps, RowFacts DEF rows, RowsOK
<1>3. CASE rq' = [rq EXCEPT ![r].op = "expire", ![r].pc = 1]
  <2> DEFINE q == rq[r]
             x == [q EXCEPT !.op = "expire", !.pc = 1]
  <2>1. q \in Request /\ rq \in [Requests -> Request]
        /\ (Sound => RequestFits(q, user, registered, proven, token))
    BY <1>1, Facts
  <2>2. "expire" \in Operations /\ 1 \in Nat /\ "expire" \notin Confirmations
    BY OperationNames DEF Confirmations
  <2>3. x \in Request
    BY <2>1, <2>2, Zenon DEF Request
  <2>4. x.op = "expire" /\ x.pc = 1 /\ x.user = q.user
    BY <2>1 DEF Request
  <2>5. rq' = [rq EXCEPT ![r] = x]
    BY <1>3, <2>1
  <2> HIDE DEF x
  <2>6. 1 \in 1..Len(Calls["expire"])
    BY DEF Calls, expire_calls
  <2>7. RequestOK(x) /\ ~ PastSave(x)
    BY <2>2, <2>3, <2>4, <2>6 DEF RequestOK, PastSave
  <2>8. Sound => RequestFits(x, user, registered, proven, token) /\ x.op # "register"
    BY <2>1, <2>2, <2>4 DEF RequestFits, CopyFits, ConfirmFits
  <2> QED
    BY <1>1, <2>5, <2>7, <2>8, TurnsInto
<1> QED
  BY <1>1, <1>2, <1>3

LEMMA ListChangesKeeps ==
  ASSUME AccountInv, NEW r \in Requests, ListChanges(r)
  PROVE  AccountInv'
<1> DEFINE q == [rq[r] EXCEPT !.todo = Unconsumed]
<1>1. /\ At(r, "list") /\ "list" \in Quiet /\ Advance(r, q)
      /\ UNCHANGED <<rows, registered, effected, revoked_by_newer, notices, proven, overlapped>>
  BY DEF ListChanges, Quiet
<1>2. rq[r] \in Request /\ RequestOK(rq[r]) /\ Unconsumed \in SUBSET Changes
  BY <1>1, Facts DEF Unconsumed
<1>3. q \in Request
  BY <1>2, Zenon DEF Request
<1>4. /\ q.op = rq[r].op /\ q.pc = rq[r].pc /\ q.token = rq[r].token
      /\ q.user = rq[r].user /\ q.email = rq[r].email
  BY <1>2 DEF Request
<1> HIDE DEF q
<1>5. RequestOK(q)
  BY <1>2, <1>3, <1>4 DEF RequestOK
<1>6. RowsOK' /\ TokenSpentForEffect' /\ Grows
  BY <1>1, RowFacts DEF RowsOK, TokenSpentForEffect, Grows, rows
<1>7. Sound => UserFits(user', registered', proven') /\ TokensFit(token', user', registered')
  BY <1>1, RowFacts DEF rows
<1> QED
  BY <1>1, <1>4, <1>5, <1>6, <1>7, QuietMoves

LEMMA ListWatchlistsKeeps ==
  ASSUME AccountInv, NEW r \in Requests, ListWatchlists(r)
  PROVE  AccountInv'
<1> DEFINE w == owned \cap Watchlists
           q == [rq[r] EXCEPT !.lists = w]
<1>1. /\ At(r, "list_watchlists") /\ "list_watchlists" \in Quiet /\ Advance(r, q)
      /\ UNCHANGED <<rows, registered, effected, revoked_by_newer, notices, proven, overlapped>>
  BY DEF ListWatchlists, Quiet
<1>2. rq[r] \in Request /\ RequestOK(rq[r]) /\ w \in SUBSET Watchlists
  BY <1>1, Facts
<1> HIDE DEF w
<1>3. q \in Request
  BY <1>2, Zenon DEF Request
<1>4. /\ q.op = rq[r].op /\ q.pc = rq[r].pc /\ q.token = rq[r].token
      /\ q.user = rq[r].user /\ q.email = rq[r].email
  BY <1>2 DEF Request
<1> HIDE DEF q
<1>5. RequestOK(q)
  BY <1>2, <1>3, <1>4 DEF RequestOK
<1>6. RowsOK' /\ TokenSpentForEffect' /\ Grows
  BY <1>1, RowFacts DEF RowsOK, TokenSpentForEffect, Grows, rows
<1>7. Sound => UserFits(user', registered', proven') /\ TokensFit(token', user', registered')
  BY <1>1, RowFacts DEF rows
<1> QED
  BY <1>1, <1>4, <1>5, <1>6, <1>7, QuietMoves

LEMMA DropWatchlistKeeps ==
  ASSUME AccountInv, NEW r \in Requests, DropWatchlist(r)
  PROVE  AccountInv'
<1> DEFINE q == rq[r]
<1>1. /\ At(r, "drop_watchlists")
      /\ UNCHANGED <<user, session, token, taken, expired, registered, effected,
                     revoked_by_newer, notices, proven, overlapped>>
  BY DEF DropWatchlist
<1>2. PICK k \in q.lists : /\ owned' = owned \ {k}
                            /\ rq' = [rq EXCEPT ![r].lists = @ \ {k}]
  BY DEF DropWatchlist
<1> DEFINE t == q.lists \ {k}
           x == [q EXCEPT !.lists = t]
<1>3. /\ rq \in [Requests -> Request] /\ q \in Request /\ RequestOK(q)
      /\ PastSave(q) => q.token \in effected
      /\ Sound => RequestFits(q, user, registered, proven, token)
  BY <1>1, Facts
<1>4. t \in SUBSET Watchlists
  BY <1>3 DEF Request
<1>5. rq' = [rq EXCEPT ![r] = x]
  BY <1>2, <1>3
<1> HIDE DEF t
<1>6. x \in Request
  BY <1>3, <1>4, Zenon DEF Request
<1>7. /\ x.op = q.op /\ x.pc = q.pc /\ x.token = q.token /\ x.user = q.user
      /\ x.email = q.email
  BY <1>3 DEF Request
<1> HIDE DEF x
<1>8. RequestOK(x) /\ (PastSave(x) => x.token \in effected)
  BY <1>3, <1>6, <1>7 DEF RequestOK, PastSave
<1>9. RowsOK' /\ TokenSpentForEffect'
  BY <1>1, <1>2, RowFacts DEF RowsOK, TokenSpentForEffect
<1>10. Sound => RequestFits(x, user, registered, proven, token)
  BY <1>3, <1>7 DEF RequestFits, CopyFits, ConfirmFits
<1>11. /\ Sound => /\ UserFits(user', registered', proven')
                   /\ TokensFit(token', user', registered')
                   /\ RequestFits(x, user', registered', proven', token')
       /\ x.op = "register" => rq[r].op = "register"
       /\ Sound /\ Settled(user, registered) => Settled(user', registered')
  BY <1>1, <1>7, <1>10, RowFacts
<1> QED
  BY <1>1, <1>5, <1>8, <1>9, <1>11, OneMoves

LEMMA DropUserKeeps ==
  ASSUME AccountInv, NEW r \in Requests, DropUser(r)
  PROVE  AccountInv'
<1>1. /\ At(r, "drop_user") /\ "drop_user" \in Quiet /\ Proceed(r) /\ user' = no_user
      /\ UNCHANGED <<session, token, owned, taken, expired, registered, effected,
                     revoked_by_newer, notices, proven, overlapped>>
  BY DEF DropUser, Quiet
<1>2. no_user \in Row /\ ~ no_user.present /\ no_user.email = First
  BY AccountAssumption DEF no_user, Row
<1>3. RowsOK' /\ TokenSpentForEffect'
  BY <1>1, <1>2, RowFacts DEF RowsOK, TokenSpentForEffect
<1>4. Grows
  BY <1>1, <1>2 DEF Grows, Settled
<1>5. Sound => UserFits(user', registered', proven') /\ TokensFit(token', user', registered')
  BY <1>1, <1>2, RowFacts DEF UserFits, TokensFit, Settled
<1>6. RequestOK(rq[r])
  BY DEF AccountInv
<1> QED
  BY <1>1, <1>3, <1>4, <1>5, <1>6, QuietMoves

\* Marking or dropping tokens: only states change, and none becomes unstored.
LEMMA TokensMarked ==
  ASSUME AccountInv, token' \in [Tokens -> TokenRow],
         UNCHANGED <<user, session, owned, taken, expired, registered, effected, notices, proven,
                     overlapped>>,
         revoked_by_newer' \subseteq Tokens, revoked_by_newer \subseteq revoked_by_newer',
         \A k \in Tokens :
           /\ token[k].state # "none" => token'[k].state # "none"
           /\ token[k].state = "none" => token'[k].state = "none"
           /\ token'[k].sent = token[k].sent /\ token'[k].email = token[k].email
           /\ token'[k].state = "consumed" =>
                token[k].state = "consumed" \/ k \in effected \/ k \in revoked_by_newer'
  PROVE  /\ RowsOK' /\ TokenSpentForEffect' /\ Grows
         /\ Sound => /\ UserFits(user', registered', proven')
                     /\ TokensFit(token', user', registered')
<1>1. RowsOK'
  BY RowFacts DEF RowsOK
<1>2. TokenSpentForEffect'
  BY RowFacts DEF TokenSpentForEffect
<1>3. Grows
  BY DEF Grows
<1>4. Sound => UserFits(user', registered', proven') /\ TokensFit(token', user', registered')
  BY RowFacts DEF TokensFit
<1> QED
  BY <1>1, <1>2, <1>3, <1>4

LEMMA ConsumedFields ==
  ASSUME RowsOK, NEW k \in Tokens
  PROVE  /\ Consumed(k) \in [Tokens -> TokenRow]
         /\ \A i \in Tokens :
              /\ token[i].state # "none" <=> Consumed(k)[i].state # "none"
              /\ Consumed(k)[i].sent = token[i].sent /\ Consumed(k)[i].email = token[i].email
              /\ Consumed(k)[i].state = "consumed" => token[i].state = "consumed" \/ i = k
<1>1. token \in [Tokens -> TokenRow]
  BY DEF RowsOK
<1>2. CASE Stored(k)
  <2> DEFINE x == [token[k] EXCEPT !.state = "consumed"]
  <2>1. x \in TokenRow /\ x.state = "consumed" /\ x.sent = token[k].sent
        /\ x.email = token[k].email
    BY <1>1 DEF TokenRow
  <2>2. Consumed(k) = [token EXCEPT ![k] = x]
    BY <1>1, <1>2 DEF Consumed
  <2> HIDE DEF x
  <2> QED
    BY <1>1, <1>2, <2>1, <2>2 DEF Stored
<1>3. CASE ~ Stored(k)
  BY <1>1, <1>3 DEF Consumed
<1> QED
  BY <1>2, <1>3

\* A confirmation consumes its token only behind its save.
LEMMA ConsumeTokenKeeps ==
  ASSUME AccountInv, NEW r \in Requests, ConsumeToken(r)
  PROVE  AccountInv'
<1> DEFINE k == rq[r].token
<1>1. /\ At(r, "consume") /\ "consume" \in Quiet /\ token' = Consumed(k) /\ Proceed(r)
      /\ UNCHANGED <<user, session, owned, taken, expired, registered, effected,
                     revoked_by_newer, notices, proven, overlapped>>
  BY DEF ConsumeToken, Quiet
<1>2. \/ rq[r].op \in {"confirm_reset", "confirm_verification"} /\ rq[r].pc = 4
      \/ rq[r].op = "confirm_change" /\ rq[r].pc = 8
  BY <1>1, Facts, Places
<1>3. PastSave(rq[r]) /\ rq[r].op \in Confirmations
  BY <1>2 DEF PastSave, Confirmations
<1>4. k \in effected /\ k \in Tokens /\ RequestOK(rq[r])
  BY <1>1, <1>3, Facts
<1>5. /\ RowsOK' /\ TokenSpentForEffect' /\ Grows
      /\ Sound => /\ UserFits(user', registered', proven')
                  /\ TokensFit(token', user', registered')
  <2>1. RowsOK /\ revoked_by_newer \subseteq Tokens
    BY RowFacts DEF RowsOK
  <2>2. /\ token' \in [Tokens -> TokenRow]
        /\ \A i \in Tokens :
             /\ token[i].state # "none" <=> token'[i].state # "none"
             /\ token'[i].sent = token[i].sent /\ token'[i].email = token[i].email
             /\ token'[i].state = "consumed" => token[i].state = "consumed" \/ i = k
    BY <1>1, <1>4, <2>1, ConsumedFields
  <2> QED
    BY <1>1, <1>4, <2>1, <2>2, TokensMarked
<1> QED
  BY <1>1, <1>4, <1>5, QuietMoves

LEMMA InvalidateOneKeeps ==
  ASSUME AccountInv, NEW r \in Requests, InvalidateOne(r)
  PROVE  AccountInv'
<1>1. /\ At(r, "invalidate")
      /\ UNCHANGED <<user, session, owned, taken, expired, registered, effected, notices, proven,
                     overlapped>>
  BY DEF InvalidateOne
<1>2. PICK k \in rq[r].todo : /\ token' = Consumed(k)
                              /\ revoked_by_newer' = revoked_by_newer \cup {k}
                              /\ rq' = [rq EXCEPT ![r].todo = @ \ {k}]
  BY DEF InvalidateOne
<1> DEFINE q == rq[r]
           t == q.todo \ {k}
           x == [q EXCEPT !.todo = t]
<1>3. /\ rq \in [Requests -> Request] /\ q \in Request /\ RequestOK(q) /\ q.todo \subseteq Changes
      /\ PastSave(q) => q.token \in effected
      /\ Sound => RequestFits(q, user, registered, proven, token)
  BY <1>1, Facts
<1>4. t \in SUBSET Changes /\ k \in Tokens
  BY <1>3 DEF Tokens
<1>5. rq' = [rq EXCEPT ![r] = x]
  BY <1>2, <1>3
<1> HIDE DEF t
<1>6. x \in Request
  BY <1>3, <1>4, Zenon DEF Request
<1>7. /\ x.op = q.op /\ x.pc = q.pc /\ x.token = q.token /\ x.user = q.user
      /\ x.email = q.email
  BY <1>3 DEF Request
<1> HIDE DEF x
<1>8. RequestOK(x) /\ (PastSave(x) => x.token \in effected)
  BY <1>3, <1>6, <1>7 DEF RequestOK, PastSave
<1>9. /\ RowsOK' /\ TokenSpentForEffect' /\ Grows
      /\ Sound => /\ UserFits(user', registered', proven')
                  /\ TokensFit(token', user', registered')
  <2>1. RowsOK /\ revoked_by_newer' \subseteq Tokens
        /\ revoked_by_newer \subseteq revoked_by_newer' /\ k \in revoked_by_newer'
    BY <1>2, <1>4, RowFacts DEF RowsOK
  <2>2. /\ token' \in [Tokens -> TokenRow]
        /\ \A i \in Tokens :
             /\ token[i].state # "none" <=> token'[i].state # "none"
             /\ token'[i].sent = token[i].sent /\ token'[i].email = token[i].email
             /\ token'[i].state = "consumed" => token[i].state = "consumed" \/ i = k
    BY <1>2, <1>4, <2>1, ConsumedFields
  <2> QED
    BY <1>1, <2>1, <2>2, TokensMarked
<1>10. Sound => RequestFits(x, user', registered', proven', token')
  <2> SUFFICES ASSUME Sound PROVE RequestFits(x, user', registered', proven', token')
    OBVIOUS
  <2>1. RequestFits(x, user, registered, proven, token)
    BY <1>3, <1>7 DEF RequestFits, CopyFits, ConfirmFits
  <2> QED
    BY <1>8, <1>9, <2>1, Frame DEF Grows
<1>11. /\ effected \subseteq effected' /\ (PastSave(x) => x.token \in effected')
       /\ (registered => registered') /\ registered' = registered
       /\ x.op = "register" => rq[r].op = "register"
       /\ overlapped => overlapped'
  BY <1>1, <1>7, <1>8
<1>12. /\ Settled(user, registered) => Settled(user', registered')
       /\ proven \subseteq proven'
       /\ \A i \in Tokens : token[i].state # "none" =>
            token'[i].state # "none" /\ token'[i].sent = token[i].sent
  BY <1>9 DEF Grows
<1> QED
  BY <1>5, <1>8, <1>9, <1>10, <1>11, <1>12, OneMoves

LEMMA DropTokensKeeps ==
  ASSUME AccountInv, NEW r \in Requests, NEW call \in Quiet, NEW S, DropTokens(r, call, S)
  PROVE  AccountInv'
<1>1. /\ At(r, call) /\ Proceed(r)
      /\ token' = [k \in Tokens |-> IF k \in S /\ Stored(k)
                                      THEN [token[k] EXCEPT !.state = "gone"] ELSE token[k]]
      /\ UNCHANGED <<user, session, owned, taken, expired, registered, effected,
                     revoked_by_newer, notices, proven, overlapped>>
  BY DEF DropTokens
<1>2. token \in [Tokens -> TokenRow] /\ revoked_by_newer \subseteq Tokens
  BY RowFacts DEF RowsOK
<1>3. ASSUME NEW k \in Tokens
      PROVE  /\ token'[k] \in TokenRow
             /\ token[k].state # "none" => token'[k].state # "none"
             /\ token[k].state = "none" => token'[k].state = "none"
             /\ token'[k].sent = token[k].sent /\ token'[k].email = token[k].email
             /\ token'[k].state = "consumed" => token[k].state = "consumed"
  <2> DEFINE x == [token[k] EXCEPT !.state = "gone"]
  <2>1. x \in TokenRow /\ x.state = "gone" /\ x.sent = token[k].sent
        /\ x.email = token[k].email /\ token[k] \in TokenRow
    BY <1>2 DEF TokenRow
  <2>2. token'[k] = IF k \in S /\ Stored(k) THEN x ELSE token[k]
    BY <1>1
  <2> HIDE DEF x
  <2>3. CASE k \in S /\ Stored(k)
    BY <2>1, <2>2, <2>3 DEF Stored
  <2>4. CASE ~ (k \in S /\ Stored(k))
    BY <2>1, <2>2, <2>4
  <2> QED
    BY <2>3, <2>4
<1>4. token' \in [Tokens -> TokenRow]
  <2>1. DOMAIN token' = Tokens /\ token' = [k \in Tokens |-> token'[k]]
    BY <1>1
  <2> QED
    BY <1>3, <2>1
<1>5. /\ RowsOK' /\ TokenSpentForEffect' /\ Grows
      /\ Sound => /\ UserFits(user', registered', proven')
                  /\ TokensFit(token', user', registered')
  BY <1>1, <1>2, <1>3, <1>4, TokensMarked
<1>6. RequestOK(rq[r])
  BY DEF AccountInv
<1> QED
  BY <1>1, <1>5, <1>6, QuietMoves

\* A new link goes to the address its request has read or was given.
LEMMA MintTokenKeeps ==
  ASSUME AccountInv, NEW r \in Requests, MintToken(r)
  PROVE  AccountInv'
<1> DEFINE q == rq[r]
           n == Cardinality({x \in Changes : token[x].state # "none"})
           new == [state |-> "issued", email |-> q.email, sent |-> mailed_to(q), made |-> n]
<1>1. /\ At(r, "mint") /\ "mint" \in Quiet /\ Proceed(r)
      /\ UNCHANGED <<user, session, owned, taken, expired, registered, effected,
                     revoked_by_newer, notices, proven, overlapped>>
  BY DEF MintToken, Quiet
<1>2. PICK k \in Repository(q.op) : token[k].state = "none" /\ token' = [token EXCEPT ![k] = new]
  BY DEF MintToken
<1>3. /\ RequestOK(q) /\ q \in Request /\ q.email \in Emails /\ q.user \in Row
      /\ Sound => RequestFits(q, user, registered, proven, token)
  BY <1>1, Facts
<1>4. k \in Tokens /\ token \in [Tokens -> TokenRow] /\ mailed_to(q) \in Emails
  BY <1>2, <1>3, RepositoryTokens, RowFacts DEF mailed_to, Row, RowsOK
<1>5. n \in Nat
  <2>1. IsFiniteSet({x \in Changes : token[x].state # "none"})
    BY AccountAssumption, FS_Subset
  <2> QED
    BY <2>1, FS_CardinalityType
<1>6. q.op \in {"register", "request_reset", "request_verification", "request_change"}
  BY <1>1, Facts, Places
<1>7. new \in TokenRow /\ new.state = "issued" /\ new.sent = mailed_to(q) /\ new.email = q.email
  BY <1>3, <1>4, <1>5 DEF TokenRow
<1> HIDE DEF new
<1>8. /\ token' \in [Tokens -> TokenRow] /\ token'[k] = new
      /\ \A i \in Tokens : i # k => token'[i] = token[i]
  BY <1>2, <1>4, <1>7
<1>9. RowsOK' /\ TokenSpentForEffect'
  BY <1>1, <1>7, <1>8, RowFacts DEF RowsOK, TokenSpentForEffect
<1>10. Grows
  BY <1>1, <1>2, <1>8 DEF Grows
<1>11. ASSUME Sound PROVE TokensFit(token', user', registered')
  <2>1. k \in Changes => new.sent = new.email
    <3>1. k \in Changes => q.op = "request_change"
      BY <1>2, <1>6, RepositoryTokens, AccountAssumption
    <3> QED
      BY <1>7, <3>1 DEF mailed_to
  <2>2. k \in Verifications /\ new.sent # First => Settled(user, registered)
    <3>1. k \in Verifications => q.op # "request_change"
      BY <1>2, RepositoryTokens, AccountAssumption
    <3>2. q.user.email # First => Settled(user, registered)
      BY <1>3, <1>11 DEF RequestFits, CopyFits, UserFits
    <3> QED
      BY <1>7, <3>1, <3>2 DEF mailed_to
  <2> QED
    BY <1>1, <1>8, <1>11, <2>1, <2>2, RowFacts DEF TokensFit
<1>12. Sound => UserFits(user', registered', proven')
  BY <1>1, RowFacts
<1> QED
  BY <1>1, <1>3, <1>9, <1>10, <1>11, <1>12, QuietMoves

\* A request reads the row as it is.
LEMMA ReadUserKeeps ==
  ASSUME AccountInv, NEW r \in Requests, ReadUser(r)
  PROVE  AccountInv'
<1> DEFINE q == [rq[r] EXCEPT !.user = user]
<1>1. PICK call \in {"lookup", "owner"} : At(r, call)
  BY DEF ReadUser
<1>2. /\ user.present /\ Advance(r, q)
      /\ user' = user /\ session' = session /\ token' = token /\ owned' = owned
      /\ taken' = taken /\ expired' = expired /\ registered' = registered
      /\ effected' = effected /\ revoked_by_newer' = revoked_by_newer
      /\ notices' = notices /\ proven' = proven /\ overlapped' = overlapped
  BY DEF ReadUser, rows
<1>3. /\ rq[r] \in Request /\ RequestOK(rq[r]) /\ rq[r].op \in Operations /\ rq[r].op # "idle"
      /\ rq[r].pc \in Nat /\ Calls[rq[r].op][rq[r].pc] = call
      /\ (PastSave(rq[r]) => rq[r].token \in effected)
      /\ (rq[r].op \in Confirmations => rq[r].token \in Repository(rq[r].op))
      /\ (rq[r].op \in Confirmations => rq[r].token \in Tokens)
      /\ Sound => RequestFits(rq[r], user, registered, proven, token)
  BY <1>1, Facts
<1>4. user \in Row /\ RowsOK' /\ TokenSpentForEffect'
  BY <1>2, RowFacts DEF RowsOK, TokenSpentForEffect
<1>5. q \in Request
  BY <1>3, <1>4, Zenon DEF Request
<1>6. /\ q.op = rq[r].op /\ q.pc = rq[r].pc /\ q.token = rq[r].token
      /\ q.user = user /\ q.email = rq[r].email
  BY <1>3 DEF Request
<1> HIDE DEF q
<1>7. RequestOK(q)
  BY <1>3, <1>5, <1>6 DEF RequestOK
<1>8. /\ After(q).op = q.op /\ After(q).pc = q.pc + 1 /\ After(q).token = q.token
      /\ After(q).user = q.user /\ After(q).email = q.email
  BY <1>5, AfterFields
<1>9. /\ q.op \in {"confirm_reset", "confirm_verification"} => q.pc # 3
      /\ q.op = "confirm_verification" => q.pc # 1
      /\ q.op = "confirm_change" => q.pc # 1 /\ q.pc # 6
  BY <1>3, <1>6, CallsAt
<1>10. PastSave(After(q)) => q.token \in effected'
  BY <1>2, <1>3, <1>6, <1>8, <1>9 DEF PastSave
<1>11. ASSUME Sound PROVE RequestFits(After(q), user', registered', proven', token')
  <2>1. /\ UserFits(user, registered, proven) /\ TokensFit(token, user, registered)
        /\ ConfirmFits(rq[r], token, proven)
        /\ rq[r].op = "register" /\ rq[r].pc <= 2 => ~ registered
    BY <1>3, <1>11, RowFacts DEF RequestFits
  <2>2. CopyFits(After(q), user', registered', proven')
    BY <1>2, <1>6, <1>8, <2>1 DEF CopyFits, UserFits, Settled
  <2>3. /\ q.op = "confirm_reset" => ~ NoReset
        /\ q.op \in Confirmations => token'[q.token].state # "none"
    BY <1>2, <1>6, <2>1 DEF ConfirmFits
  <2>4. ASSUME q.op = "confirm_change" PROVE q.email \in proven' /\ q.user.present
    <3>1. rq[r].pc > 1
      BY <1>3, <1>6, <1>9, <1>7, <2>4 DEF RequestOK
    <3> QED
      BY <1>2, <1>6, <2>1, <2>4, <3>1 DEF ConfirmFits
  <2>5. ASSUME q.op = "confirm_verification"
        PROVE  /\ token'[q.token].sent \in proven' /\ q.user.present
               /\ q.user.verified \/ token'[q.token].sent = First
    <3>1. rq[r].pc > 1
      BY <1>3, <1>6, <1>9, <1>7, <2>5 DEF RequestOK
    <3>2. token[q.token].sent \in proven
      BY <1>6, <2>1, <2>5, <3>1 DEF ConfirmFits
    <3>3. q.op \in Confirmations
      BY <2>5 DEF Confirmations
    <3>4. q.token \in Verifications /\ q.token \in Tokens /\ token[q.token].state # "none"
      BY <1>2, <1>3, <1>6, <2>3, <2>5, <3>3, RepositoryTokens
    <3>5. token[q.token].sent # First => user.verified
      BY <1>2, <2>1, <3>4 DEF TokensFit, Settled
    <3> QED
      BY <1>2, <1>6, <3>2, <3>5
  <2>6. ConfirmFits(After(q), token', proven')
    BY <1>8, <2>3, <2>4, <2>5 DEF ConfirmFits
  <2>7. ~ (q.op = "register" /\ q.pc + 1 <= 2)
    <3>1. q.op = "register" => q.pc # 1
      BY <1>3, <1>6, CallsAt
    <3> QED
      BY <1>3, <1>6, <1>7, <3>1 DEF RequestOK
  <2> QED
    BY <1>8, <2>2, <2>6, <2>7 DEF RequestFits
<1>12. Sound => UserFits(user', registered', proven') /\ TokensFit(token', user', registered')
  BY <1>2, RowFacts
<1>13. q.op # "idle"
  BY <1>3, <1>6
<1> QED
  BY <1>2, <1>4, <1>6, <1>7, <1>10, <1>11, <1>12, <1>13, Moves

\* A token that comes back proves the address it was sent to.
LEMMA ReadTokenKeeps ==
  ASSUME AccountInv, NEW r \in Requests, ReadToken(r)
  PROVE  AccountInv'
<1> DEFINE k == rq[r].token
           q == [rq[r] EXCEPT !.email = token[k].email]
<1>1. /\ At(r, "token") /\ token[k].state = "issued" /\ Advance(r, q)
      /\ proven' = IF rq[r].op = "confirm_reset" THEN proven ELSE proven \cup {token[k].sent}
      /\ user' = user /\ session' = session /\ token' = token /\ owned' = owned
      /\ taken' = taken /\ expired' = expired /\ registered' = registered
      /\ effected' = effected /\ revoked_by_newer' = revoked_by_newer
      /\ notices' = notices /\ overlapped' = overlapped
  BY DEF ReadToken, TokenValid, rows
<1>2. /\ rq[r] \in Request /\ RequestOK(rq[r]) /\ rq[r].op \in Operations /\ rq[r].op # "idle"
      /\ rq[r].op \in Confirmations => k \in Repository(rq[r].op)
      /\ Sound => RequestFits(rq[r], user, registered, proven, token)
  BY <1>1, Facts
<1>3. rq[r].op \in Confirmations /\ rq[r].pc = 1
  BY <1>1, Facts, Places
<1>4. k \in Tokens /\ token \in [Tokens -> TokenRow]
  BY <1>2, <1>3, RepositoryTokens, RowFacts DEF RowsOK
<1>5. token[k].email \in Emails /\ token[k].sent \in Emails
  BY <1>4 DEF TokenRow
<1>6. proven \subseteq proven'
  BY <1>1
<1>7. RowsOK' /\ TokenSpentForEffect'
  <2>1. proven' \subseteq Emails
    BY <1>1, <1>5, RowFacts DEF RowsOK
  <2> QED
    BY <1>1, <2>1, RowFacts DEF RowsOK, TokenSpentForEffect
<1>8. q \in Request
  BY <1>2, <1>5, Zenon DEF Request
<1>9. /\ q.op = rq[r].op /\ q.pc = 1 /\ q.token = k
      /\ q.user = rq[r].user /\ q.email = token[k].email
  BY <1>2, <1>3 DEF Request
<1> HIDE DEF q
<1>10. RequestOK(q) /\ q.op # "idle"
  BY <1>2, <1>3, <1>8, <1>9 DEF RequestOK
<1>11. /\ After(q).op = q.op /\ After(q).pc = 2 /\ After(q).token = q.token
       /\ After(q).user = q.user /\ After(q).email = q.email
  BY <1>8, <1>9, AfterFields
<1>12. ~ PastSave(After(q))
  BY <1>11 DEF PastSave
<1>13. ASSUME Sound
       PROVE  /\ UserFits(user', registered', proven') /\ TokensFit(token', user', registered')
              /\ RequestFits(After(q), user', registered', proven', token')
  <2>1. /\ UserFits(user, registered, proven) /\ TokensFit(token, user, registered)
        /\ CopyFits(rq[r], user, registered, proven) /\ ConfirmFits(rq[r], token, proven)
    BY <1>2, <1>13, RowFacts DEF RequestFits
  <2>2. UserFits(user', registered', proven') /\ TokensFit(token', user', registered')
    BY <1>1, <1>6, <2>1 DEF UserFits
  <2>3. CopyFits(After(q), user', registered', proven')
    BY <1>1, <1>6, <1>9, <1>11, <2>1 DEF CopyFits, UserFits
  <2>4. /\ q.op = "confirm_reset" => ~ NoReset
        /\ q.op # "confirm_reset" => token[k].sent \in proven'
    BY <1>1, <1>9, <2>1 DEF ConfirmFits
  <2>5. q.op = "confirm_change" => q.email \in proven'
    <3>1. q.op = "confirm_change" => k \in Changes
      BY <1>2, <1>3, <1>9, RepositoryTokens
    <3> QED
      BY <1>1, <1>4, <1>9, <2>1, <2>4, <3>1 DEF TokensFit
  <2>6. ConfirmFits(After(q), token', proven')
    BY <1>1, <1>9, <1>11, <2>4, <2>5 DEF ConfirmFits
  <2>7. q.op # "register"
    BY <1>3, <1>9 DEF Confirmations
  <2> QED
    BY <1>11, <2>2, <2>3, <2>6, <2>7 DEF RequestFits
<1>14. /\ effected \subseteq effected' /\ (registered => registered')
       /\ Sound /\ Settled(user, registered) => Settled(user', registered')
       /\ \A i \in Tokens : token[i].state # "none" =>
            token'[i].state # "none" /\ token'[i].sent = token[i].sent
  BY <1>1
<1> QED
  BY <1>1, <1>6, <1>7, <1>9, <1>10, <1>12, <1>13, <1>14, Moves

\* Before the account exists no link went to another address than the first.
LEMMA CreateUserKeeps ==
  ASSUME AccountInv, NEW r \in Requests, CreateUser(r)
  PROVE  AccountInv'
<1> DEFINE u == [present |-> TRUE, email |-> First, verified |-> FALSE]
           q == [rq[r] EXCEPT !.user = u]
<1>1. /\ At(r, "create") /\ user' = u /\ registered' = TRUE /\ Advance(r, q)
      /\ session' = session /\ token' = token /\ owned' = owned
      /\ taken' = taken /\ expired' = expired
      /\ effected' = effected /\ revoked_by_newer' = revoked_by_newer
      /\ notices' = notices /\ proven' = proven /\ overlapped' = overlapped
  BY DEF CreateUser
<1>2. /\ rq[r] \in Request /\ RequestOK(rq[r]) /\ rq[r].op # "idle"
      /\ Sound => RequestFits(rq[r], user, registered, proven, token)
  BY <1>1, Facts
<1>3. rq[r].op = "register" /\ rq[r].pc = 2
  BY <1>1, Facts, Places
<1>4. u \in Row /\ u.present /\ ~ u.verified /\ u.email = First
  BY AccountAssumption DEF Row
<1> HIDE DEF u
<1>5. RowsOK' /\ TokenSpentForEffect'
  BY <1>1, <1>4, RowFacts DEF RowsOK, TokenSpentForEffect
<1>6. q \in Request
  BY <1>2, <1>4, Zenon DEF Request
<1>7. /\ q.op = rq[r].op /\ q.pc = 2 /\ q.token = rq[r].token
      /\ q.user = u /\ q.email = rq[r].email
  BY <1>2, <1>3 DEF Request
<1> HIDE DEF q
<1>8. RequestOK(q) /\ q.op # "idle" /\ q.op \notin Confirmations
  BY <1>2, <1>3, <1>6, <1>7 DEF RequestOK, Confirmations
<1>9. /\ After(q).op = "register" /\ After(q).pc = 3 /\ After(q).user = u
  BY <1>3, <1>6, <1>7, AfterFields
<1>10. ~ PastSave(After(q))
  BY <1>9 DEF PastSave
<1>11. Sound => ~ registered
  BY <1>2, <1>3 DEF RequestFits
<1>12. ASSUME Sound
       PROVE  /\ UserFits(user', registered', proven') /\ TokensFit(token', user', registered')
              /\ RequestFits(After(q), user', registered', proven', token')
  <2>1. UserFits(u, TRUE, proven)
    BY <1>4 DEF UserFits
  <2>2. TokensFit(token, u, TRUE)
    BY <1>11, <1>12, RowFacts DEF TokensFit, Settled
  <2>3. RequestFits(After(q), u, TRUE, proven, token)
    <3>1. CopyFits(After(q), u, TRUE, proven)
      BY <1>4, <1>9, <2>1 DEF CopyFits
    <3>2. ConfirmFits(After(q), token, proven)
      BY <1>9 DEF ConfirmFits, Confirmations
    <3>3. ~ (After(q).pc <= 2)
      BY <1>9
    <3> QED
      BY <3>1, <3>2, <3>3 DEF RequestFits
  <2> QED
    BY <1>1, <2>1, <2>2, <2>3
<1>13. /\ effected \subseteq effected' /\ (registered => registered')
       /\ proven \subseteq proven'
       /\ Sound /\ Settled(user, registered) => Settled(user', registered')
       /\ \A i \in Tokens : token[i].state # "none" =>
            token'[i].state # "none" /\ token'[i].sent = token[i].sent
  BY <1>1, <1>11 DEF Settled
<1> QED
  BY <1>1, <1>3, <1>5, <1>7, <1>8, <1>10, <1>12, <1>13, Moves

\* The row a confirmation writes is the one it read, with what it confirms.
LEMMA UpdatedRow ==
  ASSUME NEW q \in Request, q.op \in Confirmations
  PROVE  /\ UpdatedUser(q) \in Row /\ UpdatedUser(q).present = q.user.present
         /\ q.op = "confirm_verification" =>
              UpdatedUser(q).verified /\ UpdatedUser(q).email = q.user.email
         /\ q.op = "confirm_change" =>
              UpdatedUser(q).verified /\ UpdatedUser(q).email = q.email
<1>1. q.user \in Row /\ q.email \in Emails
  BY DEF Request
<1>2. CASE q.op = "confirm_reset"
  BY <1>1, <1>2 DEF UpdatedUser
<1>3. CASE q.op = "confirm_verification"
  <2>1. UpdatedUser(q) = [q.user EXCEPT !.verified = TRUE]
    BY <1>3 DEF UpdatedUser
  <2> QED
    BY <1>1, <1>3, <2>1 DEF Row
<1>4. CASE q.op = "confirm_change"
  <2>1. UpdatedUser(q) = [q.user EXCEPT !.email = q.email, !.verified = TRUE]
    BY <1>4 DEF UpdatedUser
  <2> QED
    BY <1>1, <1>4, <2>1 DEF Row
<1> QED
  BY <1>2, <1>3, <1>4 DEF Confirmations

\* The save has its effect before the token is consumed, and what it verifies
\* came back.
LEMMA SaveUserKeeps ==
  ASSUME AccountInv, AloneInv, NEW r \in Requests, SaveUser(r)
  PROVE  AccountInv'
<1> DEFINE q == rq[r]
           y == [q EXCEPT !.pc = q.pc + 1]
<1>1. /\ At(r, "save") /\ effected' = effected \cup {q.token}
      /\ session' = session /\ token' = token /\ owned' = owned
      /\ taken' = taken /\ expired' = expired /\ registered' = registered
      /\ revoked_by_newer' = revoked_by_newer /\ notices' = notices /\ proven' = proven
      /\ overlapped' = overlapped
  BY DEF SaveUser
<1>2. \/ already_applied(q) /\ Advance(r, y) /\ user' = user
      \/ user' = UpdatedUser(q) /\ Advance(r, q)
  BY DEF SaveUser
<1>3. /\ q \in Request /\ RequestOK(q) /\ q.op # "idle" /\ q.pc \in Nat
      /\ q.op \in Confirmations => q.token \in Tokens
      /\ Sound => RequestFits(q, user, registered, proven, token)
  BY <1>1, Facts
<1>4. \/ q.op \in {"confirm_reset", "confirm_verification"} /\ q.pc = 3
      \/ q.op = "confirm_change" /\ q.pc = 6
  BY <1>1, Facts, Places
<1>5. q.op \in Confirmations /\ q.token \in Tokens /\ q.op # "register"
  BY <1>3, <1>4 DEF Confirmations
<1>6. user' \in Row
  BY <1>2, <1>3, <1>5, UpdatedRow, RowFacts DEF RowsOK
<1>7. RowsOK' /\ TokenSpentForEffect'
  <2>1. effected' \subseteq Tokens
    BY <1>1, <1>5, RowFacts DEF RowsOK
  <2> QED
    BY <1>1, <1>6, <2>1, RowFacts DEF RowsOK, TokenSpentForEffect
<1>8. /\ effected \subseteq effected' /\ (registered => registered') /\ q.token \in effected'
      /\ proven \subseteq proven'
      /\ \A i \in Tokens : token[i].state # "none" =>
           token'[i].state # "none" /\ token'[i].sent = token[i].sent
  BY <1>1
<1>9. ASSUME Sound
      PROVE  /\ UserFits(user', registered', proven')
             /\ Settled(user, registered) => Settled(user', registered')
             /\ q.user.present /\ q.user.verified => Settled(user', registered')
  <2>1. /\ UserFits(user, registered, proven) /\ CopyFits(q, user, registered, proven)
        /\ ConfirmFits(q, token, proven)
    BY <1>3, <1>9, RowFacts DEF RequestFits
  <2>2. CASE user' = user
    BY <1>1, <2>1, <2>2 DEF CopyFits
  <2>3. CASE user' = UpdatedUser(q) /\ q.op = "confirm_verification" /\ q.pc = 3
    <3>1. /\ q.user.present /\ token[q.token].sent \in proven
          /\ q.user.verified \/ token[q.token].sent = First
      BY <2>1, <2>3 DEF ConfirmFits
    <3>2. registered /\ q.user.email \in proven
      BY <2>1, <3>1 DEF CopyFits, UserFits
    <3>3. user'.present /\ user'.verified /\ user'.email = q.user.email
      BY <1>3, <1>5, <2>3, <3>1, UpdatedRow
    <3> QED
      BY <1>1, <3>2, <3>3 DEF UserFits, Settled
  <2>4. CASE user' = UpdatedUser(q) /\ q.op = "confirm_change" /\ q.pc = 6
    <3>1. q.user.present /\ q.email \in proven
      BY <2>1, <2>4 DEF ConfirmFits
    <3>2. registered
      BY <2>1, <3>1 DEF CopyFits, UserFits
    <3>3. user'.present /\ user'.verified /\ user'.email = q.email
      BY <1>3, <1>5, <2>4, <3>1, UpdatedRow
    <3> QED
      BY <1>1, <3>1, <3>2, <3>3 DEF UserFits, Settled
  <2>5. CASE user' = UpdatedUser(q) /\ q.op = "confirm_reset" /\ q.pc = 3
    <3>1. ~ overlapped
      BY <1>9, <2>1, <2>5 DEF ConfirmFits, Sound
    <3>2. q.user = user
      BY <2>5, <3>1 DEF AloneInv, AloneFits, AloneUser
    <3>3. user' = user
      BY <2>5, <3>2 DEF UpdatedUser
    <3> QED
      BY <2>2, <3>3
  <2> QED
    BY <1>2, <1>4, <2>2, <2>3, <2>4, <2>5
<1>10. Sound => TokensFit(token', user', registered')
  BY <1>1, <1>9, RowFacts DEF TokensFit
<1>11. ASSUME NEW x \in Request, x.op = q.op, x.token = q.token, x.user = q.user,
              x.email = q.email, Sound, q.op = "confirm_verification" => x.pc = q.pc,
              x.pc >= q.pc
       PROVE  RequestFits(After(x), user', registered', proven', token')
  <2>1. /\ CopyFits(q, user, registered, proven) /\ ConfirmFits(q, token, proven)
    BY <1>3, <1>11 DEF RequestFits
  <2>2. /\ After(x).op = q.op /\ After(x).token = q.token
        /\ After(x).user = q.user /\ After(x).email = q.email
    BY <1>11, AfterFields
  <2>3. CopyFits(After(x), user', registered', proven')
    BY <1>1, <1>9, <1>11, <2>1, <2>2 DEF CopyFits
  <2>4. ConfirmFits(After(x), token', proven')
    BY <1>1, <1>4, <2>1, <2>2 DEF ConfirmFits
  <2> QED
    BY <1>5, <2>2, <2>3, <2>4 DEF RequestFits
<1>12. CASE user' = UpdatedUser(q) /\ Advance(r, q)
  <2>1. Sound => RequestFits(After(q), user', registered', proven', token')
    BY <1>3, <1>11
  <2> QED
    BY <1>1, <1>3, <1>7, <1>8, <1>9, <1>10, <1>12, <2>1, Moves
<1>13. CASE already_applied(q) /\ Advance(r, y)
  <2>1. q.op = "confirm_change" /\ q.pc = 6
    BY <1>4, <1>13 DEF already_applied
  <2>2. q.pc + 1 \in Nat /\ q.pc + 1 = 7 /\ 7 \in 1..Len(Calls["confirm_change"])
    BY <2>1, CallsAt
  <2>3. y \in Request
    BY <1>3, <2>2, Zenon DEF Request
  <2>4. /\ y.op = q.op /\ y.pc = 7 /\ y.token = q.token /\ y.user = q.user
        /\ y.email = q.email
    BY <1>3, <2>2 DEF Request
  <2> HIDE DEF y
  <2>5. RequestOK(y) /\ y.op # "idle"
    BY <1>3, <2>1, <2>2, <2>3, <2>4 DEF RequestOK
  <2>6. Sound => RequestFits(After(y), user', registered', proven', token')
    BY <1>11, <2>1, <2>3, <2>4
  <2> QED
    BY <1>1, <1>7, <1>8, <1>9, <1>10, <1>13, <2>4, <2>5, <2>6, Moves
<1> QED
  BY <1>2, <1>12, <1>13

LEMMA ArriveKeeps ==
  ASSUME AccountInv, NEW r \in Requests, NEW op \in Ops, Arrive(r, op)
  PROVE  AccountInv'
<1>1. /\ UNCHANGED <<rows, registered, effected, revoked_by_newer, notices, proven>>
      /\ overlapped => overlapped'
      /\ op = "register" => ~ registered /\ \A s \in Requests : rq[s].op # "register"
  BY DEF Arrive
<1>2. PICK s \in IF Calls[op][1] = "session" THEN Sessions ELSE {"none"},
           k \in IF op \in Confirmations THEN Repository(op) ELSE {"none"},
           e \in IF op = "request_change" THEN Emails ELSE {First} :
             /\ s \in Sessions => session[s] # "none"
             /\ k \in Tokens => token[k].state # "none"
             /\ rq' = [rq EXCEPT ![r] = [idle_request EXCEPT
                         !.op = op, !.pc = 1, !.session = s, !.token = k, !.email = e]]
  BY DEF Arrive
<1> DEFINE x == [idle_request EXCEPT
                   !.op = op, !.pc = 1, !.session = s, !.token = k, !.email = e]
<1>3. /\ op \in Operations /\ op # "idle" /\ 1 \in 1..Len(Calls[op]) /\ 1 \in Nat
  <2>1. op \in Operations /\ op # "idle"
    BY AccountAssumption, OperationNames
  <2>2. Len(Calls[op]) > 0
    BY <2>1, OperationNames
       DEF Calls, register_calls, login_calls, validate_calls, logout_calls, expire_calls,
           request_token_calls, confirm_reset_calls, confirm_verification_calls,
           request_change_calls, confirm_change_calls, keep_calls, delete_calls
  <2>3. Len(Calls[op]) \in Nat
    BY <2>1, OperationNames
       DEF Calls, register_calls, login_calls, validate_calls, logout_calls, expire_calls,
           request_token_calls, confirm_reset_calls, confirm_verification_calls,
           request_change_calls, confirm_change_calls, keep_calls, delete_calls
  <2> QED
    BY <2>1, <2>2, <2>3
<1>4. /\ s \in Sessions \cup {"none"} /\ k \in Tokens \cup {"none"} /\ e \in Emails
      /\ op \in Confirmations => k \in Repository(op) /\ k \in Tokens
  BY RepositoryTokens, AccountAssumption
<1>5. idle_request \in Request /\ idle_request.user = no_user
  BY IdleOK DEF RequestOK, idle_request
<1>6. x \in Request
  BY <1>3, <1>4, <1>5, Zenon DEF Request
<1>7. x.op = op /\ x.pc = 1 /\ x.token = k /\ x.user = no_user
  BY <1>5 DEF Request
<1>8. rq' = [rq EXCEPT ![r] = x]
  BY <1>2
<1> HIDE DEF x
<1>9. RequestOK(x) /\ ~ PastSave(x)
  BY <1>3, <1>4, <1>6, <1>7 DEF RequestOK, PastSave
<1>10. ASSUME Sound PROVE RequestFits(x, user, registered, proven, token)
  <2>1. ~ no_user.present /\ no_user.email = First
    BY DEF no_user
  <2>2. CopyFits(x, user, registered, proven)
    BY <1>7, <2>1 DEF CopyFits, UserFits
  <2>3. /\ op = "confirm_reset" => ~ NoReset
        /\ op \in Confirmations => token[k].state # "none"
    BY <1>2, <1>4 DEF NoReset
  <2>4. ConfirmFits(x, token, proven)
    BY <1>7, <2>3 DEF ConfirmFits
  <2> QED
    BY <1>1, <1>7, <2>2, <2>4 DEF RequestFits
<1> QED
  BY <1>1, <1>7, <1>8, <1>9, <1>10, TurnsInto

\* What happens around the account: no request moves, no row of it changes.
LEMMA WorldKeeps ==
  ASSUME AccountInv,
         \/ \E e \in Emails : TakeEmail(e)
         \/ \E x \in Expiring : TimeOut(x)
         \/ UNCHANGED vars
  PROVE  AccountInv'
<1>1. /\ user' = user /\ session' = session /\ token' = token /\ owned' = owned /\ rq' = rq
      /\ registered' = registered /\ effected' = effected
      /\ revoked_by_newer' = revoked_by_newer /\ notices' = notices /\ proven' = proven
      /\ overlapped' = overlapped
  BY DEF TakeEmail, TimeOut, vars, rows, history
<1>2. taken' \subseteq Emails /\ expired' \subseteq Sessions \cup Tokens
  BY AccountAssumption, RowFacts DEF TakeEmail, TimeOut, vars, rows, RowsOK
<1>3. RowsOK'
  BY <1>1, <1>2, RowFacts DEF RowsOK
<1> QED
  BY <1>1, <1>3 DEF AccountInv, TokenSpentForEffect, OneRegistration, Sound, NoReset

LEMMA CallKeeps ==
  ASSUME AccountInv, AloneInv, NEW r \in Requests, Call(r)
  PROVE  AccountInv'
<1>1. CASE Refuse(r)
  BY <1>1, StopKeeps
<1>2. CASE \/ ReadFree(r) \/ ReadExists(r) \/ ReadOccupant(r) \/ ReadNewest(r)
           \/ InvalidateDone(r) \/ WatchlistsDone(r)
  BY <1>2, QuietReads
<1>3. CASE ReadUser(r)
  BY <1>3, ReadUserKeeps
<1>4. CASE ReadSession(r)
  BY <1>4, ReadSessionKeeps
<1>5. CASE ReadToken(r)
  BY <1>5, ReadTokenKeeps
<1>6. CASE ListChanges(r) \/ ListWatchlists(r)
  BY <1>6, ListChangesKeeps, ListWatchlistsKeeps
<1>7. CASE CreateUser(r)
  BY <1>7, CreateUserKeeps
<1>8. CASE \/ WriteOwned(r, "profile") \/ WriteOwned(r, "consents") \/ KeepRecord(r)
           \/ IssueSession(r) \/ RefreshSession(r) \/ RevokeOne(r) \/ RevokeAll(r)
           \/ SendNotice(r) \/ DropSessions(r)
           \/ DropOwned(r, "drop_profile", "profile") \/ DropOwned(r, "drop_saved", "saved")
           \/ DropOwned(r, "drop_consents", "consents")
           \/ DropOwned(r, "drop_preferences", "preferences")
  BY <1>8, QuietWrites
<1>9. CASE MintToken(r)
  BY <1>9, MintTokenKeeps
<1>10. CASE SaveUser(r)
  BY <1>10, SaveUserKeeps
<1>11. CASE ConsumeToken(r)
  BY <1>11, ConsumeTokenKeeps
<1>12. CASE InvalidateOne(r) \/ DropWatchlist(r)
  BY <1>12, InvalidateOneKeeps, DropWatchlistKeeps
<1>13. CASE DropUser(r)
  BY <1>13, DropUserKeeps
<1>14. CASE \/ DropTokens(r, "drop_resets", Resets)
            \/ DropTokens(r, "drop_verifications", Verifications)
            \/ DropTokens(r, "drop_changes", Changes)
  <2>1. {"drop_resets", "drop_verifications", "drop_changes"} \subseteq Quiet
    BY DEF Quiet
  <2> QED
    BY <1>14, <2>1, DropTokensKeeps
<1> QED
  BY <1>1, <1>2, <1>3, <1>4, <1>5, <1>6, <1>7, <1>8, <1>9, <1>10, <1>11, <1>12, <1>13,
     <1>14 DEF Call

LEMMA NextKeeps ==
  ASSUME AccountInv, AloneInv, [Next]_vars
  PROVE  AccountInv'
<1>1. CASE \E r \in Requests, op \in Ops : Arrive(r, op)
  BY <1>1, ArriveKeeps
<1>2. CASE \E r \in Requests : Call(r)
  BY <1>2, CallKeeps
<1>3. CASE \E r \in Requests : Fail(r)
  BY <1>3, StopKeeps
<1>4. CASE \/ \E e \in Emails : TakeEmail(e)
           \/ \E x \in Expiring : TimeOut(x)
           \/ UNCHANGED vars
  BY <1>4, WorldKeeps
<1> QED
  BY <1>1, <1>2, <1>3, <1>4 DEF Next

LEMMA InitFits ==
  ASSUME Init
  PROVE  AccountInv
<1>1. no_user \in Row /\ ~ no_user.present /\ no_user.email = First
  BY AccountAssumption DEF no_user, Row
<1>2. \A k \in Tokens : token[k].state = "none" /\ token[k] \in TokenRow
  BY AccountAssumption DEF Init, TokenRow
<1>3. RowsOK
  <2>1. token \in [Tokens -> TokenRow]
    BY AccountAssumption DEF Init, TokenRow
  <2>2. /\ session \in [Sessions -> {"none", "live", "revoked", "gone"}]
        /\ notices \in [Tokens -> 0..2]
    BY DEF Init
  <2>3. /\ user = no_user /\ owned = {} /\ taken = {} /\ expired = {} /\ registered = FALSE
        /\ effected = {} /\ revoked_by_newer = {} /\ proven = {}
    BY DEF Init
  <2> QED
    BY <1>1, <2>1, <2>2, <2>3 DEF RowsOK
<1>4. TokenSpentForEffect
  BY <1>2 DEF TokenSpentForEffect
<1>5. \A r \in Requests : rq[r] = idle_request
  BY DEF Init
<1>6. rq \in [Requests -> Request]
  BY IdleOK DEF Init, RequestOK
<1>7. UserFits(user, registered, proven)
  BY <1>1 DEF Init, UserFits
<1>8. TokensFit(token, user, registered)
  BY <1>2 DEF TokensFit
<1>9. OneRegistration
  BY <1>5, IdleOK DEF OneRegistration
<1> QED
  BY <1>3, <1>4, <1>5, <1>6, <1>7, <1>8, <1>9, IdleOK DEF AccountInv

-----------------------------------------------------------------------------
(* Requests that come one after another *)

\* Where each call is.
LEMMA Where ==
  ASSUME NEW op \in Operations, NEW n \in 1..Len(Calls[op])
  PROVE  /\ n \in Nat
         /\ Calls[op][n] = "free" => op = "register" /\ n = 1
         /\ Calls[op][n] = "profile" => op = "register" /\ n = 3
         /\ Calls[op][n] = "consents" => op = "register" /\ n = 4
         /\ Calls[op][n] = "lookup" =>
              op \in {"login", "request_reset", "request_verification"} /\ n = 1
         /\ Calls[op][n] = "issue" => \/ op = "register" /\ n = 6
                                      \/ op = "login" /\ n = 2
         /\ Calls[op][n] = "mint" =>
              \/ op = "register" /\ n = 5
              \/ op \in {"request_reset", "request_verification"} /\ n = 2
              \/ op = "request_change" /\ n = 7
         /\ Calls[op][n] = "session" =>
              op \in {"validate", "logout", "keep", "request_change", "delete"} /\ n = 1
         /\ Calls[op][n] = "refresh" =>
              op \in {"validate", "logout", "keep", "request_change", "delete"} /\ n = 2
         /\ Calls[op][n] = "revoke_one" => \/ op = "logout" /\ n = 3
                                           \/ op = "expire" /\ n = 1
         /\ Calls[op][n] = "owner" =>
              \/ op \in {"confirm_reset", "confirm_verification"} /\ n = 2
              \/ op \in {"confirm_change", "request_change", "keep", "delete"} /\ n = 3
         /\ Calls[op][n] = "revoke" =>
              op \in {"confirm_reset", "confirm_change", "delete"} /\ n = 5
         /\ Calls[op][n] = "occupant" => op \in {"request_change", "confirm_change"} /\ n = 4
         /\ Calls[op][n] = "list" => \/ op = "request_change" /\ n = 5
                                     \/ op = "confirm_change" /\ n = 9
         /\ Calls[op][n] = "invalidate" => \/ op = "request_change" /\ n = 6
                                           \/ op = "confirm_change" /\ n = 10
         /\ Calls[op][n] = "newest" => op = "confirm_change" /\ n = 2
         /\ Calls[op][n] = "notice" => op = "confirm_change" /\ n = 7
         /\ Calls[op][n] = "exists" => op = "delete" /\ n = 4
         /\ Calls[op][n] = "drop_sessions" => op = "delete" /\ n = 6
         /\ Calls[op][n] = "drop_profile" => op = "delete" /\ n = 7
         /\ Calls[op][n] = "drop_saved" => op = "delete" /\ n = 8
         /\ Calls[op][n] = "drop_resets" => op = "delete" /\ n = 9
         /\ Calls[op][n] = "drop_verifications" => op = "delete" /\ n = 10
         /\ Calls[op][n] = "drop_changes" => op = "delete" /\ n = 11
         /\ Calls[op][n] = "drop_consents" => op = "delete" /\ n = 12
         /\ Calls[op][n] = "list_watchlists" => op = "delete" /\ n = 13
         /\ Calls[op][n] = "drop_watchlists" => op = "delete" /\ n = 14
         /\ Calls[op][n] = "drop_preferences" => op = "delete" /\ n = 15
         /\ Calls[op][n] = "drop_user" => op = "delete" /\ n = 16 /\ n = Len(Calls[op])
         /\ Calls[op][n] = "keep" => op = "keep" /\ n = 4
<1> USE DEF Calls
<1>1. CASE op = "register"
  BY <1>1 DEF register_calls
<1>2. CASE op = "login"
  BY <1>2 DEF login_calls
<1>3. CASE op = "validate"
  BY <1>3 DEF validate_calls
<1>4. CASE op = "logout"
  BY <1>4 DEF logout_calls
<1>5. CASE op = "expire"
  BY <1>5 DEF expire_calls
<1>6. CASE op \in {"request_reset", "request_verification"}
  BY <1>6 DEF request_token_calls
<1>7. CASE op = "confirm_reset"
  BY <1>7 DEF confirm_reset_calls
<1>8. CASE op = "confirm_verification"
  BY <1>8 DEF confirm_verification_calls
<1>9. CASE op = "request_change"
  BY <1>9 DEF request_change_calls
<1>10. CASE op = "confirm_change"
  BY <1>10 DEF confirm_change_calls
<1>11. CASE op = "delete"
  BY <1>11 DEF delete_calls
<1>12. CASE op = "keep"
  BY <1>12 DEF keep_calls
<1> QED
  BY <1>1, <1>2, <1>3, <1>4, <1>5, <1>6, <1>7, <1>8, <1>9, <1>10, <1>11, <1>12,
     OperationNames

\* A step of r, the only request in progress.
LEMMA OnlyMoves ==
  ASSUME AccountInv, AloneInv, NEW r \in Requests, rq[r].op # "idle", ~ overlapped,
         overlapped' = overlapped, NEW x, rq' = [rq EXCEPT ![r] = x],
         AloneRows', x.op # "idle" /\ rq'[r] = x => AloneFits(r)'
  PROVE  AloneInv'
<1>1. rq \in [Requests -> Request] /\ OneAtATime
  BY DEF AccountInv, AloneInv
<1>2. \A s \in Requests : rq'[s] = IF s = r THEN x ELSE rq[s]
  BY <1>1
<1>3. \A s \in Requests : s # r => rq'[s].op = "idle"
  BY <1>1, <1>2 DEF OneAtATime
<1>4. ASSUME NEW s \in Requests, rq'[s].op = "idle" PROVE AloneFits(s)'
  BY <1>4 DEF AloneFits, AloneUser, AloneRequest, AloneConfirm, AloneDelete, Holds
<1>5. OneAtATime'
  BY <1>3 DEF OneAtATime
<1>6. \A s \in Requests : AloneFits(s)'
  BY <1>2, <1>3, <1>4
<1> QED
  BY <1>5, <1>6 DEF AloneInv

LEMMA AloneMoves ==
  ASSUME AccountInv, AloneInv, NEW r \in Requests, rq[r].op # "idle", ~ overlapped,
         overlapped' = overlapped, NEW q, Advance(r, q),
         AloneRows', rq'[r] = After(q) => AloneFits(r)'
  PROVE  AloneInv'
<1>1. CASE rq' = [rq EXCEPT ![r] = idle_request]
  BY <1>1, IdleOK, OnlyMoves
<1>2. CASE rq' = [rq EXCEPT ![r] = After(q)]
  BY <1>2, OnlyMoves
<1> QED
  BY <1>1, <1>2 DEF Advance, After

\* What is known at a call of the only request.
LEMMA AloneFacts ==
  ASSUME AccountInv, AloneInv, ~ overlapped, NEW r \in Requests, NEW call, At(r, call),
         call # "none"
  PROVE  /\ AloneRows /\ AloneUser(r) /\ AloneRequest(r) /\ AloneConfirm(r) /\ AloneDelete(r)
         /\ RowsOK /\ rq[r] \in Request /\ rq[r].op \in Operations /\ rq[r].op # "idle"
         /\ rq[r].pc \in 1..Len(Calls[rq[r].op]) /\ Calls[rq[r].op][rq[r].pc] = call
         /\ rq[r].op \in Confirmations => rq[r].token \in Tokens
         /\ rq[r].op = "confirm_change" => rq[r].token \in Changes
<1>1. /\ AloneRows /\ AloneFits(r) /\ RowsOK
  BY DEF AloneInv, AccountInv
<1>2. "confirm_change" \in Confirmations
  BY DEF Confirmations
<1> QED
  BY <1>1, <1>2, Facts, RepositoryTokens DEF AloneFits

\* The request moves on with the local variables it has.
LEMMA AloneProceeds ==
  ASSUME AccountInv, AloneInv, NEW r \in Requests, NEW call, At(r, call), call # "none",
         ~ overlapped, overlapped' = overlapped, Proceed(r), AloneRows',
         /\ rq'[r].op = rq[r].op /\ rq'[r].pc = rq[r].pc + 1 /\ rq'[r].token = rq[r].token
         /\ rq'[r].user = rq[r].user /\ rq'[r].email = rq[r].email
         /\ rq'[r].todo = rq[r].todo /\ rq'[r].session = rq[r].session
         /\ rq'[r].lists = rq[r].lists
         => AloneFits(r)'
  PROVE  AloneInv'
<1> DEFINE q == rq[r]
<1>1. q \in Request /\ q.op # "idle"
  BY AloneFacts
<1>2. /\ After(q).op = q.op /\ After(q).pc = q.pc + 1 /\ After(q).token = q.token
      /\ After(q).user = q.user /\ After(q).email = q.email
      /\ After(q).todo = q.todo /\ After(q).session = q.session
      /\ After(q).lists = q.lists
  BY <1>1 DEF After, Request
<1>3. rq'[r] = After(q) => AloneFits(r)'
  BY <1>2
<1> QED
  BY <1>1, <1>3, AloneMoves

LEMMA SameRows ==
  ASSUME AloneRows, UNCHANGED <<user, session, token, owned, registered, notices>>
  PROVE  AloneRows'
  BY DEF AloneRows, NothingLeft, Stored, Unconsumed

LEMMA AloneReads ==
  ASSUME AccountInv, AloneInv, NEW r \in Requests, ~ overlapped,
         \/ ReadFree(r) \/ ReadExists(r) \/ ReadOccupant(r) \/ ReadNewest(r)
         \/ InvalidateDone(r) \/ WatchlistsDone(r)
  PROVE  AloneInv'
<1> DEFINE q == rq[r]
<1>1. /\ Proceed(r) /\ overlapped' = overlapped
      /\ UNCHANGED <<user, session, token, owned, registered, notices>>
  BY DEF ReadFree, ReadExists, ReadOccupant, ReadNewest, InvalidateDone,
         WatchlistsDone, rows
<1>2. PICK call \in {"free", "exists", "occupant", "newest", "invalidate",
                    "drop_watchlists"} :
        /\ At(r, call)
        /\ call = "invalidate" => q.todo = {}
        /\ call = "drop_watchlists" => q.lists = {}
  BY DEF ReadFree, ReadExists, ReadOccupant, ReadNewest, InvalidateDone,
         WatchlistsDone
<1>3. /\ AloneRows /\ AloneUser(r) /\ AloneRequest(r) /\ AloneConfirm(r) /\ AloneDelete(r)
      /\ q.op \in Operations /\ q.pc \in 1..Len(Calls[q.op]) /\ Calls[q.op][q.pc] = call
  BY <1>2, AloneFacts
<1>4. /\ q.pc \in Nat
      /\ \/ q.op = "register" /\ q.pc = 1
         \/ q.op = "delete" /\ q.pc = 4
         \/ q.op = "delete" /\ q.pc = 14 /\ q.lists = {}
         \/ q.op \in {"request_change", "confirm_change"} /\ q.pc = 4
         \/ q.op = "confirm_change" /\ q.pc \in {2, 10}
         \/ q.op = "request_change" /\ q.pc = 6 /\ q.todo = {}
  BY <1>2, <1>3, Where
<1>5. AloneRows'
  BY <1>1, <1>3, SameRows
<1>6. ASSUME rq'[r].op = q.op /\ rq'[r].pc = q.pc + 1 /\ rq'[r].token = q.token,
             rq'[r].user = q.user /\ rq'[r].email = q.email /\ rq'[r].todo = q.todo
      PROVE  AloneFits(r)'
  <2>1. AloneUser(r)'
    BY <1>1, <1>3, <1>4, <1>6 DEF AloneUser, Holds
  <2>2. AloneRequest(r)'
    BY <1>1, <1>3, <1>4, <1>6 DEF AloneRequest, Unconsumed
  <2>3. AloneConfirm(r)'
    BY <1>1, <1>3, <1>4, <1>6 DEF AloneConfirm
  <2>4. AloneDelete(r)'
    BY <1>1, <1>3, <1>4, <1>6 DEF AloneDelete, Stored
  <2> QED
    BY <2>1, <2>2, <2>3, <2>4 DEF AloneFits
<1> QED
  BY <1>1, <1>2, <1>5, <1>6, AloneProceeds

LEMMA AloneStops ==
  ASSUME AccountInv, AloneInv, NEW r \in Requests, ~ overlapped, rq[r].op # "idle",
         Refuse(r) \/ Fail(r)
  PROVE  AloneInv'
<1>1. /\ rq' = [rq EXCEPT ![r] = idle_request] /\ overlapped' = overlapped
      /\ UNCHANGED <<user, session, token, owned, registered, notices>>
  BY DEF Refuse, Fail, rows
<1>2. AloneRows'
  BY <1>1, SameRows DEF AloneInv
<1> QED
  BY <1>1, <1>2, IdleOK, OnlyMoves

LEMMA AloneReadUser ==
  ASSUME AccountInv, AloneInv, NEW r \in Requests, ~ overlapped, ReadUser(r)
  PROVE  AloneInv'
<1> DEFINE q == rq[r]
           y == [q EXCEPT !.user = user]
<1>1. /\ Advance(r, y) /\ overlapped' = overlapped /\ user.present
      /\ UNCHANGED <<user, session, token, owned, registered, notices>>
  BY DEF ReadUser, rows
<1>2. PICK call \in {"lookup", "owner"} : At(r, call)
  BY DEF ReadUser
<1>3. /\ AloneRows /\ AloneUser(r) /\ AloneRequest(r) /\ AloneConfirm(r) /\ AloneDelete(r)
      /\ q.op \in Operations /\ q.pc \in 1..Len(Calls[q.op]) /\ Calls[q.op][q.pc] = call
      /\ q \in Request /\ RowsOK /\ q.op # "idle"
  BY <1>2, AloneFacts
<1>4. /\ q.pc \in Nat
      /\ \/ q.op \in {"login", "request_reset", "request_verification"} /\ q.pc = 1
         \/ q.op \in {"confirm_reset", "confirm_verification"} /\ q.pc = 2
         \/ q.op \in {"confirm_change", "request_change", "keep", "delete"} /\ q.pc = 3
  BY <1>2, <1>3, Where
<1>5. AloneRows'
  BY <1>1, <1>3, SameRows
<1>6. y \in Request
  BY <1>3, Zenon DEF Request, RowsOK
<1>7. y.op = q.op /\ y.pc = q.pc /\ y.token = q.token /\ y.user = user /\ y.email = q.email
  BY <1>3 DEF Request
<1> HIDE DEF y
<1>8. /\ After(y).op = q.op /\ After(y).pc = q.pc + 1 /\ After(y).token = q.token
      /\ After(y).user = user /\ After(y).email = q.email
  BY <1>6, <1>7, AfterFields
<1>9. ASSUME rq'[r] = After(y) PROVE AloneFits(r)'
  <2>1. AloneUser(r)'
    BY <1>1, <1>3, <1>4, <1>8, <1>9 DEF AloneUser, Holds
  <2>2. AloneRequest(r)'
    BY <1>1, <1>3, <1>4, <1>8, <1>9 DEF AloneRequest
  <2>3. AloneConfirm(r)'
    BY <1>1, <1>3, <1>4, <1>8, <1>9 DEF AloneConfirm
  <2>4. AloneDelete(r)'
    BY <1>1, <1>3, <1>4, <1>8, <1>9 DEF AloneDelete
  <2> QED
    BY <2>1, <2>2, <2>3, <2>4 DEF AloneFits
<1> QED
  BY <1>1, <1>3, <1>5, <1>9, AloneMoves

\* A session that is live belongs to an account that exists.
LEMMA AloneReadSession ==
  ASSUME AccountInv, AloneInv, NEW r \in Requests, ~ overlapped, ReadSession(r)
  PROVE  AloneInv'
<1> DEFINE q == rq[r]
<1>1. /\ At(r, "session") /\ overlapped' = overlapped /\ session[q.session] = "live"
      /\ UNCHANGED <<user, session, token, owned, registered, notices>>
      /\ \/ rq' = [rq EXCEPT ![r].op = "expire", ![r].pc = 1]
         \/ Proceed(r)
  BY DEF ReadSession, rows, SessionValid
<1>2. /\ AloneRows /\ AloneUser(r) /\ AloneRequest(r) /\ AloneConfirm(r) /\ AloneDelete(r)
      /\ q.op \in Operations /\ q.pc \in 1..Len(Calls[q.op]) /\ Calls[q.op][q.pc] = "session"
      /\ q \in Request /\ RowsOK /\ q.op # "idle"
  BY <1>1, AloneFacts
<1>3. q.op \in {"validate", "logout", "keep", "request_change", "delete"} /\ q.pc = 1
  BY <1>2, Where
<1>4. AloneRows'
  BY <1>1, <1>2, SameRows
<1>5. CASE rq' = [rq EXCEPT ![r].op = "expire", ![r].pc = 1]
  <2> DEFINE x == [q EXCEPT !.op = "expire", !.pc = 1]
  <2>1. rq' = [rq EXCEPT ![r] = x] /\ x.op = "expire"
    BY <1>2, <1>5 DEF Request, AccountInv
  <2> HIDE DEF x
  <2>2. ASSUME rq'[r] = x PROVE AloneFits(r)'
    BY <2>1, <2>2 DEF AloneFits, AloneUser, AloneRequest, AloneConfirm, AloneDelete, Holds
  <2> QED
    BY <1>1, <1>2, <1>4, <2>1, <2>2, OnlyMoves
<1>6. CASE Proceed(r)
  <2>1. user.present
    <3>1. q.session \in Sessions
      BY <1>2, <1>3 DEF AloneUser
    <3> QED
      BY <1>1, <1>2, <3>1 DEF AloneRows, NothingLeft
  <2>2. ASSUME rq'[r].op = q.op /\ rq'[r].pc = q.pc + 1, rq'[r].session = q.session
        PROVE  AloneFits(r)'
    BY <1>1, <1>3, <2>1, <2>2
       DEF AloneFits, AloneUser, AloneRequest, AloneConfirm, AloneDelete, Holds
  <2> QED
    BY <1>1, <1>4, <1>6, <2>2, AloneProceeds
<1> QED
  BY <1>1, <1>5, <1>6

LEMMA AloneReadToken ==
  ASSUME AccountInv, AloneInv, NEW r \in Requests, ~ overlapped, ReadToken(r)
  PROVE  AloneInv'
<1> DEFINE q == rq[r]
           e == token[q.token].email
           y == [q EXCEPT !.email = e]
<1>1. /\ At(r, "token") /\ overlapped' = overlapped /\ token[q.token].state = "issued"
      /\ UNCHANGED <<user, session, token, owned, registered, notices>>
      /\ Advance(r, y)
  BY DEF ReadToken, rows, TokenValid
<1>2. /\ AloneRows /\ AloneUser(r) /\ AloneRequest(r) /\ AloneConfirm(r) /\ AloneDelete(r)
      /\ q.op \in Operations /\ q.pc \in 1..Len(Calls[q.op]) /\ Calls[q.op][q.pc] = "token"
      /\ q \in Request /\ RowsOK /\ q.op # "idle"
      /\ q.op \in Confirmations => q.token \in Tokens
  BY <1>1, AloneFacts
<1>3. q.op \in Confirmations /\ q.pc = 1
  BY <1>2, Places
<1>4. AloneRows'
  BY <1>1, <1>2, SameRows
<1>5. e \in Emails
  BY <1>2, <1>3 DEF RowsOK, TokenRow
<1>6. y \in Request
  BY <1>2, <1>5, Zenon DEF Request
<1>7. y.op = q.op /\ y.pc = q.pc /\ y.token = q.token /\ y.email = e
  BY <1>2 DEF Request
<1> HIDE DEF y
<1>8. /\ After(y).op = q.op /\ After(y).pc = q.pc + 1 /\ After(y).token = q.token
      /\ After(y).email = e
  BY <1>6, <1>7, AfterFields
<1>9. ASSUME rq'[r] = After(y) PROVE AloneFits(r)'
  BY <1>1, <1>3, <1>8, <1>9
     DEF AloneFits, AloneUser, AloneRequest, AloneConfirm, AloneDelete, Holds, Confirmations
<1> QED
  BY <1>1, <1>2, <1>4, <1>9, AloneMoves

LEMMA AloneListChanges ==
  ASSUME AccountInv, AloneInv, NEW r \in Requests, ~ overlapped, ListChanges(r)
  PROVE  AloneInv'
<1> DEFINE q == rq[r]
           y == [q EXCEPT !.todo = Unconsumed]
<1>1. /\ At(r, "list") /\ overlapped' = overlapped
      /\ UNCHANGED <<user, session, token, owned, registered, notices>>
      /\ Advance(r, y)
  BY DEF ListChanges, rows
<1>2. /\ AloneRows /\ AloneUser(r) /\ AloneRequest(r) /\ AloneConfirm(r) /\ AloneDelete(r)
      /\ q.op \in Operations /\ q.pc \in 1..Len(Calls[q.op]) /\ Calls[q.op][q.pc] = "list"
      /\ q \in Request /\ RowsOK /\ q.op # "idle"
  BY <1>1, AloneFacts
<1>3. \/ q.op = "request_change" /\ q.pc = 5
      \/ q.op = "confirm_change" /\ q.pc = 9
  BY <1>2, Where
<1>4. AloneRows' /\ Unconsumed \in SUBSET Changes
  BY <1>1, <1>2, SameRows DEF Unconsumed
<1>5. y \in Request
  BY <1>2, <1>4, Zenon DEF Request
<1>6. /\ y.op = q.op /\ y.pc = q.pc /\ y.token = q.token /\ y.email = q.email
      /\ y.todo = Unconsumed
  BY <1>2 DEF Request
<1> HIDE DEF y
<1>7. /\ After(y).op = q.op /\ After(y).pc = q.pc + 1 /\ After(y).token = q.token
      /\ After(y).email = q.email /\ After(y).todo = Unconsumed
  BY <1>5, <1>6 DEF After, Request
<1>8. ASSUME rq'[r] = After(y) PROVE AloneFits(r)'
  <2>1. Unconsumed' = Unconsumed
    BY <1>1 DEF Unconsumed
  <2> QED
    BY <1>1, <1>2, <1>3, <1>7, <1>8, <2>1
       DEF AloneFits, AloneUser, AloneRequest, AloneConfirm, AloneDelete, Holds
<1> QED
  BY <1>1, <1>2, <1>4, <1>8, AloneMoves

\* A request that arrives when no other is in progress.
LEMMA AloneArrives ==
  ASSUME AccountInv, AloneInv, NEW r \in Requests, NEW op \in Ops, Arrive(r, op)
  PROVE  AloneInv'
<1>1. overlapped' \in BOOLEAN
  BY DEF Arrive, AloneInv
<1>2. SUFFICES ASSUME ~ overlapped'
               PROVE  OneAtATime' /\ AloneRows' /\ \A s \in Requests : AloneFits(s)'
  BY <1>1 DEF AloneInv
<1>3. /\ ~ overlapped /\ \A s \in Requests : rq[s].op = "idle"
      /\ UNCHANGED <<user, session, token, owned, registered, notices>>
      /\ op = "register" => ~ registered
  BY <1>2 DEF Arrive, rows
<1>4. PICK s \in IF Calls[op][1] = "session" THEN Sessions ELSE {"none"},
           k \in IF op \in Confirmations THEN Repository(op) ELSE {"none"},
           e \in IF op = "request_change" THEN Emails ELSE {First} :
             /\ s \in Sessions => session[s] # "none"
             /\ k \in Tokens => token[k].state # "none"
             /\ rq' = [rq EXCEPT ![r] = [idle_request EXCEPT
                         !.op = op, !.pc = 1, !.session = s, !.token = k, !.email = e]]
  BY DEF Arrive
<1>5. rq \in [Requests -> Request] /\ idle_request \in Request
  BY IdleOK DEF AccountInv, RequestOK
<1>6. /\ rq'[r].op = op /\ rq'[r].pc = 1 /\ rq'[r].session = s
      /\ \A x \in Requests : x # r => rq'[x].op = "idle"
  BY <1>3, <1>4, <1>5 DEF Request
<1>7. AloneRows'
  BY <1>3, SameRows DEF AloneInv
<1>8. OneAtATime'
  BY <1>6 DEF OneAtATime
<1>9. op \in {"validate", "logout", "keep", "request_change", "delete"} => s \in Sessions
  BY <1>4 DEF Calls, validate_calls, logout_calls, request_change_calls, keep_calls,
                delete_calls
<1>10. ASSUME NEW x \in Requests PROVE AloneFits(x)'
  BY <1>3, <1>6, <1>9 DEF AloneFits, AloneUser, AloneRequest, AloneConfirm, AloneDelete, Holds
<1> QED
  BY <1>7, <1>8, <1>10

LEMMA AloneWorld ==
  ASSUME AccountInv, AloneInv,
         \/ \E e \in Emails : TakeEmail(e)
         \/ \E x \in Expiring : TimeOut(x)
         \/ UNCHANGED vars
  PROVE  AloneInv'
<1>1. /\ user' = user /\ session' = session /\ token' = token /\ owned' = owned /\ rq' = rq
      /\ registered' = registered /\ notices' = notices /\ overlapped' = overlapped
  BY DEF TakeEmail, TimeOut, vars, rows, history
<1>2. AloneRows => AloneRows'
  BY <1>1, SameRows
<1>3. ASSUME NEW r \in Requests, AloneFits(r) PROVE AloneFits(r)'
  BY <1>1, <1>3 DEF AloneFits, AloneUser, AloneRequest, AloneConfirm, AloneDelete, Holds,
                    Unconsumed, Stored
<1> QED
  BY <1>1, <1>2, <1>3 DEF AloneInv, OneAtATime

\* Sessions and owned records of an account that exists change freely.
LEMMA SameTokens ==
  ASSUME AloneRows, UNCHANGED <<user, token, registered, notices>>,
         user.present \/ NothingLeft'
  PROVE  AloneRows'
  BY DEF AloneRows, Unconsumed

LEMMA AloneOwned ==
  ASSUME AccountInv, AloneInv, NEW r \in Requests, ~ overlapped,
         \/ WriteOwned(r, "profile") \/ WriteOwned(r, "consents") \/ KeepRecord(r)
         \/ DropOwned(r, "drop_profile", "profile") \/ DropOwned(r, "drop_saved", "saved")
         \/ DropOwned(r, "drop_consents", "consents")
         \/ DropOwned(r, "drop_preferences", "preferences")
  PROVE  AloneInv'
<1> DEFINE q == rq[r]
           Drops == {"drop_profile", "drop_saved", "drop_consents", "drop_preferences"}
<1>1. /\ Proceed(r) /\ overlapped' = overlapped
      /\ UNCHANGED <<user, session, token, registered, notices>>
  BY DEF WriteOwned, KeepRecord, DropOwned
<1>2. PICK call \in {"profile", "consents", "keep"} \cup Drops :
        /\ At(r, call)
        /\ call = "drop_profile" => "profile" \notin owned'
        /\ call = "drop_saved" => "saved" \notin owned'
        /\ call = "drop_consents" => "consents" \notin owned'
        /\ call = "drop_preferences" => "preferences" \notin owned'
        /\ call \in Drops => owned' \subseteq owned
  BY DEF WriteOwned, KeepRecord, DropOwned
<1>3. /\ AloneRows /\ AloneUser(r) /\ AloneDelete(r)
      /\ q.op \in Operations /\ q.pc \in 1..Len(Calls[q.op]) /\ Calls[q.op][q.pc] = call
  BY <1>2, AloneFacts
<1>4. \/ q.op = "register" /\ q.pc \in {3, 4}
      \/ q.op = "keep" /\ q.pc = 4
      \/ q.op = "delete" /\ q.pc = 7 /\ call = "drop_profile"
      \/ q.op = "delete" /\ q.pc = 8 /\ call = "drop_saved"
      \/ q.op = "delete" /\ q.pc = 12 /\ call = "drop_consents"
      \/ q.op = "delete" /\ q.pc = 15 /\ call = "drop_preferences"
  BY <1>2, <1>3, Where
<1>5. user.present
  BY <1>3, <1>4 DEF AloneUser, Holds
<1>6. AloneRows'
  BY <1>1, <1>3, <1>5, SameTokens
<1>7. ASSUME rq'[r].op = q.op /\ rq'[r].pc = q.pc + 1 PROVE AloneFits(r)'
  <2>1. AloneUser(r)' /\ AloneRequest(r)' /\ AloneConfirm(r)'
    BY <1>1, <1>4, <1>5, <1>7 DEF AloneUser, AloneRequest, AloneConfirm, Holds
  <2>2. AloneDelete(r)'
    BY <1>1, <1>2, <1>3, <1>4, <1>7 DEF AloneDelete, Stored
  <2> QED
    BY <2>1, <2>2 DEF AloneFits
<1> QED
  BY <1>1, <1>2, <1>6, <1>7, AloneProceeds

\* The watchlists that are left are the ones the deletion has listed.
LEMMA AloneListWatchlists ==
  ASSUME AccountInv, AloneInv, NEW r \in Requests, ~ overlapped, ListWatchlists(r)
  PROVE  AloneInv'
<1> DEFINE q == rq[r]
           w == owned \cap Watchlists
           y == [q EXCEPT !.lists = w]
<1>1. /\ At(r, "list_watchlists") /\ overlapped' = overlapped
      /\ UNCHANGED <<user, session, token, owned, registered, notices>>
      /\ Advance(r, y)
  BY DEF ListWatchlists, rows
<1>2. /\ AloneRows /\ AloneUser(r) /\ AloneDelete(r)
      /\ q.op \in Operations /\ q.pc \in 1..Len(Calls[q.op])
      /\ Calls[q.op][q.pc] = "list_watchlists"
      /\ q \in Request /\ q.op # "idle"
  BY <1>1, AloneFacts
<1>3. q.op = "delete" /\ q.pc = 13
  BY <1>2, Where
<1>4. AloneRows' /\ w \in SUBSET Watchlists
  BY <1>1, <1>2, SameRows
<1> HIDE DEF w
<1>5. y \in Request
  BY <1>2, <1>4, Zenon DEF Request
<1>6. y.op = "delete" /\ y.pc = 13 /\ y.lists = w
  BY <1>2, <1>3 DEF Request
<1> HIDE DEF y
<1>7. /\ After(y).op = "delete" /\ After(y).pc = 14 /\ After(y).lists = w
  BY <1>5, <1>6 DEF After, Request
<1>8. ASSUME rq'[r] = After(y) PROVE AloneFits(r)'
  <2>1. AloneUser(r)' /\ AloneRequest(r)' /\ AloneConfirm(r)'
    BY <1>1, <1>2, <1>3, <1>7, <1>8 DEF AloneUser, AloneRequest, AloneConfirm, Holds
  <2>2. AloneDelete(r)'
    BY <1>1, <1>2, <1>3, <1>7, <1>8 DEF AloneDelete, Stored, w
  <2> QED
    BY <2>1, <2>2 DEF AloneFits
<1> QED
  BY <1>1, <1>2, <1>4, <1>8, AloneMoves

LEMMA AloneDropWatchlist ==
  ASSUME AccountInv, AloneInv, NEW r \in Requests, ~ overlapped, DropWatchlist(r)
  PROVE  AloneInv'
<1> DEFINE q == rq[r]
<1>1. /\ At(r, "drop_watchlists") /\ overlapped' = overlapped
      /\ UNCHANGED <<user, session, token, registered, notices>>
  BY DEF DropWatchlist
<1>2. PICK k \in q.lists : /\ owned' = owned \ {k}
                            /\ rq' = [rq EXCEPT ![r].lists = @ \ {k}]
  BY DEF DropWatchlist
<1>3. /\ AloneRows /\ AloneUser(r) /\ AloneDelete(r)
      /\ q.op \in Operations /\ q.pc \in 1..Len(Calls[q.op])
      /\ Calls[q.op][q.pc] = "drop_watchlists" /\ q \in Request /\ q.op # "idle"
  BY <1>1, AloneFacts
<1>4. q.op = "delete" /\ q.pc = 14
  BY <1>3, Where
<1> DEFINE t == q.lists \ {k}
           x == [q EXCEPT !.lists = t]
<1>5. rq' = [rq EXCEPT ![r] = x]
  BY <1>2 DEF AccountInv
<1>6. x.op = "delete" /\ x.pc = 14 /\ x.lists = t
  BY <1>3, <1>4 DEF Request
<1> HIDE DEF x
<1>7. user.present
  BY <1>3, <1>4 DEF AloneUser, Holds
<1>8. AloneRows'
  BY <1>1, <1>3, <1>7, SameTokens
<1>9. ASSUME rq'[r] = x PROVE AloneFits(r)'
  <2>1. AloneUser(r)' /\ AloneRequest(r)' /\ AloneConfirm(r)'
    BY <1>1, <1>6, <1>7, <1>9 DEF AloneUser, AloneRequest, AloneConfirm, Holds
  <2>2. AloneDelete(r)'
    BY <1>1, <1>2, <1>3, <1>4, <1>6, <1>9 DEF AloneDelete, Stored
  <2> QED
    BY <2>1, <2>2 DEF AloneFits
<1> QED
  BY <1>1, <1>3, <1>5, <1>8, <1>9, OnlyMoves

LEMMA AloneIssue ==
  ASSUME AccountInv, AloneInv, NEW r \in Requests, ~ overlapped, IssueSession(r)
  PROVE  AloneInv'
<1> DEFINE q == rq[r]
<1>1. /\ Proceed(r) /\ overlapped' = overlapped /\ At(r, "issue")
      /\ UNCHANGED <<user, token, owned, registered, notices>>
  BY DEF IssueSession
<1>2. /\ AloneRows /\ AloneUser(r)
      /\ q.op \in Operations /\ q.pc \in 1..Len(Calls[q.op]) /\ Calls[q.op][q.pc] = "issue"
  BY <1>1, AloneFacts
<1>3. \/ q.op = "register" /\ q.pc = 6
      \/ q.op = "login" /\ q.pc = 2
  BY <1>2, Where
<1>4. user.present
  BY <1>2, <1>3 DEF AloneUser, Holds
<1>5. AloneRows'
  BY <1>1, <1>2, <1>4, SameTokens
<1>6. ASSUME rq'[r].op = q.op /\ rq'[r].pc = q.pc + 1 PROVE AloneFits(r)'
  BY <1>1, <1>3, <1>4, <1>6
     DEF AloneFits, AloneUser, AloneRequest, AloneConfirm, AloneDelete, Holds
<1> QED
  BY <1>1, <1>5, <1>6, AloneProceeds

\* The session is saved as it is.
LEMMA AloneRefresh ==
  ASSUME AccountInv, AloneInv, NEW r \in Requests, ~ overlapped, RefreshSession(r)
  PROVE  AloneInv' /\ session' = session
<1> DEFINE q == rq[r]
<1>1. /\ Proceed(r) /\ overlapped' = overlapped /\ At(r, "refresh")
      /\ UNCHANGED <<user, token, owned, registered, notices>>
      /\ session' = [session EXCEPT ![q.session] = "live"]
  BY DEF RefreshSession
<1>2. /\ AloneRows /\ AloneUser(r) /\ RowsOK
      /\ q.op \in Operations /\ q.pc \in 1..Len(Calls[q.op]) /\ Calls[q.op][q.pc] = "refresh"
  BY <1>1, AloneFacts
<1>3. q.op \in {"validate", "logout", "keep", "request_change", "delete"} /\ q.pc = 2
  BY <1>2, Where
<1>4. user.present /\ session[q.session] = "live"
  BY <1>2, <1>3 DEF AloneUser, Holds
<1>5. AloneRows'
  BY <1>1, <1>2, <1>4, SameTokens
<1>6. ASSUME rq'[r].op = q.op /\ rq'[r].pc = q.pc + 1 PROVE AloneFits(r)'
  BY <1>1, <1>3, <1>4, <1>6
     DEF AloneFits, AloneUser, AloneRequest, AloneConfirm, AloneDelete, Holds
<1>7. session' = session
  BY <1>1, <1>2, <1>4 DEF RowsOK
<1> QED
  BY <1>1, <1>5, <1>6, <1>7, AloneProceeds

LEMMA AloneRevokeOne ==
  ASSUME AccountInv, AloneInv, NEW r \in Requests, ~ overlapped, RevokeOne(r)
  PROVE  AloneInv'
<1> DEFINE q == rq[r]
<1>1. /\ Proceed(r) /\ overlapped' = overlapped /\ At(r, "revoke_one")
      /\ UNCHANGED <<user, token, owned, registered, notices>>
      /\ session' = [session EXCEPT ![q.session] =
                       IF session[q.session] = "live" THEN "revoked" ELSE session[q.session]]
  BY DEF RevokeOne
<1>2. /\ AloneRows /\ AloneUser(r) /\ RowsOK
      /\ q.op \in Operations /\ q.pc \in 1..Len(Calls[q.op])
      /\ Calls[q.op][q.pc] = "revoke_one"
  BY <1>1, AloneFacts
<1>3. q.op \in {"logout", "expire"} /\ (q.op = "logout" => q.pc = 3)
  BY <1>2, Where
<1>4. \A s \in Sessions : session[s] # "live" => session'[s] = session[s]
  BY <1>1, <1>2 DEF RowsOK
<1>5. ASSUME NothingLeft PROVE NothingLeft'
  <2>1. \A s \in Sessions : session'[s] = session[s]
    BY <1>4, <1>5 DEF NothingLeft
  <2> QED
    BY <1>1, <1>5, <2>1 DEF NothingLeft, Stored
<1>6. AloneRows'
  BY <1>1, <1>2, <1>5, SameTokens DEF AloneRows
<1>7. ASSUME rq'[r].op = q.op /\ rq'[r].pc = q.pc + 1 PROVE AloneFits(r)'
  BY <1>1, <1>2, <1>3, <1>7
     DEF AloneFits, AloneUser, AloneRequest, AloneConfirm, AloneDelete, Holds
<1> QED
  BY <1>1, <1>6, <1>7, AloneProceeds

LEMMA AloneRevokeAll ==
  ASSUME AccountInv, AloneInv, NEW r \in Requests, ~ overlapped, RevokeAll(r)
  PROVE  AloneInv'
<1> DEFINE q == rq[r]
<1>1. /\ Proceed(r) /\ overlapped' = overlapped /\ At(r, "revoke")
      /\ UNCHANGED <<user, token, owned, registered, notices>>
      /\ \A s \in Sessions : session'[s] # "live"
  BY DEF RevokeAll, revoke_all_for_user
<1>2. /\ AloneRows /\ AloneUser(r) /\ AloneConfirm(r)
      /\ q.op \in Operations /\ q.pc \in 1..Len(Calls[q.op]) /\ Calls[q.op][q.pc] = "revoke"
  BY <1>1, AloneFacts
<1>3. q.op \in {"confirm_reset", "confirm_change", "delete"} /\ q.pc = 5
  BY <1>2, Where
<1>4. user.present
  BY <1>2, <1>3 DEF AloneUser, Holds
<1>5. AloneRows'
  BY <1>1, <1>2, <1>4, SameTokens
<1>6. ASSUME rq'[r].op = q.op /\ rq'[r].pc = q.pc + 1 /\ rq'[r].token = q.token,
             rq'[r].user = q.user /\ rq'[r].email = q.email
      PROVE  AloneFits(r)'
  <2>1. AloneUser(r)' /\ AloneRequest(r)' /\ AloneDelete(r)'
    BY <1>1, <1>3, <1>4, <1>6 DEF AloneUser, AloneRequest, AloneDelete, Holds
  <2>2. AloneConfirm(r)'
    BY <1>1, <1>2, <1>3, <1>6 DEF AloneConfirm
  <2> QED
    BY <2>1, <2>2 DEF AloneFits
<1> QED
  BY <1>1, <1>5, <1>6, AloneProceeds

LEMMA AloneDropSessions ==
  ASSUME AccountInv, AloneInv, NEW r \in Requests, ~ overlapped, DropSessions(r)
  PROVE  AloneInv'
<1> DEFINE q == rq[r]
<1>1. /\ Proceed(r) /\ overlapped' = overlapped /\ At(r, "drop_sessions")
      /\ UNCHANGED <<user, token, owned, registered, notices>>
      /\ \A s \in Sessions : session'[s] \in {"none", "gone"}
  BY DEF DropSessions
<1>2. /\ AloneRows /\ AloneUser(r) /\ q.op \in Operations /\ q.pc \in 1..Len(Calls[q.op])
      /\ Calls[q.op][q.pc] = "drop_sessions"
  BY <1>1, AloneFacts
<1>3. q.op = "delete" /\ q.pc = 6
  BY <1>2, Where
<1>4. user.present
  BY <1>2, <1>3 DEF AloneUser, Holds
<1>5. AloneRows'
  BY <1>1, <1>2, <1>4, SameTokens
<1>6. ASSUME rq'[r].op = q.op /\ rq'[r].pc = q.pc + 1 PROVE AloneFits(r)'
  BY <1>1, <1>3, <1>4, <1>6
     DEF AloneFits, AloneUser, AloneRequest, AloneConfirm, AloneDelete, Holds
<1> QED
  BY <1>1, <1>5, <1>6, AloneProceeds

\* Tokens that are marked or dropped leave the rest as it was.
LEMMA MarkedRows ==
  ASSUME AloneRows, UNCHANGED <<user, session, owned, registered, notices>>,
         \A k \in Tokens :
           /\ token'[k].state = "issued" => token[k].state = "issued"
           /\ token'[k].state = "none" => token[k].state = "none"
           /\ token'[k].state \in {"issued", "consumed"} =>
                token[k].state \in {"issued", "consumed"}
           /\ token'[k].email = token[k].email
  PROVE  AloneRows' /\ Unconsumed' \subseteq Unconsumed
<1>1. Unconsumed' \subseteq Unconsumed
  BY DEF Unconsumed, Tokens
<1>2. NothingLeft => NothingLeft'
  BY DEF NothingLeft, Stored
<1>3. AloneRows'
  BY <1>1, <1>2 DEF AloneRows
<1> QED
  BY <1>1, <1>3

LEMMA MarkedFields ==
  ASSUME RowsOK, NEW k \in Tokens, token' = Consumed(k)
  PROVE  /\ token'[k].state # "issued"
         /\ \A i \in Tokens :
              /\ token'[i].state = "issued" => token[i].state = "issued"
              /\ token'[i].state = "none" => token[i].state = "none"
              /\ token'[i].state \in {"issued", "consumed"} =>
                   token[i].state \in {"issued", "consumed"}
              /\ token'[i].email = token[i].email
<1>1. token \in [Tokens -> TokenRow]
  BY DEF RowsOK
<1>2. CASE Stored(k)
  <2> DEFINE x == [token[k] EXCEPT !.state = "consumed"]
  <2>1. x.state = "consumed" /\ x.email = token[k].email
    BY <1>1 DEF TokenRow
  <2>2. token' = [token EXCEPT ![k] = x]
    BY <1>1, <1>2 DEF Consumed
  <2> HIDE DEF x
  <2> QED
    BY <1>1, <1>2, <2>1, <2>2 DEF Stored
<1>3. CASE ~ Stored(k)
  BY <1>1, <1>3 DEF Consumed, Stored
<1> QED
  BY <1>2, <1>3

LEMMA AloneConsume ==
  ASSUME AccountInv, AloneInv, NEW r \in Requests, ~ overlapped, ConsumeToken(r)
  PROVE  AloneInv'
<1> DEFINE q == rq[r]
<1>1. /\ Proceed(r) /\ overlapped' = overlapped /\ At(r, "consume")
      /\ UNCHANGED <<user, session, owned, registered, notices>>
      /\ token' = Consumed(q.token)
  BY DEF ConsumeToken
<1>2. /\ AloneRows /\ AloneUser(r) /\ AloneConfirm(r) /\ RowsOK
      /\ q.op \in Operations /\ q.pc \in 1..Len(Calls[q.op]) /\ Calls[q.op][q.pc] = "consume"
      /\ q.op \in Confirmations => q.token \in Tokens
  BY <1>1, AloneFacts
<1>3. \/ q.op \in {"confirm_reset", "confirm_verification"} /\ q.pc = 4
      \/ q.op = "confirm_change" /\ q.pc = 8
  BY <1>2, Places
<1>4. q.token \in Tokens
  BY <1>2, <1>3 DEF Confirmations
<1>5. \A i \in Tokens :
        /\ token'[i].state = "issued" => token[i].state = "issued"
        /\ token'[i].state = "none" => token[i].state = "none"
        /\ token'[i].state \in {"issued", "consumed"} =>
             token[i].state \in {"issued", "consumed"}
        /\ token'[i].email = token[i].email
  BY <1>1, <1>2, <1>4, MarkedFields
<1>6. AloneRows'
  BY <1>1, <1>2, <1>5, MarkedRows
<1>7. ASSUME rq'[r].op = q.op /\ rq'[r].pc = q.pc + 1 /\ rq'[r].token = q.token,
             rq'[r].email = q.email
      PROVE  AloneFits(r)'
  <2>1. AloneUser(r)' /\ AloneRequest(r)' /\ AloneDelete(r)'
    BY <1>1, <1>2, <1>3, <1>7 DEF AloneUser, AloneRequest, AloneDelete, Holds
  <2>2. AloneConfirm(r)'
    BY <1>2, <1>3, <1>4, <1>5, <1>7 DEF AloneConfirm
  <2> QED
    BY <2>1, <2>2 DEF AloneFits
<1> QED
  BY <1>1, <1>6, <1>7, AloneProceeds

LEMMA AloneInvalidate ==
  ASSUME AccountInv, AloneInv, NEW r \in Requests, ~ overlapped, InvalidateOne(r)
  PROVE  AloneInv'
<1> DEFINE q == rq[r]
<1>1. /\ At(r, "invalidate") /\ overlapped' = overlapped
      /\ UNCHANGED <<user, session, owned, registered, notices>>
  BY DEF InvalidateOne
<1>2. PICK k \in rq[r].todo : /\ token' = Consumed(k)
                              /\ revoked_by_newer' = revoked_by_newer \cup {k}
                              /\ rq' = [rq EXCEPT ![r].todo = @ \ {k}]
  BY DEF InvalidateOne
<1>3. /\ AloneRows /\ AloneUser(r) /\ AloneRequest(r) /\ AloneConfirm(r) /\ RowsOK
      /\ q.op \in Operations /\ q.pc \in 1..Len(Calls[q.op])
      /\ Calls[q.op][q.pc] = "invalidate" /\ q \in Request /\ q.op # "idle"
      /\ q.op = "confirm_change" => q.token \in Changes
  BY <1>1, AloneFacts
<1>4. \/ q.op = "request_change" /\ q.pc = 6
      \/ q.op = "confirm_change" /\ q.pc = 10
  BY <1>3, Where
<1> DEFINE t == q.todo \ {k}
           x == [q EXCEPT !.todo = t]
<1>5. rq' = [rq EXCEPT ![r] = x]
  BY <1>2 DEF AccountInv
<1>6. /\ x.op = q.op /\ x.pc = q.pc /\ x.token = q.token /\ x.email = q.email
      /\ x.user = q.user /\ x.todo = q.todo \ {k}
  BY <1>3 DEF Request
<1> HIDE DEF x
<1>7. k \in Tokens
  BY <1>2, <1>3 DEF Request, Tokens
<1>8. /\ token'[k].state # "issued"
      /\ \A i \in Tokens :
           /\ token'[i].state = "issued" => token[i].state = "issued"
           /\ token'[i].state = "none" => token[i].state = "none"
           /\ token'[i].state \in {"issued", "consumed"} =>
                token[i].state \in {"issued", "consumed"}
           /\ token'[i].email = token[i].email
  BY <1>2, <1>3, <1>7, MarkedFields
<1>9. AloneRows' /\ Unconsumed' \subseteq Unconsumed
  BY <1>1, <1>3, <1>8, MarkedRows
<1>10. k \notin Unconsumed'
  BY <1>8 DEF Unconsumed
<1>11. ASSUME rq'[r] = x PROVE AloneFits(r)'
  <2>1. AloneUser(r)' /\ AloneDelete(r)'
    BY <1>1, <1>3, <1>4, <1>6, <1>11 DEF AloneUser, AloneDelete, Holds
  <2>2. AloneRequest(r)'
    BY <1>3, <1>4, <1>6, <1>9, <1>10, <1>11 DEF AloneRequest
  <2>3. AloneConfirm(r)'
    BY <1>3, <1>4, <1>6, <1>8, <1>11 DEF AloneConfirm, Tokens
  <2> QED
    BY <2>1, <2>2, <2>3 DEF AloneFits
<1> QED
  BY <1>1, <1>3, <1>5, <1>9, <1>11, OnlyMoves

LEMMA AloneDropTokens ==
  ASSUME AccountInv, AloneInv, NEW r \in Requests, ~ overlapped,
         \/ DropTokens(r, "drop_resets", Resets)
         \/ DropTokens(r, "drop_verifications", Verifications)
         \/ DropTokens(r, "drop_changes", Changes)
  PROVE  AloneInv'
<1> DEFINE q == rq[r]
<1>1. PICK call, S : /\ DropTokens(r, call, S)
                     /\ \/ call = "drop_resets" /\ S = Resets
                        \/ call = "drop_verifications" /\ S = Verifications
                        \/ call = "drop_changes" /\ S = Changes
  OBVIOUS
<1>2. /\ At(r, call) /\ Proceed(r) /\ overlapped' = overlapped
      /\ token' = [k \in Tokens |-> IF k \in S /\ Stored(k)
                                      THEN [token[k] EXCEPT !.state = "gone"] ELSE token[k]]
      /\ UNCHANGED <<user, session, owned, registered, notices>>
  BY <1>1 DEF DropTokens
<1>3. /\ AloneRows /\ AloneUser(r) /\ AloneDelete(r) /\ RowsOK
      /\ q.op \in Operations /\ q.pc \in 1..Len(Calls[q.op]) /\ Calls[q.op][q.pc] = call
  BY <1>1, <1>2, AloneFacts
<1>4. /\ q.op = "delete"
      /\ \/ q.pc = 9 /\ S = Resets
         \/ q.pc = 10 /\ S = Verifications
         \/ q.pc = 11 /\ S = Changes
  BY <1>1, <1>3, Where
<1>5. ASSUME NEW k \in Tokens
      PROVE  /\ token'[k].state = "issued" => token[k].state = "issued"
             /\ token'[k].state = "none" => token[k].state = "none"
             /\ token'[k].state \in {"issued", "consumed"} =>
                  token[k].state \in {"issued", "consumed"} /\ k \notin S
             /\ token'[k].email = token[k].email
  <2> DEFINE x == [token[k] EXCEPT !.state = "gone"]
  <2>1. x.state = "gone" /\ x.email = token[k].email
    BY <1>3 DEF TokenRow, RowsOK
  <2>2. token'[k] = IF k \in S /\ Stored(k) THEN x ELSE token[k]
    BY <1>2
  <2> HIDE DEF x
  <2> QED
    BY <2>1, <2>2 DEF Stored
<1>6. AloneRows'
  BY <1>2, <1>3, <1>5, MarkedRows
<1>7. ASSUME rq'[r].op = q.op /\ rq'[r].pc = q.pc + 1 PROVE AloneFits(r)'
  <2>1. AloneUser(r)' /\ AloneRequest(r)' /\ AloneConfirm(r)'
    BY <1>2, <1>3, <1>4, <1>7 DEF AloneUser, AloneRequest, AloneConfirm, Holds
  <2>2. AloneDelete(r)'
    BY <1>2, <1>3, <1>4, <1>5, <1>7 DEF AloneDelete, Stored, Tokens
  <2> QED
    BY <2>1, <2>2 DEF AloneFits
<1> QED
  BY <1>1, <1>2, <1>6, <1>7, AloneProceeds

\* The row goes last: everything else is gone.
LEMMA AloneDropUser ==
  ASSUME AccountInv, AloneInv, NEW r \in Requests, ~ overlapped, DropUser(r)
  PROVE  AloneInv'
<1> DEFINE q == rq[r]
<1>1. /\ At(r, "drop_user") /\ Proceed(r) /\ overlapped' = overlapped /\ user' = no_user
      /\ UNCHANGED <<session, token, owned, registered, notices>>
  BY DEF DropUser
<1>2. /\ AloneRows /\ AloneUser(r) /\ AloneDelete(r) /\ RowsOK /\ q.op # "idle"
      /\ q.op \in Operations /\ q.pc \in 1..Len(Calls[q.op])
      /\ Calls[q.op][q.pc] = "drop_user"
  BY <1>1, AloneFacts
<1>3. q.op = "delete" /\ q.pc = 16 /\ q.pc = Len(Calls[q.op])
  BY <1>2, Where
<1>4. rq' = [rq EXCEPT ![r] = idle_request]
  BY <1>1, <1>3 DEF Advance
<1>5. NothingLeft
  <2>1. owned = {}
    BY <1>2, <1>3 DEF AloneDelete, RowsOK, Kept
  <2>2. \A s \in Sessions : session[s] \in {"none", "gone"}
    BY <1>2, <1>3 DEF AloneDelete
  <2>3. \A k \in Tokens : ~ Stored(k)
    BY <1>2, <1>3 DEF AloneDelete, Tokens
  <2> QED
    BY <2>1, <2>2, <2>3 DEF NothingLeft
<1>6. NothingLeft' /\ ~ user'.present
  BY <1>1, <1>5 DEF NothingLeft, Stored, no_user
<1>7. AloneRows'
  <2>1. \A k \in Tokens : token[k].state # "issued"
    BY <1>5 DEF NothingLeft, Stored
  <2> QED
    BY <1>1, <1>2, <1>6, <2>1 DEF AloneRows, Unconsumed
<1> QED
  BY <1>1, <1>2, <1>4, <1>7, IdleOK, OnlyMoves

LEMMA AloneCreate ==
  ASSUME AccountInv, AloneInv, NEW r \in Requests, ~ overlapped, CreateUser(r)
  PROVE  AloneInv' /\ ~ user.present
<1> DEFINE u == [present |-> TRUE, email |-> First, verified |-> FALSE]
           q == rq[r]
           y == [q EXCEPT !.user = u]
<1>1. /\ At(r, "create") /\ user' = u /\ registered' = TRUE /\ Advance(r, y)
      /\ overlapped' = overlapped /\ UNCHANGED <<session, token, owned, notices>>
  BY DEF CreateUser
<1>2. /\ AloneRows /\ AloneUser(r) /\ q \in Request /\ q.op # "idle"
      /\ q.op \in Operations /\ q.pc \in 1..Len(Calls[q.op]) /\ Calls[q.op][q.pc] = "create"
  BY <1>1, AloneFacts
<1>3. q.op = "register" /\ q.pc = 2
  BY <1>2, Places
<1>4. ~ registered /\ ~ user.present
  BY <1>2, <1>3 DEF AloneUser, AloneRows
<1>5. u.present /\ u \in Row
  BY AccountAssumption DEF Row
<1> HIDE DEF u
<1>6. y \in Request
  BY <1>2, <1>5, Zenon DEF Request
<1>7. y.op = "register" /\ y.pc = 2
  BY <1>2, <1>3 DEF Request
<1> HIDE DEF y
<1>8. After(y).op = "register" /\ After(y).pc = 3
  BY <1>6, <1>7, AfterFields
<1>9. AloneRows'
  <2>1. \A k \in Tokens : token[k].state # "issued"
    BY <1>2, <1>4 DEF AloneRows, NothingLeft, Stored
  <2> QED
    BY <1>1, <1>2, <1>5, <2>1 DEF AloneRows, Unconsumed
<1>10. ASSUME rq'[r] = After(y) PROVE AloneFits(r)'
  BY <1>1, <1>5, <1>8, <1>10
     DEF AloneFits, AloneUser, AloneRequest, AloneConfirm, AloneDelete, Holds
<1> QED
  BY <1>1, <1>2, <1>4, <1>9, <1>10, AloneMoves

\* A new change link is made when the earlier ones are invalidated.
LEMMA AloneMint ==
  ASSUME AccountInv, AloneInv, NEW r \in Requests, ~ overlapped, MintToken(r)
  PROVE  AloneInv'
<1> DEFINE q == rq[r]
           n == Cardinality({x \in Changes : token[x].state # "none"})
           new == [state |-> "issued", email |-> q.email, sent |-> mailed_to(q), made |-> n]
<1>1. /\ At(r, "mint") /\ Proceed(r) /\ overlapped' = overlapped
      /\ UNCHANGED <<user, session, owned, registered, notices>>
  BY DEF MintToken
<1>2. PICK k \in Repository(q.op) : token[k].state = "none" /\ token' = [token EXCEPT ![k] = new]
  BY DEF MintToken
<1>3. /\ AloneRows /\ AloneUser(r) /\ AloneRequest(r) /\ RowsOK /\ q \in Request
      /\ q.op \in Operations /\ q.pc \in 1..Len(Calls[q.op]) /\ Calls[q.op][q.pc] = "mint"
  BY <1>1, AloneFacts
<1>4. \/ q.op = "register" /\ q.pc = 5
      \/ q.op \in {"request_reset", "request_verification"} /\ q.pc = 2
      \/ q.op = "request_change" /\ q.pc = 7
  BY <1>3, Where
<1>5. k \in Tokens /\ token \in [Tokens -> TokenRow] /\ new.state = "issued"
  BY <1>2, <1>3, RepositoryTokens DEF RowsOK
<1> HIDE DEF new
<1>6. token'[k].state = "issued" /\ \A i \in Tokens : i # k => token'[i] = token[i]
  BY <1>2, <1>5
<1>7. user.present
  BY <1>3, <1>4 DEF AloneUser, Holds
<1>8. \A i, x \in Unconsumed' : i = x
  <2>1. CASE q.op = "request_change"
    <3>1. Unconsumed = {}
      BY <1>3, <1>4, <2>1 DEF AloneRequest
    <3> QED
      BY <1>6, <3>1 DEF Unconsumed, Tokens
  <2>2. CASE q.op # "request_change"
    <3>1. k \notin Changes
      BY <1>2, <1>4, <2>2, RepositoryTokens, AccountAssumption
    <3>2. Unconsumed' = Unconsumed
      BY <1>6, <3>1 DEF Unconsumed, Tokens
    <3> QED
      BY <1>3, <3>2 DEF AloneRows
  <2> QED
    BY <2>1, <2>2
<1>9. notices[k] = 0
  BY <1>2, <1>3, <1>5 DEF AloneRows
<1>10. AloneRows'
  <2>1. ASSUME NEW i \in Tokens
        PROVE  /\ notices'[i] <= 1 /\ (notices'[i] # 0 => i \in Changes)
               /\ token'[i].state = "none" => notices'[i] = 0
               /\ token'[i].state = "issued" /\ notices'[i] # 0 =>
                    user'.verified /\ user'.email = token'[i].email
    <3>1. CASE i = k
      BY <1>1, <1>6, <1>9, <3>1
    <3>2. CASE i # k
      BY <1>1, <1>3, <1>6, <3>2 DEF AloneRows
    <3> QED
      BY <3>1, <3>2
  <2> QED
    BY <1>1, <1>3, <1>7, <1>8, <2>1 DEF AloneRows
<1>11. ASSUME rq'[r].op = q.op /\ rq'[r].pc = q.pc + 1 PROVE AloneFits(r)'
  BY <1>1, <1>4, <1>7, <1>11
     DEF AloneFits, AloneUser, AloneRequest, AloneConfirm, AloneDelete, Holds
<1> QED
  BY <1>1, <1>10, <1>11, AloneProceeds

LEMMA AloneNotice ==
  ASSUME AccountInv, AloneInv, NEW r \in Requests, ~ overlapped, SendNotice(r)
  PROVE  AloneInv'
<1> DEFINE q == rq[r]
           k == q.token
<1>1. /\ At(r, "notice") /\ Proceed(r) /\ overlapped' = overlapped
      /\ UNCHANGED <<user, session, token, owned, registered>>
      /\ notices' = [notices EXCEPT ![k] = Capped(notices[k])]
  BY DEF SendNotice, rows
<1>2. /\ AloneRows /\ AloneUser(r) /\ AloneConfirm(r) /\ RowsOK
      /\ q.op \in Operations /\ q.pc \in 1..Len(Calls[q.op]) /\ Calls[q.op][q.pc] = "notice"
      /\ q.op = "confirm_change" => k \in Changes
  BY <1>1, AloneFacts
<1>3. q.op = "confirm_change" /\ q.pc = 7
  BY <1>2, Where
<1>4. /\ k \in Tokens /\ k \in Changes /\ notices[k] = 0 /\ token[k].state = "issued"
      /\ user.email = q.email /\ user.verified /\ q.email = token[k].email /\ user.present
  BY <1>2, <1>3 DEF AloneConfirm, AloneUser, Holds, Tokens
<1>5. notices'[k] = 1 /\ \A i \in Tokens : i # k => notices'[i] = notices[i]
  BY <1>1, <1>2, <1>4 DEF RowsOK, Capped
<1>6. AloneRows'
  <2>1. ASSUME NEW i \in Tokens
        PROVE  /\ notices'[i] <= 1 /\ (notices'[i] # 0 => i \in Changes)
               /\ token'[i].state = "none" => notices'[i] = 0
               /\ token'[i].state = "issued" /\ notices'[i] # 0 =>
                    user'.verified /\ user'.email = token'[i].email
    <3>1. CASE i = k
      BY <1>1, <1>4, <1>5, <3>1
    <3>2. CASE i # k
      BY <1>1, <1>2, <1>5, <3>2 DEF AloneRows
    <3> QED
      BY <3>1, <3>2
  <2>2. Unconsumed' = Unconsumed
    BY <1>1 DEF Unconsumed
  <2> QED
    BY <1>1, <1>2, <1>4, <2>1, <2>2 DEF AloneRows
<1>7. ASSUME rq'[r].op = q.op /\ rq'[r].pc = q.pc + 1 /\ rq'[r].token = k,
             rq'[r].email = q.email
      PROVE  AloneFits(r)'
  BY <1>1, <1>3, <1>4, <1>7
     DEF AloneFits, AloneUser, AloneRequest, AloneConfirm, AloneDelete, Holds
<1> QED
  BY <1>1, <1>6, <1>7, AloneProceeds

\* The save writes the row as it is, but for what it confirms.  Of a token that
\* is applied already no notice follows.
LEMMA AloneSave ==
  ASSUME AccountInv, AloneInv, NEW r \in Requests, ~ overlapped, SaveUser(r)
  PROVE  /\ AloneInv'
         /\ user'.email # user.email => \A s \in Sessions : session[s] # "live"
<1> DEFINE q == rq[r]
           k == q.token
           y == [q EXCEPT !.pc = q.pc + 1]
<1>1. /\ At(r, "save") /\ overlapped' = overlapped
      /\ UNCHANGED <<session, token, owned, registered, notices>>
      /\ \/ already_applied(q) /\ Advance(r, y) /\ user' = user
         \/ ~ already_applied(q) /\ user' = UpdatedUser(q) /\ Advance(r, q)
  BY DEF SaveUser
<1>2. /\ AloneRows /\ AloneUser(r) /\ AloneConfirm(r) /\ RowsOK /\ q \in Request
      /\ q.op \in Operations /\ q.pc \in 1..Len(Calls[q.op]) /\ Calls[q.op][q.pc] = "save"
      /\ q.op # "idle"
      /\ q.op = "confirm_change" => k \in Changes
  BY <1>1, AloneFacts
<1>3. \/ q.op \in {"confirm_reset", "confirm_verification"} /\ q.pc = 3
      \/ q.op = "confirm_change" /\ q.pc = 6
  BY <1>2, Places
<1>4. q.user = user /\ user.present /\ q.op \in Confirmations
  BY <1>2, <1>3 DEF AloneUser, AloneConfirm, Holds, Confirmations
<1>5. q.op = "confirm_change" =>
        /\ k \in Changes /\ q.email = token[k].email /\ token[k].state = "issued"
        /\ \A s \in Sessions : session[s] # "live"
  BY <1>2, <1>3 DEF AloneConfirm
<1>6. CASE already_applied(q) /\ Advance(r, y) /\ user' = user
  <2>1. q.op = "confirm_change" /\ q.pc = 6 /\ user.email = q.email /\ user.verified
    BY <1>3, <1>4, <1>6 DEF already_applied
  <2>2. q.pc + 1 \in Nat /\ q.pc + 1 = 7
    BY <2>1
  <2>3. y \in Request
    BY <1>2, <2>2, Zenon DEF Request
  <2>4. y.op = q.op /\ y.pc = 7 /\ y.token = k /\ y.email = q.email
    BY <1>2, <2>2 DEF Request
  <2> HIDE DEF y
  <2>5. /\ After(y).op = "confirm_change" /\ After(y).pc = 8 /\ After(y).token = k
        /\ After(y).email = q.email
    BY <2>1, <2>3, <2>4, AfterFields
  <2>6. AloneRows'
    BY <1>1, <1>2, <1>6, SameRows
  <2>7. ASSUME rq'[r] = After(y) PROVE AloneFits(r)'
    BY <1>1, <1>4, <1>5, <1>6, <2>1, <2>5, <2>7
       DEF AloneFits, AloneUser, AloneRequest, AloneConfirm, AloneDelete, Holds
  <2> QED
    BY <1>1, <1>2, <1>6, <2>6, <2>7, AloneMoves
<1>7. CASE ~ already_applied(q) /\ user' = UpdatedUser(q) /\ Advance(r, q)
  <2>1. /\ user'.present
        /\ q.op = "confirm_change" => user'.verified /\ user'.email = q.email
        /\ q.op # "confirm_change" =>
             user'.email = user.email /\ (user.verified => user'.verified)
    <3>1. CASE q.op = "confirm_reset"
      BY <1>4, <1>7, <3>1 DEF UpdatedUser
    <3>2. CASE q.op # "confirm_reset"
      BY <1>2, <1>3, <1>4, <1>7, <3>2, UpdatedRow
    <3> QED
      BY <3>1, <3>2
  <2>2. q.op = "confirm_change" => notices[k] = 0
    <3> SUFFICES ASSUME q.op = "confirm_change", notices[k] # 0 PROVE FALSE
      OBVIOUS
    <3>1. user.verified /\ user.email = q.email
      BY <1>2, <1>5 DEF AloneRows, Tokens
    <3> QED
      BY <1>4, <1>7, <3>1 DEF already_applied
  <2>3. ASSUME NEW i \in Tokens, token[i].state = "issued", notices[i] # 0
        PROVE  user'.verified /\ user'.email = token[i].email
    <3>1. user.verified /\ user.email = token[i].email
      BY <1>2, <2>3 DEF AloneRows
    <3>2. q.op # "confirm_change"
      <4>1. i \in Unconsumed
        BY <1>2, <2>3 DEF AloneRows, Unconsumed
      <4>2. q.op = "confirm_change" => k \in Unconsumed
        BY <1>5 DEF Unconsumed
      <4>3. q.op = "confirm_change" => i = k
        BY <1>2, <4>1, <4>2 DEF AloneRows
      <4> QED
        BY <2>2, <2>3, <4>3
    <3> QED
      BY <2>1, <3>1, <3>2
  <2>4. AloneRows'
    BY <1>1, <1>2, <1>4, <2>1, <2>3 DEF AloneRows, Unconsumed
  <2>5. /\ After(q).op = q.op /\ After(q).pc = q.pc + 1 /\ After(q).token = k
        /\ After(q).email = q.email
    BY <1>2, AfterFields
  <2>6. ASSUME rq'[r] = After(q) PROVE AloneFits(r)'
    BY <1>1, <1>3, <1>5, <2>1, <2>2, <2>5, <2>6
       DEF AloneFits, AloneUser, AloneRequest, AloneConfirm, AloneDelete, Holds
  <2>7. user'.email # user.email => \A s \in Sessions : session[s] # "live"
    BY <1>5, <2>1
  <2> QED
    BY <1>1, <1>2, <1>7, <2>4, <2>6, <2>7, AloneMoves
<1> QED
  BY <1>1, <1>6, <1>7

LEMMA CallsDoNotArrive ==
  ASSUME NEW r \in Requests, Call(r) \/ Fail(r)
  PROVE  overlapped' = overlapped /\ rq[r].op # "idle"
<1>1. rq[r].op # "idle"
  <2>1. CASE Refuse(r)
    BY <2>1 DEF Refuse, Refused, CallOf
  <2>2. CASE Fail(r)
    BY <2>2 DEF Fail
  <2>3. ASSUME NEW call, call # "none", At(r, call) PROVE rq[r].op # "idle"
    BY <2>3 DEF CallOf
  <2> QED
    BY <2>1, <2>2, <2>3
       DEF Call, ReadFree, ReadUser, ReadExists, ReadOccupant, ReadSession, ReadToken,
           ReadNewest, ListChanges, CreateUser, WriteOwned, IssueSession, RefreshSession,
           RevokeOne, RevokeAll, MintToken, SaveUser, SendNotice, ConsumeToken,
           InvalidateOne, InvalidateDone, KeepRecord, DropSessions, DropUser, DropTokens,
           DropOwned, ListWatchlists, DropWatchlist, WatchlistsDone
<1>2. overlapped' = overlapped
  BY DEF Call, Refuse, Fail, ReadFree, ReadUser, ReadExists, ReadOccupant, ReadSession,
         ReadToken, ReadNewest, ListChanges, CreateUser, WriteOwned, IssueSession,
         RefreshSession, RevokeOne, RevokeAll, MintToken, SaveUser, SendNotice, ConsumeToken,
         InvalidateOne, InvalidateDone, KeepRecord, DropSessions, DropUser, DropTokens,
           DropOwned, ListWatchlists, DropWatchlist, WatchlistsDone
<1> QED
  BY <1>1, <1>2

LEMMA AloneCalls ==
  ASSUME AccountInv, AloneInv, NEW r \in Requests, ~ overlapped, Call(r) \/ Fail(r)
  PROVE  AloneInv'
<1>1. CASE Refuse(r) \/ Fail(r)
  BY <1>1, CallsDoNotArrive, AloneStops
<1>2. CASE \/ ReadFree(r) \/ ReadExists(r) \/ ReadOccupant(r) \/ ReadNewest(r)
           \/ InvalidateDone(r) \/ WatchlistsDone(r)
  BY <1>2, AloneReads
<1>3. CASE ReadUser(r) \/ ReadSession(r) \/ ReadToken(r) \/ ListChanges(r) \/ ListWatchlists(r)
  BY <1>3, AloneReadUser, AloneReadSession, AloneReadToken, AloneListChanges,
     AloneListWatchlists
<1>4. CASE CreateUser(r) \/ MintToken(r) \/ SaveUser(r) \/ SendNotice(r)
  BY <1>4, AloneCreate, AloneMint, AloneSave, AloneNotice
<1>5. CASE \/ WriteOwned(r, "profile") \/ WriteOwned(r, "consents") \/ KeepRecord(r)
           \/ DropOwned(r, "drop_profile", "profile") \/ DropOwned(r, "drop_saved", "saved")
           \/ DropOwned(r, "drop_consents", "consents")
           \/ DropOwned(r, "drop_preferences", "preferences")
  BY <1>5, AloneOwned
<1>6. CASE IssueSession(r) \/ RefreshSession(r) \/ RevokeOne(r) \/ RevokeAll(r)
  BY <1>6, AloneIssue, AloneRefresh, AloneRevokeOne, AloneRevokeAll
<1>7. CASE \/ ConsumeToken(r) \/ InvalidateOne(r) \/ DropSessions(r) \/ DropUser(r)
           \/ DropWatchlist(r)
  BY <1>7, AloneConsume, AloneInvalidate, AloneDropSessions, AloneDropUser, AloneDropWatchlist
<1>8. CASE \/ DropTokens(r, "drop_resets", Resets)
           \/ DropTokens(r, "drop_verifications", Verifications)
           \/ DropTokens(r, "drop_changes", Changes)
  BY <1>8, AloneDropTokens
<1> QED
  BY <1>1, <1>2, <1>3, <1>4, <1>5, <1>6, <1>7, <1>8 DEF Call

LEMMA AloneNext ==
  ASSUME AccountInv, AloneInv, [Next]_vars
  PROVE  AloneInv'
<1>1. CASE \E r \in Requests, op \in Ops : Arrive(r, op)
  BY <1>1, AloneArrives
<1>2. ASSUME NEW r \in Requests, Call(r) \/ Fail(r) PROVE AloneInv'
  <2>1. CASE overlapped
    BY <1>2, <2>1, CallsDoNotArrive DEF AloneInv
  <2>2. CASE ~ overlapped
    BY <1>2, <2>2, AloneCalls
  <2> QED
    BY <2>1, <2>2
<1>3. CASE \/ \E e \in Emails : TakeEmail(e)
           \/ \E x \in Expiring : TimeOut(x)
           \/ UNCHANGED vars
  BY <1>3, AloneWorld
<1> QED
  BY <1>1, <1>2, <1>3 DEF Next

LEMMA AloneInit ==
  ASSUME Init
  PROVE  AloneInv
<1>1. /\ \A r \in Requests : rq[r].op = "idle"
      /\ ~ overlapped /\ overlapped \in BOOLEAN /\ ~ user.present
  BY IdleOK DEF Init, no_user
<1>2. /\ \A k \in Tokens : token[k].state = "none" /\ notices[k] = 0
      /\ \A s \in Sessions : session[s] = "none"
      /\ owned = {}
  BY DEF Init
<1>3. AloneRows
  BY <1>1, <1>2 DEF AloneRows, NothingLeft, Stored, Unconsumed, Tokens
<1>4. \A r \in Requests : AloneFits(r)
  BY <1>1 DEF AloneFits, AloneUser, AloneRequest, AloneConfirm, AloneDelete, Holds
<1> QED
  BY <1>1, <1>3, <1>4 DEF AloneInv, OneAtATime

\* What a step of the only request does to the address.
LEMMA AloneChanges ==
  ASSUME AccountInv, AloneInv, Next, ~ overlapped'
  PROVE  ChangesRevoked
<1>1. CASE user' = user /\ session' = session
  BY <1>1 DEF ChangesRevoked
<1>2. ASSUME NEW r \in Requests, Call(r)
      PROVE  ChangesRevoked
  <2>1. ~ overlapped /\ session \in [Sessions -> {"none", "live", "revoked", "gone"}]
    BY <1>2, CallsDoNotArrive DEF AccountInv, RowsOK
  <2>2. CASE CreateUser(r)
    BY <2>1, <2>2, AloneCreate DEF CreateUser, ChangesRevoked
  <2>3. CASE SaveUser(r)
    BY <2>1, <2>3, AloneSave DEF SaveUser, ChangesRevoked
  <2>4. CASE DropUser(r)
    BY <2>4 DEF DropUser, ChangesRevoked, no_user
  <2>5. CASE IssueSession(r)
    BY <2>1, <2>5 DEF IssueSession, ChangesRevoked
  <2>6. CASE RefreshSession(r)
    BY <2>1, <2>6, AloneRefresh DEF RefreshSession, ChangesRevoked
  <2>7. CASE RevokeOne(r)
    <3>1. /\ user' = user
          /\ session' = [session EXCEPT ![rq[r].session] =
               IF session[rq[r].session] = "live" THEN "revoked" ELSE session[rq[r].session]]
      BY <2>7 DEF RevokeOne
    <3> QED
      BY <2>1, <3>1 DEF ChangesRevoked
  <2>8. CASE RevokeAll(r)
    BY <2>1, <2>8 DEF RevokeAll, revoke_all_for_user, ChangesRevoked
  <2>9. CASE DropSessions(r)
    BY <2>1, <2>9 DEF DropSessions, ChangesRevoked
  <2> QED
    BY <1>1, <1>2, <2>2, <2>3, <2>4, <2>5, <2>6, <2>7, <2>8, <2>9
       DEF Call, Refuse, ReadFree, ReadUser, ReadExists, ReadOccupant, ReadSession,
           ReadToken, ReadNewest, ListChanges, WriteOwned, MintToken, SendNotice,
           ConsumeToken, InvalidateOne, InvalidateDone, DropTokens, DropOwned, KeepRecord,
           ListWatchlists, DropWatchlist, WatchlistsDone, rows
<1> QED
  BY <1>1, <1>2 DEF Next, Arrive, Fail, TakeEmail, TimeOut, rows

-----------------------------------------------------------------------------
(* The theorems *)

\* Every behaviour keeps the inductive invariant: the rows and the requests are
\* well formed, and a confirmation behind its save has had its effect.
THEOREM AccountSafety == Spec => []AccountInv
<1>1. Init => AccountInv /\ AloneInv
  BY InitFits, AloneInit
<1>2. AccountInv /\ AloneInv /\ [Next]_vars => (AccountInv /\ AloneInv)'
  BY NextKeeps, AloneNext
<1> QED
  BY <1>1, <1>2, PTL DEF Spec

\* A one-time token is consumed only for its effect: wherever confirmations,
\* retries, deletions and newer requests stop or overlap, a consumed token has had
\* its password, address or verification saved, or was invalidated by a newer
\* change request.
THEOREM NoTokenWasted == Spec => []TokenSpentForEffect
<1>1. AccountInv => TokenSpentForEffect
  BY DEF AccountInv
<1> QED
  BY <1>1, AccountSafety, PTL

\* As long as no two requests of the account overlapped, the rows are what one
\* finished or broken-off request after another leaves, and the request in
\* progress knows what it has read or done.
THEOREM AloneSafety == Spec => []AloneInv
<1>1. Init => AccountInv /\ AloneInv
  BY InitFits, AloneInit
<1>2. AccountInv /\ AloneInv /\ [Next]_vars => (AccountInv /\ AloneInv)'
  BY NextKeeps, AloneNext
<1> QED
  BY <1>1, <1>2, PTL DEF Spec

\* The rows and the requests have their types, also in the middle of any mix of
\* requests.
THEOREM AccountTypes == Spec => []TypeOK
<1>1. AccountInv /\ AloneInv => TypeOK
  BY DEF AccountInv, AloneInv, RowsOK, TypeOK
<1> QED
  BY <1>1, AccountSafety, AloneSafety, PTL

\* However often a confirmation of an e-mail change fails and is asked for again,
\* the old address gets one notice per token, unless requests overlap.
THEOREM OneNoticePerChange == Spec => []NoticeOnce
<1>1. AloneInv => NoticeOnce
  BY DEF AloneInv, AloneRows, NoticeOnce
<1> QED
  BY <1>1, AloneSafety, PTL

\* Wherever deletions stop and are asked for again, once the user row is gone no
\* session, token or owned record of the account is left, unless requests overlap.
THEOREM NothingOutlivesTheAccount == Spec => []DeletionLeavesNothing
<1>1. AloneInv => DeletionLeavesNothing
  BY DEF AloneInv, AloneRows, DeletionLeavesNothing
<1> QED
  BY <1>1, AloneSafety, PTL

\* No step changes the address of an account with a live session, unless requests
\* overlap: the confirmation revokes before it saves, also when it is retried.
THEOREM AddressChangesAfterRevocation == Spec => ChangeAfterRevoke
<1>1. AccountInv /\ AloneInv /\ [Next]_vars => [~ overlapped' => ChangesRevoked]_vars
  BY AloneChanges
<1> QED
  BY <1>1, AccountSafety, AloneSafety, PTL DEF Spec, ChangeAfterRevoke

\* An account is verified only at an address from which a token sent there came
\* back: with resets as long as requests do not overlap, and without them although
\* a verification or a change saves the row it read before another request wrote or
\* deleted it.
THEOREM VerifiedIsProven == Spec => [](Sound => VerifiedMeansProven)
<1>1. AccountInv => (Sound => VerifiedMeansProven)
  BY DEF AccountInv, UserFits, VerifiedMeansProven
<1> QED
  BY <1>1, AccountSafety, PTL
==============================================================================
