--------------------------- MODULE AccountIdentity ---------------------------
(***************************************************************************)
(* One consumer account: its user row, sessions, one-time tokens and owned  *)
(* records, and the requests that read and write them.  Sources:            *)
(* app/auth/service.py (AuthService), app/privacy/lifecycle.py              *)
(* (delete_account), app/services/user_platform_service.py and the SQL      *)
(* repositories of user_platform_repository.py over operational_store.py.   *)
(*                                                                          *)
(* Every repository call is a transaction of its own, and a save writes the *)
(* whole row its caller read earlier (upsert has no version check).  So an  *)
(* operation is the list of its repository calls, *_calls below, each call  *)
(* is one action, and other requests run between two calls.  A request that *)
(* is refused by what it read, or whose call raises, ends there.            *)
(*                                                                          *)
(* Left out: rate limits and the login lock (RateLimit, FailedLoginLock),   *)
(* is_active (nothing clears it), audit events, wording of messages.        *)
(***************************************************************************)
EXTENDS Naturals, Sequences, FiniteSets

CONSTANTS
  Requests,       \* HTTP requests in progress
  Ops,            \* the operations clients ask for, members of Operations
  Sessions,       \* session ids
  Resets,         \* password-reset tokens
  Verifications,  \* e-mail-verification tokens
  Changes,        \* e-mail-change tokens
  Watchlists,     \* watchlist ids; an id stands for one list at a time
  Emails,         \* addresses; the account registers with First
  First,
  Expiring        \* bound: the sessions and tokens that may outlive their time

Tokens == Resets \cup Verifications \cup Changes

VARIABLES
  user,      \* the user row
  session,   \* per session id: its row
  token,     \* per token: its row
  owned,     \* the account-owned records that exist
  taken,     \* addresses registered by other accounts
  expired,   \* sessions and tokens whose expires_at has passed
  rq,        \* per request: control state and local variables
  registered, \* history: the user row was created
  effected,  \* history: tokens whose effect was saved, or found in place
  revoked_by_newer,  \* history: tokens another change request invalidated
  notices,   \* history: per token, notices to the old address, up to 2
  proven,    \* history: addresses whose token came back
  overlapped \* history: two requests were in progress at once

rows == <<user, session, token, owned, taken, expired>>
history == <<registered, effected, revoked_by_newer, notices, proven, overlapped>>
vars == <<rows, rq, history>>

-----------------------------------------------------------------------------
(* Operations as lists of repository calls *)

register_calls == <<"free", "create", "profile", "consents", "mint", "issue">>
login_calls == <<"lookup", "issue">>
validate_calls == <<"session", "refresh">>
logout_calls == <<"session", "refresh", "revoke_one">>
expire_calls == <<"revoke_one">>
keep_calls == <<"session", "refresh", "owner", "keep">>
request_token_calls == <<"lookup", "mint">>

confirm_reset_calls == <<"token", "owner", "save", "consume", "revoke">>
confirm_verification_calls == <<"token", "owner", "save", "consume">>
request_change_calls ==
  <<"session", "refresh", "owner", "occupant", "list", "invalidate", "mint">>

\* Mutant: sessions are revoked after the new address is saved.
confirm_change_save_first ==
  <<"token", "newest", "owner", "occupant", "save", "notice", "revoke",
    "consume", "list", "invalidate">>

\* Mutant: the token is consumed before the new address is saved.
confirm_change_consume_first ==
  <<"token", "newest", "owner", "occupant", "revoke", "consume", "save",
    "notice", "list", "invalidate">>

confirm_change_calls ==
  <<"token", "newest", "owner", "occupant", "revoke", "save", "notice",
    "consume", "list", "invalidate">>

\* Mutant: the user row goes before the records that are found through it.
delete_user_first ==
  <<"session", "refresh", "owner", "exists", "drop_user", "revoke",
    "drop_sessions", "drop_profile", "drop_saved", "drop_resets",
    "drop_verifications", "drop_changes", "drop_consents", "list_watchlists",
    "drop_watchlists", "drop_preferences">>

delete_calls ==
  <<"session", "refresh", "owner", "exists", "revoke", "drop_sessions",
    "drop_profile", "drop_saved", "drop_resets", "drop_verifications",
    "drop_changes", "drop_consents", "list_watchlists", "drop_watchlists",
    "drop_preferences", "drop_user">>

Calls ==
  [register |-> register_calls, login |-> login_calls,
   validate |-> validate_calls, logout |-> logout_calls,
   expire |-> expire_calls, keep |-> keep_calls,
   request_reset |-> request_token_calls, confirm_reset |-> confirm_reset_calls,
   request_verification |-> request_token_calls,
   confirm_verification |-> confirm_verification_calls,
   request_change |-> request_change_calls,
   confirm_change |-> confirm_change_calls,
   delete |-> delete_calls]

\* What signed-in requests write beside the rows above: profile fields, saved
\* items and history, notification preferences, watchlists.
Kept == {"profile", "saved", "preferences"} \cup Watchlists

Operations == DOMAIN Calls
Confirmations == {"confirm_reset", "confirm_verification", "confirm_change"}

ASSUME AccountAssumption ==
  /\ Ops \subseteq Operations /\ First \in Emails
  /\ Resets \cap Verifications = {} /\ Changes \cap (Resets \cup Verifications) = {}
  /\ IsFiniteSet(Changes)
  /\ Expiring \subseteq Sessions \cup Tokens

\* The tokens an operation mints or confirms: purpose-specific repositories.
Repository(op) ==
  CASE op \in {"request_reset", "confirm_reset"} -> Resets
    [] op \in {"register", "request_verification", "confirm_verification"} -> Verifications
    [] op \in {"request_change", "confirm_change"} -> Changes
    [] OTHER -> {}

-----------------------------------------------------------------------------
(* State *)

no_user == [present |-> FALSE, email |-> First, verified |-> FALSE]

idle_request ==
  [op |-> "idle", pc |-> 0, session |-> "none", token |-> "none",
   user |-> no_user, email |-> First, todo |-> {}, lists |-> {}]

\* An id is used once: "none" has never been stored, "gone" was deleted.
Init ==
  /\ user = no_user
  /\ session = [s \in Sessions |-> "none"]
  /\ token = [k \in Tokens |-> [state |-> "none", email |-> First, sent |-> First, made |-> 0]]
  /\ owned = {}
  /\ taken = {}
  /\ expired = {}
  /\ rq = [r \in Requests |-> idle_request]
  /\ registered = FALSE
  /\ effected = {} /\ revoked_by_newer = {} /\ proven = {}
  /\ notices = [k \in Tokens |-> 0]
  /\ overlapped = FALSE

Stored(k) == token[k].state \in {"issued", "consumed"}
Unconsumed == {k \in Changes : token[k].state = "issued"}
Capped(n) == IF n = 2 THEN 2 ELSE n + 1

CallOf(q) == IF q.op = "idle" THEN "none" ELSE Calls[q.op][q.pc]
At(r, call) == CallOf(rq[r]) = call

\* The request moves on with local variables q, or returns after its last call.
Advance(r, q) ==
  rq' = [rq EXCEPT ![r] = IF q.pc = Len(Calls[q.op]) THEN idle_request
                                                     ELSE [q EXCEPT !.pc = @ + 1]]
Proceed(r) == Advance(r, rq[r])
Stop(r) == rq' = [rq EXCEPT ![r] = idle_request]

\* Mutant: a retry does not look whether the change is already applied.
never_already_applied(q) == FALSE

already_applied(q) ==
  q.op = "confirm_change" /\ q.user.email = q.email /\ q.user.verified

\* A request for a change is also refused the account's own address.
Occupied(q) ==
  \/ q.email \in taken
  \/ q.op = "request_change" /\ user.present /\ user.email = q.email

\* users.save finds the address of the row it writes on another account.
SaveConflicts(q) ==
  /\ ~already_applied(q)
  /\ (IF q.op = "confirm_change" THEN q.email ELSE q.user.email) \in taken

-----------------------------------------------------------------------------
(* Requests *)

\* A request arrives with what the client sends.  The account registers once.
Arrive(r, op) ==
  /\ rq[r].op = "idle"
  /\ op = "register" => ~registered /\ \A x \in Requests : rq[x].op # "register"
  /\ \E s \in IF Calls[op][1] = "session" THEN Sessions ELSE {"none"},
        k \in IF op \in Confirmations THEN Repository(op) ELSE {"none"},
        e \in IF op = "request_change" THEN Emails ELSE {First} :
       /\ s \in Sessions => session[s] # "none"
       /\ k \in Tokens => token[k].state # "none"
       /\ rq' = [rq EXCEPT ![r] = [idle_request EXCEPT
                   !.op = op, !.pc = 1, !.session = s, !.token = k,
                   !.email = e]]
  /\ overlapped' = (overlapped \/ \E x \in Requests : rq[x].op # "idle")
  /\ UNCHANGED <<rows, registered, effected, revoked_by_newer, notices, proven>>

\* The call raises, or the process stops.
Fail(r) ==
  /\ rq[r].op # "idle"
  /\ Stop(r)
  /\ UNCHANGED <<rows, registered, effected, revoked_by_newer, notices, proven, overlapped>>

\* What the call reads refuses the request.
Refused(q) ==
  CASE CallOf(q) \in {"free", "create"} -> First \in taken
    [] CallOf(q) \in {"lookup", "exists"} -> ~user.present
    [] CallOf(q) = "owner" ->
         user.present => q.op = "request_change" /\ q.email = user.email
    [] CallOf(q) = "session" -> session[q.session] # "live"
    [] CallOf(q) = "token" -> token[q.token].state # "issued" \/ q.token \in expired
    [] CallOf(q) = "newest" -> \E x \in Unconsumed : token[x].made > token[q.token].made
    [] CallOf(q) = "occupant" -> Occupied(q)
    [] CallOf(q) = "save" -> SaveConflicts(q)
    [] OTHER -> FALSE

Refuse(r) ==
  /\ Refused(rq[r])
  /\ Stop(r)
  /\ UNCHANGED <<rows, registered, effected, revoked_by_newer, notices, proven, overlapped>>

(* Reads *)

ReadFree(r) ==
  /\ At(r, "free")
  /\ First \notin taken
  /\ Proceed(r)
  /\ UNCHANGED <<rows, registered, effected, revoked_by_newer, notices, proven, overlapped>>

ReadUser(r) ==
  /\ At(r, "lookup") \/ At(r, "owner")
  /\ user.present
  /\ rq[r].op = "request_change" => rq[r].email # user.email
  /\ Advance(r, [rq[r] EXCEPT !.user = user])
  /\ UNCHANGED <<rows, registered, effected, revoked_by_newer, notices, proven, overlapped>>

ReadExists(r) ==
  /\ At(r, "exists")
  /\ user.present
  /\ Proceed(r)
  /\ UNCHANGED <<rows, registered, effected, revoked_by_newer, notices, proven, overlapped>>

ReadOccupant(r) ==
  /\ At(r, "occupant")
  /\ ~Occupied(rq[r])
  /\ Proceed(r)
  /\ UNCHANGED <<rows, registered, effected, revoked_by_newer, notices, proven, overlapped>>

SessionValid(s) == session[s] = "live"

\* validate_session: an expired session is revoked and the request refused.
ReadSession(r) ==
  /\ At(r, "session")
  /\ SessionValid(rq[r].session)
  /\ IF rq[r].session \in expired
       THEN rq' = [rq EXCEPT ![r].op = "expire", ![r].pc = 1]
       ELSE Proceed(r)
  /\ UNCHANGED <<rows, registered, effected, revoked_by_newer, notices, proven, overlapped>>

TokenValid(k) == token[k].state = "issued" /\ k \notin expired

\* A token that came back proves the mailbox it was sent to.
ReadToken(r) ==
  /\ At(r, "token")
  /\ TokenValid(rq[r].token)
  /\ Advance(r, [rq[r] EXCEPT !.email = token[rq[r].token].email])
  /\ proven' = IF rq[r].op = "confirm_reset" THEN proven
                 ELSE proven \cup {token[rq[r].token].sent}
  /\ UNCHANGED <<rows, registered, effected, revoked_by_newer, notices, overlapped>>

ReadNewest(r) ==
  /\ At(r, "newest")
  /\ \A x \in Unconsumed : token[x].made <= token[rq[r].token].made
  /\ Proceed(r)
  /\ UNCHANGED <<rows, registered, effected, revoked_by_newer, notices, proven, overlapped>>

\* invalidate_for_user lists the tokens and then marks them one by one.
ListChanges(r) ==
  /\ At(r, "list")
  /\ Advance(r, [rq[r] EXCEPT !.todo = Unconsumed])
  /\ UNCHANGED <<rows, registered, effected, revoked_by_newer, notices, proven, overlapped>>

(* Writes *)

\* mark_consumed writes nothing when the row is gone.
Consumed(k) == IF Stored(k) THEN [token EXCEPT ![k].state = "consumed"] ELSE token

CreateUser(r) ==
  /\ At(r, "create")
  /\ First \notin taken
  /\ user' = [present |-> TRUE, email |-> First, verified |-> FALSE]
  /\ registered' = TRUE
  /\ Advance(r, [rq[r] EXCEPT !.user = user'])
  /\ UNCHANGED <<session, token, owned, taken, expired,
                 effected, revoked_by_newer, notices, proven, overlapped>>

WriteOwned(r, name) ==
  /\ At(r, name)
  /\ owned' = owned \cup {name}
  /\ Proceed(r)
  /\ UNCHANGED <<user, session, token, taken, expired,
                 registered, effected, revoked_by_newer, notices, proven, overlapped>>

KeepRecord(r) ==
  /\ At(r, "keep")
  /\ \E x \in Kept : owned' = owned \cup {x}
  /\ Proceed(r)
  /\ UNCHANGED <<user, session, token, taken, expired,
                 registered, effected, revoked_by_newer, notices, proven, overlapped>>

IssueSession(r) ==
  /\ At(r, "issue")
  /\ \E s \in Sessions :
       /\ session[s] = "none"
       /\ session' = [session EXCEPT ![s] = "live"]
  /\ Proceed(r)
  /\ UNCHANGED <<user, token, owned, taken, expired,
                 registered, effected, revoked_by_newer, notices, proven, overlapped>>

\* The session read before is saved with revoked = False.
RefreshSession(r) ==
  /\ At(r, "refresh")
  /\ session' = [session EXCEPT ![rq[r].session] = "live"]
  /\ Proceed(r)
  /\ UNCHANGED <<user, token, owned, taken, expired,
                 registered, effected, revoked_by_newer, notices, proven, overlapped>>

RevokeOne(r) ==
  /\ At(r, "revoke_one")
  /\ session' = [session EXCEPT ![rq[r].session] = IF @ = "live" THEN "revoked" ELSE @]
  /\ Proceed(r)
  /\ UNCHANGED <<user, token, owned, taken, expired,
                 registered, effected, revoked_by_newer, notices, proven, overlapped>>

revoke_all_for_user(x) ==
  [s \in Sessions |-> IF x[s] = "live" THEN "revoked" ELSE x[s]]

RevokeAll(r) ==
  /\ At(r, "revoke")
  /\ session' = revoke_all_for_user(session)
  /\ Proceed(r)
  /\ UNCHANGED <<user, token, owned, taken, expired,
                 registered, effected, revoked_by_newer, notices, proven, overlapped>>

\* Mutant: the confirmation link of an e-mail change goes to the current address.
mailed_to_current(q) == q.user.email

\* Where the message with the token is sent.
mailed_to(q) == IF q.op = "request_change" THEN q.email ELSE q.user.email

MintToken(r) ==
  LET q == rq[r]
  IN  /\ At(r, "mint")
      /\ \E k \in Repository(q.op) :
           /\ token[k].state = "none"
           /\ token' = [token EXCEPT ![k] =
                [state |-> "issued", email |-> q.email, sent |-> mailed_to(q),
                 made |-> Cardinality({x \in Changes : token[x].state # "none"})]]
      /\ Proceed(r)
      /\ UNCHANGED <<user, session, owned, taken, expired,
                     registered, effected, revoked_by_newer, notices, proven, overlapped>>

\* The row as it was read, with the fields the operation sets.
UpdatedUser(q) ==
  CASE q.op = "confirm_reset" -> q.user    \* with a new password hash
    [] q.op = "confirm_verification" -> [q.user EXCEPT !.verified = TRUE]
    [] q.op = "confirm_change" -> [q.user EXCEPT !.email = q.email, !.verified = TRUE]

SaveUser(r) ==
  LET q == rq[r]
  IN  /\ At(r, "save")
      /\ IF already_applied(q)
           THEN /\ Advance(r, [q EXCEPT !.pc = @ + 1])
                /\ UNCHANGED user
           ELSE /\ ~SaveConflicts(q)
                /\ user' = UpdatedUser(q)
                /\ Proceed(r)
      /\ effected' = effected \cup {q.token}
      /\ UNCHANGED <<session, token, owned, taken, expired, registered, revoked_by_newer,
                     notices, proven, overlapped>>

\* The notice may fail to be delivered; the request goes on either way.
SendNotice(r) ==
  /\ At(r, "notice")
  /\ notices' = [notices EXCEPT ![rq[r].token] = Capped(@)]
  /\ Proceed(r)
  /\ UNCHANGED <<rows, registered, effected, revoked_by_newer, proven, overlapped>>

ConsumeToken(r) ==
  /\ At(r, "consume")
  /\ token' = Consumed(rq[r].token)
  /\ Proceed(r)
  /\ UNCHANGED <<user, session, owned, taken, expired,
                 registered, effected, revoked_by_newer, notices, proven, overlapped>>

InvalidateOne(r) ==
  /\ At(r, "invalidate")
  /\ \E k \in rq[r].todo :
       /\ token' = Consumed(k)
       /\ revoked_by_newer' = revoked_by_newer \cup {k}
       /\ rq' = [rq EXCEPT ![r].todo = @ \ {k}]
  /\ UNCHANGED <<user, session, owned, taken, expired,
                 registered, effected, notices, proven, overlapped>>

InvalidateDone(r) ==
  /\ At(r, "invalidate")
  /\ rq[r].todo = {}
  /\ Proceed(r)
  /\ UNCHANGED <<rows, registered, effected, revoked_by_newer, notices, proven, overlapped>>

DropSessions(r) ==
  /\ At(r, "drop_sessions")
  /\ session' = [s \in Sessions |-> IF session[s] = "none" THEN "none" ELSE "gone"]
  /\ Proceed(r)
  /\ UNCHANGED <<user, token, owned, taken, expired,
                 registered, effected, revoked_by_newer, notices, proven, overlapped>>

DropTokens(r, call, dropped) ==
  /\ At(r, call)
  /\ token' = [k \in Tokens |->
                 IF k \in dropped /\ Stored(k) THEN [token[k] EXCEPT !.state = "gone"]
                                               ELSE token[k]]
  /\ Proceed(r)
  /\ UNCHANGED <<user, session, owned, taken, expired,
                 registered, effected, revoked_by_newer, notices, proven, overlapped>>

DropOwned(r, call, name) ==
  /\ At(r, call)
  /\ owned' = owned \ {name}
  /\ Proceed(r)
  /\ UNCHANGED <<user, session, token, taken, expired,
                 registered, effected, revoked_by_newer, notices, proven, overlapped>>

\* The owner's watchlists are listed and then deleted one by one.
ListWatchlists(r) ==
  /\ At(r, "list_watchlists")
  /\ Advance(r, [rq[r] EXCEPT !.lists = owned \cap Watchlists])
  /\ UNCHANGED <<rows, registered, effected, revoked_by_newer, notices, proven, overlapped>>

DropWatchlist(r) ==
  /\ At(r, "drop_watchlists")
  /\ \E x \in rq[r].lists :
       /\ owned' = owned \ {x}
       /\ rq' = [rq EXCEPT ![r].lists = @ \ {x}]
  /\ UNCHANGED <<user, session, token, taken, expired,
                 registered, effected, revoked_by_newer, notices, proven, overlapped>>

WatchlistsDone(r) ==
  /\ At(r, "drop_watchlists")
  /\ rq[r].lists = {}
  /\ Proceed(r)
  /\ UNCHANGED <<rows, registered, effected, revoked_by_newer, notices, proven, overlapped>>

DropUser(r) ==
  /\ At(r, "drop_user")
  /\ user' = no_user
  /\ Proceed(r)
  /\ UNCHANGED <<session, token, owned, taken, expired,
                 registered, effected, revoked_by_newer, notices, proven, overlapped>>

-----------------------------------------------------------------------------
(* The world around *)

\* Another account registers or changes to an address that is free.
TakeEmail(e) ==
  /\ e \notin taken
  /\ ~(user.present /\ user.email = e)
  /\ taken' = taken \cup {e}
  /\ UNCHANGED <<user, session, token, owned, expired, rq, history>>

TimeOut(x) ==
  /\ x \notin expired
  /\ x \in Sessions => session[x] = "live"
  /\ x \in Tokens => token[x].state = "issued"
  /\ expired' = expired \cup {x}
  /\ UNCHANGED <<user, session, token, owned, taken, rq, history>>

Call(r) ==
  \/ Refuse(r)
  \/ ReadFree(r) \/ ReadUser(r) \/ ReadExists(r) \/ ReadOccupant(r)
  \/ ReadSession(r) \/ ReadToken(r) \/ ReadNewest(r) \/ ListChanges(r)
  \/ CreateUser(r) \/ WriteOwned(r, "profile") \/ WriteOwned(r, "consents")
  \/ KeepRecord(r)
  \/ IssueSession(r) \/ RefreshSession(r) \/ RevokeOne(r) \/ RevokeAll(r)
  \/ MintToken(r) \/ SaveUser(r) \/ SendNotice(r) \/ ConsumeToken(r)
  \/ InvalidateOne(r) \/ InvalidateDone(r)
  \/ DropSessions(r) \/ DropUser(r)
  \/ DropTokens(r, "drop_resets", Resets)
  \/ DropTokens(r, "drop_verifications", Verifications)
  \/ DropTokens(r, "drop_changes", Changes)
  \/ DropOwned(r, "drop_profile", "profile")
  \/ DropOwned(r, "drop_saved", "saved")
  \/ DropOwned(r, "drop_consents", "consents")
  \/ DropOwned(r, "drop_preferences", "preferences")
  \/ ListWatchlists(r) \/ DropWatchlist(r) \/ WatchlistsDone(r)

Next ==
  \/ \E r \in Requests, op \in Ops : Arrive(r, op)
  \/ \E r \in Requests : Call(r) \/ Fail(r)
  \/ \E e \in Emails : TakeEmail(e)
  \/ \E x \in Expiring : TimeOut(x)

Spec == Init /\ [][Next]_vars

-----------------------------------------------------------------------------
(* Properties *)

Row == [present : BOOLEAN, email : Emails, verified : BOOLEAN]
TokenRow == [state : {"none", "issued", "consumed", "gone"}, email : Emails, sent : Emails,
             made : Nat]

\* A request in progress is at one of its operation's calls.
Request ==
  [op : Operations \cup {"idle"}, pc : Nat, session : Sessions \cup {"none"},
   token : Tokens \cup {"none"}, user : Row, email : Emails, todo : SUBSET Changes,
   lists : SUBSET Watchlists]
RequestOK(q) ==
  /\ q \in Request
  /\ q.op # "idle" => q.pc \in 1..Len(Calls[q.op])
  /\ q.op \in Confirmations => q.token \in Repository(q.op)

TypeOK ==
  /\ user \in Row
  /\ session \in [Sessions -> {"none", "live", "revoked", "gone"}]
  /\ token \in [Tokens -> TokenRow]
  /\ owned \subseteq Kept \cup {"consents"}
  /\ taken \subseteq Emails /\ expired \subseteq Sessions \cup Tokens
  /\ rq \in [Requests -> Request] /\ \A r \in Requests : RequestOK(rq[r])
  /\ registered \in BOOLEAN
  /\ effected \subseteq Tokens /\ revoked_by_newer \subseteq Tokens
  /\ notices \in [Tokens -> 0..2] /\ proven \subseteq Emails
  /\ overlapped \in BOOLEAN

\* A token is spent only for its effect: wherever a confirmation stops, a
\* consumed token has had its password, address or verification saved (or found
\* in place by a retry), or a newer change request invalidated it.
TokenSpentForEffect ==
  \A k \in Tokens :
    token[k].state = "consumed" => k \in effected \/ k \in revoked_by_newer

\* A verified account has an address whose owner returned a token sent to it.
VerifiedMeansProven == user.present /\ user.verified => user.email \in proven

\* A save writes the row its request read earlier and nothing compares versions,
\* so the rest holds as long as no two requests of the account overlap.

\* "Retry after consume failure does not send a duplicate notice."
NoticeOnce == ~overlapped => \A k \in Tokens : notices[k] <= 1

\* Once the user row is deleted nothing of the account is left: a deletion that
\* failed half-way still has the row, so that it can be asked for again.
NothingLeft ==
  /\ owned = {}
  /\ \A s \in Sessions : session[s] \in {"none", "gone"}
  /\ \A k \in Tokens : ~Stored(k)
DeletionLeavesNothing == ~overlapped /\ registered /\ ~user.present => NothingLeft

\* "After successful revocation, persist the new email" (docs/AUTHENTICATION.md:168):
\* the address changes only once every session of the account is revoked, also when
\* the revocation or the save fails and the client tries again.
ChangesRevoked ==
  user.present /\ user'.present /\ user'.email # user.email
    => \A s \in Sessions : session[s] # "live"
ChangeAfterRevoke == [][~overlapped' => ChangesRevoked]_vars
=============================================================================
