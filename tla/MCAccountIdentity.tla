-------------------------- MODULE MCAccountIdentity --------------------------
(***************************************************************************)
(* AccountIdentity on three small instances at once.  In "mail" and         *)
(* "sessions" requests come one after another, any call may fail and things *)
(* expire: verification and e-mail change, or sessions, reset and deletion. *)
(* In "overlap" two requests to verify or change the address run at a time. *)
(* Beside profile and consents the account keeps one record at a time.      *)
(***************************************************************************)
EXTENDS AccountIdentity, TLC

VARIABLE scene

SceneOps ==
  [mail |-> {"register", "login", "request_verification", "confirm_verification",
             "request_change", "confirm_change"},
   sessions |-> {"register", "login", "validate", "logout", "request_reset",
                 "confirm_reset", "keep", "delete"},
   overlap |-> {"register", "confirm_verification", "request_change",
                "confirm_change"}]

AllOps == UNION {SceneOps[x] : x \in DOMAIN SceneOps}

Alone == scene # "overlap"
Expires == [mail |-> Changes, sessions |-> Sessions \cup Resets, overlap |-> {}]
Takes == [mail |-> Emails, sessions |-> {First}, overlap |-> {}]

\* A request that stops beside another one does so when the other has ended:
\* until then it is only slow.
StopsLast ==
  \A r, x \in Requests :
    rq[r].op # "idle" /\ rq'[r].op = "idle" /\ rq[x].op # "idle" /\ x # r =>
      rq[r].pc = Len(Calls[rq[r].op])

SceneInit == Init /\ scene \in DOMAIN SceneOps
SceneNext ==
  /\ Next
  /\ UNCHANGED scene
  /\ \A r \in Requests : rq'[r].op \in SceneOps[scene] \cup {"idle", "expire"}
  /\ scene = "overlap" => StopsLast
  /\ Alone => Cardinality({r \in Requests : rq'[r].op # "idle"}) <= 1
  /\ expired' \subseteq Expires[scene]
  /\ taken' \subseteq Takes[scene]
  /\ Cardinality(owned' \ {"profile", "consents"}) <= 1
SceneSpec == SceneInit /\ [][SceneNext]_<<vars, scene>>

\* Ids of one kind are interchangeable.
IdSymmetry == UNION {Permutations(S) : S \in {Requests, Sessions, Resets, Changes}}
=============================================================================
