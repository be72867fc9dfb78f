-------------------------- MODULE MCAlertEvaluation --------------------------
(***************************************************************************)
(* AlertEvaluation on two small instances at once.  Rule 1 is a one-time    *)
(* rule on a value of item 1, rule 2 a transition of items 1 and 2 with a   *)
(* cooldown.  In turns, passes and edits come one after another while time  *)
(* passes; overlapping, they run at any time around one change.             *)
(***************************************************************************)
EXTENDS AlertEvaluation, TLC

cooldowns == <<0, 2>>
shared_item == {<<1, 1>>, <<2, 1>>, <<2, 2>>}

VARIABLE scene

SceneInit == Init /\ scene \in {"turns", "overlap"}
SceneNext ==
  /\ Next
  /\ UNCHANGED scene
  /\ scene = "turns" => ~ overlapped'
  /\ scene = "overlap" => clock' = 0 /\ changes' <= 1
SceneSpec == SceneInit /\ [][SceneNext]_<<vars, scene>>

\* Processes, and in-stock states, differ in nothing but their name.
AlertSymmetry == Permutations(Processes) \cup Permutations(InStock)
==============================================================================
