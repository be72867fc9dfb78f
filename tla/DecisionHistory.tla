--------------------------- MODULE DecisionHistory ---------------------------
(***************************************************************************)
(* What the integration of research results promises about one decision,    *)
(* without processes, records or retries: versions are only added, each     *)
(* with the evidence of one execution that none had before, and the         *)
(* shopper's conversation follows them one by one.  The promises are those  *)
(* of the docstrings of app/services/canonical_research_results.py and of   *)
(* DecisionSnapshotBinder.advance_after_verified_research.                  *)
(***************************************************************************)
EXTENDS Naturals, Sequences

CONSTANT Executions

VARIABLES
  versions,  \* per version: the executions whose evidence it holds, in order
  bound      \* the version the conversation shows

dvars == <<versions, bound>>

DInit == versions = << <<>> >> /\ bound = 1

Last == versions[Len(versions)]

\* The evidence of execution e makes the next version, if it is not in already.
Publish(e) ==
  /\ \A i \in DOMAIN Last : Last[i] # e
  /\ versions' = Append(versions, Append(Last, e))
  /\ UNCHANGED bound

\* The conversation moves to the version after the one it shows.
Follow ==
  /\ bound < Len(versions)
  /\ bound' = bound + 1
  /\ UNCHANGED versions

DNext == Follow \/ \E e \in Executions : Publish(e)

DSpec == DInit /\ [][DNext]_dvars
==============================================================================
