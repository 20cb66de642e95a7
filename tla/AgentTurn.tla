------------------------------ MODULE AgentTurn -----------------------------
(***************************************************************************)
(* What one agent turn promises its caller, whatever path it takes through *)
(* the graph: queries are drafted and run within a fixed budget, each run  *)
(* uses a draft that was not run before, nothing is drafted or run once a  *)
(* query has succeeded, and the turn closes exactly once.                  *)
(***************************************************************************)
EXTENDS Integers

CONSTANTS MaxDrafts, MaxRuns

VARIABLES phase,   \* "open", "answered" or "closed"
          drafts,  \* queries the planner was asked for
          runs     \* queries sent to a database or the cache

turnVars == <<phase, drafts, runs>>

Init == phase = "open" /\ drafts = 0 /\ runs = 0

Draft ==
  /\ phase = "open"
  /\ drafts < MaxDrafts
  /\ drafts' = drafts + 1
  /\ UNCHANGED <<phase, runs>>

Execute ==
  /\ phase = "open"
  /\ runs < MaxRuns
  /\ runs < drafts
  /\ runs' = runs + 1
  /\ phase' \in {"open", "answered"}
  /\ UNCHANGED drafts

Close ==
  /\ phase # "closed"
  /\ phase' = "closed"
  /\ UNCHANGED <<drafts, runs>>

Next == Draft \/ Execute \/ Close

Spec == Init /\ [][Next]_turnVars

\* A turn that is never abandoned closes.
FairSpec == Spec /\ WF_turnVars(Next)
=============================================================================
