----------------------------- MODULE Permission -----------------------------
(***************************************************************************)
(* What budget approvals promise of the money a run spends                 *)
(* (internal/server/runs.go): a run spends when it begins and once for     *)
(* each approval of a request of its own.  While it waits it does not      *)
(* spend, a refused run never spends again, and a permission that was lost *)
(* on the way is not used later.                                           *)
(***************************************************************************)
CONSTANT Runs
VARIABLE stage   \* of each run: new, spending, resting, asked, given, refused,
                 \* and contested when two decisions were in flight at once

Init == stage = [r \in Runs |-> "new"]

Moves(r, from, to) == stage[r] = from /\ stage' = [stage EXCEPT ![r] = to]

\* A goroutine works on the new run, or the reply was lost.
Begin(r) == Moves(r, "new", "spending") \/ Moves(r, "new", "resting")

\* Goroutines leave the runs R, or requests end before they start one.
Rest(R) ==
  /\ R # {} /\ \A r \in R : stage[r] \in {"spending", "given"}
  /\ stage' = [r \in Runs |-> IF r \in R THEN "resting" ELSE stage[r]]

Ask(r) == Moves(r, "resting", "asked")

\* The last: an approval whose reply is lost starts nothing.
Decide(r) ==
  Moves(r, "asked", "given") \/ Moves(r, "asked", "refused") \/ Moves(r, "asked", "resting")

Use(r) == Moves(r, "given", "spending")

Contest(r) == Moves(r, "asked", "contested")

Next ==
  \/ \E r \in Runs : Begin(r) \/ Ask(r) \/ Decide(r) \/ Use(r) \/ Contest(r)
  \/ \E R \in SUBSET Runs : Rest(R)

Spec == Init /\ [][Next]_stage
=============================================================================
