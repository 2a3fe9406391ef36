---------------------------- MODULE RunLifecycle ----------------------------
(***************************************************************************)
(* The life of a run inside the API servers (internal/server/runs.go,      *)
(* scheduler.go): processRun goroutines, started by a trigger, by the      *)
(* scheduler or by an approval, and the budget decisions of users, which   *)
(* all write runs.status and run_budget_approvals of one topic without a   *)
(* transaction or a lock.  An action is one statement to Postgres, or one  *)
(* call of the orchestrator, with the local code up to the next.           *)
(***************************************************************************)
EXTENDS Naturals, Sequences, FiniteSets

CONSTANTS
  Runs,
  Pipelines,   \* goroutines that execute processRun
  Deciders,    \* requests to budgetDecision in flight
  Origins,     \* who starts runs: "trigger", "scheduler"
  Policy,      \* topic budget: no approval, above a threshold, always; a
               \* budget that users edit shows what a threshold does
  None,
  MaxFaults    \* bound: calls that fail or lose their reply, deadlines, crashes

Thread == Pipelines \cup Deciders

ASSUME LifecycleAssumption ==
  /\ Pipelines \cap Deciders = {}
  /\ Origins \subseteq {"trigger", "scheduler"}
  /\ Policy \in {"open", "threshold", "always"}
  /\ None \notin Runs \cup {"trigger", "scheduler", "decision"}
  /\ MaxFaults \in Nat

VARIABLES
  status,      \* runs.status
  approval,    \* run_budget_approvals.status
  asked,       \* runs with a pending approval, by created_at
  work,        \* what a thread does: next step, run, for a pipeline who started
               \* it, for a request its decision, and whether its time is over
  overlapped,  \* runs two decisions were in flight for at once
  hit,         \* runs a fault has struck
  faults

vars == <<status, approval, asked, work, overlapped, hit, faults>>

-----------------------------------------------------------------------------
Status == {"none", "running", "pending_approval", "succeeded", "failed", "rejected"}
Working == {"plan", "think"}

Idle == [step |-> "idle", run |-> None, as |-> None, late |-> FALSE]
Pipeline == [step : Working \cup {"mark", "ask", "fail"}, run : Runs,
             as : {"trigger", "scheduler", "decision"}, late : BOOLEAN]
Decision == [step : {"resolve", "start", "reject", "finish"}, run : Runs,
             as : {"approved", "rejected"}, late : {FALSE}]

Pending == {asked[i] : i \in 1..Len(asked)}
Busy(t, r) == work[t].run = r

TypeOK ==
  /\ status \in [Runs -> Status]
  /\ approval \in [Runs -> {"none", "pending", "approved", "rejected"}]
  /\ asked \in Seq(Runs)
  /\ \A p \in Pipelines : work[p] \in Pipeline \cup {Idle}
  /\ \A d \in Deciders : work[d] \in Decision \cup {Idle}
  /\ DOMAIN work = Thread
  /\ overlapped \subseteq Runs
  /\ hit \subseteq Runs
  /\ faults \in 0..MaxFaults
  \* One row for a run, and a pending one exactly for the runs asked for.
  /\ \A i, j \in 1..Len(asked) : asked[i] = asked[j] => i = j
  /\ Pending = {r \in Runs : approval[r] = "pending"}

Init ==
  /\ status = [r \in Runs |-> "none"]
  /\ approval = [r \in Runs |-> "none"]
  /\ asked = <<>>
  /\ work = [t \in Thread |-> Idle]
  /\ overlapped = {}
  /\ hit = {}
  /\ faults = 0

-----------------------------------------------------------------------------
(* How a call for run r ends.  After its deadline a pipeline's calls fail.  *)

Outcome == {"ok", "failed", "lost"}
Performed == {"ok", "lost"}

Costs(r, o) ==
  IF o = "ok"
  THEN UNCHANGED <<hit, faults>>
  ELSE faults < MaxFaults /\ faults' = faults + 1 /\ hit' = hit \cup {r}

Ends(p, o) ==
  IF work[p].late
  THEN o = "failed" /\ UNCHANGED <<hit, faults>>
  ELSE Costs(work[p].run, o)

SetStatus(r, o, s) == status' = IF o \in Performed THEN [status EXCEPT ![r] = s] ELSE status

\* go func() { processRun(...) }
Launched(r, who) == [step |-> "plan", run |-> r, as |-> who, late |-> FALSE]
Does(t, w) == work' = [work EXCEPT ![t] = w]
GoTo(t, step) == Does(t, [work[t] EXCEPT !.step = step])
Return(t) == Does(t, Idle)

-----------------------------------------------------------------------------
(* Pipelines.                                                               *)

\* trigger, or the iteration of a tick that fires: CreateRun, then the
\* goroutine.
Create(p, r, who) ==
  /\ status[r] = "none" /\ work[p] = Idle
  /\ \E o \in Outcome :
       /\ Costs(r, o)
       /\ SetStatus(r, o, "running")
       /\ IF o = "ok" THEN Does(p, Launched(r, who)) ELSE UNCHANGED work
  /\ UNCHANGED <<approval, asked, overlapped>>

\* The planner's gate does not look at run_budget_approvals.  The estimate
\* may be on either side of the threshold.
Gated == CASE Policy = "open" -> {FALSE} [] Policy = "always" -> {TRUE} [] OTHER -> BOOLEAN

\* Any error before the plan stands fails the run.
Plan(p) ==
  /\ work[p].step = "plan"
  /\ \/ GoTo(p, "fail")
     \/ ~work[p].late /\ \E g \in Gated : GoTo(p, IF g THEN "mark" ELSE "think")
  /\ UNCHANGED <<status, approval, asked, overlapped, hit, faults>>

\* Mutant: no FinishRun when the report is missing.
FinishedIfReport == {"succeeded", "running"}
Finished == {"succeeded", "failed"}

\* The orchestrator fails or breaks the budget, or there is a result; then the
\* report is written and the run succeeds, or there is none and it fails.
Think(p) ==
  /\ work[p].step = "think"
  /\ \/ GoTo(p, "fail") /\ UNCHANGED <<status, hit, faults>>
     \/ /\ \E o \in Outcome, s \in Finished :
             Ends(p, o) /\ SetStatus(work[p].run, o, s)
        /\ Return(p)
  /\ UNCHANGED <<approval, asked, overlapped>>

\* Its error is dropped, and so is the one of CreateBudgetApproval.
MarkRunPendingApproval(p) ==
  /\ work[p].step = "mark"
  /\ \E o \in Outcome : Ends(p, o) /\ SetStatus(work[p].run, o, "pending_approval")
  /\ GoTo(p, "ask")
  /\ UNCHANGED <<approval, asked, overlapped>>

PlaceOf(r) == CHOOSE i \in 1..Len(asked) : asked[i] = r
Others(r) ==
  IF r \in Pending
  THEN SubSeq(asked, 1, PlaceOf(r) - 1) \o SubSeq(asked, PlaceOf(r) + 1, Len(asked))
  ELSE asked

\* Mutant: no request while the topic has one.
InsertedAlone(r) == asked = <<>>
\* ON CONFLICT DO UPDATE
Inserted(r) == TRUE

\* Mutants: a second row for the run; created_at of the first request kept.
AskedTwice(r) == Append(asked, r)
AskedFirst(r) == <<r>> \o Others(r)
\* The row is new, or pending again with a new created_at.
Asked(r) == Append(Others(r), r)

\* trigger leaves the run as it is, the others go on to mark it failed.
CreateBudgetApproval(p) ==
  LET r == work[p].run IN
  /\ work[p].step = "ask"
  /\ \E o \in Outcome :
       /\ Ends(p, o)
       /\ IF o \in Performed /\ Inserted(r)
          THEN asked' = Asked(r) /\ approval' = [approval EXCEPT ![r] = "pending"]
          ELSE UNCHANGED <<asked, approval>>
  /\ IF work[p].as = "trigger" THEN Return(p) ELSE GoTo(p, "fail")
  /\ UNCHANGED <<status, overlapped>>

\* FinishRun(failed), with the context of the pipeline and its error dropped.
Fail(p) ==
  /\ work[p].step = "fail"
  /\ \E o \in Outcome : Ends(p, o) /\ SetStatus(work[p].run, o, "failed")
  /\ Return(p)
  /\ UNCHANGED <<approval, asked, overlapped>>

\* context.WithTimeout; the scheduler's pipelines have no deadline.
Deadline(p) ==
  /\ work[p].as \in {"trigger", "decision"} /\ ~work[p].late
  /\ Costs(work[p].run, "failed")
  /\ Does(p, [work[p] EXCEPT !.late = TRUE])
  /\ UNCHANGED <<status, approval, asked, overlapped>>

-----------------------------------------------------------------------------
(* Decisions.                                                               *)

\* Mutants: the run of the request is not compared with the pending one; the
\* request found may be resolved already.
DecidableAny(r) == asked # <<>>
DecidableAgain(r) == approval[r] # "none"
Decidable(r) == asked # <<>> /\ Head(asked) = r

GetPendingBudgetApproval(d, r, v) ==
  /\ work[d] = Idle /\ Decidable(r)
  /\ Does(d, [step |-> "resolve", run |-> r, as |-> v, late |-> FALSE])
  /\ overlapped' = IF \E e \in Deciders : Busy(e, r) THEN overlapped \cup {r} ELSE overlapped
  /\ UNCHANGED <<status, approval, asked, hit, faults>>

\* The update does not ask for a pending row.
ResolveBudgetApproval(d) ==
  LET r == work[d].run IN
  /\ work[d].step = "resolve"
  /\ \E o \in Outcome :
       /\ Costs(r, o)
       /\ IF o \in Performed
          THEN asked' = Others(r) /\ approval' = [approval EXCEPT ![r] = work[d].as]
          ELSE UNCHANGED <<asked, approval>>
       /\ IF o # "ok" THEN Return(d)
          ELSE GoTo(d, IF work[d].as = "approved" THEN "start" ELSE "reject")
  /\ UNCHANGED <<status, overlapped>>

Start(d, p) ==
  LET r == work[d].run IN
  /\ work[d].step = "start" /\ work[p] = Idle
  /\ \E o \in Outcome :
       /\ Costs(r, o)
       /\ SetStatus(r, o, "running")
       /\ work' = [work EXCEPT ![d] = Idle,
                               ![p] = IF o = "ok" THEN Launched(r, "decision") ELSE Idle]
  /\ UNCHANGED <<approval, asked, overlapped>>

\* SetRunStatus(rejected), then MarkRunBudgetOverrun and FinishRun(rejected).
Reject(d) ==
  /\ work[d].step = "reject"
  /\ \E o \in Outcome :
       /\ Costs(work[d].run, o)
       /\ SetStatus(work[d].run, o, "rejected")
       /\ IF o = "ok" THEN GoTo(d, "finish") ELSE Return(d)
  /\ UNCHANGED <<approval, asked, overlapped>>

FinishRejected(d) ==
  /\ work[d].step = "finish"
  /\ \E o \in Outcome : Costs(work[d].run, o) /\ SetStatus(work[d].run, o, "rejected")
  /\ Return(d)
  /\ UNCHANGED <<approval, asked, overlapped>>

\* A server ends with all its goroutines and requests.
Crash(T) ==
  /\ T # {} /\ \A t \in T : work[t] # Idle
  /\ faults < MaxFaults
  /\ faults' = faults + 1
  /\ hit' = hit \cup {work[t].run : t \in T}
  /\ work' = [t \in Thread |-> IF t \in T THEN Idle ELSE work[t]]
  /\ UNCHANGED <<status, approval, asked, overlapped>>

-----------------------------------------------------------------------------
Process(p) ==
  \/ Plan(p) \/ Think(p)
  \/ MarkRunPendingApproval(p) \/ CreateBudgetApproval(p) \/ Fail(p)

Decide(r) == \E d \in Deciders, v \in {"approved", "rejected"} : GetPendingBudgetApproval(d, r, v)

Answer(d) ==
  \/ ResolveBudgetApproval(d) \/ Reject(d) \/ FinishRejected(d)
  \/ \E p \in Pipelines : Start(d, p)

Next ==
  \/ \E p \in Pipelines, r \in Runs, who \in Origins : Create(p, r, who)
  \/ \E p \in Pipelines : Process(p) \/ Deadline(p)
  \/ \E r \in Runs : Decide(r)
  \/ \E d \in Deciders : Answer(d)
  \/ \E T \in SUBSET Thread : Crash(T)

Spec == Init /\ [][Next]_vars

\* Goroutines and requests go on to their end; the users look at the topic
\* and decide what it shows, and Start finds a goroutine, of which the
\* program has as many as it needs.
FairSpec ==
  /\ Spec
  /\ \A p \in Pipelines : WF_vars(Process(p))
  /\ \A d \in Deciders : SF_vars(Answer(d))
  /\ WF_vars(\E r \in Runs : Decide(r))

-----------------------------------------------------------------------------
(* Properties.                                                              *)

\* A run the user sees running is worked on by a goroutine, whatever
\* triggers, ticks, decisions and late FinishRun calls do to its row, unless
\* a fault has struck it.
RunningIsWorkedOn ==
  \A r \in Runs \ hit : status[r] = "running" => \E p \in Pipelines : Busy(p, r)

\* A run left in pending_approval can still be approved or rejected.
ParkedCanBeDecided ==
  \A r \in Runs \ hit :
    status[r] = "pending_approval" /\ (\A t \in Thread : ~Busy(t, r))
      => approval[r] = "pending"

\* Nobody spends the budget of a run that waits for its approval or was
\* rejected, and never two at once, also after faults; only two decisions
\* on one run at the same time can break it.
OneWorker ==
  \A r \in Runs \ overlapped :
    LET W == {p \in Pipelines : Busy(p, r) /\ work[p].step \in Working} IN
    /\ \A p, q \in W : p = q
    /\ approval[r] \in {"pending", "rejected"} => W = {}

\* The rows and the threads keep the promise of Permission: a run spends when
\* it begins and once for each approval, and never after a rejection, also
\* after faults; only two decisions on one run at the same time can break it.
Spends(r) == \E p \in Pipelines : Busy(p, r) /\ work[p].step \in Working
Granted(r) == \E d \in Deciders : Busy(d, r) /\ work[d].step = "start"

Stage(r) ==
  IF r \in overlapped THEN "contested"
  ELSE IF Spends(r) THEN "spending"
  ELSE CASE approval[r] = "pending" -> "asked"
         [] approval[r] = "rejected" -> "refused"
         [] approval[r] = "approved" -> IF Granted(r) THEN "given" ELSE "resting"
         [] approval[r] = "none" -> IF status[r] = "none" THEN "new" ELSE "resting"

Permit == INSTANCE Permission WITH stage <- [q \in Runs |-> Stage(q)]
KeepsPermission == Permit!Spec

\* Every request for approval is decided in the end, although only the
\* oldest of a topic can be, and approved runs ask again.
EventuallyDecided == \A r \in Runs : approval[r] = "pending" ~> approval[r] # "pending"

\* "run remains pending approval; do not mark failed yet".
StaysPending ==
  \A r \in Runs :
    approval[r] = "pending" /\ (\A t \in Thread : ~Busy(t, r))
      => status[r] = "pending_approval"
=============================================================================
