----------------------------- MODULE Orchestrator -----------------------------
(***************************************************************************)
(* Orchestrator.ProcessThought (internal/agent/core/orchestrator.go) of    *)
(* one thought: its plan, the waves of goroutines that run the plan's      *)
(* tasks, the budget monitor they share (internal/budget/monitor.go), and  *)
(* the result made of theirs.                                              *)
(***************************************************************************)
EXTENDS Planner, SequencesExt

CONSTANT Usages  \* what the execution of a task may use: cost and tokens

Usage == [cost : Nat, tokens : Nat]
ASSUME UsagesAssumption == Usages \subseteq Usage

VARIABLES
  goroutine, \* of a task
  results,   \* results, in the order of the appends under mu
  executed,
  used,      \* Monitor.costUsed and tokensUsed
  late,      \* whether time.Since(startTime) is over MaxTimeSeconds
  errs,      \* errCh of the wave
  final,     \* CostEstimate and TokensUsed of the ProcessingResult
  pc         \* next step of ProcessThought, or how it ended

execVars == <<goroutine, results, executed, used, late, errs, final, pc>>
vars == <<planVars, execVars>>

-----------------------------------------------------------------------------
Zero == [cost |-> 0, tokens |-> 0]

\* Mutant: what is left instead of what is used.
Minus(u, v) == [cost |-> u.cost - v.cost, tokens |-> u.tokens - v.tokens]
Plus(u, v) == [cost |-> u.cost + v.cost, tokens |-> u.tokens + v.tokens]

Breaches == {"cost", "tokens", "time"}
Error  == [kind : {"task"} \cup Breaches, usage : Usage]
Result == [task : Ids, usage : Usage, good : BOOLEAN, success : BOOLEAN]
Step   == {"plan", "revalidate", "wave", "wait", "synthesise"}
Ended  == {"ok", "not_planned", "bad_document", "cycle", "no_synthesis", "task"} \cup Breaches

\* A goroutine holds its result from Add on until it has recorded it.
Goroutine ==
  [state : {"none", "running"}] \cup [state : {"clock", "record"}, result : Result]
    \cup [state : {"over"}, kind : Breaches]
Idle == [state |-> "none"]
AllIdle == \A id \in Ids : goroutine[id] = Idle

ExecTypeOK ==
  /\ goroutine \in [Ids -> Goroutine]
  /\ results \in Seq(Result)
  /\ executed \subseteq Ids
  /\ used \in Usage
  /\ late \in BOOLEAN
  /\ errs \in Seq(Error)
  /\ pc \in Step \cup Ended

TypeOK == PlanTypeOK /\ ExecTypeOK /\ final \in Usage

Init ==
  /\ PlanInit
  /\ goroutine = [id \in Ids |-> Idle]
  /\ results = <<>>
  /\ executed = {}
  /\ used = Zero
  /\ late = FALSE
  /\ errs = <<>>
  /\ final = Zero
  /\ pc = "plan"

-----------------------------------------------------------------------------
(* The plan.                                                                *)

\* planner.Plan, with no effect outside it.
PlanTask ==
  /\ pc = "plan"
  /\ Plan
  /\ pc' = IF phase' = "planned" THEN "revalidate"
           ELSE IF phase' \in PlanEnd THEN "not_planned" ELSE "plan"
  /\ UNCHANGED <<goroutine, results, executed, used, late, errs, final>>

\* ValidatePlanDocument of plan.RawJSON, before anything is run.
Revalidate ==
  /\ pc = "revalidate"
  /\ pc' = IF ValidStructure /\ ~Cyclic THEN "wave" ELSE "bad_document"
  /\ UNCHANGED <<planVars, goroutine, results, executed, used, late, errs, final>>

-----------------------------------------------------------------------------
(* executeTasks.                                                            *)

Monitored == ~IsZero
Expired == Monitored /\ Positive(budget.maxTime) /\ late

\* Time passes; only the limit's end is told.
Expire ==
  /\ pc \in {"wave", "wait", "synthesise"}
  /\ Monitored /\ Positive(budget.maxTime) /\ ~late
  /\ late' = TRUE
  /\ UNCHANGED <<planVars, goroutine, results, executed, used, errs, final, pc>>

\* Mutant: one dependency executed is enough.
ReadyOne(id) ==
  id \in Known \ executed /\ (needs[id] = {} \/ needs[id] \cap executed # {})
Ready(id) == id \in Known \ executed /\ needs[id] \subseteq executed

\* Mutant: a wave of no task is waited for like any other.
StuckNever == FALSE
Stuck == \A id \in Ids : ~Ready(id)

AllExecuted == Known \subseteq executed

\* Head of the loop; CheckTime is called there and after the last wave.
StartWave ==
  /\ pc = "wave"
  /\ IF Expired THEN pc' = "time" /\ UNCHANGED <<goroutine, errs>>
     ELSE IF AllExecuted THEN pc' = "synthesise" /\ UNCHANGED <<goroutine, errs>>
     ELSE IF Stuck THEN pc' = "cycle" /\ UNCHANGED <<goroutine, errs>>
     ELSE /\ goroutine' = [id \in Ids |-> IF Ready(id) THEN [state |-> "running"] ELSE Idle]
          /\ errs' = <<>>
          /\ pc' = "wait"
  /\ UNCHANGED <<planVars, results, executed, used, late, final>>

\* No tool or agent for the task, or Execute returns an error.
ExecuteFails(id) ==
  /\ goroutine[id].state = "running"
  /\ errs' = Append(errs, [kind |-> "task", usage |-> Zero])
  /\ goroutine' = [goroutine EXCEPT ![id] = Idle]
  /\ UNCHANGED <<planVars, results, executed, used, late, final, pc>>

Over(limit, n) == limit # Unset /\ n > limit

\* Whatever the function of the agent's type says, SimpleAgent.Execute sets
\* Success in its result.
Executed(id, u, good) == [task |-> id, usage |-> u, good |-> good, success |-> TRUE]

\* Execute returns; Monitor.Add in one critical section.
Add(id, u, good) ==
  LET r == Executed(id, u, good)
      sum == Plus(used, u)
  IN
  /\ goroutine[id].state = "running"
  /\ IF Monitored
     THEN /\ used' = sum
          /\ goroutine' = [goroutine EXCEPT ![id] =
               IF Over(budget.maxCost, sum.cost) THEN [state |-> "over", kind |-> "cost"]
               ELSE IF Over(budget.maxTokens, sum.tokens) THEN [state |-> "over", kind |-> "tokens"]
               ELSE [state |-> "clock", result |-> r]]
     ELSE /\ goroutine' = [goroutine EXCEPT ![id] = [state |-> "record", result |-> r]]
          /\ UNCHANGED used
  /\ UNCHANGED <<planVars, results, executed, late, errs, final, pc>>

CheckTime(id) ==
  /\ goroutine[id].state = "clock"
  /\ goroutine' = [goroutine EXCEPT ![id] =
       IF Expired THEN [state |-> "over", kind |-> "time"]
                  ELSE [state |-> "record", result |-> goroutine[id].result]]
  /\ UNCHANGED <<planVars, results, executed, used, late, errs, final, pc>>

\* Mutant: the error says what the limit is and not what was used.
BreachErrorBare(kind) == [kind |-> kind, usage |-> Zero]
\* UsageFromMonitor takes the lock again, after others may have added.
BreachError(kind) == [kind |-> kind, usage |-> used]

Breach(id) ==
  /\ goroutine[id].state = "over"
  /\ errs' = Append(errs, BreachError(goroutine[id].kind))
  /\ goroutine' = [goroutine EXCEPT ![id] = Idle]
  /\ UNCHANGED <<planVars, results, executed, used, late, final, pc>>

Record(id) ==
  /\ goroutine[id].state = "record"
  /\ results' = Append(results, goroutine[id].result)
  /\ executed' = executed \cup {id}
  /\ goroutine' = [goroutine EXCEPT ![id] = Idle]
  /\ UNCHANGED <<planVars, used, late, errs, final, pc>>

\* Mutant: an error ends the run only if no task of the wave has a result.
FailedAlone == errs # <<>> /\ executed = {}
Failed == errs # <<>>

\* wg.Wait; the first error in the channel is returned.
WaveJoined ==
  /\ pc = "wait" /\ AllIdle
  /\ pc' = IF Failed THEN Head(errs).kind ELSE "wave"
  /\ UNCHANGED <<planVars, goroutine, results, executed, used, late, errs, final>>

-----------------------------------------------------------------------------
(* synthesizeResults.                                                       *)

TypeOf(id) == tasks[At(id)].type
Syntheses == {k \in DOMAIN results : TypeOf(results[k].task) = "synthesis" /\ results[k].success}
Chosen == CHOOSE k \in Syntheses : \A l \in Syntheses : l <= k

Spent == FoldLeft(LAMBDA u, r : Plus(u, r.usage), Zero, results)

Synthesise ==
  /\ pc = "synthesise"
  /\ IF Syntheses = {}
     THEN pc' = "no_synthesis" /\ UNCHANGED final
     ELSE /\ pc' = "ok"
          /\ final' = Plus(Spent, results[Chosen].usage)
  /\ UNCHANGED <<planVars, goroutine, results, executed, used, late, errs>>

\* Nothing reads how another task than a synthesis went.
Outcomes(id) == IF id \in Known /\ TypeOf(id) = "synthesis" THEN BOOLEAN ELSE {TRUE}

Goroutines ==
  \E id \in Ids :
    \/ ExecuteFails(id) \/ CheckTime(id) \/ Breach(id) \/ Record(id)
    \/ \E u \in Usages, good \in Outcomes(id) : Add(id, u, good)

ProcessThought == PlanTask \/ Revalidate \/ StartWave \/ WaveJoined \/ Synthesise

Next == ProcessThought \/ Goroutines \/ Expire

Spec == Init /\ [][Next]_vars

\* The code goes on; an agent's call returns (its clients have timeouts).
FairSpec == Spec /\ WF_vars(ProcessThought \/ Goroutines)

-----------------------------------------------------------------------------
(* Properties.                                                              *)

Exceeds(u, kind) ==
  \/ kind = "cost"   /\ budget.maxCost # Unset   /\ u.cost > budget.maxCost
  \/ kind = "tokens" /\ budget.maxTokens # Unset /\ u.tokens > budget.maxTokens

\* The document of a plan, with the order the planner computed for it, passes
\* the validation it passed before: no plan is thrown away for it.
ValidatedAgain == pc # "bad_document"

\* A valid plan can be run: its layers are those of its dependencies, also of
\* the ones that are added, and the orchestrator takes it.
PlanExecutable == LayersCorrect /\ ObedientPlanFeasible /\ ValidatedAgain

\* A thought that ends well is within its budget; one that ends for its budget
\* tells a use over the limit it names, whichever goroutines added to it before
\* the use was read.
BudgetKept ==
  /\ pc = "ok" =>
       /\ errs = <<>>
       /\ Monitored => ~Exceeds(used, "cost") /\ ~Exceeds(used, "tokens")
  /\ pc \in {"cost", "tokens"} => Exceeds(Head(errs).usage, pc)

\* No task starts after a task has failed or the monitor has passed a limit,
\* other than those of the wave in which it happened.
StopsWhenOver ==
  [][(\E id \in Ids : goroutine[id] = Idle /\ goroutine'[id].state = "running") =>
        /\ errs = <<>>
        /\ Monitored => ~Exceeds(used, "cost") /\ ~Exceeds(used, "tokens")]_vars

\* The report is made of one result for each task, which tell all the monitor
\* has counted, and is the one of the plan's last synthesis, run when every other
\* task had its result, even if other syntheses of the plan ended in any order.
ReportComplete ==
  pc = "ok" =>
    /\ Monitored => used = Spent
    /\ {results[k].task : k \in DOMAIN results} = Known /\ Len(results) = Cardinality(Known)
    /\ Chosen = Len(results)
    /\ FinalSynthesis(At(results[Chosen].task))

\* ProcessThought returns: for plans with a cycle, for failing agents and for
\* budgets that end at any moment.
EventuallyReturns == <>(pc \in Ended)

\* What synthesizeResults takes as the report is a synthesis that succeeded.
SynthesisSucceeded == pc = "ok" => results[Chosen].good

\* executeTasks keeps the promise the graph executor makes: a result only after
\* those it depends on, and in the end all results, or a cycle, or an error.
Order == INSTANCE TaskOrder WITH
  Tasks <- Ids,
  graph <- Known,
  needs <- [id \in Ids |-> IF ValidTasks /\ id \in Known THEN Normalised(At(id)) ELSE {}],
  done <- executed,
  verdict <- IF pc \in {"synthesise", "ok", "no_synthesis"} THEN "ok"
             ELSE IF pc = "cycle" THEN "cycle"
             ELSE IF pc \in Ended THEN "error" ELSE "none"
KeepsOrder == Order!Spec
=============================================================================
