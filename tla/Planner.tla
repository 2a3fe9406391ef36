------------------------------- MODULE Planner -------------------------------
(***************************************************************************)
(* Planner.Plan (internal/agent/core/planner.go) with                      *)
(* NormalizePlanDocument (internal/planner/schema.go): from the document a *)
(* language model answers with to the tasks that are run.  An action is    *)
(* one pass over the document.                                             *)
(***************************************************************************)
EXTENDS Integers, Sequences, FiniteSets

CONSTANTS
  Ids,        \* ids of tasks
  Missing,    \* an id no task has
  Documents,  \* answers of the language model that match the JSON schema
  Budgets,    \* budget.Config of a topic
  Estimates,  \* sums of ToolCard.CostEstimate
  Unset       \* a nil pointer

Types == {"research", "knowledge_graph", "synthesis", "other", "unknown"}
Names == Ids \cup {Missing}
Task  == [id : Ids, type : Types, dependsOn : Seq(Names)]
Limit == Nat \cup {Unset}
Budget == [maxCost : Limit, maxTokens : Limit, maxTime : Limit,
           threshold : Limit, requireApproval : BOOLEAN]

ASSUME PlannerAssumption ==
  /\ IsFiniteSet(Ids) /\ Missing \notin Ids
  /\ Documents \subseteq [tasks : Seq(Task), order : Seq(Names)]
  /\ Budgets \subseteq Budget
  /\ Estimates \subseteq Nat
  /\ Unset \notin Nat

VARIABLES
  tasks,     \* PlanDocument.Tasks
  order,     \* PlanDocument.ExecutionOrder
  indegree,  \* by position in tasks
  queue,     \* positions whose indegree is 0 and that are in no layer yet
  layers,    \* ExecutionLayers: sets of positions
  needs,     \* AgentTask.DependsOn of the plan
  budget,    \* UserThought.Budget
  phase      \* next step of Plan, or how it ended

planVars == <<tasks, order, indegree, queue, layers, needs, budget, phase>>

-----------------------------------------------------------------------------
Position == DOMAIN tasks
Known == {tasks[i].id : i \in Position}
Entries(i) == DOMAIN tasks[i].dependsOn
DependsOn(i) == {tasks[i].dependsOn[k] : k \in Entries(i)}
At(id) == CHOOSE i \in Position : tasks[i].id = id

PlanStep == {"ask", "structure", "layers", "validate", "budget", "normalise"}
PlanEnd  == {"rejected", "invalid", "approval", "planned"}

PlanTypeOK ==
  /\ tasks \in Seq(Task)
  /\ order \in Seq(Names)
  /\ indegree \in [Position -> Int]
  /\ queue \subseteq Position
  /\ layers \in Seq(SUBSET Position)
  /\ needs \in [Ids -> SUBSET Names]
  /\ budget \in Budget
  /\ phase \in PlanStep \cup PlanEnd

PlanInit ==
  /\ \E d \in Documents : tasks = d.tasks /\ order = d.order
  /\ budget \in Budgets
  /\ indegree = [i \in Position |-> 0]
  /\ queue = {}
  /\ layers = <<>>
  /\ needs = [id \in Ids |-> {}]
  /\ phase = "ask"

-----------------------------------------------------------------------------
(* NormalizePlanDocument.                                                   *)

\* validateExecutionOrder: every task once, after its dependencies.
ValidOrder ==
  /\ \A k \in DOMAIN order :
       /\ order[k] \in Known
       /\ \A j \in 1..(k - 1) : order[j] # order[k]
       /\ DependsOn(At(order[k])) \subseteq {order[j] : j \in 1..(k - 1)}
  /\ Known \subseteq {order[k] : k \in DOMAIN order}

\* validatePlanStructure, the tasks.
ValidTasks ==
  /\ tasks # <<>>
  /\ \A i, j \in Position : tasks[i].id = tasks[j].id => i = j
  /\ \A i \in Position :
       /\ DependsOn(i) \subseteq Known \ {tasks[i].id}
       /\ \A k, l \in Entries(i) :
            tasks[i].dependsOn[k] = tasks[i].dependsOn[l] => k = l

ValidStructure == ValidTasks /\ (order # <<>> => ValidOrder)

\* Generate fails, or its answer holds no document of the schema.
Ask ==
  /\ phase = "ask"
  /\ phase' \in {"structure", "rejected"}
  /\ UNCHANGED <<tasks, order, indegree, queue, layers, needs, budget>>

\* The dependencies of i on tasks at the positions in S.
EntriesOn(i, S) ==
  Cardinality({k \in Entries(i) : tasks[i].dependsOn[k] \in {tasks[j].id : j \in S}})

Structure ==
  /\ phase = "structure"
  /\ IF ValidStructure
     THEN /\ phase' = "layers"
          /\ indegree' = [i \in Position |-> EntriesOn(i, Position)]
          /\ queue' = {i \in Position : indegree'[i] = 0}
     ELSE phase' = "rejected" /\ UNCHANGED <<indegree, queue>>
  /\ UNCHANGED <<tasks, order, layers, needs, budget>>

\* Mutant: a task is in the layer after its first dependency.
ReleasedEarly(left, before) == left < before
Released(left, before) == left = 0 /\ left < before

\* An iteration of the loop of computeExecutionHints.
NextLayer ==
  /\ phase = "layers" /\ queue # {}
  /\ layers' = Append(layers, queue)
  /\ indegree' = [i \in Position |-> indegree[i] - EntriesOn(i, queue)]
  /\ queue' = {i \in Position : Released(indegree'[i], indegree[i])}
  /\ UNCHANGED <<tasks, order, needs, budget, phase>>

Layered == UNION {layers[k] : k \in DOMAIN layers}
LayerOf(i) == CHOOSE k \in DOMAIN layers : i \in layers[k]

\* Mutant: a task of a later layer is sorted by its place in the document.
PrecedesInDoc(i, j) == i < j
Precedes(i, j) ==
  \/ LayerOf(i) < LayerOf(j)
  \/ LayerOf(i) = LayerOf(j) /\ i < j

\* The layers one after the other, each in the order of the document.
Flattened == [n \in Position |->
  tasks[CHOOSE i \in Position : Cardinality({j \in Position : Precedes(j, i)}) = n - 1].id]

AllLayered == Layered = Position

LayersDone ==
  /\ phase = "layers" /\ queue = {}
  /\ IF AllLayered
     THEN phase' = "validate" /\ order' = Flattened
     ELSE phase' = "rejected" /\ UNCHANGED order
  /\ UNCHANGED <<tasks, indegree, queue, layers, needs, budget>>

-----------------------------------------------------------------------------
(* Plan, after the document is parsed.                                      *)

Typed(type) == {i \in Position : tasks[i].type = type}

\* ValidatePlan; cycles and unknown dependencies are gone by now.
ValidatePlan ==
  /\ phase = "validate"
  /\ phase' = IF Typed("unknown") = {} /\ Typed("synthesis") # {} /\ Typed("knowledge_graph") # {}
              THEN "budget" ELSE "invalid"
  /\ UNCHANGED <<tasks, order, indegree, queue, layers, needs, budget>>

Positive(limit) == limit # Unset /\ limit # 0

\* budget.Config.IsZero.
IsZero ==
  /\ ~Positive(budget.maxCost) /\ ~Positive(budget.maxTokens)
  /\ ~Positive(budget.maxTime) /\ ~Positive(budget.threshold)
  /\ ~budget.requireApproval

OverThreshold(estimate) == budget.threshold # Unset /\ estimate > budget.threshold

ApplyBudget ==
  /\ phase = "budget"
  /\ \E estimate \in Estimates :
       phase' = IF ~IsZero /\ (budget.requireApproval \/ OverThreshold(estimate))
                THEN "approval" ELSE "normalise"
  /\ UNCHANGED <<tasks, order, indegree, queue, layers, needs, budget>>

IdsAt(S) == {tasks[i].id : i \in S}

\* synthIndex: the last synthesis task of the document.
FinalSynthesis(i) == i \in Typed("synthesis") /\ \A j \in Typed("synthesis") : j <= i

\* Mutant: the graph waits for everything but itself.
ForGraphAll == Position
ForGraph == Typed("research")

\* Mutant: the synthesis keeps the dependencies it came with.
ForSynthesisNone == {}
ForSynthesis == Position

\* The dependencies of the plan's tasks; those of the document stay as they are.
Normalised(i) ==
  DependsOn(i)
    \cup (IF FinalSynthesis(i) THEN IdsAt(ForSynthesis \ {i}) ELSE {})
    \cup (IF i \in Typed("knowledge_graph") THEN IdsAt(ForGraph \ {i}) ELSE {})

NormaliseDependencies ==
  /\ phase = "normalise"
  /\ needs' = [id \in Ids |-> IF id \in Known THEN Normalised(At(id)) ELSE {}]
  /\ phase' = "planned"
  /\ UNCHANGED <<tasks, order, indegree, queue, layers, budget>>

Plan ==
  \/ Ask \/ Structure \/ NextLayer \/ LayersDone
  \/ ValidatePlan \/ ApplyBudget \/ NormaliseDependencies

-----------------------------------------------------------------------------
(* Properties.                                                              *)

\* Tasks that wait for each other: the reference for what the passes find.
Deadlocked(S, waitsFor(_)) == S # {} /\ \A i \in S : waitsFor(i) \cap IdsAt(S) # {}
Cyclic == \E S \in SUBSET Position : Deadlocked(S, DependsOn)

\* The document gets past computeExecutionHints exactly when it has no cycle,
\* and then every task is in the layer after the last of its dependencies.
LayersCorrect ==
  /\ phase \in {"validate", "invalid", "budget", "approval", "normalise", "planned"} =>
       /\ ~Cyclic
       /\ \A i \in Position :
            /\ Cardinality({k \in DOMAIN layers : i \in layers[k]}) = 1
            /\ \A j \in Position : tasks[j].id \in DependsOn(i) => LayerOf(j) < LayerOf(i)
            /\ LayerOf(i) > 1 => \E j \in Position :
                 tasks[j].id \in DependsOn(i) /\ LayerOf(j) = LayerOf(i) - 1
  /\ phase = "rejected" /\ (\E i \in Position : indegree[i] # 0) => Cyclic

\* A document that follows the prompt (the synthesis last, the graphs after
\* research and analysis) is still without a cycle after the dependencies Plan
\* adds to those of the document.
Obedient ==
  /\ \A i, j \in Position : FinalSynthesis(i) => tasks[i].id \notin DependsOn(j)
  /\ \A i \in Typed("research"), j \in Typed("knowledge_graph") :
       LayerOf(i) <= LayerOf(j)
ObedientPlanFeasible ==
  phase = "planned" /\ Obedient =>
    ~\E S \in SUBSET Position : Deadlocked(S, LAMBDA i : needs[tasks[i].id])
=============================================================================
