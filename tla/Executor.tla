------------------------------ MODULE Executor ------------------------------
(***************************************************************************)
(* Executor.Execute (internal/executor): runs the tasks of a graph in      *)
(* dependency order, each with its retries, and records them with          *)
(* StoreCheckpointManager.  An action is one iteration of one of its       *)
(* loops, or one call of the checkpoint manager or of the runner.          *)
(***************************************************************************)
EXTENDS Integers, Sequences, FiniteSets

CONSTANTS
  Tasks,       \* keys of Graph.Tasks
  Missing,     \* a name in DependsOn that is no key
  MaxRetries,  \* Task.MaxRetries
  Stages,
  StageOf,     \* Task.Stage, or its ID
  MaxDeps      \* bound: length of DependsOn

ASSUME TasksAssumption ==
  /\ IsFiniteSet(Tasks) /\ Missing \notin Tasks
  /\ MaxRetries \in [Tasks -> Int]
  /\ StageOf \in [Tasks -> Stages]
  /\ MaxDeps \in Nat

VARIABLES
  dependsOn,   \* Task.DependsOn
  indegree,
  unseeded,    \* keys the loop that fills the queue has not visited
  queue,
  order,
  current,     \* the task taken from the queue last
  attempt,
  edges,       \* entries of adjacency[current] not yet walked
  done,        \* tasks that have succeeded
  tried,       \* calls of RunTask for a task
  checkpoint,  \* queue_checkpoints of the run, a row for every stage
  pc           \* next step, or what Execute returned

graphVars == <<dependsOn, indegree, unseeded, queue, order, edges>>
vars == <<graphVars, current, attempt, done, tried, checkpoint, pc>>

-----------------------------------------------------------------------------
Returned == {"ok", "unknown", "cycle", "failed", "error", "crashed"}
Step == {"build", "seed", "next", "start", "run", "success", "failure", "release"}

NoCheckpoint == [task |-> Missing, status |-> "none", retries |-> 0]
Checkpoint   == [task : Tasks, status : {"dispatched", "completed"}, retries : Nat]

Positions(t) == DOMAIN dependsOn[t]
Edge == {x \in Tasks \X (1..MaxDeps) : x[2] \in Positions(x[1])}
\* adjacency[d]: one entry for every time a task lists d.
Adjacency(d) == {x \in Edge : dependsOn[x[1]][x[2]] = d}
DependsOnMissing == \E x \in Edge : dependsOn[x[1]][x[2]] = Missing
Needs(t) == {dependsOn[t][i] : i \in Positions(t)}

Lists == UNION {[1..n -> Tasks \cup {Missing}] : n \in 0..MaxDeps}

TypeOK ==
  /\ dependsOn \in [Tasks -> Lists]
  /\ indegree \in [Tasks -> Nat]
  /\ unseeded \subseteq Tasks
  /\ queue \in Seq(Tasks)
  /\ order \in Seq(Tasks)
  /\ edges \subseteq Edge
  /\ current \in Tasks \cup {Missing}
  /\ attempt \in Nat
  /\ done \subseteq Tasks
  /\ tried \in [Tasks -> Nat]
  /\ checkpoint \in [Stages -> Checkpoint \cup {NoCheckpoint}]
  /\ pc \in Step \cup Returned

Init ==
  /\ dependsOn \in [Tasks -> Lists]
  /\ indegree = [t \in Tasks |-> 0]
  /\ unseeded = Tasks
  /\ queue = <<>>
  /\ order = <<>>
  /\ edges = {}
  /\ current = Missing
  /\ attempt = 0
  /\ done = {}
  /\ tried = [t \in Tasks |-> 0]
  /\ checkpoint = [s \in Stages |-> NoCheckpoint]
  /\ pc = "build"

-----------------------------------------------------------------------------
(* Before the first task.                                                   *)

\* Mutant: a dependency listed twice counts once.
IndegreeDistinct(t) == Cardinality(Needs(t))
InitialIndegree(t) == Len(dependsOn[t])

\* Unknown names end Execute before StartRun is called.
Build ==
  /\ pc = "build"
  /\ IF DependsOnMissing
     THEN pc' = "unknown" /\ UNCHANGED indegree
     ELSE /\ indegree' = [t \in Tasks |-> InitialIndegree(t)]
          /\ pc' \in {"seed", "error"}
  /\ UNCHANGED <<dependsOn, unseeded, queue, order, edges, current, attempt, done,
                 tried, checkpoint>>

\* The keys of a map come in any order.
Seed(t) ==
  /\ pc = "seed" /\ t \in unseeded
  /\ unseeded' = unseeded \ {t}
  /\ queue' = IF indegree[t] = 0 THEN Append(queue, t) ELSE queue
  /\ UNCHANGED <<dependsOn, indegree, order, edges, current, attempt, done, tried,
                 checkpoint, pc>>

Seeded ==
  /\ pc = "seed" /\ unseeded = {}
  /\ pc' = "next"
  /\ UNCHANGED <<graphVars, current, attempt, done, tried, checkpoint>>

-----------------------------------------------------------------------------
(* The tasks, one after the other.                                          *)

TakeNext ==
  /\ pc = "next" /\ queue # <<>>
  /\ current' = Head(queue)
  /\ queue' = Tail(queue)
  /\ order' = Append(order, Head(queue))
  /\ attempt' = 0
  /\ pc' = "start"
  /\ UNCHANGED <<dependsOn, indegree, unseeded, edges, done, tried, checkpoint>>

\* Mutant: the loop runs until all tasks are in the order.
DrainedAll == queue = <<>> /\ Len(order) = Cardinality(Tasks)
Drained == queue = <<>>

\* Mutant: the order is not compared with the graph.
VerdictOk == "ok"
Verdict == IF Len(order) # Cardinality(Tasks) THEN "cycle" ELSE "ok"

QueueEmpty ==
  /\ pc = "next" /\ Drained
  /\ pc' = Verdict
  /\ UNCHANGED <<graphVars, current, attempt, done, tried, checkpoint>>

\* UpsertCheckpoint may fail with or without having written the row, which is
\* that of the stage: tasks that share one overwrite each other's.
Upsert(t, status, retries, after) ==
  LET row == [task |-> t, status |-> status, retries |-> retries] IN
  \E written, ok \in BOOLEAN :
    /\ ok => written
    /\ checkpoint' = IF written THEN [checkpoint EXCEPT ![StageOf[t]] = row] ELSE checkpoint
    /\ IF ok THEN after ELSE pc' = "error" /\ UNCHANGED attempt

SaveTaskStart ==
  /\ pc = "start"
  /\ Upsert(current, "dispatched", attempt, pc' = "run" /\ UNCHANGED attempt)
  /\ UNCHANGED <<graphVars, current, done, tried>>

RunTask ==
  /\ pc = "run"
  /\ tried' = [tried EXCEPT ![current] = @ + 1]
  /\ pc' \in {"success", "failure"}
  /\ UNCHANGED <<graphVars, current, attempt, done, checkpoint>>

\* StoreCheckpointManager.SaveTaskSuccess writes nothing.
SaveTaskSuccess ==
  /\ pc = "success"
  /\ \/ /\ pc' = "release"
        /\ done' = done \cup {current}
        /\ edges' = Adjacency(current)
     \/ pc' = "error" /\ UNCHANGED <<done, edges>>
  /\ UNCHANGED <<dependsOn, indegree, unseeded, queue, order, current, attempt,
                 tried, checkpoint>>

Retries(t) == IF MaxRetries[t] < 0 THEN 0 ELSE MaxRetries[t]

\* Mutant: one retry more than MaxRetries.
GiveUpLate(next) == next > Retries(current) + 1
GiveUp(next) == next > Retries(current)

\* Mutant: the count of the attempt that failed, not of the next one.
FailureRetriesSame == attempt
FailureRetries == attempt + 1

SaveTaskFailure ==
  /\ pc = "failure"
  /\ Upsert(current, "completed", FailureRetries,
            IF GiveUp(attempt + 1) THEN pc' = "failed" /\ UNCHANGED attempt
                                   ELSE pc' = "start" /\ attempt' = attempt + 1)
  /\ UNCHANGED <<graphVars, current, done, tried>>

\* Mutant: a task is ready when one dependency is left.
FreeEarly(n) == n <= 1
Free(n) == n = 0

Release(x) ==
  LET left == indegree[x[1]] - 1 IN
  /\ pc = "release" /\ x \in edges
  /\ edges' = edges \ {x}
  /\ indegree' = [indegree EXCEPT ![x[1]] = left]
  /\ queue' = IF Free(left) THEN Append(queue, x[1]) ELSE queue
  /\ UNCHANGED <<dependsOn, unseeded, order, current, attempt, done, tried,
                 checkpoint, pc>>

Released ==
  /\ pc = "release" /\ edges = {}
  /\ pc' = "next"
  /\ UNCHANGED <<graphVars, current, attempt, done, tried, checkpoint>>

\* The process ends between two calls.
Crash ==
  /\ pc \in Step
  /\ pc' = "crashed"
  /\ UNCHANGED <<graphVars, current, attempt, done, tried, checkpoint>>

Execute ==
  \/ Build \/ (\E t \in Tasks : Seed(t)) \/ Seeded
  \/ TakeNext \/ QueueEmpty
  \/ SaveTaskStart \/ RunTask \/ SaveTaskSuccess \/ SaveTaskFailure
  \/ (\E x \in Edge : Release(x)) \/ Released

Next == Execute \/ Crash

Spec == Init /\ [][Next]_vars

\* Execute is sequential code: it goes on until it returns.
FairSpec == Spec /\ WF_vars(Execute)

-----------------------------------------------------------------------------
(* Properties.                                                              *)

\* A task starts once, and only after every task it depends on has succeeded,
\* a dependency listed twice included ("enforcing dependency order").
DependenciesFirst ==
  \A i \in 1..Len(order) :
    /\ Needs(order[i]) \subseteq done
    /\ \A j \in 1..Len(order) : j # i => order[j] # order[i]
    /\ Needs(order[i]) \subseteq {order[j] : j \in 1..(i - 1)}

\* Tasks that wait for each other: the reference for ErrCycleDetected.
Deadlocked(S) == S # {} /\ \A t \in S : Needs(t) \cap S # {}

\* Counting indegrees finds exactly the graphs with a cycle, and an answer
\* without error means that every task has succeeded.
CycleVerdict ==
  /\ pc = "cycle" => \E S \in SUBSET Tasks : Deadlocked(S)
  /\ pc = "ok" => done = Tasks /\ ~\E S \in SUBSET Tasks : Deadlocked(S)

\* "Flaky tool retries capped": a task is tried MaxRetries + 1 times at most,
\* once when MaxRetries is negative, and given up only after that.
RetriesCapped ==
  /\ \A t \in Tasks : tried[t] <= Retries(t) + 1
  /\ pc = "failed" => tried[current] = Retries(current) + 1

\* The retries a checkpoint tells are the failed tries of its task, whichever
\* of its writes failed half-way: none is lost, none counted twice.  Tasks may
\* share a stage and its checkpoint: of what was tried, only a task that has
\* succeeded goes without.
RetriesTold ==
  /\ \A s \in Stages : LET row == checkpoint[s] IN
       \/ row = NoCheckpoint
       \/ row.status = "completed" /\ row.retries = tried[row.task]
       \/ row.status = "dispatched" /\ tried[row.task] \in {row.retries, row.retries + 1}
  /\ \A t \in Tasks : tried[t] > 0 => t \in done \/ checkpoint[StageOf[t]].task = t

\* Flaky tasks are retried as often as they may be, and their checkpoints tell it.
RetriesRight == RetriesCapped /\ RetriesTold

\* Execute returns for every graph, cyclic ones and failing tasks included.
EventuallyReturns == <>(pc \in Returned)

\* Execute keeps the promise of TaskOrder.
Order == INSTANCE TaskOrder WITH
  graph <- Tasks,
  needs <- [t \in Tasks |-> Needs(t) \cap Tasks],
  verdict <- IF pc \in {"ok", "cycle"} THEN pc
             ELSE IF pc \in Returned THEN "error" ELSE "none"
KeepsOrder == Order!Spec
=============================================================================
