------------------------------ MODULE TaskOrder ------------------------------
(***************************************************************************)
(* What the two engines that run plans promise, Executor.Execute           *)
(* (internal/executor/executor.go: "Execute walks the supplied graph") and *)
(* Orchestrator.executeTasks (internal/agent/core/orchestrator.go:         *)
(* "executes all planned tasks in the correct order"): a task is done only *)
(* after the tasks it depends on, and the verdict tells whether all are    *)
(* done, whether those left can never be, or whether something failed.     *)
(***************************************************************************)
CONSTANT Tasks
VARIABLES graph,    \* the tasks of the graph
          needs,    \* the tasks a task depends on
          done,     \* tasks that have succeeded
          verdict   \* "none" until the engine returns

Init ==
  /\ graph \in SUBSET Tasks
  /\ needs \in [Tasks -> SUBSET Tasks]
  /\ done = {}
  /\ verdict = "none"

Ready(t) == t \in graph \ done /\ needs[t] \subseteq done

Complete(t) ==
  /\ verdict = "none" /\ Ready(t)
  /\ done' = done \cup {t}
  /\ UNCHANGED <<graph, needs, verdict>>

Return(v) ==
  /\ verdict = "none"
  /\ \/ v = "ok"    /\ done = graph
     \/ v = "cycle" /\ done # graph /\ \A t \in Tasks : ~Ready(t)
     \/ v = "error"
  /\ verdict' = v
  /\ UNCHANGED <<graph, needs, done>>

Next == (\E t \in Tasks : Complete(t)) \/ (\E v \in {"ok", "cycle", "error"} : Return(v))

Spec == Init /\ [][Next]_<<graph, needs, done, verdict>>
=============================================================================
