--------------------------- MODULE ExecutorProofs ---------------------------
(***************************************************************************)
(* Proofs about Executor, for any finite set of tasks, any graph over them *)
(* and any retry counts.                                                   *)
(***************************************************************************)
EXTENDS Executor, FiniteSetTheorems, TLAPS

-----------------------------------------------------------------------------
(* Sequences as queues. *)

Ran(s) == {s[i] : i \in 1..Len(s)}
Distinct(s) == \A i, j \in 1..Len(s) : s[i] = s[j] => i = j

\* Append adds one element at the end.
LEMMA AppendRan ==
  ASSUME NEW S, NEW s \in Seq(S), NEW x \in S
  PROVE  /\ Append(s, x) \in Seq(S)
         /\ Len(Append(s, x)) = Len(s) + 1
         /\ \A i \in 1..Len(s) : Append(s, x)[i] = s[i]
         /\ Append(s, x)[Len(s) + 1] = x
         /\ Ran(Append(s, x)) = Ran(s) \cup {x}
         /\ Distinct(s) /\ x \notin Ran(s) => Distinct(Append(s, x))
<1>1. /\ Append(s, x) \in Seq(S)
      /\ Len(Append(s, x)) = Len(s) + 1
      /\ \A i \in 1..Len(s) : Append(s, x)[i] = s[i]
      /\ Append(s, x)[Len(s) + 1] = x
  OBVIOUS
<1> DEFINE a == Append(s, x)
<1> HIDE DEF a
<1>2. Len(s) \in Nat
  OBVIOUS
<1>3. Ran(a) = Ran(s) \cup {x}
  <2>1. ASSUME NEW y \in Ran(a) PROVE y \in Ran(s) \cup {x}
    BY <1>1, <1>2 DEF Ran, a
  <2>2. ASSUME NEW y \in Ran(s) PROVE y \in Ran(a)
    BY <1>1, <1>2 DEF Ran, a
  <2>3. x \in Ran(a)
    BY <1>1, <1>2 DEF Ran, a
  <2> QED
    BY <2>1, <2>2, <2>3
<1>4. ASSUME Distinct(s), x \notin Ran(s) PROVE Distinct(a)
  BY <1>1, <1>2, <1>4 DEF Distinct, Ran, a
<1> QED
  BY <1>1, <1>3, <1>4 DEF a

\* Tail takes the first element away.
LEMMA TailRan ==
  ASSUME NEW S, NEW s \in Seq(S), s # <<>>
  PROVE  /\ Tail(s) \in Seq(S) /\ Head(s) \in S
         /\ Ran(s) = {Head(s)} \cup Ran(Tail(s))
         /\ Distinct(s) => Distinct(Tail(s)) /\ Head(s) \notin Ran(Tail(s))
<1>1. /\ Tail(s) \in Seq(S) /\ Head(s) \in S
      /\ Len(s) \in Nat \ {0} /\ Len(Tail(s)) = Len(s) - 1
      /\ Head(s) = s[1]
      /\ \A i \in 1..(Len(s) - 1) : Tail(s)[i] = s[i + 1]
  OBVIOUS
<1> DEFINE q == Tail(s)
           h == Head(s)
<1> HIDE DEF q, h
<1>2. Ran(s) = {h} \cup Ran(q)
  <2>1. ASSUME NEW i \in 1..Len(s) PROVE s[i] \in {h} \cup Ran(q)
    <3>1. CASE i = 1
      BY <1>1, <3>1 DEF h
    <3>2. CASE i # 1
      <4>1. i - 1 \in 1..Len(q) /\ q[i - 1] = s[i]
        BY <1>1, <3>2 DEF q
      <4> QED
        BY <4>1 DEF Ran
    <3> QED
      BY <3>1, <3>2
  <2>2. ASSUME NEW i \in 1..Len(q) PROVE q[i] \in Ran(s)
    BY <1>1 DEF Ran, q
  <2>3. h \in Ran(s)
    BY <1>1 DEF Ran, h
  <2> QED
    BY <2>1, <2>2, <2>3 DEF Ran
<1>3. ASSUME Distinct(s) PROVE Distinct(q) /\ h \notin Ran(q)
  BY <1>1, <1>3 DEF Distinct, Ran, q, h
<1> QED
  BY <1>1, <1>2, <1>3 DEF q, h

\* The empty sequence has no elements.
LEMMA EmptyRan == Ran(<<>>) = {} /\ Distinct(<<>>)
BY DEF Ran, Distinct

\* DependsOn is a list: its positions are 1 up to its length.
LEMMA ListsAreSequences ==
  ASSUME NEW s \in Lists
  PROVE  /\ Len(s) \in Nat /\ Len(s) <= MaxDeps
         /\ DOMAIN s = 1..Len(s)
         /\ \A i \in 1..Len(s) : s[i] \in Tasks \cup {Missing}
<1>1. PICK n \in 0..MaxDeps : s \in [1..n -> Tasks \cup {Missing}]
  BY DEF Lists
<1>2. n \in Nat
  BY <1>1, TasksAssumption
<1>3. s \in Seq(Tasks \cup {Missing}) /\ Len(s) = n
  BY <1>1, <1>2
<1> QED
  BY <1>1, <1>2, <1>3, TasksAssumption

-----------------------------------------------------------------------------
(* Types, and what each step of Execute knows. *)

Busy == {"start", "run", "success", "failure"}
\* The graph is known to have no missing names and indegrees are counted.
Live == (Step \ {"build"}) \cup {"ok", "cycle"}

Control ==
  /\ pc \in Busy => Ran(order) = done \cup {current}
  /\ done \subseteq Ran(order)
  /\ pc \in Busy \cup {"failed"} => current \in Tasks \ done
  /\ pc = "release" => current \in done
  /\ pc \in {"next", "release", "ok", "cycle"} => Ran(order) = done
  /\ pc \in {"build", "seed"} => order = <<>> /\ done = {}
  /\ pc = "build" => queue = <<>> /\ unseeded = Tasks
  /\ pc \in Live \ {"seed"} => unseeded = {}
  /\ pc \in (Live \cup {"build"}) \ {"release"} => edges = {}
  /\ pc \in {"ok", "cycle"} => queue = <<>>

\* The dependencies of t still counted in its indegree.
Open(t) == {i \in Positions(t) : dependsOn[t][i] \notin done \/ <<t, i>> \in edges}

Counted ==
  pc \in Live =>
    /\ ~DependsOnMissing
    /\ \A t \in Tasks : indegree[t] = Cardinality(Open(t))
    /\ \A x \in edges : dependsOn[x[1]][x[2]] = current

\* The tasks without open dependencies are those in the queue or begun.
Queued ==
  pc \in Live =>
    /\ Distinct(queue)
    /\ Ran(queue) \cap Ran(order) = {}
    /\ Ran(queue) \cap unseeded = {}
    /\ \A t \in Tasks \ unseeded : indegree[t] = 0 <=> t \in Ran(queue) \cup Ran(order)

Ordered ==
  /\ DependenciesFirst
  /\ IsFiniteSet(Ran(order)) /\ Cardinality(Ran(order)) = Len(order)
  /\ \A S \in SUBSET done : ~Deadlocked(S)

Judged ==
  /\ pc = "cycle" => Deadlocked(Tasks \ done)
  /\ pc = "ok" => done = Tasks

IInv == TypeOK /\ Control /\ Counted /\ Queued /\ Ordered /\ Judged

\* What Execute starts from.
LEMMA InitIInv == Init => IInv
<1> SUFFICES ASSUME Init PROVE IInv
  OBVIOUS
<1>1. TypeOK
  BY TasksAssumption DEF Init, TypeOK, Step, Returned
<1>2. Control
  BY EmptyRan DEF Init, Control, Live, Busy, Step
<1>3. Counted /\ Queued /\ Judged
  BY DEF Init, Counted, Queued, Judged, Live, Step
<1>4. Ordered
  <2>1. order = <<>> /\ done = {}
    BY DEF Init
  <2>2. DependenciesFirst
    BY <2>1 DEF DependenciesFirst
  <2>3. IsFiniteSet(Ran(order)) /\ Cardinality(Ran(order)) = Len(order)
    BY <2>1, EmptyRan, FS_EmptySet
  <2>4. \A S \in SUBSET done : ~Deadlocked(S)
    BY <2>1 DEF Deadlocked
  <2> QED
    BY <2>2, <2>3, <2>4 DEF Ordered
<1> QED
  BY <1>1, <1>2, <1>3, <1>4 DEF IInv

\* The open dependencies of a task can be counted.
LEMMA OpenIsFinite ==
  ASSUME TypeOK, NEW t \in Tasks
  PROVE  /\ Open(t) \subseteq 1..Len(dependsOn[t])
         /\ IsFiniteSet(Open(t)) /\ Cardinality(Open(t)) \in Nat
         /\ indegree[t] = Cardinality(Open(t)) => (indegree[t] = 0 <=> Open(t) = {})
<1>1. dependsOn[t] \in Lists
  BY DEF TypeOK
<1>2. Open(t) \subseteq 1..Len(dependsOn[t]) /\ Len(dependsOn[t]) \in Nat
  BY <1>1, ListsAreSequences DEF Open, Positions
<1>3. IsFiniteSet(1..Len(dependsOn[t]))
  BY <1>2, FS_Interval
<1>4. IsFiniteSet(Open(t))
  BY <1>2, <1>3, FS_Subset
<1>5. Cardinality(Open(t)) \in Nat
  BY <1>4, FS_CardinalityType
<1>6. Cardinality(Open(t)) = 0 <=> Open(t) = {}
  BY <1>4, FS_EmptySet
<1> QED
  BY <1>2, <1>4, <1>5, <1>6

\* A step that leaves the graph, the queue and the finished tasks alone.
LEMMA QuietStep ==
  ASSUME IInv, UNCHANGED <<graphVars, current, done>>, pc' \in Live => pc \in Live
  PROVE  Counted' /\ Queued' /\ Ordered'
<1> USE DEF graphVars
<1>1. Counted'
  <2>1. \A t \in Tasks : Open(t)' = Open(t)
    BY DEF Open, Positions
  <2> QED
    BY <2>1 DEF IInv, Counted, DependsOnMissing, Edge, Positions
<1>2. Queued'
  BY DEF IInv, Queued
<1>3. Ordered'
  <2>1. \A t : Needs(t)' = Needs(t)
    BY DEF Needs, Positions
  <2>2. DependenciesFirst'
    BY <2>1 DEF IInv, Ordered, DependenciesFirst
  <2>3. IsFiniteSet(Ran(order))' /\ Cardinality(Ran(order))' = Len(order)'
    BY DEF IInv, Ordered
  <2>4. \A S : Deadlocked(S)' = Deadlocked(S)
    BY <2>1 DEF Deadlocked
  <2> QED
    BY <2>2, <2>3, <2>4 DEF IInv, Ordered
<1> QED
  BY <1>1, <1>2, <1>3

-----------------------------------------------------------------------------
(* The steps of Execute. *)

\* Types are kept, but for the two loops that count indegrees down: there an
\* open dependency keeps the count above zero.
LEMMA TypeStep == IInv /\ [Next]_vars => TypeOK'
<1> SUFFICES ASSUME IInv, [Next]_vars PROVE TypeOK'
  OBVIOUS
<1>0. TypeOK /\ Control
  BY DEF IInv
<1> USE <1>0, TasksAssumption DEF TypeOK, graphVars, Step, Returned
<1>1. CASE UNCHANGED vars
  BY <1>1 DEF vars, Edge, Positions
<1>2. CASE Build
  <2>1. \A t \in Tasks : dependsOn[t] \in Lists /\ Len(dependsOn[t]) \in Nat
    BY ListsAreSequences
  <2> QED
    BY <1>2, <2>1 DEF Build, InitialIndegree, Edge, Positions
<1>3. ASSUME NEW t \in Tasks, Seed(t) PROVE TypeOK'
  BY <1>3, AppendRan DEF Seed, Edge, Positions
<1>4. CASE Seeded
  BY <1>4 DEF Seeded, Edge, Positions
<1>5. CASE TakeNext
  <2>1. Tail(queue) \in Seq(Tasks) /\ Head(queue) \in Tasks
    BY <1>5, TailRan DEF TakeNext
  <2>2. Append(order, Head(queue)) \in Seq(Tasks)
    BY <2>1, AppendRan
  <2> QED
    BY <1>5, <2>1, <2>2 DEF TakeNext, Edge, Positions
<1>6. CASE QueueEmpty
  BY <1>6 DEF QueueEmpty, Verdict, Edge, Positions
<1>7. CASE SaveTaskStart
  <2>1. /\ current \in Tasks /\ StageOf[current] \in Stages
        /\ [task |-> current, status |-> "dispatched", retries |-> attempt] \in Checkpoint
    BY <1>7, TasksAssumption DEF SaveTaskStart, Control, Busy, Checkpoint
  <2>2. checkpoint' \in [Stages -> Checkpoint \cup {NoCheckpoint}]
    BY <1>7, <2>1 DEF SaveTaskStart, Upsert
  <2>3. attempt' = attempt /\ pc' \in {"run", "error"}
    BY <1>7 DEF SaveTaskStart, Upsert
  <2>4. edges' \subseteq Edge'
    BY <1>7 DEF SaveTaskStart, Edge, Positions
  <2> QED
    BY <1>7, <2>2, <2>3, <2>4 DEF SaveTaskStart
<1>8. CASE RunTask
  BY <1>8 DEF RunTask, Control, Busy, Edge, Positions
<1>9. CASE SaveTaskSuccess
  <2>1. Adjacency(current) \subseteq Edge /\ Edge' = Edge
    BY <1>9 DEF SaveTaskSuccess, Adjacency, Edge, Positions
  <2>2. edges' \subseteq Edge' /\ done' \subseteq Tasks /\ pc' \in {"release", "error"}
    BY <1>9, <2>1 DEF SaveTaskSuccess, Control, Busy
  <2> QED
    BY <1>9, <2>2 DEF SaveTaskSuccess
<1>10. CASE SaveTaskFailure
  <2>1. /\ current \in Tasks /\ StageOf[current] \in Stages
        /\ [task |-> current, status |-> "completed", retries |-> attempt + 1] \in Checkpoint
    BY <1>10, TasksAssumption DEF SaveTaskFailure, Control, Busy, Checkpoint
  <2>2. checkpoint' \in [Stages -> Checkpoint \cup {NoCheckpoint}]
    BY <1>10, <2>1 DEF SaveTaskFailure, FailureRetries, Upsert
  <2>3. attempt' \in Nat /\ pc' \in {"failed", "start", "error"}
    BY <1>10 DEF SaveTaskFailure, Upsert
  <2>4. edges' \subseteq Edge'
    BY <1>10 DEF SaveTaskFailure, Edge, Positions
  <2> QED
    BY <1>10, <2>2, <2>3, <2>4 DEF SaveTaskFailure
<1>11. ASSUME NEW x \in Edge, Release(x) PROVE TypeOK'
  <2>1. x[1] \in Tasks /\ x[2] \in Positions(x[1]) /\ x = <<x[1], x[2]>>
    BY DEF Edge
  <2>2. x[2] \in Open(x[1]) /\ indegree[x[1]] = Cardinality(Open(x[1]))
    BY <1>11, <2>1 DEF Release, Open, IInv, Counted, Live
  <2>3. indegree[x[1]] - 1 \in Nat
    BY <2>1, <2>2, OpenIsFinite
  <2> QED
    BY <1>11, <2>1, <2>3, AppendRan DEF Release, Edge, Positions
<1>12. CASE Released
  BY <1>12 DEF Released, Edge, Positions
<1>13. CASE Crash
  BY <1>13 DEF Crash, Edge, Positions
<1> QED
  BY <1>1, <1>2, <1>3, <1>4, <1>5, <1>6, <1>7, <1>8, <1>9, <1>10, <1>11, <1>12, <1>13
     DEF Next, Execute

\* So are the sets of tasks begun, finished and left to visit.
LEMMA ControlStep == IInv /\ [Next]_vars => Control'
<1> SUFFICES ASSUME IInv, [Next]_vars PROVE Control'
  OBVIOUS
<1>0. TypeOK /\ Control
  BY DEF IInv
<1> USE <1>0 DEF Control, graphVars, Step, Live, Busy
<1>1. CASE UNCHANGED vars
  BY <1>1 DEF vars
<1>2. CASE Build
  BY <1>2 DEF Build
<1>3. ASSUME NEW t \in Tasks, Seed(t) PROVE Control'
  BY <1>3 DEF Seed
<1>4. CASE Seeded
  BY <1>4, EmptyRan DEF Seeded
<1>5. CASE TakeNext
  <2>1. queue \in Seq(Tasks) /\ order \in Seq(Tasks)
    BY DEF TypeOK
  <2>2. Head(queue) \in Ran(queue) /\ Head(queue) \in Tasks
    BY <1>5, <2>1, TailRan DEF TakeNext
  <2>3. Ran(order') = Ran(order) \cup {Head(queue)}
    BY <1>5, <2>1, <2>2, AppendRan DEF TakeNext
  <2>4. Head(queue) \notin Ran(order)
    BY <1>5, <2>2 DEF TakeNext, IInv, Queued
  <2> QED
    BY <1>5, <2>2, <2>3, <2>4 DEF TakeNext
<1>6. CASE QueueEmpty
  BY <1>6 DEF QueueEmpty, Verdict, Drained
<1>7. CASE SaveTaskStart
  BY <1>7 DEF SaveTaskStart, Upsert
<1>8. CASE RunTask
  BY <1>8 DEF RunTask
<1>9. CASE SaveTaskSuccess
  BY <1>9 DEF SaveTaskSuccess
<1>10. CASE SaveTaskFailure
  BY <1>10 DEF SaveTaskFailure, Upsert
<1>11. ASSUME NEW x \in Edge, Release(x) PROVE Control'
  BY <1>11 DEF Release
<1>12. CASE Released
  BY <1>12 DEF Released
<1>13. CASE Crash
  BY <1>13 DEF Crash
<1> QED
  BY <1>1, <1>2, <1>3, <1>4, <1>5, <1>6, <1>7, <1>8, <1>9, <1>10, <1>11, <1>12, <1>13
     DEF Next, Execute

\* Walking an edge takes one open dependency from its task and no other.
LEMMA ReleaseOpens ==
  ASSUME IInv, NEW x \in Edge, Release(x)
  PROVE  /\ x[1] \in Tasks /\ x[2] \in Open(x[1])
         /\ Open(x[1])' = Open(x[1]) \ {x[2]}
         /\ \A t \in Tasks \ {x[1]} : Open(t)' = Open(t)
         /\ indegree[x[1]] \in Nat \ {0}
         /\ \A t \in Tasks : indegree'[t] = Cardinality(Open(t)')
<1>0. TypeOK /\ Control /\ Counted /\ pc \in Live /\ x \in edges
  BY DEF IInv, Release, Live, Step
<1>1. x[1] \in Tasks /\ x[2] \in Positions(x[1]) /\ x = <<x[1], x[2]>>
  BY DEF Edge
<1>2. x[2] \in Open(x[1])
  BY <1>0, <1>1 DEF Open
<1>3. dependsOn[x[1]][x[2]] \in done
  BY <1>0 DEF Counted, Control, Release
<1>4. edges' = edges \ {x} /\ UNCHANGED <<dependsOn, done>>
  BY DEF Release
<1>5. Open(x[1])' = Open(x[1]) \ {x[2]}
  BY <1>1, <1>3, <1>4 DEF Open, Positions
<1>6. \A t \in Tasks \ {x[1]} : Open(t)' = Open(t)
  BY <1>1, <1>4 DEF Open, Positions
<1>7. \A t \in Tasks : IsFiniteSet(Open(t)) /\ Cardinality(Open(t)) \in Nat
                         /\ indegree[t] = Cardinality(Open(t))
                         /\ (indegree[t] = 0 <=> Open(t) = {})
  BY <1>0, OpenIsFinite DEF Counted
<1>8. Cardinality(Open(x[1]) \ {x[2]}) = Cardinality(Open(x[1])) - 1
  BY <1>1, <1>2, <1>7, FS_RemoveElement
<1>9. indegree' = [indegree EXCEPT ![x[1]] = indegree[x[1]] - 1]
  BY DEF Release
<1>10. indegree \in [Tasks -> Nat]
  BY <1>0 DEF TypeOK
<1>11. ASSUME NEW t \in Tasks PROVE indegree'[t] = Cardinality(Open(t)')
  BY <1>1, <1>5, <1>6, <1>7, <1>8, <1>9, <1>10
<1> QED
  BY <1>1, <1>2, <1>5, <1>6, <1>7, <1>10, <1>11

\* Indegrees count the open dependencies: at first all of them; a task that
\* succeeds leaves its edges open until they are walked.
LEMMA CountedStep == IInv /\ [Next]_vars => Counted'
<1> SUFFICES ASSUME IInv, [Next]_vars PROVE Counted'
  OBVIOUS
<1>0. TypeOK /\ Control /\ Counted
  BY DEF IInv
<1>q. ASSUME UNCHANGED <<dependsOn, indegree, edges, current, done>>, pc' \in Live => pc \in Live
      PROVE  Counted'
  <2>1. \A t \in Tasks : Open(t)' = Open(t)
    BY <1>q DEF Open, Positions
  <2> QED
    BY <1>0, <1>q, <2>1 DEF Counted, DependsOnMissing, Edge, Positions
<1>1. CASE UNCHANGED vars
  BY <1>1, <1>q DEF vars, graphVars
<1>2. CASE Build
  <2>1. CASE pc' # "seed"
    BY <1>2, <2>1 DEF Build, Counted, Live, Step
  <2>2. CASE pc' = "seed"
    <3>1. ~DependsOnMissing /\ edges = {} /\ done = {}
      BY <1>0, <1>2, <2>2 DEF Build, Control
    <3>2. UNCHANGED <<dependsOn, edges, done>>
      BY <1>2 DEF Build
    <3>3. ASSUME NEW t \in Tasks PROVE indegree'[t] = Cardinality(Open(t)')
      <4>1. dependsOn[t] \in Lists
        BY <1>0 DEF TypeOK
      <4>2. Len(dependsOn[t]) \in Nat /\ Positions(t) = 1..Len(dependsOn[t])
        BY <4>1, ListsAreSequences DEF Positions
      <4>3. Cardinality(1..Len(dependsOn[t])) = Len(dependsOn[t])
        BY <4>2, FS_Interval
      <4>4. Open(t)' = 1..Len(dependsOn[t])
        BY <3>1, <3>2, <4>2 DEF Open, Positions
      <4>5. indegree'[t] = Len(dependsOn[t])
        BY <1>2, <2>2 DEF Build, InitialIndegree
      <4> QED
        BY <4>3, <4>4, <4>5
    <3>4. (~DependsOnMissing)'
      BY <3>1, <3>2 DEF DependsOnMissing, Edge, Positions
    <3> QED
      BY <3>1, <3>2, <3>3, <3>4 DEF Counted
  <2> QED
    BY <2>1, <2>2
<1>3. ASSUME NEW t \in Tasks, Seed(t) PROVE Counted'
  BY <1>3, <1>q DEF Seed, Live, Step
<1>4. CASE Seeded
  BY <1>4, <1>q DEF Seeded, graphVars, Live, Step
<1>5. CASE TakeNext
  <2>1. edges = {} /\ edges' = {} /\ pc \in Live /\ UNCHANGED <<dependsOn, done, indegree>>
    BY <1>0, <1>5 DEF TakeNext, Control, Live, Step
  <2>2. \A t \in Tasks : Open(t)' = Open(t)
    BY <2>1 DEF Open, Positions
  <2> QED
    BY <1>0, <2>1, <2>2 DEF Counted, DependsOnMissing, Edge, Positions
<1>6. CASE QueueEmpty
  BY <1>6, <1>q DEF QueueEmpty, graphVars, Live, Step
<1>7. CASE SaveTaskStart
  BY <1>7, <1>q DEF SaveTaskStart, Upsert, graphVars, Live, Step
<1>8. CASE RunTask
  BY <1>8, <1>q DEF RunTask, graphVars, Live, Step
<1>9. CASE SaveTaskSuccess
  <2>1. CASE pc' # "release"
    BY <1>9, <2>1 DEF SaveTaskSuccess, Counted, Live, Step
  <2>2. CASE pc' = "release"
    <3>1. /\ edges = {} /\ current \in Tasks \ done
          /\ done' = done \cup {current} /\ edges' = Adjacency(current)
          /\ UNCHANGED <<dependsOn, indegree, current>> /\ pc \in Live
      BY <1>0, <1>9, <2>2 DEF SaveTaskSuccess, Control, Live, Busy, Step
    <3>2. ASSUME NEW t \in Tasks PROVE Open(t)' = Open(t)
      <4>1. dependsOn[t] \in Lists
        BY <1>0 DEF TypeOK
      <4>2. Positions(t) \subseteq 1..MaxDeps
        BY <4>1, ListsAreSequences, TasksAssumption DEF Positions
      <4>3. \A i \in Positions(t) : dependsOn[t][i] = current => <<t, i>> \in edges'
        BY <3>1, <4>2 DEF Adjacency, Edge
      <4> QED
        BY <3>1, <4>3 DEF Open, Positions, Adjacency
    <3>3. \A x \in edges' : dependsOn[x[1]][x[2]] = current
      BY <3>1 DEF Adjacency
    <3>4. (~DependsOnMissing)'
      BY <1>0, <3>1 DEF Counted, DependsOnMissing, Edge, Positions
    <3> QED
      BY <1>0, <3>1, <3>2, <3>3, <3>4 DEF Counted
  <2> QED
    BY <2>1, <2>2
<1>10. CASE SaveTaskFailure
  BY <1>10, <1>q DEF SaveTaskFailure, Upsert, graphVars, Live, Step
<1>11. ASSUME NEW x \in Edge, Release(x) PROVE Counted'
  <2>1. \A t \in Tasks : indegree'[t] = Cardinality(Open(t)')
    BY <1>11, ReleaseOpens
  <2> QED
    BY <1>0, <1>11, <2>1 DEF Counted, Release, DependsOnMissing, Edge, Positions, Live, Step
<1>12. CASE Released
  BY <1>12, <1>q DEF Released, graphVars, Live, Step
<1>13. CASE Crash
  BY <1>13, <1>q DEF Crash, graphVars, Live, Step
<1> QED
  BY <1>1, <1>2, <1>3, <1>4, <1>5, <1>6, <1>7, <1>8, <1>9, <1>10, <1>11, <1>12, <1>13
     DEF Next, Execute

\* A task enters the queue when its last dependency is closed, and only once.
LEMMA QueuedStep == IInv /\ [Next]_vars => Queued'
<1> SUFFICES ASSUME IInv, [Next]_vars PROVE Queued'
  OBVIOUS
<1>0. TypeOK /\ Control /\ Counted /\ Queued
  BY DEF IInv
<1>t. queue \in Seq(Tasks) /\ order \in Seq(Tasks)
  BY <1>0 DEF TypeOK
<1>q. ASSUME UNCHANGED <<indegree, unseeded, queue, order>>, pc' \in Live => pc \in Live
      PROVE  Queued'
  BY <1>0, <1>q DEF Queued
<1>1. CASE UNCHANGED vars
  BY <1>1, <1>q DEF vars, graphVars
<1>2. CASE Build
  <2>1. queue' = <<>> /\ order' = <<>> /\ unseeded' = Tasks
    BY <1>0, <1>2 DEF Build, Control
  <2> QED
    BY <2>1, EmptyRan DEF Queued
<1>3. ASSUME NEW t \in Tasks, Seed(t) PROVE Queued'
  <2>1. /\ pc = "seed" /\ pc' = pc /\ t \in unseeded /\ unseeded' = unseeded \ {t}
        /\ UNCHANGED <<indegree, order>>
    BY <1>3 DEF Seed
  <2>2. /\ Distinct(queue) /\ Ran(queue) \cap Ran(order) = {}
        /\ Ran(queue) \cap unseeded = {}
        /\ \A u \in Tasks \ unseeded : indegree[u] = 0 <=> u \in Ran(queue) \cup Ran(order)
    BY <1>0, <2>1 DEF Queued, Live, Step
  <2>3. Ran(order) = {}
    BY <1>0, <2>1, EmptyRan DEF Control
  <2>4. CASE indegree[t] = 0
    <3>1. queue' = Append(queue, t)
      BY <1>3, <2>4 DEF Seed
    <3>2. Ran(queue') = Ran(queue) \cup {t} /\ Distinct(queue')
      BY <1>t, <2>1, <2>2, <3>1, AppendRan
    <3> QED
      BY <2>1, <2>2, <2>3, <2>4, <3>2 DEF Queued
  <2>5. CASE indegree[t] # 0
    <3>1. queue' = queue
      BY <1>3, <2>5 DEF Seed
    <3> QED
      BY <2>1, <2>2, <2>3, <2>5, <3>1 DEF Queued
  <2> QED
    BY <2>4, <2>5
<1>4. CASE Seeded
  BY <1>4, <1>q DEF Seeded, graphVars, Live, Step
<1>5. CASE TakeNext
  <2>1. /\ queue # <<>> /\ queue' = Tail(queue) /\ order' = Append(order, Head(queue))
        /\ UNCHANGED <<indegree, unseeded>> /\ pc \in Live
    BY <1>5 DEF TakeNext, Live, Step
  <2>2. /\ Head(queue) \in Tasks /\ Ran(queue) = {Head(queue)} \cup Ran(queue')
        /\ Distinct(queue') /\ Head(queue) \notin Ran(queue')
    BY <1>0, <1>t, <2>1, TailRan DEF Queued
  <2>3. Ran(order') = Ran(order) \cup {Head(queue)}
    BY <1>t, <2>1, <2>2, AppendRan
  <2> QED
    BY <1>0, <2>1, <2>2, <2>3 DEF Queued
<1>6. CASE QueueEmpty
  BY <1>6, <1>q DEF QueueEmpty, graphVars, Live, Step
<1>7. CASE SaveTaskStart
  BY <1>7, <1>q DEF SaveTaskStart, Upsert, graphVars, Live, Step
<1>8. CASE RunTask
  BY <1>8, <1>q DEF RunTask, graphVars, Live, Step
<1>9. CASE SaveTaskSuccess
  BY <1>9, <1>q DEF SaveTaskSuccess, Live, Step
<1>10. CASE SaveTaskFailure
  BY <1>10, <1>q DEF SaveTaskFailure, Upsert, graphVars, Live, Step
<1>11. ASSUME NEW x \in Edge, Release(x) PROVE Queued'
  <2> DEFINE t == x[1]
             left == indegree[t] - 1
  <2>1. t \in Tasks /\ indegree[t] \in Nat \ {0}
    BY <1>11, ReleaseOpens
  <2>2. /\ indegree' = [indegree EXCEPT ![t] = left] /\ UNCHANGED <<order, unseeded, pc>>
        /\ pc = "release" /\ unseeded = {}
    BY <1>0, <1>11 DEF Release, Control, Live, Step
  <2>3. indegree'[t] = left /\ \A u \in Tasks \ {t} : indegree'[u] = indegree[u]
    BY <1>0, <2>1, <2>2 DEF TypeOK
  <2>4. t \notin Ran(queue) \cup Ran(order)
    BY <1>0, <2>1, <2>2 DEF Queued, Live, Step
  <2> HIDE DEF t, left
  <2>5. CASE left = 0
    <3>1. queue' = Append(queue, t)
      BY <1>11, <2>5 DEF Release, Free, t, left
    <3>2. Ran(queue') = Ran(queue) \cup {t} /\ Distinct(queue')
      BY <1>0, <1>t, <2>1, <2>2, <2>4, <3>1, AppendRan DEF Queued, Live, Step
    <3> QED
      BY <1>0, <2>2, <2>3, <2>4, <2>5, <3>2 DEF Queued, Live, Step
  <2>6. CASE left # 0
    <3>1. queue' = queue
      BY <1>11, <2>6 DEF Release, Free, t, left
    <3> QED
      BY <1>0, <2>1, <2>2, <2>3, <2>4, <2>6, <3>1 DEF Queued, Live, Step
  <2> QED
    BY <2>5, <2>6
<1>12. CASE Released
  BY <1>12, <1>q DEF Released, graphVars, Live, Step
<1>13. CASE Crash
  BY <1>13, <1>q DEF Crash, graphVars, Live, Step
<1> QED
  BY <1>1, <1>2, <1>3, <1>4, <1>5, <1>6, <1>7, <1>8, <1>9, <1>10, <1>11, <1>12, <1>13
     DEF Next, Execute

\* A task that waits for nothing needs nothing undone.
LEMMA ClosedNeedsDone ==
  ASSUME IInv, pc = "next", NEW t \in Tasks
  PROVE  /\ indegree[t] = 0 => Needs(t) \subseteq done
         /\ indegree[t] # 0 => Needs(t) \cap (Tasks \ done) # {}
<1>1. TypeOK /\ Counted /\ pc \in Live /\ edges = {}
  BY DEF IInv, Control, Live, Step
<1>2. Open(t) = {i \in Positions(t) : dependsOn[t][i] \notin done}
  BY <1>1 DEF Open
<1>3. indegree[t] = 0 <=> Open(t) = {}
  BY <1>1, OpenIsFinite DEF Counted
<1>4. \A i \in Positions(t) : dependsOn[t][i] \in Tasks
  <2>1. dependsOn[t] \in Lists
    BY <1>1 DEF TypeOK
  <2>2. Positions(t) = 1..Len(dependsOn[t]) /\ Len(dependsOn[t]) \in Nat
          /\ Len(dependsOn[t]) <= MaxDeps
          /\ \A i \in 1..Len(dependsOn[t]) : dependsOn[t][i] \in Tasks \cup {Missing}
    BY <2>1, ListsAreSequences DEF Positions
  <2>3. \A i \in Positions(t) : <<t, i>> \in Edge
    BY <2>2, TasksAssumption DEF Edge
  <2>4. \A i \in Positions(t) : dependsOn[t][i] # Missing
    BY <1>1, <2>3 DEF Counted, DependsOnMissing
  <2> QED
    BY <2>2, <2>4
<1> QED
  BY <1>2, <1>3, <1>4 DEF Needs

\* The order stays a topological one, and what has succeeded holds no cycle.
LEMMA OrderedStep == IInv /\ [Next]_vars => Ordered'
<1> SUFFICES ASSUME IInv, [Next]_vars PROVE Ordered'
  OBVIOUS
<1>0. TypeOK /\ Control /\ Ordered
  BY DEF IInv
<1>q. ASSUME UNCHANGED <<dependsOn, order, done>> PROVE Ordered'
  <2>1. \A t : Needs(t)' = Needs(t)
    BY <1>q DEF Needs, Positions
  <2>2. DependenciesFirst'
    BY <1>0, <1>q, <2>1 DEF Ordered, DependenciesFirst
  <2>3. IsFiniteSet(Ran(order))' /\ Cardinality(Ran(order))' = Len(order)'
    BY <1>0, <1>q DEF Ordered
  <2>4. \A S : Deadlocked(S)' = Deadlocked(S)
    BY <2>1 DEF Deadlocked
  <2> QED
    BY <1>0, <1>q, <2>2, <2>3, <2>4 DEF Ordered
<1>1. CASE TakeNext
  <2> DEFINE h == Head(queue)
             n == Len(order) + 1
  <2>1. /\ pc = "next" /\ queue # <<>> /\ order' = Append(order, h)
        /\ UNCHANGED <<dependsOn, done>>
    BY <1>1 DEF TakeNext
  <2>2. queue \in Seq(Tasks) /\ order \in Seq(Tasks) /\ Len(order) \in Nat
    BY <1>0 DEF TypeOK
  <2>3. h \in Tasks /\ h \in Ran(queue)
    BY <2>1, <2>2, TailRan
  <2>4. h \notin Ran(order) /\ indegree[h] = 0 /\ Ran(order) = done
    BY <1>0, <2>1, <2>3 DEF IInv, Queued, Control, Live, Step
  <2>5. Needs(h) \subseteq done
    BY <2>1, <2>3, <2>4, ClosedNeedsDone
  <2>6. /\ Len(order') = n /\ Ran(order') = Ran(order) \cup {h}
        /\ order'[n] = h /\ \A i \in 1..Len(order) : order'[i] = order[i]
    BY <2>1, <2>2, <2>3, AppendRan
  <2>7. \A t : Needs(t)' = Needs(t)
    BY <2>1 DEF Needs, Positions
  <2>8. IsFiniteSet(Ran(order)) /\ Cardinality(Ran(order)) = Len(order)
    BY <1>0 DEF Ordered
  <2> HIDE DEF h, n
  <2>9. IsFiniteSet(Ran(order')) /\ Cardinality(Ran(order')) = Len(order')
    <3>1. IsFiniteSet(Ran(order) \cup {h})
            /\ Cardinality(Ran(order) \cup {h}) = Cardinality(Ran(order)) + 1
      BY <2>4, <2>8, FS_AddElement
    <3> QED
      BY <2>6, <2>8, <3>1 DEF n
  <2>10. DependenciesFirst'
    <3>1. ASSUME NEW i \in 1..Len(order)
          PROVE  /\ Needs(order'[i]) \subseteq done
                 /\ \A j \in 1..n : j # i => order'[j] # order'[i]
                 /\ Needs(order'[i]) \subseteq {order'[j] : j \in 1..(i - 1)}
      <4>1. /\ Needs(order[i]) \subseteq done
            /\ \A j \in 1..Len(order) : j # i => order[j] # order[i]
            /\ Needs(order[i]) \subseteq {order[j] : j \in 1..(i - 1)}
        BY <1>0 DEF Ordered, DependenciesFirst
      <4>2. order'[i] = order[i] /\ order[i] # h
        BY <2>4, <2>6 DEF Ran
      <4>3. \A j \in 1..(i - 1) : order'[j] = order[j]
        BY <2>2, <2>6
      <4>4. {order'[j] : j \in 1..(i - 1)} = {order[j] : j \in 1..(i - 1)}
        BY <4>3
      <4>5. \A j \in 1..n : j # i => order'[j] # order'[i]
        BY <2>2, <2>6, <4>1, <4>2 DEF n
      <4> QED
        BY <4>1, <4>2, <4>4, <4>5
    <3>2. Needs(order'[n]) \subseteq done /\ \A j \in 1..n : j # n => order'[j] # order'[n]
      BY <2>2, <2>4, <2>5, <2>6 DEF Ran, n
    <3>3. Needs(order'[n]) \subseteq {order'[j] : j \in 1..(n - 1)}
      <4>1. {order'[j] : j \in 1..(n - 1)} = Ran(order)
        BY <2>2, <2>6 DEF Ran, n
      <4> QED
        BY <2>4, <2>5, <2>6, <4>1
    <3>4. \A i \in 1..n : i \in 1..Len(order) \/ i = n
      BY <2>2 DEF n
    <3> QED
      BY <2>1, <2>6, <2>7, <3>1, <3>2, <3>3, <3>4 DEF DependenciesFirst
  <2>11. \A S \in SUBSET done' : ~Deadlocked(S)'
    <3>1. \A S : Deadlocked(S)' = Deadlocked(S)
      BY <2>7 DEF Deadlocked
    <3> QED
      BY <1>0, <2>1, <3>1 DEF Ordered
  <2> QED
    BY <2>9, <2>10, <2>11 DEF Ordered
<1>2. CASE SaveTaskSuccess
  <2>1. CASE pc' # "release"
    BY <1>2, <1>q, <2>1 DEF SaveTaskSuccess
  <2>2. CASE pc' = "release"
    <3>1. /\ done' = done \cup {current} /\ current \in Tasks \ done
          /\ Ran(order) = done \cup {current} /\ UNCHANGED <<dependsOn, order>>
      BY <1>0, <1>2, <2>2 DEF SaveTaskSuccess, Control, Busy
    <3>2. \A t : Needs(t)' = Needs(t)
      BY <3>1 DEF Needs, Positions
    <3>3. DependenciesFirst'
      <4>1. \A i \in 1..Len(order) :
              /\ Needs(order[i]) \subseteq done
              /\ \A j \in 1..Len(order) : j # i => order[j] # order[i]
              /\ Needs(order[i]) \subseteq {order[j] : j \in 1..(i - 1)}
        BY <1>0 DEF Ordered, DependenciesFirst
      <4>2. order' = order /\ done \subseteq done'
        BY <3>1
      <4> QED
        BY <3>2, <4>1, <4>2 DEF DependenciesFirst
    <3>4. \A t \in done \cup {current} : Needs(t) \subseteq done
      BY <1>0, <3>1 DEF Ordered, DependenciesFirst, Ran
    <3>5. ASSUME NEW S \in SUBSET done', Deadlocked(S) PROVE FALSE
      <4>1. S \ {current} \subseteq done /\ S # {} /\ \A t \in S : Needs(t) \cap S # {}
        BY <3>1, <3>5 DEF Deadlocked
      <4>2. \A t \in S : Needs(t) \cap (S \ {current}) # {}
        BY <3>1, <3>4, <4>1
      <4>3. Deadlocked(S \ {current})
        BY <4>1, <4>2 DEF Deadlocked
      <4> QED
        BY <1>0, <4>1, <4>3 DEF Ordered
    <3>6. \A S \in SUBSET done' : ~Deadlocked(S)'
      BY <3>2, <3>5 DEF Deadlocked
    <3>7. IsFiniteSet(Ran(order)) /\ Cardinality(Ran(order)) = Len(order)
      BY <1>0 DEF Ordered
    <3> QED
      BY <3>1, <3>3, <3>6, <3>7 DEF Ordered
  <2> QED
    BY <2>1, <2>2
<1>3. CASE ~TakeNext /\ ~SaveTaskSuccess
  <2>1. UNCHANGED <<dependsOn, order, done>>
    <3> USE DEF graphVars
    <3>1. CASE UNCHANGED vars
      BY <3>1 DEF vars
    <3>2. CASE Build \/ (\E t \in Tasks : Seed(t)) \/ Seeded
      BY <3>2 DEF Build, Seed, Seeded
    <3>3. CASE QueueEmpty \/ SaveTaskStart \/ RunTask \/ SaveTaskFailure
      BY <3>3 DEF QueueEmpty, SaveTaskStart, RunTask, SaveTaskFailure
    <3>4. CASE (\E x \in Edge : Release(x)) \/ Released \/ Crash
      BY <3>4 DEF Release, Released, Crash
    <3> QED
      BY <1>3, <3>1, <3>2, <3>3, <3>4 DEF Next, Execute
  <2> QED
    BY <1>q, <2>1
<1> QED
  BY <1>1, <1>2, <1>3

\* With the queue empty, whoever has not begun needs another who has not; and
\* as the order repeats no task, its length tells whether there are any.
LEMMA JudgedStep == IInv /\ [Next]_vars => Judged'
<1> SUFFICES ASSUME IInv, [Next]_vars PROVE Judged'
  OBVIOUS
<1>0. TypeOK /\ Control /\ Ordered /\ Judged
  BY DEF IInv
<1>1. CASE QueueEmpty
  <2>1. /\ pc = "next" /\ queue = <<>> /\ UNCHANGED <<dependsOn, done>>
        /\ pc' = IF Len(order) # Cardinality(Tasks) THEN "cycle" ELSE "ok"
    BY <1>1 DEF QueueEmpty, Drained, Verdict, graphVars
  <2>2. Ran(order) = done /\ unseeded = {} /\ Ran(queue) = {}
    BY <1>0, <2>1, EmptyRan DEF Control, Live, Step
  <2>3. done \subseteq Tasks /\ Cardinality(done) = Len(order)
    BY <1>0, <2>2 DEF TypeOK, Ordered
  <2>4. Len(order) = Cardinality(Tasks) <=> done = Tasks
    BY <2>3, TasksAssumption, FS_Subset
  <2>5. ASSUME done # Tasks PROVE Deadlocked(Tasks \ done)'
    <3>1. \A t \in Tasks \ done : indegree[t] # 0
      BY <2>1, <2>2 DEF IInv, Queued, Live, Step
    <3>2. \A t \in Tasks \ done : Needs(t) \cap (Tasks \ done) # {}
      BY <2>1, <3>1, ClosedNeedsDone
    <3>3. Deadlocked(Tasks \ done)
      BY <2>3, <2>5, <3>2 DEF Deadlocked
    <3> QED
      BY <2>1, <3>3 DEF Deadlocked, Needs, Positions
  <2>6. CASE done = Tasks
    BY <2>1, <2>4, <2>6 DEF Judged
  <2>7. CASE done # Tasks
    BY <2>1, <2>4, <2>5, <2>7 DEF Judged
  <2> QED
    BY <2>6, <2>7
<1>2. CASE UNCHANGED vars
  BY <1>0, <1>2 DEF Judged, vars, graphVars, Deadlocked, Needs, Positions
<1>3. CASE ~QueueEmpty /\ ~UNCHANGED vars
  <2>1. pc' \notin {"ok", "cycle"}
    <3>1. CASE Build \/ (\E t \in Tasks : Seed(t)) \/ Seeded \/ TakeNext
      BY <3>1 DEF Build, Seed, Seeded, TakeNext
    <3>2. CASE SaveTaskStart \/ RunTask \/ SaveTaskSuccess \/ SaveTaskFailure
      BY <3>2 DEF SaveTaskStart, RunTask, SaveTaskSuccess, SaveTaskFailure, Upsert
    <3>3. CASE (\E x \in Edge : Release(x)) \/ Released \/ Crash
      BY <3>3 DEF Release, Released, Crash
    <3> QED
      BY <1>3, <3>1, <3>2, <3>3 DEF Next, Execute
  <2> QED
    BY <2>1 DEF Judged
<1> QED
  BY <1>1, <1>2, <1>3

\* The graph invariant is inductive.
THEOREM GraphInvariant == Spec => []IInv
<1>1. IInv /\ [Next]_vars => IInv'
  BY TypeStep, ControlStep, CountedStep, QueuedStep, OrderedStep, JudgedStep DEF IInv
<1> QED
  BY InitIInv, <1>1, PTL DEF Spec

-----------------------------------------------------------------------------
(* What Execute guarantees. *)

\* Execute's variables keep their types.
THEOREM TypeCorrect == Spec => []TypeOK
<1>1. IInv => TypeOK
  BY DEF IInv
<1> QED
  BY <1>1, GraphInvariant, PTL

\* Tasks run once each, in dependency order.
THEOREM DependenciesComeFirst == Spec => []DependenciesFirst
<1>1. IInv => DependenciesFirst
  BY DEF IInv, Ordered
<1> QED
  BY <1>1, GraphInvariant, PTL

\* ErrCycleDetected is returned for graphs with a cycle only, and success for
\* graphs without one, all of whose tasks have succeeded.
THEOREM VerdictIsRight == Spec => []CycleVerdict
<1>1. ASSUME IInv PROVE CycleVerdict
  <2>1. pc = "cycle" => Deadlocked(Tasks \ done)
    BY <1>1 DEF IInv, Judged
  <2>2. pc = "ok" => done = Tasks /\ ~\E S \in SUBSET Tasks : Deadlocked(S)
    BY <1>1 DEF IInv, Judged, Ordered
  <2> QED
    BY <2>1, <2>2 DEF CycleVerdict
<1> QED
  BY <1>1, GraphInvariant, PTL

-----------------------------------------------------------------------------
(* Retries. *)

\* The attempt counter and the checkpoint of the task being run follow the
\* tries; tasks not begun have none.
Attempts ==
  /\ \A t \in Tasks \ Ran(order) : tried[t] = 0
  /\ \A x \in Stages : checkpoint[x] # NoCheckpoint =>
       checkpoint[x].task \in Ran(order) /\ StageOf[checkpoint[x].task] = x
  /\ pc \in {"start", "run"} => tried[current] = attempt
  /\ pc \in {"success", "failure"} => tried[current] = attempt + 1
  /\ pc \in Busy => attempt <= Retries(current)
  /\ pc \in {"run", "success", "failure"} =>
       checkpoint[StageOf[current]] = [task |-> current, status |-> "dispatched", retries |-> attempt]

RetryInv == Attempts /\ RetriesTold /\ RetriesCapped

\* Every try is counted once by the attempt and once by its checkpoint.
LEMMA RetryStep == IInv /\ RetryInv /\ [Next]_vars => RetryInv'
<1> SUFFICES ASSUME IInv, RetryInv, [Next]_vars PROVE RetryInv'
  OBVIOUS
<1>0. /\ TypeOK /\ Control
      /\ \A t \in Tasks : Retries(t) \in Nat
      /\ \A t \in Tasks : tried[t] \in Nat /\ StageOf[t] \in Stages
      /\ \A x \in Stages : checkpoint[x] \in Checkpoint \cup {NoCheckpoint}
      /\ \A row \in Checkpoint : row # NoCheckpoint /\ row.task \in Tasks /\ row.retries \in Nat
  BY TasksAssumption DEF IInv, Retries, TypeOK, Checkpoint, NoCheckpoint
<1> USE DEF RetryInv, Attempts, RetriesTold, RetriesCapped, Busy, graphVars
<1>1. CASE UNCHANGED vars
  BY <1>1 DEF vars, Retries
<1>2. CASE Build \/ (\E t \in Tasks : Seed(t)) \/ Seeded
  BY <1>2 DEF Build, Seed, Seeded, Retries
<1>3. CASE TakeNext
  <2>1. queue \in Seq(Tasks) /\ order \in Seq(Tasks)
    BY <1>0 DEF TypeOK
  <2>2. Head(queue) \in Ran(queue) /\ Head(queue) \in Tasks
    BY <1>3, <2>1, TailRan DEF TakeNext
  <2>3. Ran(order') = Ran(order) \cup {Head(queue)} /\ Head(queue) \notin Ran(order)
    BY <1>3, <2>1, <2>2, AppendRan DEF TakeNext, IInv, Queued, Live, Step
  <2>4. current' = Head(queue) /\ attempt' = 0 /\ pc' = "start" /\ UNCHANGED <<tried, checkpoint, done>>
    BY <1>3 DEF TakeNext
  <2> QED
    BY <1>0, <2>2, <2>3, <2>4 DEF Retries
<1>4. CASE QueueEmpty
  BY <1>4 DEF QueueEmpty, Verdict, Retries
<1>5. CASE SaveTaskStart
  <2>1. current \in Tasks /\ current \in Ran(order) /\ pc = "start" /\ attempt \in Nat
    BY <1>0, <1>5 DEF SaveTaskStart, Control, TypeOK
  <2>2. /\ UNCHANGED <<order, current, attempt, tried, done>>
        /\ pc' \in {"run", "error"}
        /\ \/ checkpoint' = [checkpoint EXCEPT ![StageOf[current]] =
                               [task |-> current, status |-> "dispatched", retries |-> attempt]]
           \/ checkpoint' = checkpoint /\ pc' = "error"
    BY <1>5 DEF SaveTaskStart, Upsert
  <2>3. CASE checkpoint' = checkpoint /\ pc' = "error"
    BY <2>2, <2>3 DEF Retries
  <2>4. CASE checkpoint' = [checkpoint EXCEPT ![StageOf[current]] =
                              [task |-> current, status |-> "dispatched", retries |-> attempt]]
    <3>1. /\ checkpoint'[StageOf[current]] = [task |-> current, status |-> "dispatched", retries |-> attempt]
          /\ \A x \in Stages \ {StageOf[current]} : checkpoint'[x] = checkpoint[x]
      BY <1>0, <2>1, <2>4 DEF TypeOK
    <3>2. tried[current] = attempt
      BY <2>1
    <3>3. \A t \in Tasks : tried[t] > 0 => t = current \/ t \in done
      BY <1>0, <2>1 DEF Control
    <3>4. RetriesTold'
      BY <1>0, <2>1, <2>2, <3>1, <3>2, <3>3
    <3>5. Attempts'
      BY <1>0, <2>1, <2>2, <3>1, <3>2 DEF Retries
    <3> QED
      BY <2>2, <3>4, <3>5 DEF Retries
  <2> QED
    BY <2>2, <2>3, <2>4
<1>6. CASE RunTask
  <2>1. current \in Tasks /\ current \in Ran(order) /\ pc = "run" /\ attempt \in Nat
    BY <1>0, <1>6 DEF RunTask, Control, TypeOK
  <2>2. /\ UNCHANGED <<order, current, attempt, checkpoint, done>>
        /\ pc' \in {"success", "failure"}
        /\ tried'[current] = tried[current] + 1
        /\ \A t \in Tasks \ {current} : tried'[t] = tried[t]
    BY <1>0, <1>6, <2>1 DEF RunTask, TypeOK
  <2> QED
    BY <1>0, <2>1, <2>2 DEF Retries
<1>7. CASE SaveTaskSuccess
  BY <1>7 DEF SaveTaskSuccess, Retries
<1>8. CASE SaveTaskFailure
  <2>1. current \in Tasks /\ current \in Ran(order) /\ pc = "failure" /\ attempt \in Nat
    BY <1>0, <1>8 DEF SaveTaskFailure, Control, TypeOK
  <2>2. /\ UNCHANGED <<order, current, tried, done>>
        /\ \/ pc' = "start" /\ attempt' = attempt + 1 /\ attempt + 1 <= Retries(current)
           \/ pc' = "failed" /\ attempt + 1 > Retries(current)
           \/ pc' = "error"
        /\ \/ checkpoint' = [checkpoint EXCEPT ![StageOf[current]] =
                               [task |-> current, status |-> "completed", retries |-> attempt + 1]]
           \/ checkpoint' = checkpoint /\ pc' = "error"
    BY <1>0, <1>8, <2>1 DEF SaveTaskFailure, Upsert, GiveUp, FailureRetries
  <2>3. CASE checkpoint' = checkpoint /\ pc' = "error"
    BY <2>2, <2>3 DEF Retries
  <2>4. CASE checkpoint' = [checkpoint EXCEPT ![StageOf[current]] =
                              [task |-> current, status |-> "completed", retries |-> attempt + 1]]
    <3>1. /\ checkpoint'[StageOf[current]] = [task |-> current, status |-> "completed", retries |-> attempt + 1]
          /\ \A x \in Stages \ {StageOf[current]} : checkpoint'[x] = checkpoint[x]
      BY <1>0, <2>1, <2>4 DEF TypeOK
    <3>2. tried[current] = attempt + 1
      BY <2>1
    <3> QED
      BY <1>0, <2>1, <2>2, <3>1, <3>2 DEF Retries
  <2> QED
    BY <2>2, <2>3, <2>4
<1>9. CASE (\E x \in Edge : Release(x)) \/ Released \/ Crash
  BY <1>9 DEF Release, Released, Crash, Retries
<1> QED
  BY <1>1, <1>2, <1>3, <1>4, <1>5, <1>6, <1>7, <1>8, <1>9 DEF Next, Execute

\* Together with the graph invariant, the retry invariant is inductive.
LEMMA RetryInvariant == Spec => []RetryInv
<1>1. Init => RetryInv
  BY TasksAssumption DEF Init, RetryInv, Attempts, RetriesTold, RetriesCapped, Retries, Busy,
     NoCheckpoint
<1> QED
  BY <1>1, GraphInvariant, RetryStep, PTL DEF Spec

\* No task is tried more often than its MaxRetries allow, nor given up before,
\* and the checkpoints tell the tries.
THEOREM RetriesAreRight == Spec => []RetriesRight
<1>1. RetryInv => RetriesRight
  BY DEF RetryInv, RetriesRight
<1> QED
  BY <1>1, RetryInvariant, PTL

-----------------------------------------------------------------------------
(* Execute implements TaskOrder. *)

\* What TaskOrder sees of the graph, and of the step Execute is at.
View == [t \in Tasks |-> Needs(t) \cap Tasks]
Said == IF pc \in {"ok", "cycle"} THEN pc ELSE IF pc \in Returned THEN "error" ELSE "none"

\* A task that succeeds is one that was ready, the verdict is the right one,
\* and the other steps of Execute cannot be seen.
LEMMA OrderStep ==
  IInv /\ IInv' /\ [Next]_vars
    => [Order!Next]_<<Tasks, [t \in Tasks |-> Needs(t) \cap Tasks], done,
                      IF pc \in {"ok", "cycle"} THEN pc
                      ELSE IF pc \in Returned THEN "error" ELSE "none">>
<1> SUFFICES ASSUME IInv, IInv', [Next]_vars
             PROVE  Order!Next \/ UNCHANGED <<Tasks, View, done, Said>>
  BY DEF View, Said
<1>0. UNCHANGED View
  <2>1. UNCHANGED dependsOn
    <3> USE DEF graphVars
    <3>1. CASE UNCHANGED vars
      BY <3>1 DEF vars
    <3>2. CASE Build \/ (\E t \in Tasks : Seed(t)) \/ Seeded \/ TakeNext
      BY <3>2 DEF Build, Seed, Seeded, TakeNext
    <3>3. CASE QueueEmpty \/ SaveTaskStart \/ RunTask \/ SaveTaskSuccess \/ SaveTaskFailure
      BY <3>3 DEF QueueEmpty, SaveTaskStart, RunTask, SaveTaskSuccess, SaveTaskFailure
    <3>4. CASE (\E x \in Edge : Release(x)) \/ Released \/ Crash
      BY <3>4 DEF Release, Released, Crash
    <3> QED
      BY <3>1, <3>2, <3>3, <3>4 DEF Next, Execute
  <2> QED
    BY <2>1 DEF View, Needs, Positions
<1>1. Said = "none" /\ Said' = "error" /\ UNCHANGED done => Order!Next
  BY <1>0 DEF Order!Next, Order!Return, Said, View
<1>2. CASE QueueEmpty
  <2>1. pc = "next" /\ Said = "none" /\ UNCHANGED done /\ pc' \in {"ok", "cycle"} /\ Said' = pc'
    BY <1>2 DEF QueueEmpty, Verdict, Said, Returned, graphVars
  <2>2. CASE pc' = "ok"
    <3>1. done = Tasks
      BY <2>1, <2>2 DEF IInv, Judged
    <3> QED
      BY <1>0, <2>1, <2>2, <3>1 DEF Order!Next, Order!Return, Said, View
  <2>3. CASE pc' = "cycle"
    <3>1. Deadlocked(Tasks \ done)'
      BY <2>3 DEF IInv, Judged
    <3>2. UNCHANGED dependsOn
      BY <1>2 DEF QueueEmpty, graphVars
    <3>3. done # Tasks /\ \A t \in Tasks \ done : Needs(t) \cap (Tasks \ done) # {}
      BY <2>1, <3>1, <3>2 DEF Deadlocked, Needs, Positions
    <3>4. \A t \in Tasks : ~Order!Ready(t)
      BY <3>3 DEF Order!Ready
    <3> QED
      BY <1>0, <2>1, <2>3, <3>3, <3>4 DEF Order!Next, Order!Return, Said, View
  <2> QED
    BY <2>1, <2>2, <2>3
<1>3. CASE SaveTaskSuccess
  <2>1. pc = "success" /\ Said = "none"
    BY <1>3 DEF SaveTaskSuccess, Said, Returned
  <2>2. CASE pc' = "error" /\ UNCHANGED done
    BY <1>1, <2>1, <2>2 DEF Said, Returned
  <2>3. CASE pc' = "release" /\ done' = done \cup {current}
    <3>1. current \in Tasks \ done /\ current \in Ran(order)
      BY <2>1 DEF IInv, Control, Busy
    <3>2. Needs(current) \subseteq done
      BY <3>1 DEF IInv, Ordered, DependenciesFirst, Ran
    <3>3. Said' = "none"
      BY <2>3 DEF Said, Returned
    <3>4. Order!Complete(current)
      BY <1>0, <2>1, <2>3, <3>1, <3>2, <3>3 DEF Order!Complete, Order!Ready, Said, View
    <3> QED
      BY <3>1, <3>4 DEF Order!Next
  <2> QED
    BY <1>3, <2>2, <2>3 DEF SaveTaskSuccess
<1>4. CASE ~QueueEmpty /\ ~SaveTaskSuccess
  <2>1. /\ UNCHANGED done
        /\ \/ pc' = pc
           \/ pc \in Step /\ pc' \in Step
           \/ pc \in Step /\ pc' \in Returned \ {"ok", "cycle"}
    <3> USE DEF graphVars, Returned, Step
    <3>1. CASE UNCHANGED vars
      BY <3>1 DEF vars
    <3>2. CASE Build
      BY <3>2 DEF Build
    <3>3. CASE (\E t \in Tasks : Seed(t)) \/ Seeded \/ TakeNext
      BY <3>3 DEF Seed, Seeded, TakeNext
    <3>4. CASE SaveTaskStart
      BY <3>4 DEF SaveTaskStart, Upsert
    <3>5. CASE RunTask
      BY <3>5 DEF RunTask
    <3>6. CASE SaveTaskFailure
      BY <3>6 DEF SaveTaskFailure, Upsert
    <3>7. CASE (\E x \in Edge : Release(x)) \/ Released
      BY <3>7 DEF Release, Released
    <3>8. CASE Crash
      BY <3>8 DEF Crash
    <3> QED
      BY <1>4, <3>1, <3>2, <3>3, <3>4, <3>5, <3>6, <3>7, <3>8 DEF Next, Execute
  <2>2. Said' = Said \/ (Said = "none" /\ Said' = "error")
    <3>1. CASE pc' = pc
      BY <3>1 DEF Said
    <3>2. CASE pc \in Step /\ pc' \in Step
      BY <3>2 DEF Said, Step, Returned
    <3>3. CASE pc \in Step /\ pc' \in Returned \ {"ok", "cycle"}
      BY <3>3 DEF Said, Step, Returned
    <3> QED
      BY <2>1, <3>1, <3>2, <3>3
  <2> QED
    BY <1>0, <1>1, <2>1, <2>2
<1> QED
  BY <1>2, <1>3, <1>4

\* Execute keeps the promise of TaskOrder, for every graph.
THEOREM OrderIsKept == Spec => KeepsOrder
<1>1. Init => Order!Init
  BY DEF Init, Order!Init, Needs, Returned
<1> QED
  BY <1>1, GraphInvariant, OrderStep, PTL DEF Spec, KeepsOrder, Order!Spec
=============================================================================
