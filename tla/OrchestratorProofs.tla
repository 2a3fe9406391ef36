-------------------------- MODULE OrchestratorProofs --------------------------
(***************************************************************************)
(* What holds of Planner and Orchestrator for every document, budget and   *)
(* number of tasks: the budget, the waves and the order of tasks first,    *)
(* then the layers of a plan, and last what the results tell and add up    *)
(* to.                                                                     *)
(***************************************************************************)
EXTENDS Orchestrator, FiniteSetTheorems, FunctionTheorems, TLAPS

OverLimit == Monitored /\ (Exceeds(used, "cost") \/ Exceeds(used, "tokens"))

\* What never changes: the plan's tasks and the budget.
Fixed == tasks \in Seq(Task) /\ budget \in Budget

\* Goroutines work in a wave only, on tasks that were ready when it started.
Waves ==
  /\ pc # "wait" => AllIdle
  /\ \A id \in Ids : goroutine[id] # Idle => Ready(id)
  /\ executed \subseteq Known

\* A limit is passed only while someone is about to tell it, or has.
Told ==
  /\ pc \in {"plan", "revalidate", "wave", "synthesise", "ok"} => errs = <<>> /\ ~OverLimit
  /\ pc = "wait" /\ OverLimit => errs # <<>> \/ \E id \in Ids : goroutine[id].state = "over"
  /\ \A id \in Ids : goroutine[id].state = "over" /\ goroutine[id].kind # "time" =>
       Exceeds(used, goroutine[id].kind)
  /\ \A k \in DOMAIN errs : errs[k].kind \in {"cost", "tokens"} => Exceeds(errs[k].usage, errs[k].kind)
  /\ pc \in {"cost", "tokens"} => errs # <<>> /\ Head(errs).kind = pc

IInv == Fixed /\ ExecTypeOK /\ Waves /\ Told

LEMMA InitInv == Init => IInv
<1> SUFFICES ASSUME Init PROVE IInv
  OBVIOUS
<1>1. Fixed
  BY PlannerAssumption DEF Init, PlanInit, Fixed
<1>2. ExecTypeOK
  <2>1. Zero \in Usage /\ Idle \in Goroutine
    BY DEF Zero, Usage, Idle, Goroutine
  <2>2. goroutine \in [Ids -> Goroutine]
    BY <2>1 DEF Init
  <2>3. late \in BOOLEAN
    BY DEF Init
  <2>4. results \in Seq(Result) /\ errs \in Seq(Error)
    BY DEF Init
  <2> QED
    BY <2>1, <2>2, <2>3, <2>4 DEF Init, ExecTypeOK, Step
<1>3. Waves
  BY DEF Init, Waves, AllIdle
<1>4. Told
  BY <1>1 DEF Init, Told, Idle, OverLimit, Exceeds, Zero, Fixed, Budget, Limit
<1> QED
  BY <1>1, <1>2, <1>3, <1>4 DEF IInv
\* What a step of Plan leaves alone.
LEMMA PlanKeeps == Plan => UNCHANGED <<tasks, budget>>
BY DEF Plan, Ask, Structure, NextLayer, LayersDone, ValidatePlan, ApplyBudget,
   NormaliseDependencies

LEMMA FixedStep == Fixed /\ [Next]_vars => Fixed'
<1> SUFFICES ASSUME Fixed, [Next]_vars PROVE UNCHANGED <<tasks, budget>>
  BY DEF Fixed
<1>1. CASE UNCHANGED planVars
  BY <1>1 DEF planVars
<1>2. CASE PlanTask
  BY <1>2, PlanKeeps DEF PlanTask
<1>3. CASE Revalidate \/ StartWave \/ WaveJoined \/ Synthesise \/ Goroutines \/ Expire
  BY <1>3 DEF Revalidate, StartWave, WaveJoined, Synthesise, Goroutines, Expire, ExecuteFails,
     Add, CheckTime, Breach, Record, planVars
<1> QED
  BY <1>1, <1>2, <1>3 DEF Next, ProcessThought, vars

LEMMA Sums == \A u, v \in Usage : Plus(u, v) \in Usage
BY DEF Plus, Usage

LEMMA TypeStep == ExecTypeOK /\ [Next]_vars => ExecTypeOK'
<1> SUFFICES ASSUME ExecTypeOK, [Next]_vars PROVE ExecTypeOK'
  OBVIOUS
<1> USE DEF ExecTypeOK
<1>0. Zero \in Usage /\ Idle \in Goroutine /\ [state |-> "running"] \in Goroutine
  BY DEF Zero, Usage, Idle, Goroutine
<1>1. CASE UNCHANGED vars
  BY <1>1 DEF vars, execVars
<1>2. CASE PlanTask
  BY <1>2 DEF PlanTask, Step, Ended
<1>3. CASE Revalidate
  BY <1>3 DEF Revalidate, Step, Ended
<1>4. CASE StartWave
  <2>1. goroutine' \in [Ids -> Goroutine]
    BY <1>0, <1>4 DEF StartWave
  <2>2. errs' \in Seq(Error)
    BY <1>4, <<>> \in Seq(Error) DEF StartWave
  <2>3. pc' \in Step \cup Ended
    BY <1>4 DEF StartWave, Step, Ended, Breaches
  <2> QED
    BY <1>4, <2>1, <2>2, <2>3 DEF StartWave
<1>5. CASE WaveJoined
  <2>1. errs # <<>> => Head(errs) \in Error
    OBVIOUS
  <2>2. pc' \in Step \cup Ended
    BY <1>5, <2>1 DEF WaveJoined, Failed, Step, Ended, Breaches, Error
  <2> QED
    BY <1>5, <2>2 DEF WaveJoined
<1>6. CASE Synthesise
  BY <1>6 DEF Synthesise, Step, Ended
<1>7. CASE Expire
  BY <1>7 DEF Expire
<1>8. ASSUME NEW id \in Ids, ExecuteFails(id) PROVE ExecTypeOK'
  <2>1. [kind |-> "task", usage |-> Zero] \in Error
    BY <1>0 DEF Error
  <2>2. goroutine' \in [Ids -> Goroutine]
    BY <1>0, <1>8 DEF ExecuteFails
  <2>3. errs' \in Seq(Error)
    BY <1>8, <2>1 DEF ExecuteFails
  <2> QED
    BY <1>8, <2>2, <2>3 DEF ExecuteFails
<1>9. ASSUME NEW id \in Ids, NEW u \in Usages, NEW good \in BOOLEAN, Add(id, u, good)
      PROVE  ExecTypeOK'
  <2> DEFINE r == Executed(id, u, good)
  <2>1. r \in Result /\ u \in Usage
    BY UsagesAssumption DEF Executed, Result
  <2>2. /\ [state |-> "over", kind |-> "cost"] \in Goroutine
        /\ [state |-> "over", kind |-> "tokens"] \in Goroutine
    BY DEF Goroutine, Breaches
  <2>3. [state |-> "clock", result |-> r] \in Goroutine /\ [state |-> "record", result |-> r] \in Goroutine
    BY <2>1 DEF Goroutine
  <2>4. goroutine' \in [Ids -> Goroutine]
    BY <1>9, <2>2, <2>3 DEF Add
  <2>5. used' \in Usage
    BY <1>9, <2>1, Sums DEF Add
  <2> QED
    BY <1>9, <2>4, <2>5 DEF Add
<1>10. ASSUME NEW id \in Ids, CheckTime(id) PROVE ExecTypeOK'
  <2>1. goroutine[id].result \in Result
    BY <1>10 DEF CheckTime, Goroutine
  <2>2. [state |-> "over", kind |-> "time"] \in Goroutine
    BY DEF Goroutine, Breaches
  <2>3. [state |-> "record", result |-> goroutine[id].result] \in Goroutine
    BY <2>1 DEF Goroutine
  <2>4. goroutine' \in [Ids -> Goroutine]
    BY <1>10, <2>2, <2>3 DEF CheckTime
  <2> QED
    BY <1>10, <2>4 DEF CheckTime
<1>11. ASSUME NEW id \in Ids, Breach(id) PROVE ExecTypeOK'
  <2>1. goroutine[id].kind \in Breaches
    BY <1>11 DEF Breach, Goroutine
  <2>2. BreachError(goroutine[id].kind) \in Error
    BY <2>1 DEF BreachError, Error
  <2>3. goroutine' \in [Ids -> Goroutine]
    BY <1>0, <1>11 DEF Breach
  <2>4. errs' \in Seq(Error)
    BY <1>11, <2>2 DEF Breach
  <2> QED
    BY <1>11, <2>3, <2>4 DEF Breach
<1>12. ASSUME NEW id \in Ids, Record(id) PROVE ExecTypeOK'
  <2>1. goroutine[id].result \in Result
    BY <1>12 DEF Record, Goroutine
  <2>2. goroutine' \in [Ids -> Goroutine]
    BY <1>0, <1>12 DEF Record
  <2>3. results' \in Seq(Result)
    BY <1>12, <2>1 DEF Record
  <2>4. executed' \subseteq Ids
    BY <1>12 DEF Record
  <2> QED
    BY <1>12, <2>2, <2>3, <2>4 DEF Record
<1> QED
  BY <1>1, <1>2, <1>3, <1>4, <1>5, <1>6, <1>7, <1>8, <1>9, <1>10, <1>11, <1>12
     DEF Next, ProcessThought, Goroutines, Outcomes

LEMMA WavesStep == IInv /\ [Next]_vars => Waves'
<1> SUFFICES ASSUME IInv, [Next]_vars PROVE Waves'
  OBVIOUS
<1> USE DEF IInv, ExecTypeOK, Waves, AllIdle
<1>1. CASE UNCHANGED vars
  BY <1>1 DEF vars, execVars, planVars, Ready, Known, Position
<1>2. CASE PlanTask
  <2>1. UNCHANGED <<goroutine, executed, tasks>> /\ pc # "wait" /\ pc' # "wait"
    BY <1>2, PlanKeeps DEF PlanTask
  <2> QED
    BY <2>1 DEF Known, Position
<1>3. CASE Revalidate \/ Synthesise
  BY <1>3 DEF Revalidate, Synthesise, planVars, Known, Position
<1>4. CASE StartWave
  <2>1. UNCHANGED <<planVars, executed>> /\ AllIdle
    BY <1>4 DEF StartWave
  <2>2. \A id \in Ids : Ready(id)' = Ready(id)
    BY <2>1 DEF Ready, planVars, Known, Position
  <2>3. \/ UNCHANGED goroutine /\ pc' # "wait"
        \/ goroutine' = [id \in Ids |-> IF Ready(id) THEN [state |-> "running"] ELSE Idle] /\ pc' = "wait"
    BY <1>4 DEF StartWave
  <2> QED
    BY <2>1, <2>2, <2>3 DEF planVars, Known, Position
<1>5. CASE WaveJoined
  BY <1>5 DEF WaveJoined, planVars, Ready, Known, Position
<1>6. CASE Expire
  BY <1>6 DEF Expire, planVars, Ready, Known, Position
<1>7. ASSUME NEW id \in Ids,
             \/ ExecuteFails(id) \/ CheckTime(id) \/ Breach(id)
             \/ \E u \in Usages, good \in Outcomes(id) : Add(id, u, good)
      PROVE  Waves'
  <2>1. /\ UNCHANGED <<planVars, executed, pc>>
        /\ goroutine[id] # Idle
        /\ \A i \in Ids \ {id} : goroutine'[i] = goroutine[i]
    BY <1>7 DEF ExecuteFails, CheckTime, Breach, Add, Idle
  <2>2. \A i \in Ids : Ready(i)' = Ready(i)
    BY <2>1 DEF Ready, planVars, Known, Position
  <2> QED
    BY <2>1, <2>2 DEF planVars, Known, Position
<1>8. ASSUME NEW id \in Ids, Record(id) PROVE Waves'
  <2>1. /\ UNCHANGED <<planVars, pc>>
        /\ executed' = executed \cup {id}
        /\ goroutine[id] # Idle /\ goroutine'[id] = Idle
        /\ \A i \in Ids \ {id} : goroutine'[i] = goroutine[i]
    BY <1>8 DEF Record, Idle
  <2>2. \A i \in Ids \ {id} : Ready(i) => Ready(i)'
    BY <2>1 DEF Ready, planVars, Known, Position
  <2>3. id \in Known
    BY <2>1 DEF Ready
  <2> QED
    BY <2>1, <2>2, <2>3 DEF planVars, Known, Position
<1> QED
  BY <1>1, <1>2, <1>3, <1>4, <1>5, <1>6, <1>7, <1>8 DEF Next, ProcessThought, Goroutines

\* Whether there is a monitor depends on the budget alone.
LEMMA MonitorStays == UNCHANGED budget => Monitored' = Monitored
BY DEF Monitored, IsZero, Positive

LEMMA ToldStep == IInv /\ [Next]_vars => Told'
<1> SUFFICES ASSUME IInv, [Next]_vars PROVE Told'
  OBVIOUS
<1>0. UNCHANGED <<tasks, budget>> /\ Monitored' = Monitored
  <2>1. CASE UNCHANGED planVars
    BY <2>1, MonitorStays DEF planVars
  <2>2. CASE PlanTask
    BY <2>2, PlanKeeps, MonitorStays DEF PlanTask
  <2>3. CASE Revalidate \/ StartWave \/ WaveJoined \/ Synthesise \/ Goroutines \/ Expire
    BY <2>1, <2>3 DEF Revalidate, StartWave, WaveJoined, Synthesise, Goroutines, Expire,
       ExecuteFails, Add, CheckTime, Breach, Record
  <2> QED
    BY <2>1, <2>2, <2>3 DEF Next, ProcessThought, vars
<1> USE <1>0 DEF IInv, ExecTypeOK, Told, OverLimit, Exceeds
<1>1. CASE UNCHANGED vars
  BY <1>1 DEF vars, execVars
<1>2. CASE PlanTask
  <2>1. UNCHANGED <<goroutine, used, errs>> /\ pc = "plan"
        /\ pc' \in {"plan", "revalidate", "not_planned"}
    BY <1>2 DEF PlanTask
  <2> QED
    BY <2>1
<1>3. CASE Revalidate \/ Synthesise
  <2>1. /\ UNCHANGED <<goroutine, used, errs>> /\ pc \in {"revalidate", "synthesise"}
        /\ pc' \in {"wave", "bad_document", "no_synthesis", "ok"}
    BY <1>3 DEF Revalidate, Synthesise
  <2> QED
    BY <2>1
<1>4. CASE StartWave
  <2>1. /\ UNCHANGED used /\ errs = <<>> /\ errs' = <<>> /\ ~OverLimit
        /\ pc' \in {"time", "synthesise", "cycle", "wait"}
    BY <1>4 DEF StartWave
  <2>2. \A id \in Ids : goroutine'[id].state # "over"
    <3>1. CASE UNCHANGED goroutine
      BY <1>4, <3>1 DEF StartWave, Waves, AllIdle, Idle
    <3>2. CASE goroutine' = [id \in Ids |-> IF Ready(id) THEN [state |-> "running"] ELSE Idle]
      BY <3>2 DEF Idle
    <3> QED
      BY <1>4, <3>1, <3>2 DEF StartWave
  <2> QED
    BY <2>1, <2>2
<1>5. CASE WaveJoined
  <2>1. /\ UNCHANGED <<goroutine, used, errs>> /\ pc = "wait"
        /\ \A id \in Ids : goroutine[id].state # "over"
    BY <1>5 DEF WaveJoined, AllIdle, Idle
  <2>2. CASE errs = <<>>
    <3>1. pc' = "wave" /\ ~OverLimit
      BY <1>5, <2>1, <2>2 DEF WaveJoined, Failed
    <3> QED
      BY <2>1, <2>2, <3>1
  <2>3. CASE errs # <<>>
    <3>1. Head(errs) \in Error
      BY <2>3
    <3>2. pc' = Head(errs).kind
      BY <1>5, <2>3 DEF WaveJoined, Failed
    <3>3. pc' \in {"task", "cost", "tokens", "time"}
      BY <3>1, <3>2 DEF Error, Breaches
    <3> QED
      BY <2>1, <2>3, <3>2, <3>3
  <2> QED
    BY <2>2, <2>3
<1>6. CASE Expire
  BY <1>6 DEF Expire
<1>7. ASSUME NEW id \in Ids, ExecuteFails(id) PROVE Told'
  <2>1. /\ pc = "wait" /\ UNCHANGED <<pc, used>> /\ goroutine'[id] = Idle
        /\ \A i \in Ids \ {id} : goroutine'[i] = goroutine[i]
    BY <1>7 DEF ExecuteFails, Waves, AllIdle, Idle
  <2>2. /\ errs' # <<>>
        /\ \A k \in DOMAIN errs' :
             errs'[k].kind = "task" \/ (k \in DOMAIN errs /\ errs'[k] = errs[k])
    BY <1>7 DEF ExecuteFails
  <2> QED
    BY <2>1, <2>2 DEF Idle
<1>8. ASSUME NEW id \in Ids, CheckTime(id) \/ Record(id) PROVE Told'
  BY <1>8 DEF CheckTime, Record, Waves, Idle
<1>9. ASSUME NEW id \in Ids, Breach(id) PROVE Told'
  <2>1. /\ pc = "wait" /\ UNCHANGED <<pc, used>> /\ goroutine'[id] = Idle
        /\ \A i \in Ids \ {id} : goroutine'[i] = goroutine[i]
    BY <1>9 DEF Breach, Waves, AllIdle, Idle
  <2>2. /\ errs' # <<>>
        /\ \A k \in DOMAIN errs' :
             \/ errs'[k] = BreachError(goroutine[id].kind)
             \/ k \in DOMAIN errs /\ errs'[k] = errs[k]
    BY <1>9 DEF Breach
  <2>3. goroutine[id].kind # "time" => Exceeds(used, goroutine[id].kind)
    BY <1>9 DEF Breach
  <2> QED
    BY <2>1, <2>2, <2>3 DEF Idle, BreachError
<1>10. ASSUME NEW id \in Ids, NEW u \in Usages, NEW good \in BOOLEAN, Add(id, u, good)
       PROVE  Told'
  <2>1. /\ pc = "wait" /\ UNCHANGED <<pc, errs>>
        /\ \A i \in Ids \ {id} : goroutine'[i] = goroutine[i]
    BY <1>10 DEF Add, Waves, AllIdle, Idle
  <2>2. /\ u.cost \in Nat /\ u.tokens \in Nat /\ used.cost \in Nat /\ used.tokens \in Nat
        /\ budget.maxCost \in Nat \cup {Unset} /\ budget.maxTokens \in Nat \cup {Unset}
    BY UsagesAssumption DEF Usage, Fixed, Budget, Limit
  <2>3. CASE ~Monitored
    <3>1. UNCHANGED used /\ goroutine'[id].state = "record"
      BY <1>10, <2>3 DEF Add
    <3> QED
      BY <2>1, <2>3, <3>1
  <2>4. CASE Monitored
    <3>1. /\ used'.cost = used.cost + u.cost
          /\ used'.tokens = used.tokens + u.tokens
      BY <1>10, <2>4 DEF Add, Plus
    <3>2. \A kind \in {"cost", "tokens"} : Exceeds(used, kind) => Exceeds(used, kind)'
      BY <2>2, <3>1
    <3>3. \/ goroutine'[id] = [state |-> "over", kind |-> "cost"] /\ Exceeds(used, "cost")'
          \/ goroutine'[id] = [state |-> "over", kind |-> "tokens"] /\ Exceeds(used, "tokens")'
          \/ goroutine'[id].state = "clock" /\ ~OverLimit'
      BY <1>10, <2>4 DEF Add, Over, Plus
    <3>4. \A i \in Ids : goroutine[i].state = "over" => goroutine[i].kind \in Breaches
      BY DEF Goroutine
    <3> QED
      BY <2>1, <3>2, <3>3, <3>4 DEF Breaches
  <2> QED
    BY <2>3, <2>4
<1> QED
  BY <1>1, <1>2, <1>3, <1>4, <1>5, <1>6, <1>7, <1>8, <1>9, <1>10
     DEF Next, ProcessThought, Goroutines, Outcomes

\* The invariant is inductive.
LEMMA Invariant == Spec => []IInv
<1>1. IInv /\ [Next]_vars => IInv'
  BY FixedStep, TypeStep, WavesStep, ToldStep DEF IInv
<1> QED
  BY <1>1, InitInv, PTL DEF Spec

\* A thought that ends well kept its budget, one that ends for it tells a use
\* over the limit.
THEOREM BudgetIsKept == Spec => []BudgetKept
<1>1. IInv => BudgetKept
  BY DEF IInv, ExecTypeOK, Told, OverLimit, BudgetKept
<1> QED
  BY <1>1, Invariant, PTL

\* No wave starts after a failure or over a limit.
THEOREM NoWaveWhenOver == Spec => StopsWhenOver
<1>1. ASSUME IInv, [Next]_vars, NEW id \in Ids,
             goroutine[id] = Idle, goroutine'[id].state = "running"
      PROVE  errs = <<>> /\ ~OverLimit
  <2>1. CASE StartWave
    <3>1. pc = "wave"
      BY <2>1 DEF StartWave
    <3> QED
      BY <1>1, <3>1 DEF IInv, Told
  <2>2. CASE UNCHANGED goroutine
    BY <1>1, <2>2 DEF Idle
  <2>3. CASE Goroutines
    BY <1>1, <2>3 DEF Goroutines, ExecuteFails, CheckTime, Breach, Record, Add, Idle, IInv, ExecTypeOK
  <2> QED
    BY <1>1, <2>1, <2>2, <2>3 DEF Next, ProcessThought, PlanTask, Revalidate, WaveJoined, Synthesise,
       Expire, vars, execVars
<1>2. IInv /\ [Next]_vars =>
        [(\E id \in Ids : goroutine[id] = Idle /\ goroutine'[id].state = "running") =>
           /\ errs = <<>>
           /\ Monitored => ~Exceeds(used, "cost") /\ ~Exceeds(used, "tokens")]_vars
  BY <1>1 DEF OverLimit
<1> QED
  BY <1>2, Invariant, PTL DEF Spec, StopsWhenOver

-----------------------------------------------------------------------------
(* executeTasks implements TaskOrder. *)

PlanNeeds == [id \in Ids |-> IF ValidTasks /\ id \in Known THEN Normalised(At(id)) ELSE {}]
Said == IF pc \in {"synthesise", "ok", "no_synthesis"} THEN "ok"
        ELSE IF pc = "cycle" THEN "cycle"
        ELSE IF pc \in Ended THEN "error" ELSE "none"

\* The tasks are run with the dependencies Plan has made of the document's.
Needed ==
  /\ phase \notin {"ask", "structure", "rejected"} => ValidTasks
  /\ phase = "planned" => \A id \in Known : needs[id] = Normalised(At(id))
  /\ pc \notin {"plan", "not_planned"} => phase = "planned"

OrderInv == IInv /\ Needed

\* The abstract graph is a function of the document's tasks.
LEMMA GraphStays ==
  UNCHANGED tasks =>
    /\ UNCHANGED <<Known, PlanNeeds, ValidTasks>>
    /\ \A id \in Ids : Normalised(At(id))' = Normalised(At(id))
BY DEF Known, PlanNeeds, ValidTasks, Normalised, At, DependsOn, Entries, Position, FinalSynthesis,
   Typed, IdsAt, ForSynthesis, ForGraph

LEMMA KnownIds == Fixed => Known \subseteq Ids
<1> SUFFICES ASSUME Fixed, NEW i \in DOMAIN tasks PROVE tasks[i].id \in Ids
  BY DEF Known, Position
<1>1. tasks[i] \in Task
  BY DEF Fixed
<1> QED
  BY <1>1 DEF Task

\* What is needed stays so when neither the plan nor its end changes.
LEMMA NeededStays ==
  ASSUME OrderInv, UNCHANGED <<tasks, needs, phase>>,
         pc' \notin {"plan", "not_planned"} => phase = "planned"
  PROVE  Needed'
<1>1. Known' = Known /\ ValidTasks' = ValidTasks /\ Known \subseteq Ids
  BY GraphStays, KnownIds DEF OrderInv, IInv
<1>2. \A id \in Ids : Normalised(At(id))' = Normalised(At(id))
  BY GraphStays
<1> QED
  BY <1>1, <1>2 DEF OrderInv, Needed

LEMMA NeededStep == OrderInv /\ [Next]_vars => Needed'
<1> SUFFICES ASSUME OrderInv, [Next]_vars PROVE Needed'
  OBVIOUS
<1>1. CASE UNCHANGED <<planVars, pc>>
  BY <1>1, NeededStays DEF planVars, OrderInv, Needed
<1>2. CASE PlanTask
  <2>1. UNCHANGED tasks /\ pc = "plan"
        /\ (pc' \notin {"plan", "not_planned"} => phase' = "planned")
    BY <1>2, PlanKeeps DEF PlanTask
  <2>2. phase' \notin {"ask", "structure", "rejected"} => ValidTasks
    BY <1>2 DEF PlanTask, Plan, Ask, Structure, NextLayer, LayersDone, ValidatePlan, ApplyBudget,
       NormaliseDependencies, ValidStructure, OrderInv, Needed
  <2>3. Known' = Known /\ ValidTasks' = ValidTasks /\ Known \subseteq Ids
    BY <2>1, GraphStays, KnownIds DEF OrderInv, IInv
  <2>4. phase' = "planned" => \A id \in Known : needs'[id] = Normalised(At(id))
    <3>1. phase' = "planned" => NormaliseDependencies
      BY <1>2 DEF PlanTask, Plan, Ask, Structure, NextLayer, LayersDone, ValidatePlan, ApplyBudget
    <3> QED
      BY <2>3, <3>1 DEF NormaliseDependencies
  <2>5. \A id \in Ids : Normalised(At(id))' = Normalised(At(id))
    BY <2>1, GraphStays
  <2> QED
    BY <2>1, <2>2, <2>3, <2>4, <2>5 DEF Needed
<1>3. CASE Revalidate \/ StartWave \/ WaveJoined \/ Synthesise
  <2>1. UNCHANGED planVars /\ pc \notin {"plan", "not_planned"}
    BY <1>3 DEF Revalidate, StartWave, WaveJoined, Synthesise
  <2> QED
    BY <2>1, NeededStays DEF planVars, OrderInv, Needed
<1>4. CASE Goroutines \/ Expire
  <2>1. UNCHANGED <<planVars, pc>>
    BY <1>4 DEF Goroutines, Expire, ExecuteFails, Add, CheckTime, Breach, Record
  <2> QED
    BY <1>1, <2>1
<1> QED
  BY <1>1, <1>2, <1>3, <1>4 DEF Next, ProcessThought, vars, execVars

LEMMA OrderInvariant == Spec => []OrderInv
<1>1. Init => Needed
  BY DEF Init, PlanInit, Needed
<1>2. OrderInv /\ [Next]_vars => OrderInv'
  BY NeededStep, FixedStep, TypeStep, WavesStep, ToldStep DEF OrderInv, IInv
<1> QED
  BY <1>1, <1>2, InitInv, PTL DEF Spec, OrderInv

\* With a valid document, a task waits for tasks only.
LEMMA NeedsOfTasks == Fixed => PlanNeeds \in [Ids -> SUBSET Ids]
<1> SUFFICES ASSUME Fixed, ValidTasks, NEW id \in Known PROVE Normalised(At(id)) \subseteq Ids
  BY DEF PlanNeeds
<1>1. At(id) \in Position
  BY DEF At, Known
<1>2. DependsOn(At(id)) \subseteq Known
  BY <1>1 DEF ValidTasks
<1>3. \A S : S \subseteq Position => IdsAt(S) \subseteq Known
  BY DEF IdsAt, Known
<1>4. ForSynthesis \ {At(id)} \subseteq Position /\ ForGraph \ {At(id)} \subseteq Position
  BY DEF ForSynthesis, ForGraph, Typed
<1>5. Normalised(At(id)) \subseteq Known
  BY <1>2, <1>3, <1>4 DEF Normalised
<1> QED
  BY <1>5, KnownIds

\* A wave of the orchestrator sees what the abstract engine sees.
LEMMA SameReady ==
  ASSUME OrderInv, phase = "planned", NEW id \in Ids
  PROVE  Ready(id) <=> id \in Known \ executed /\ PlanNeeds[id] \subseteq executed
<1>1. CASE id \in Known
  <2>1. needs[id] = Normalised(At(id)) /\ ValidTasks
    BY <1>1 DEF OrderInv, Needed
  <2> QED
    BY <1>1, <2>1 DEF Ready, PlanNeeds
<1>2. CASE id \notin Known
  BY <1>2 DEF Ready
<1> QED
  BY <1>1, <1>2

LEMMA OrderInit == Init => Order!Init
<1> SUFFICES ASSUME Init PROVE Order!Init
  OBVIOUS
<1>1. Fixed
  BY InitInv DEF IInv
<1>2. Known \in SUBSET Ids /\ PlanNeeds \in [Ids -> SUBSET Ids]
  BY <1>1, KnownIds, NeedsOfTasks
<1>3. executed = {} /\ pc = "plan"
  BY DEF Init
<1> QED
  BY <1>2, <1>3 DEF Order!Init, PlanNeeds, Ended, Breaches

\* Every step is one of the abstract engine, or none.
LEMMA OrderStep == OrderInv /\ [Next]_vars => [Order!Next]_<<Known, PlanNeeds, executed, Said>>
<1> SUFFICES ASSUME OrderInv, [Next]_vars
             PROVE  [Order!Next]_<<Known, PlanNeeds, executed, Said>>
  OBVIOUS
<1>1. UNCHANGED <<Known, PlanNeeds>>
  <2>1. UNCHANGED tasks
    <3>1. CASE UNCHANGED planVars
      BY <3>1 DEF planVars
    <3>2. CASE PlanTask
      BY <3>2, PlanKeeps DEF PlanTask
    <3>3. CASE Revalidate \/ StartWave \/ WaveJoined \/ Synthesise \/ Goroutines \/ Expire
      BY <3>3 DEF Revalidate, StartWave, WaveJoined, Synthesise, Goroutines, Expire, ExecuteFails,
         Add, CheckTime, Breach, Record, planVars
    <3> QED
      BY <3>1, <3>2, <3>3 DEF Next, ProcessThought, vars
  <2> QED
    BY <2>1, GraphStays
<1>2. ASSUME executed' = executed, Said' = Said PROVE [Order!Next]_<<Known, PlanNeeds, executed, Said>>
  BY <1>1, <1>2
<1>3. ASSUME executed' = executed, Said = "none", Said' = "error"
      PROVE  Order!Next
  <2>1. Order!Return("error")
    BY <1>1, <1>3 DEF Order!Return, PlanNeeds, Said
  <2> QED
    BY <2>1 DEF Order!Next
<1>4. CASE UNCHANGED <<executed, pc>>
  BY <1>2, <1>4 DEF Said
<1>5. CASE PlanTask
  <2>1. executed' = executed /\ Said = "none"
    BY <1>5 DEF PlanTask, Said, Ended, Breaches
  <2>2. Said' \in {"none", "error"}
    BY <1>5 DEF PlanTask, Said, Ended, Breaches
  <2> QED
    BY <1>2, <1>3, <2>1, <2>2
<1>6. CASE Revalidate
  <2>1. executed' = executed /\ Said = "none" /\ Said' \in {"none", "error"}
    BY <1>6 DEF Revalidate, Said, Ended, Breaches
  <2> QED
    BY <1>2, <1>3, <2>1
<1>7. CASE WaveJoined
  <2>1. errs # <<>> => Head(errs).kind \in {"task"} \cup Breaches
    <3>1. errs # <<>> => Head(errs) \in Error
      BY DEF OrderInv, IInv, ExecTypeOK
    <3> QED
      BY <3>1 DEF Error
  <2>2. executed' = executed /\ Said = "none" /\ Said' \in {"none", "error"}
    BY <1>7, <2>1 DEF WaveJoined, Failed, Said, Ended, Breaches
  <2> QED
    BY <1>2, <1>3, <2>2
<1>8. CASE Synthesise
  <2>1. executed' = executed /\ Said' = Said
    BY <1>8 DEF Synthesise, Said
  <2> QED
    BY <1>2, <2>1
<1>9. CASE StartWave
  <2>1. phase = "planned" /\ executed' = executed /\ pc = "wave" /\ Said = "none"
    BY <1>9 DEF StartWave, OrderInv, Needed, Said, Ended, Breaches
  <2>2. CASE pc' = "time"
    BY <1>3, <2>1, <2>2 DEF Said, Ended, Breaches
  <2>3. CASE pc' = "wait"
    BY <1>2, <2>1, <2>3 DEF Said, Ended, Breaches
  <2>4. CASE pc' = "synthesise"
    <3>1. executed = Known /\ Said' = "ok"
      BY <1>9, <2>4 DEF StartWave, AllExecuted, OrderInv, IInv, Waves, Said
    <3>2. Order!Return("ok")
      BY <1>1, <2>1, <3>1 DEF Order!Return, PlanNeeds, Said
    <3> QED
      BY <3>2 DEF Order!Next
  <2>5. CASE pc' = "cycle"
    <3>1. executed # Known /\ Said' = "cycle" /\ \A id \in Ids : ~Ready(id)
      BY <1>9, <2>5 DEF StartWave, AllExecuted, Stuck, Said
    <3>2. \A id \in Ids : ~Order!Ready(id)
      BY <2>1, <3>1, SameReady DEF Order!Ready, PlanNeeds
    <3>3. Order!Return("cycle")
      BY <1>1, <2>1, <3>1, <3>2 DEF Order!Return, PlanNeeds, Said
    <3> QED
      BY <3>3 DEF Order!Next
  <2> QED
    BY <1>9, <2>2, <2>3, <2>4, <2>5 DEF StartWave
<1>10. CASE Expire
  BY <1>4, <1>10 DEF Expire
<1>11. ASSUME NEW id \in Ids,
              \/ ExecuteFails(id) \/ CheckTime(id) \/ Breach(id)
              \/ \E u \in Usages, good \in Outcomes(id) : Add(id, u, good)
       PROVE  UNCHANGED <<executed, pc>>
  BY <1>11 DEF ExecuteFails, CheckTime, Breach, Add
<1>12. ASSUME NEW id \in Ids, Record(id) PROVE Order!Next
  <2>1. /\ UNCHANGED pc /\ executed' = executed \cup {id} /\ goroutine[id] # Idle
    BY <1>12 DEF Record, Idle
  <2>2. pc = "wait" /\ Ready(id)
    BY <2>1 DEF OrderInv, IInv, Waves, AllIdle
  <2>3. phase = "planned" /\ Said = "none" /\ Said' = Said
    BY <2>1, <2>2 DEF OrderInv, Needed, Said, Ended, Breaches
  <2>4. Order!Ready(id)
    BY <2>2, <2>3, SameReady DEF Order!Ready, PlanNeeds
  <2>5. Order!Complete(id)
    BY <1>1, <2>1, <2>3, <2>4 DEF Order!Complete, PlanNeeds, Said
  <2> QED
    BY <2>5 DEF Order!Next
<1> QED
  BY <1>4, <1>5, <1>6, <1>7, <1>8, <1>9, <1>10, <1>11, <1>12
     DEF Next, ProcessThought, Goroutines, vars, execVars

\* The waves keep the order of the plan: executeTasks is an engine that does a
\* task only after those it depends on and tells a cycle from a completed plan.
THEOREM OrderIsKept == Spec => KeepsOrder
BY OrderInit, OrderStep, OrderInvariant, PTL DEF Spec, KeepsOrder, Order!Spec, PlanNeeds, Said

-----------------------------------------------------------------------------
(* The passes over the document. *)

\* Every set of natural numbers has a least element: what the proofs below use
\* for induction.
LEMMA LeastNatural ==
  ASSUME NEW S \in SUBSET Nat, S # {}
  PROVE  \E n \in S : \A m \in S : n <= m
<1>1. \E n \in S : \A m \in S : ~(<<m, n>> \in OpToRel(<, Nat))
  BY NatLessThanWellFounded, WFMin
<1>2. PICK n \in S : \A m \in S : ~(<<m, n>> \in OpToRel(<, Nat))
  BY <1>1
<1>3. \A m \in S : ~(m < n)
  BY <1>2 DEF OpToRel
<1> QED
  BY <1>3

\* The task at i depends on the one at j.
On(i, j) == tasks[j].id \in DependsOn(i)

LEMMA PositionFacts ==
  ASSUME Fixed
  PROVE  /\ Len(tasks) \in Nat /\ Position = 1..Len(tasks)
         /\ IsFiniteSet(Position) /\ Cardinality(Position) = Len(tasks)
         /\ \A i \in Position : tasks[i] \in Task /\ IsFiniteSet(Entries(i))
<1>1. Len(tasks) \in Nat /\ Position = 1..Len(tasks)
  BY DEF Fixed, Position
<1>2. IsFiniteSet(Position) /\ Cardinality(Position) = Len(tasks)
  BY <1>1, FS_Interval
<1>3. ASSUME NEW i \in Position PROVE tasks[i] \in Task /\ IsFiniteSet(Entries(i))
  <2>1. tasks[i] \in Task
    BY DEF Fixed, Position
  <2>2. tasks[i].dependsOn \in Seq(Names)
    BY <2>1 DEF Task
  <2>3. Entries(i) = 1..Len(tasks[i].dependsOn) /\ Len(tasks[i].dependsOn) \in Nat
    BY <2>2 DEF Entries
  <2> QED
    BY <2>1, <2>3, FS_Interval
<1> QED
  BY <1>1, <1>2, <1>3

\* The entries on the tasks of a set are those on the ones of a part of it and
\* those on the others.
LEMMA EntriesSplit ==
  ASSUME Fixed, ValidTasks, NEW i \in Position, NEW S \in SUBSET Position, NEW Q \in SUBSET S
  PROVE  /\ EntriesOn(i, S) \in Nat /\ EntriesOn(i, Q) \in Nat /\ EntriesOn(i, S \ Q) \in Nat
         /\ EntriesOn(i, S) = EntriesOn(i, Q) + EntriesOn(i, S \ Q)
<1> DEFINE E(T) == {k \in Entries(i) : tasks[i].dependsOn[k] \in {tasks[j].id : j \in T}}
<1>1. \A T : IsFiniteSet(E(T)) /\ Cardinality(E(T)) \in Nat
  <2> TAKE T
  <2>1. E(T) \in SUBSET Entries(i)
    OBVIOUS
  <2>2. IsFiniteSet(E(T))
    BY <2>1, FS_Subset, PositionFacts
  <2> HIDE DEF E
  <2> QED
    BY <2>2, FS_CardinalityType
<1>2. E(S) = E(Q) \cup E(S \ Q)
  OBVIOUS
<1>3. E(Q) \cap E(S \ Q) = {}
  BY DEF ValidTasks
<1>4. \A T : EntriesOn(i, T) = Cardinality(E(T))
  BY DEF EntriesOn
<1> HIDE DEF E
<1>5. Cardinality(E(S)) = Cardinality(E(Q)) + Cardinality(E(S \ Q)) - Cardinality({})
  BY <1>1, <1>2, <1>3, FS_Union
<1>6. Cardinality({}) = 0
  BY FS_EmptySet
<1> QED
  BY <1>1, <1>4, <1>5, <1>6

LEMMA NoEntries ==
  ASSUME Fixed, NEW i \in Position, NEW S \in SUBSET Position
  PROVE  EntriesOn(i, S) = 0 <=> \A j \in S : ~On(i, j)
<1> DEFINE E == {k \in Entries(i) : tasks[i].dependsOn[k] \in {tasks[j].id : j \in S}}
<1>1. E \in SUBSET Entries(i)
  OBVIOUS
<1>2. IsFiniteSet(E)
  BY <1>1, FS_Subset, PositionFacts
<1>3. E = {} <=> \A j \in S : ~On(i, j)
  BY DEF On, DependsOn
<1>4. EntriesOn(i, S) = Cardinality(E)
  BY DEF EntriesOn
<1> HIDE DEF E
<1> QED
  BY <1>2, <1>3, <1>4, FS_EmptySet

\* Layers of a plan: every task is in one at most, after the layers of all its
\* dependencies, right after that of one of them.
Layering ==
  /\ layers \in Seq(SUBSET Position)
  /\ \A k, l \in DOMAIN layers : layers[k] \cap layers[l] # {} => k = l
  /\ \A k \in DOMAIN layers : \A i \in layers[k] :
       /\ \A j \in Position : On(i, j) => \E l \in DOMAIN layers : l < k /\ j \in layers[l]
       /\ k > 1 => \E j \in layers[k - 1] : On(i, j)

\* The loop of computeExecutionHints: what is counted, and who is next.
Counting ==
  /\ indegree = [i \in Position |-> EntriesOn(i, Position \ Layered)]
  /\ queue = {i \in Position \ Layered : indegree[i] = 0}
  /\ layers # <<>> => \A i \in queue : \E j \in layers[Len(layers)] : On(i, j)

Ordered == phase \in {"validate", "invalid", "budget", "approval", "normalise", "planned"}

PlanInv ==
  /\ PlanTypeOK
  /\ phase \in {"ask", "structure"} => layers = <<>> /\ \A i \in Position : indegree[i] = 0
  /\ phase = "layers" \/ Ordered => ValidTasks /\ Layering
  /\ phase = "layers" => Counting
  /\ Ordered => Layered = Position /\ order = Flattened
  /\ phase \in {"budget", "approval", "normalise", "planned"} => Typed("synthesis") # {}
  /\ phase = "rejected" /\ (\E i \in Position : indegree[i] # 0) => Cyclic

\* What the tasks alone say.
LEMMA TasksSay ==
  UNCHANGED tasks =>
    /\ UNCHANGED <<Position, ValidTasks, Cyclic>>
    /\ \A type : Typed(type)' = Typed(type)
    /\ \A i, j : On(i, j)' = On(i, j)
    /\ \A i : EntriesOn(i, Position \ Layered)' = EntriesOn(i, Position \ Layered')
BY DEF Position, ValidTasks, Cyclic, Deadlocked, IdsAt, Typed, On, EntriesOn, DependsOn, Entries, Known

\* What the tasks and their layers say.
LEMMA LayersSay ==
  UNCHANGED <<tasks, layers>> => UNCHANGED <<Layering, Layered, Flattened>>
<1> SUFFICES ASSUME UNCHANGED <<tasks, layers>> PROVE UNCHANGED <<Layering, Layered, Flattened>>
  OBVIOUS
<1>1. UNCHANGED Position /\ \A i, j : On(i, j)' = On(i, j)
  BY TasksSay
<1> QED
  BY <1>1 DEF Layering, Layered, Flattened, Precedes, LayerOf

\* The start of the loop.
LEMMA FirstLayer ==
  ASSUME PlanInv, Fixed, phase = "structure", ValidTasks, UNCHANGED <<tasks, layers>>,
         indegree' = [i \in Position |-> EntriesOn(i, Position)],
         queue' = {i \in Position : indegree'[i] = 0}
  PROVE  Layering' /\ Counting' /\ indegree' \in [Position -> Int]
<1>1. UNCHANGED <<Position, Layering, Layered>> /\ layers = <<>>
  BY TasksSay, LayersSay DEF PlanInv
<1>2. Layering /\ Layered = {}
  BY <1>1 DEF Layering, Layered
<1>3. Position \ Layered' = Position
  BY <1>1, <1>2
<1>4. \A i : EntriesOn(i, Position \ Layered)' = EntriesOn(i, Position)
  BY <1>3, TasksSay
<1>5. \A i \in Position : EntriesOn(i, Position) \in Nat
  BY EntriesSplit
<1>6. indegree' = [i \in Position |-> EntriesOn(i, Position \ Layered)]'
  BY <1>1, <1>4
<1>7. queue' = {i \in Position \ Layered : indegree[i] = 0}'
  BY <1>1, <1>3
<1>8. Counting'
  BY <1>1, <1>6, <1>7 DEF Counting
<1> QED
  BY <1>1, <1>2, <1>5, <1>8

\* An iteration of the loop.
LEMMA LayeringStep ==
  ASSUME PlanInv, Fixed, phase = "layers", NextLayer
  PROVE  Layering' /\ Counting' /\ indegree' \in [Position -> Int]
<1>1. Layering /\ Counting /\ ValidTasks
  BY DEF PlanInv
<1>2. /\ layers' = Append(layers, queue) /\ queue # {} /\ UNCHANGED tasks
      /\ indegree' = [i \in Position |-> indegree[i] - EntriesOn(i, queue)]
      /\ queue' = {i \in Position : Released(indegree'[i], indegree[i])}
  BY DEF NextLayer
<1>3. UNCHANGED Position /\ \A i, j : On(i, j)' = On(i, j)
  BY <1>2, TasksSay
<1> DEFINE n == Len(layers)
<1>4. /\ n \in Nat /\ DOMAIN layers = 1..n /\ DOMAIN layers' = 1..(n + 1) /\ Len(layers') = n + 1
      /\ \A k \in 1..n : layers'[k] = layers[k]
      /\ layers'[n + 1] = queue
      /\ \A k \in 1..n : layers[k] \subseteq Layered
  BY <1>1, <1>2 DEF Layering, Layered
<1>5. layers' \in Seq(SUBSET Position) /\ queue \subseteq Position \ Layered
  BY <1>1, <1>2 DEF Layering, Counting
<1>6. Layered' = Layered \cup queue
  BY <1>4 DEF Layered
<1>7. Layered \subseteq Position
  BY <1>1 DEF Layered, Layering
<1>8. \A i \in queue, j \in Position : On(i, j) => \E l \in 1..n : j \in layers[l]
  <2> TAKE i \in queue, j \in Position
  <2>1. EntriesOn(i, Position \ Layered) = 0
    BY <1>1 DEF Counting
  <2>2. On(i, j) => j \in Layered
    BY <1>5, <2>1, NoEntries
  <2> QED
    BY <1>4, <2>2 DEF Layered
<1>9. n > 0 => \A i \in queue : \E j \in layers[n] : On(i, j)
  BY <1>1, <1>4 DEF Counting
<1> HIDE DEF n
<1>10. Layering'
  <2>1. \A k, l \in 1..(n + 1) : layers'[k] \cap layers'[l] # {} => k = l
    <3> SUFFICES ASSUME NEW k \in 1..(n + 1), NEW l \in 1..(n + 1), layers'[k] \cap layers'[l] # {}
                 PROVE  k = l
      OBVIOUS
    <3>1. CASE k \in 1..n /\ l \in 1..n
      BY <1>1, <1>4, <3>1 DEF Layering
    <3>2. CASE k \in 1..n /\ l = n + 1
      BY <1>4, <1>5, <3>2
    <3>3. CASE l \in 1..n /\ k = n + 1
      BY <1>4, <1>5, <3>3
    <3> QED
      BY <1>4, <3>1, <3>2, <3>3
  <2>2. \A k \in 1..(n + 1), i \in Position : i \in layers'[k] =>
          /\ \A j \in Position : On(i, j) => \E l \in 1..(n + 1) : l < k /\ j \in layers'[l]
          /\ k > 1 => \E j \in layers'[k - 1] : On(i, j)
    <3> SUFFICES ASSUME NEW k \in 1..(n + 1), NEW i \in Position, i \in layers'[k]
                 PROVE  /\ \A j \in Position : On(i, j) => \E l \in 1..(n + 1) : l < k /\ j \in layers'[l]
                        /\ k > 1 => \E j \in layers'[k - 1] : On(i, j)
      OBVIOUS
    <3>1. CASE k \in 1..n
      <4>1. i \in layers[k]
        BY <1>4, <3>1
      <4>2. \A j \in Position : On(i, j) => \E l \in 1..n : l < k /\ j \in layers[l]
        BY <1>1, <1>4, <3>1, <4>1 DEF Layering
      <4>3. k > 1 => \E j \in layers[k - 1] : On(i, j)
        BY <1>1, <1>4, <3>1, <4>1 DEF Layering
      <4>4. k > 1 => k - 1 \in 1..n
        BY <1>4, <3>1
      <4> QED
        BY <1>4, <4>2, <4>3, <4>4
    <3>2. CASE k = n + 1
      <4>1. i \in queue
        BY <1>4, <3>2
      <4>2. \A l \in 1..n : l \in 1..(n + 1) /\ l < k
        BY <1>4, <3>2
      <4>3. k > 1 => n > 0 /\ k - 1 = n /\ n \in 1..n
        BY <1>4, <3>2
      <4> QED
        BY <1>4, <1>8, <1>9, <4>1, <4>2, <4>3
    <3> QED
      BY <1>4, <3>1, <3>2
  <2>3. \A k \in 1..(n + 1) : \A i \in layers'[k] : i \in Position
    BY <1>4, <1>5
  <2> QED
    BY <1>3, <1>4, <1>5, <2>1, <2>2, <2>3 DEF Layering
<1>11. ASSUME NEW i \in Position
       PROVE  /\ EntriesOn(i, Position \ Layered) \in Nat /\ EntriesOn(i, queue) \in Nat
              /\ indegree[i] = EntriesOn(i, Position \ Layered)
              /\ indegree'[i] = EntriesOn(i, Position \ Layered')
              /\ indegree'[i] \in Nat
              /\ indegree'[i] = indegree[i] - EntriesOn(i, queue)
  <2>1. (Position \ Layered) \ queue = Position \ Layered'
    BY <1>6
  <2>2. indegree[i] = EntriesOn(i, Position \ Layered)
    BY <1>1 DEF Counting
  <2>3. indegree'[i] = indegree[i] - EntriesOn(i, queue)
    BY <1>2
  <2>4. /\ EntriesOn(i, Position \ Layered) \in Nat /\ EntriesOn(i, queue) \in Nat
        /\ EntriesOn(i, (Position \ Layered) \ queue) \in Nat
        /\ EntriesOn(i, Position \ Layered) = EntriesOn(i, queue) + EntriesOn(i, (Position \ Layered) \ queue)
    BY <1>1, <1>5, EntriesSplit
  <2> DEFINE a == EntriesOn(i, Position \ Layered)
             b == EntriesOn(i, queue)
             c == EntriesOn(i, (Position \ Layered) \ queue)
  <2>5. a \in Nat /\ b \in Nat /\ c \in Nat /\ a = b + c
    BY <2>4
  <2>6. EntriesOn(i, Position \ Layered') = c
    BY <2>1
  <2> HIDE DEF a, b, c
  <2>7. indegree'[i] = a - b /\ a - b = c
    BY <2>2, <2>3, <2>5 DEF a, b
  <2> QED
    BY <2>2, <2>5, <2>6, <2>7 DEF a, b
<1>12. indegree' = [i \in Position |-> EntriesOn(i, Position \ Layered)]'
  <2>1. \A i : EntriesOn(i, Position \ Layered)' = EntriesOn(i, Position \ Layered')
    BY <1>2, TasksSay
  <2> QED
    BY <1>2, <1>3, <1>11, <2>1
<1>13. queue' = {i \in Position \ Layered' : indegree'[i] = 0}
  <2>1. ASSUME NEW i \in Position, Released(indegree'[i], indegree[i]) PROVE i \notin Layered'
    <3>1. i \notin queue
      BY <1>1, <1>11, <2>1 DEF Released, Counting
    <3>2. \A k \in 1..n : i \in layers[k] => indegree[i] = 0
      <4> SUFFICES ASSUME NEW k \in 1..n, i \in layers[k] PROVE indegree[i] = 0
        OBVIOUS
      <4>1. \A j \in Position \ Layered : ~On(i, j)
        BY <1>1, <1>4 DEF Layering
      <4> QED
        BY <1>11, <4>1, NoEntries
    <3>3. indegree[i] # 0
      BY <1>11, <2>1 DEF Released
    <3> QED
      BY <1>4, <1>6, <3>1, <3>2, <3>3 DEF Layered
  <2>2. ASSUME NEW i \in Position \ Layered', indegree'[i] = 0 PROVE Released(indegree'[i], indegree[i])
    <3>1. i \notin queue /\ i \notin Layered
      BY <1>6
    <3>2. indegree[i] # 0
      BY <1>1, <3>1 DEF Counting
    <3> QED
      BY <1>11, <2>2, <3>2 DEF Released
  <2> QED
    BY <1>2, <2>1, <2>2 DEF Released
<1>14. \A i \in queue' : \E j \in queue : On(i, j)
  <2> SUFFICES ASSUME NEW i \in queue' PROVE \E j \in queue : On(i, j)
    OBVIOUS
  <2>1. i \in Position /\ indegree'[i] < indegree[i]
    BY <1>2 DEF Released
  <2>2. EntriesOn(i, queue) # 0
    BY <1>11, <2>1
  <2> QED
    BY <1>5, <2>1, <2>2, NoEntries
<1>15. Counting'
  BY <1>3, <1>4, <1>12, <1>13, <1>14 DEF Counting
<1> QED
  BY <1>2, <1>10, <1>11, <1>15

\* The layer of a task.
LEMMA LayerFacts ==
  ASSUME Layering, Layered = Position
  PROVE  /\ Len(layers) \in Nat /\ DOMAIN layers = 1..Len(layers)
         /\ \A i \in Position : LayerOf(i) \in DOMAIN layers /\ i \in layers[LayerOf(i)]
         /\ \A k \in DOMAIN layers : \A i \in layers[k] : i \in Position /\ LayerOf(i) = k
         /\ \A i, j \in Position : On(i, j) => LayerOf(j) < LayerOf(i)
         /\ \A i \in Position : LayerOf(i) > 1 =>
              \E j \in Position : On(i, j) /\ LayerOf(j) = LayerOf(i) - 1
<1>1. Len(layers) \in Nat /\ DOMAIN layers = 1..Len(layers)
  BY DEF Layering
<1>2. \A i \in Position : LayerOf(i) \in DOMAIN layers /\ i \in layers[LayerOf(i)]
  <2> TAKE i \in Position
  <2>1. \E k \in DOMAIN layers : i \in layers[k]
    BY DEF Layered
  <2> QED
    BY <2>1 DEF LayerOf
<1>3. \A k \in DOMAIN layers : \A i \in layers[k] : i \in Position /\ LayerOf(i) = k
  <2> SUFFICES ASSUME NEW k \in DOMAIN layers, NEW i \in layers[k]
               PROVE  i \in Position /\ LayerOf(i) = k
    OBVIOUS
  <2>1. i \in Position
    BY DEF Layered
  <2>2. i \in layers[LayerOf(i)] \cap layers[k] /\ LayerOf(i) \in DOMAIN layers
    BY <1>2, <2>1
  <2> QED
    BY <2>1, <2>2 DEF Layering
<1>4. \A i, j \in Position : On(i, j) => LayerOf(j) < LayerOf(i)
  <2> SUFFICES ASSUME NEW i \in Position, NEW j \in Position, On(i, j) PROVE LayerOf(j) < LayerOf(i)
    OBVIOUS
  <2>1. PICK l \in DOMAIN layers : l < LayerOf(i) /\ j \in layers[l]
    BY <1>2 DEF Layering
  <2> QED
    BY <1>3, <2>1
<1>5. \A i \in Position : LayerOf(i) > 1 => \E j \in Position : On(i, j) /\ LayerOf(j) = LayerOf(i) - 1
  <2> SUFFICES ASSUME NEW i \in Position, LayerOf(i) > 1
               PROVE  \E j \in Position : On(i, j) /\ LayerOf(j) = LayerOf(i) - 1
    OBVIOUS
  <2>1. PICK j \in layers[LayerOf(i) - 1] : On(i, j)
    BY <1>2 DEF Layering
  <2>2. LayerOf(i) - 1 \in DOMAIN layers
    BY <1>1, <1>2
  <2> QED
    BY <1>3, <2>1, <2>2
<1> QED
  BY <1>1, <1>2, <1>3, <1>4, <1>5

\* Tasks in layers do not wait for each other.
LEMMA LayeredAcyclic ==
  ASSUME Layering, Layered = Position
  PROVE  ~Cyclic
<1> SUFFICES ASSUME NEW S \in SUBSET Position, S # {},
                    \A i \in S : DependsOn(i) \cap IdsAt(S) # {}
             PROVE  FALSE
  BY DEF Cyclic, Deadlocked
<1> DEFINE T == {k \in Nat : \E i \in S : k = LayerOf(i)}
<1>1. \A i \in S : LayerOf(i) \in T
  BY LayerFacts
<1>2. T \in SUBSET Nat /\ T # {}
  BY <1>1
<1>3. PICK k \in T : \A m \in T : k <= m
  BY <1>2, LeastNatural
<1>4. PICK i \in S : k = LayerOf(i)
  BY <1>3
<1>5. PICK j \in S : On(i, j)
  BY DEF IdsAt, On
<1>6. LayerOf(j) < LayerOf(i)
  BY <1>5, LayerFacts
<1> QED
  BY <1>1, <1>3, <1>4, <1>6

\* Tasks left over when no one is next wait for each other.
LEMMA LeftOver ==
  ASSUME Fixed, Counting, queue = {}, Layered \subseteq Position, ~AllLayered
  PROVE  Cyclic
<1> DEFINE S == Position \ Layered
<1>1. S # {} /\ S \in SUBSET Position
  BY DEF AllLayered
<1>2. ASSUME NEW i \in S PROVE DependsOn(i) \cap IdsAt(S) # {}
  <2>1. EntriesOn(i, S) # 0
    BY DEF Counting
  <2>2. \E j \in S : On(i, j)
    BY <2>1, NoEntries
  <2> QED
    BY <2>2 DEF On, IdsAt
<1> QED
  BY <1>1, <1>2 DEF Cyclic, Deadlocked

-----------------------------------------------------------------------------
(* The order made of the layers.                                            *)

Before(i) == {j \in Position : Precedes(j, i)}

LEMMA PrecedesOrders ==
  ASSUME Fixed, Layering, Layered = Position
  PROVE  \A i, j, k \in Position :
           /\ ~Precedes(i, i)
           /\ Precedes(i, j) /\ Precedes(j, k) => Precedes(i, k)
           /\ i # j => Precedes(i, j) \/ Precedes(j, i)
<1>1. \A i \in Position : i \in Int /\ LayerOf(i) \in Int
  BY PositionFacts, LayerFacts
<1> QED
  BY <1>1 DEF Precedes

\* A task has a smaller number before it than those it precedes.
LEMMA RankGrows ==
  ASSUME Fixed, Layering, Layered = Position
  PROVE  /\ \A i \in Position : Cardinality(Before(i)) \in 0..(Len(tasks) - 1)
         /\ \A i, j \in Position : Precedes(i, j) => Cardinality(Before(i)) < Cardinality(Before(j))
<1>1. \A i \in Position : Before(i) \subseteq Position \ {i}
  BY PrecedesOrders DEF Before
<1>2. ASSUME NEW i \in Position
      PROVE  /\ IsFiniteSet(Before(i)) /\ Cardinality(Before(i)) \in Nat
             /\ Cardinality(Before(i)) <= Len(tasks) - 1
  <2>1. IsFiniteSet(Position \ {i}) /\ Cardinality(Position \ {i}) = Len(tasks) - 1
    BY PositionFacts, FS_RemoveElement
  <2>2. IsFiniteSet(Before(i)) /\ Cardinality(Before(i)) <= Len(tasks) - 1
    BY <1>1, <2>1, FS_Subset
  <2> QED
    BY <2>2, FS_CardinalityType
<1>3. ASSUME NEW i \in Position, NEW j \in Position, Precedes(i, j)
      PROVE  Cardinality(Before(i)) < Cardinality(Before(j))
  <2>1. Before(i) \subseteq Before(j) /\ Before(i) # Before(j)
    BY <1>3, PrecedesOrders DEF Before
  <2>2. /\ Cardinality(Before(i)) <= Cardinality(Before(j))
        /\ Cardinality(Before(j)) # Cardinality(Before(i))
    BY <1>2, <2>1, FS_Subset
  <2> QED
    BY <1>2, <2>2
<1>4. Len(tasks) \in Nat
  BY PositionFacts
<1> QED
  BY <1>2, <1>3, <1>4

PlaceOf(n) == CHOOSE i \in Position : Cardinality({j \in Position : Precedes(j, i)}) = n - 1

\* Every place of the order is the one of one task.
LEMMA Places ==
  ASSUME Fixed, Layering, Layered = Position
  PROVE  /\ Flattened = [n \in Position |-> tasks[PlaceOf(n)].id]
         /\ \A n \in Position : PlaceOf(n) \in Position /\ Cardinality(Before(PlaceOf(n))) = n - 1
         /\ \A i \in Position : Cardinality(Before(i)) + 1 \in Position
                                /\ PlaceOf(Cardinality(Before(i)) + 1) = i
<1> DEFINE f == [i \in Position |-> Cardinality(Before(i)) + 1]
<1>1. f \in [Position -> Position]
  BY RankGrows, PositionFacts
<1>2. \A i, j \in Position : f[i] = f[j] => i = j
  <2> SUFFICES ASSUME NEW i \in Position, NEW j \in Position, f[i] = f[j], i # j PROVE FALSE
    OBVIOUS
  <2>1. Cardinality(Before(i)) \in Int /\ Cardinality(Before(j)) \in Int
    BY RankGrows, PositionFacts
  <2>2. Precedes(i, j) \/ Precedes(j, i)
    BY PrecedesOrders
  <2> QED
    BY <2>1, <2>2, RankGrows
<1>3. f \in Injection(Position, Position)
  BY <1>1, <1>2, Fun_IsInj
<1>4. f \in Surjection(Position, Position)
  BY <1>3, FS_Injection, PositionFacts
<1>5. \A n \in Position : \E i \in Position : f[i] = n
  BY <1>4, Fun_SurjectionProperties
<1>6. \A n \in Position : PlaceOf(n) \in Position /\ Cardinality(Before(PlaceOf(n))) = n - 1
  <2> TAKE n \in Position
  <2>1. PICK i \in Position : f[i] = n
    BY <1>5
  <2>2. Cardinality({j \in Position : Precedes(j, i)}) = n - 1
    BY <2>1, RankGrows, PositionFacts DEF Before
  <2> QED
    BY <2>2 DEF PlaceOf, Before
<1>7. ASSUME NEW i \in Position
      PROVE  Cardinality(Before(i)) + 1 \in Position /\ PlaceOf(Cardinality(Before(i)) + 1) = i
  <2>1. f[i] \in Position /\ f[i] = Cardinality(Before(i)) + 1
    BY <1>1
  <2>2. PlaceOf(f[i]) \in Position /\ Cardinality(Before(PlaceOf(f[i]))) = f[i] - 1
    BY <1>6, <2>1
  <2>3. f[PlaceOf(f[i])] = f[i]
    BY <2>1, <2>2, PositionFacts
  <2> QED
    BY <1>2, <2>1, <2>2, <2>3
<1>8. Flattened = [n \in Position |-> tasks[PlaceOf(n)].id]
  BY DEF Flattened, PlaceOf
<1> QED
  BY <1>6, <1>7, <1>8

LEMMA FlattenedType ==
  ASSUME Fixed, Layering, Layered = Position
  PROVE  Flattened \in Seq(Names)
<1>1. \A n \in Position : tasks[PlaceOf(n)].id \in Names
  BY KnownIds, Places DEF Known, Names
<1>2. Flattened \in [1..Len(tasks) -> Names]
  BY <1>1, Places, PositionFacts
<1> QED
  BY <1>2, PositionFacts

\* The document validates with the order computed for it.
LEMMA FlattenedValid ==
  ASSUME Fixed, ValidTasks, Layering, Layered = Position, order = Flattened
  PROVE  ValidStructure
<1>1. DOMAIN order = Position /\ \A n \in Position : order[n] = tasks[PlaceOf(n)].id
  BY Places
<1>2. \A n \in Position : order[n] \in Known /\ PlaceOf(n) \in Position
  BY <1>1, Places DEF Known
<1>3. \A i \in Position : At(tasks[i].id) = i
  BY DEF At, ValidTasks
<1>4. ASSUME NEW k \in Position, NEW j \in 1..(k - 1) PROVE order[j] # order[k]
  <2>1. j \in Position /\ j # k
    BY PositionFacts
  <2>2. PlaceOf(j) # PlaceOf(k)
    BY <2>1, Places, PositionFacts
  <2> QED
    BY <1>1, <1>2, <2>1, <2>2 DEF ValidTasks
<1>5. ASSUME NEW k \in Position, NEW d \in DependsOn(At(order[k]))
      PROVE  \E j \in 1..(k - 1) : d = order[j]
  <2> DEFINE i == PlaceOf(k)
  <2>1. i \in Position /\ At(order[k]) = i /\ Cardinality(Before(i)) = k - 1
    BY <1>1, <1>2, <1>3, Places
  <2>2. PICK j \in Position : d = tasks[j].id
    BY <2>1 DEF ValidTasks, Known
  <2>3. Precedes(j, i)
    BY <2>1, <2>2, LayerFacts DEF On, Precedes
  <2> DEFINE m == Cardinality(Before(j)) + 1
  <2>4. m \in Position /\ PlaceOf(m) = j
    BY Places
  <2>5. Cardinality(Before(j)) < k - 1 /\ Cardinality(Before(j)) \in Nat
    BY <2>1, <2>3, RankGrows
  <2>6. m \in 1..(k - 1)
    BY <2>5, PositionFacts
  <2> QED
    BY <1>1, <2>2, <2>4, <2>6
<1>6. ASSUME NEW i \in Position PROVE \E k \in DOMAIN order : tasks[i].id = order[k]
  BY <1>1, Places
<1>7. ValidOrder
  BY <1>1, <1>2, <1>4, <1>5, <1>6 DEF ValidOrder, Known
<1> QED
  BY <1>7 DEF ValidStructure

LEMMA PlanInvInit == Init => PlanInv
<1> SUFFICES ASSUME Init PROVE PlanInv
  OBVIOUS
<1>1. Fixed /\ phase = "ask" /\ layers = <<>> /\ queue = {} /\ \A i \in Position : indegree[i] = 0
  BY InitInv DEF IInv, Init, PlanInit
<1>2. order \in Seq(Names)
  BY PlannerAssumption DEF Init, PlanInit
<1>3. indegree \in [Position -> Int] /\ needs \in [Ids -> SUBSET Names]
  BY DEF Init, PlanInit
<1>4. layers \in Seq(SUBSET Position)
  BY <1>1
<1>5. PlanTypeOK
  BY <1>1, <1>2, <1>3, <1>4 DEF PlanTypeOK, PlanStep, Fixed
<1> QED
  BY <1>1, <1>5 DEF PlanInv, Ordered

\* What stays of the invariant when the document stays as it is.
LEMMA PlanInvStays ==
  ASSUME PlanInv, UNCHANGED <<tasks, order, indegree, queue, layers, budget>>,
         needs' \in [Ids -> SUBSET Names], phase' \in PlanStep \cup PlanEnd,
         \/ phase' = phase
         \/ phase = "ask" /\ phase' \in {"structure", "rejected"}
         \/ phase = "structure" /\ phase' = "rejected"
         \/ /\ Ordered /\ Ordered'
            /\ phase' \in {"budget", "approval", "normalise", "planned"} => Typed("synthesis") # {}
  PROVE  PlanInv'
<1>1. UNCHANGED <<Position, Layering, Layered, Flattened, ValidTasks, Cyclic>>
      /\ Typed("synthesis")' = Typed("synthesis")
  BY TasksSay, LayersSay
<1>2. PlanTypeOK'
  BY <1>1 DEF PlanInv, PlanTypeOK
<1>3. phase' = "layers" => phase = "layers"
  BY DEF Ordered
<1>4. phase' = "layers" => Counting'
  <2>1. (indegree = [i \in Position |-> EntriesOn(i, Position \ Layered)])'
        <=> indegree' = [i \in Position |-> EntriesOn(i, Position \ Layered)]
    BY <1>1, TasksSay
  <2>2. \A i, j : On(i, j)' = On(i, j)
    BY TasksSay
  <2> QED
    BY <1>1, <1>3, <2>1, <2>2 DEF PlanInv, Counting
<1> QED
  BY <1>1, <1>2, <1>3, <1>4 DEF PlanInv, Ordered
\* A step of Plan keeps the invariant.
LEMMA PlanInvStep == PlanInv /\ Fixed /\ Plan => PlanInv'
<1> SUFFICES ASSUME PlanInv, Fixed, Plan PROVE PlanInv'
  OBVIOUS
<1>0. /\ UNCHANGED <<tasks, budget>> /\ needs \in [Ids -> SUBSET Names] /\ phase \in PlanStep \cup PlanEnd
      /\ UNCHANGED <<Position, ValidTasks, Cyclic>> /\ Typed("synthesis")' = Typed("synthesis")
  BY PlanKeeps, TasksSay DEF PlanInv, PlanTypeOK
<1>1. CASE Ask
  BY <1>0, <1>1, PlanInvStays DEF Ask, PlanStep, PlanEnd
<1>2. CASE Structure /\ ~ValidStructure
  BY <1>0, <1>2, PlanInvStays DEF Structure, PlanStep, PlanEnd
<1>3. CASE Structure /\ ValidStructure
  <2>1. /\ phase = "structure" /\ phase' = "layers" /\ ValidTasks
        /\ indegree' = [i \in Position |-> EntriesOn(i, Position)]
        /\ queue' = {i \in Position : indegree'[i] = 0}
        /\ UNCHANGED <<order, layers, needs>>
    BY <1>3 DEF Structure, ValidStructure
  <2>2. Layering' /\ Counting' /\ indegree' \in [Position -> Int]
    BY <1>0, <2>1, FirstLayer
  <2>3. PlanTypeOK'
    BY <1>0, <2>1, <2>2 DEF PlanInv, PlanTypeOK, PlanStep
  <2> QED
    BY <1>0, <2>1, <2>2, <2>3 DEF PlanInv, Ordered
<1>4. CASE NextLayer
  <2>1. /\ phase = "layers" /\ UNCHANGED <<order, needs, phase>> /\ queue' \subseteq Position
        /\ layers' = Append(layers, queue)
    BY <1>4 DEF NextLayer
  <2>2. Layering' /\ Counting' /\ indegree' \in [Position -> Int]
    BY <1>4, <2>1, LayeringStep
  <2>3. PlanTypeOK'
    BY <1>0, <2>1, <2>2 DEF PlanInv, PlanTypeOK
  <2> QED
    BY <1>0, <2>1, <2>2, <2>3 DEF PlanInv, Ordered
<1>5. CASE LayersDone
  <2>1. /\ phase = "layers" /\ queue = {} /\ UNCHANGED <<indegree, queue, layers, needs>>
        /\ \/ AllLayered /\ phase' = "validate" /\ order' = Flattened
           \/ ~AllLayered /\ phase' = "rejected" /\ UNCHANGED order
    BY <1>5 DEF LayersDone
  <2>2. ValidTasks /\ Layering /\ Counting /\ Layered \subseteq Position
    BY <2>1 DEF PlanInv, Layered, Layering
  <2>3. UNCHANGED <<Layering, Layered, Flattened>>
    BY <1>0, <2>1, LayersSay
  <2>4. order' \in Seq(Names)
    BY <2>1, <2>2, FlattenedType DEF AllLayered, PlanInv, PlanTypeOK
  <2>5. PlanTypeOK'
    BY <1>0, <2>1, <2>4 DEF PlanInv, PlanTypeOK, PlanStep, PlanEnd
  <2>6. ~AllLayered => Cyclic
    BY <2>1, <2>2, LeftOver
  <2> QED
    BY <1>0, <2>1, <2>2, <2>3, <2>5, <2>6 DEF PlanInv, Ordered, AllLayered
<1>6. CASE ValidatePlan \/ ApplyBudget
  <2>1. /\ UNCHANGED <<order, indegree, queue, layers, needs>> /\ Ordered /\ Ordered'
        /\ phase' \in PlanStep \cup PlanEnd
        /\ phase' \in {"budget", "approval", "normalise", "planned"} => Typed("synthesis") # {}
    BY <1>6 DEF ValidatePlan, ApplyBudget, Ordered, PlanInv, PlanStep, PlanEnd
  <2> QED
    BY <1>0, <2>1, PlanInvStays
<1>7. CASE NormaliseDependencies
  <2>1. /\ UNCHANGED <<order, indegree, queue, layers>> /\ phase = "normalise" /\ phase' = "planned"
        /\ needs' = [id \in Ids |-> IF id \in Known THEN Normalised(At(id)) ELSE {}]
        /\ ValidTasks /\ Typed("synthesis") # {}
    BY <1>7 DEF NormaliseDependencies, PlanInv, Ordered
  <2>2. \A id \in Known : Normalised(At(id)) \in SUBSET Names
    BY <2>1, NeedsOfTasks, KnownIds DEF PlanNeeds, Names
  <2>3. needs' \in [Ids -> SUBSET Names]
    BY <2>1, <2>2
  <2> QED
    BY <1>0, <2>1, <2>3, PlanInvStays DEF Ordered, PlanStep, PlanEnd
<1> QED
  BY <1>1, <1>2, <1>3, <1>4, <1>5, <1>6, <1>7 DEF Plan

LEMMA PlanInvNext == PlanInv /\ Fixed /\ [Next]_vars => PlanInv'
<1> SUFFICES ASSUME PlanInv, Fixed, [Next]_vars PROVE PlanInv'
  OBVIOUS
<1>1. CASE UNCHANGED planVars
  <2>1. PlanTypeOK
    BY DEF PlanInv
  <2> QED
    BY <1>1, <2>1, PlanInvStays DEF planVars, PlanTypeOK
<1>2. CASE PlanTask
  BY <1>2, PlanInvStep DEF PlanTask
<1>3. CASE Revalidate \/ StartWave \/ WaveJoined \/ Synthesise \/ Goroutines \/ Expire
  BY <1>1, <1>3 DEF Revalidate, StartWave, WaveJoined, Synthesise, Goroutines, Expire, ExecuteFails,
     Add, CheckTime, Breach, Record
<1> QED
  BY <1>1, <1>2, <1>3 DEF Next, ProcessThought, vars

LEMMA ValidatedStep ==
  ASSUME PlanInv, Fixed, ExecTypeOK, Needed, ValidatedAgain, [Next]_vars
  PROVE  ValidatedAgain'
<1>1. CASE Revalidate
  <2>1. phase = "planned" /\ pc' = IF ValidStructure /\ ~Cyclic THEN "wave" ELSE "bad_document"
    BY <1>1 DEF Revalidate, Needed
  <2>2. ValidStructure /\ ~Cyclic
    BY <2>1, FlattenedValid, LayeredAcyclic DEF PlanInv, Ordered
  <2> QED
    BY <2>1, <2>2 DEF ValidatedAgain
<1>2. CASE WaveJoined
  <2>1. errs # <<>> => Head(errs) \in Error
    BY DEF ExecTypeOK
  <2> QED
    BY <1>2, <2>1 DEF WaveJoined, Failed, Error, Breaches, ValidatedAgain
<1>3. CASE PlanTask \/ StartWave \/ Synthesise
  BY <1>3 DEF PlanTask, StartWave, Synthesise, ValidatedAgain
<1>4. CASE Goroutines \/ Expire \/ UNCHANGED vars
  BY <1>4 DEF Goroutines, Expire, ExecuteFails, Add, CheckTime, Breach, Record, vars, execVars,
     ValidatedAgain
<1> QED
  BY <1>1, <1>2, <1>3, <1>4 DEF Next, ProcessThought

\* Tasks of a plan whose document follows the prompt do not wait for each other:
\* the final synthesis waits for all and no one for it, and without it every
\* task waits for tasks of earlier layers, or of its own if it is a graph and
\* they are research.
LEMMA ObedientFeasible ==
  ASSUME Fixed, ValidTasks, Layering, Layered = Position, Obedient,
         \A id \in Known : needs[id] = Normalised(At(id))
  PROVE  ~\E S \in SUBSET Position : Deadlocked(S, LAMBDA i : needs[tasks[i].id])
<1> SUFFICES ASSUME NEW S \in SUBSET Position, S # {},
                    \A i \in S : needs[tasks[i].id] \cap IdsAt(S) # {}
             PROVE  FALSE
  BY DEF Deadlocked
<1>1. \A i, j \in Position : tasks[i].id = tasks[j].id => i = j
  BY DEF ValidTasks
<1>2. \A i \in Position : needs[tasks[i].id] = Normalised(i)
  <2> TAKE i \in Position
  <2>1. tasks[i].id \in Known /\ At(tasks[i].id) = i
    BY <1>1 DEF Known, At
  <2> QED
    BY <2>1
<1> DEFINE Graph(i) == i \in Typed("knowledge_graph")
           Free == {i \in S : ~FinalSynthesis(i)}
           rank(i) == 2 * LayerOf(i) + (IF Graph(i) THEN 1 ELSE 0)
<1>3. \A i \in S : \E j \in S :
        \/ On(i, j)
        \/ FinalSynthesis(i) /\ j # i
        \/ Graph(i) /\ j \in Typed("research") /\ j # i
  <2> TAKE i \in S
  <2>1. PICK j \in S : tasks[j].id \in Normalised(i)
    BY <1>2 DEF IdsAt
  <2>2. \A T \in SUBSET Position : tasks[j].id \in IdsAt(T) => j \in T
    BY <1>1 DEF IdsAt
  <2>3. ForSynthesis \ {i} \in SUBSET Position /\ ForGraph \ {i} \in SUBSET Position
    BY DEF ForSynthesis, ForGraph, Typed
  <2> QED
    BY <2>1, <2>2, <2>3 DEF Normalised, On, ForGraph
<1>4. \A i \in Position : ~On(i, i)
  BY DEF ValidTasks, On
<1>5. \A i \in Free : \E j \in Free : On(i, j) \/ (Graph(i) /\ j \in Typed("research"))
  <2> TAKE i \in Free
  <2>1. PICK j \in S : On(i, j) \/ (Graph(i) /\ j \in Typed("research"))
    BY <1>3
  <2>2. FinalSynthesis(j) => ~On(i, j)
    BY DEF Obedient, On
  <2>3. FinalSynthesis(j) => j \notin Typed("research")
    BY DEF FinalSynthesis, Typed
  <2> QED
    BY <2>1, <2>2, <2>3
<1>6. Free # {}
  <2> SUFFICES ASSUME \A i \in S : FinalSynthesis(i) PROVE FALSE
    OBVIOUS
  <2>1. \A i, j \in S : i = j
    BY PositionFacts DEF FinalSynthesis
  <2>2. PICK i \in S : TRUE
    OBVIOUS
  <2>3. ~Graph(i)
    BY DEF FinalSynthesis, Typed
  <2> QED
    BY <1>3, <1>4, <2>1, <2>3
<1>7. \A i \in Position : LayerOf(i) \in Nat /\ rank(i) \in Nat
  BY LayerFacts
<1>8. ASSUME NEW i \in Position, NEW j \in Position, On(i, j) PROVE rank(j) < rank(i)
  BY <1>7, <1>8, LayerFacts
<1>9. ASSUME NEW i \in Position, NEW j \in Position, Graph(i), j \in Typed("research")
      PROVE  rank(j) < rank(i)
  <2>1. LayerOf(j) <= LayerOf(i)
    BY <1>9 DEF Obedient
  <2>2. ~Graph(j)
    BY <1>9 DEF Typed
  <2> QED
    BY <1>7, <1>9, <2>1, <2>2
<1> DEFINE T == {k \in Nat : \E i \in Free : k = rank(i)}
<1>10. T \in SUBSET Nat /\ T # {} /\ \A i \in Free : rank(i) \in T
  BY <1>6, <1>7
<1>11. PICK k \in T : \A m \in T : k <= m
  BY <1>10, LeastNatural
<1>12. PICK i \in Free : k = rank(i)
  BY <1>11
<1>13. PICK j \in Free : On(i, j) \/ (Graph(i) /\ j \in Typed("research"))
  BY <1>5
<1>14. rank(j) < rank(i)
  BY <1>8, <1>9, <1>13
<1> QED
  BY <1>7, <1>10, <1>11, <1>12, <1>13, <1>14

LEMMA LayersAreCorrect == PlanInv /\ Fixed => LayersCorrect
<1> SUFFICES ASSUME PlanInv, Fixed, Ordered
             PROVE  /\ ~Cyclic
                    /\ \A i \in Position :
                         /\ Cardinality({k \in DOMAIN layers : i \in layers[k]}) = 1
                         /\ \A j \in Position : On(i, j) => LayerOf(j) < LayerOf(i)
                         /\ LayerOf(i) > 1 => \E j \in Position : On(i, j) /\ LayerOf(j) = LayerOf(i) - 1
  BY DEF PlanInv, LayersCorrect, Ordered, On
<1>1. Layering /\ Layered = Position
  BY DEF PlanInv
<1>2. \A i \in Position : {k \in DOMAIN layers : i \in layers[k]} = {LayerOf(i)}
  BY <1>1, LayerFacts
<1>3. \A i \in Position : Cardinality({k \in DOMAIN layers : i \in layers[k]}) = 1
  BY <1>2, FS_Singleton
<1> QED
  BY <1>1, <1>3, LayerFacts, LayeredAcyclic

-----------------------------------------------------------------------------
(* What the results tell. *)

\* The results are those of the tasks executed, once each, and the final
\* synthesis has its when every other task has.
Recorded ==
  /\ \A id \in Ids : goroutine[id].state \in {"clock", "record"} =>
       goroutine[id].result.task = id /\ goroutine[id].result.success
  /\ {results[k].task : k \in DOMAIN results} = executed
  /\ \A k \in DOMAIN results : results[k].success
  /\ IsFiniteSet(executed) /\ Len(results) = Cardinality(executed)
  /\ \A k \in DOMAIN results :
       FinalSynthesis(At(results[k].task)) => k = Len(results) /\ executed = Known
  /\ pc \in {"synthesise", "ok", "no_synthesis"} => executed = Known

LEMMA RecordedStays ==
  ASSUME Recorded, UNCHANGED <<tasks, results, executed, goroutine>>,
         pc' \in {"synthesise", "ok", "no_synthesis"} => executed = Known
  PROVE  Recorded'
<1>1. Known' = Known
  BY GraphStays
<1>2. \A id : FinalSynthesis(At(id))' = FinalSynthesis(At(id))
  BY DEF FinalSynthesis, At, Typed, Position
<1> QED
  BY <1>1, <1>2 DEF Recorded

LEMMA RecordedStep ==
  ASSUME Recorded, OrderInv, ExecTypeOK, [Next]_vars
  PROVE  Recorded'
<1> USE DEF ExecTypeOK
<1>0. ASSUME UNCHANGED planVars PROVE UNCHANGED <<tasks, Known>> /\ \A id : FinalSynthesis(At(id))' = FinalSynthesis(At(id))
  <2>1. UNCHANGED tasks
    BY <1>0 DEF planVars
  <2> QED
    BY <2>1, GraphStays DEF FinalSynthesis, At, Typed, Position
<1>1. CASE UNCHANGED vars
  BY <1>1, RecordedStays DEF vars, planVars, execVars, Recorded
<1>2. CASE PlanTask
  BY <1>2, PlanKeeps, RecordedStays DEF PlanTask
<1>3. CASE Revalidate \/ Synthesise \/ Expire
  BY <1>3, RecordedStays DEF Revalidate, Synthesise, Expire, planVars, Recorded
<1>4. CASE StartWave
  <2>1. \A id \in Ids : goroutine'[id].state \notin {"clock", "record"}
    <3>1. \A id \in Ids : goroutine[id] = Idle
      BY <1>4 DEF StartWave, OrderInv, IInv, Waves, AllIdle
    <3> QED
      BY <1>4, <3>1 DEF StartWave, Idle
  <2>2. pc' = "synthesise" => executed = Known
    BY <1>4 DEF StartWave, AllExecuted, OrderInv, IInv, Waves
  <2>3. pc' \notin {"ok", "no_synthesis"} /\ UNCHANGED <<results, executed, planVars>>
    BY <1>4 DEF StartWave
  <2> QED
    BY <1>0, <2>1, <2>2, <2>3 DEF Recorded
<1>5. CASE WaveJoined
  <2>1. errs # <<>> => Head(errs) \in Error
    OBVIOUS
  <2>2. pc' \notin {"synthesise", "ok", "no_synthesis"}
    BY <1>5, <2>1 DEF WaveJoined, Failed, Error, Breaches
  <2> QED
    BY <1>5, <2>2, RecordedStays DEF WaveJoined, planVars
<1>6. ASSUME NEW id \in Ids, ExecuteFails(id) \/ CheckTime(id) \/ Breach(id)
             \/ \E u \in Usages, good \in Outcomes(id) : Add(id, u, good)
      PROVE  Recorded'
  <2>1. UNCHANGED <<planVars, results, executed, pc>>
    BY <1>6 DEF ExecuteFails, CheckTime, Breach, Add
  <2>2. \A i \in Ids : goroutine'[i].state \in {"clock", "record"} =>
          goroutine'[i].result.task = i /\ goroutine'[i].result.success
    <3>1. \A i \in Ids \ {id} : goroutine'[i] = goroutine[i]
      BY <1>6 DEF ExecuteFails, CheckTime, Breach, Add
    <3>2. CASE ExecuteFails(id) \/ Breach(id)
      BY <3>1, <3>2 DEF ExecuteFails, Breach, Idle, Recorded
    <3>3. CASE CheckTime(id)
      BY <3>1, <3>3 DEF CheckTime, Recorded
    <3>4. ASSUME NEW u \in Usages, NEW good \in BOOLEAN, Add(id, u, good)
          PROVE  goroutine'[id].state \in {"clock", "record"} =>
                   goroutine'[id].result.task = id /\ goroutine'[id].result.success
      BY <3>4 DEF Add, Executed
    <3> QED
      BY <1>6, <3>1, <3>2, <3>3, <3>4 DEF Outcomes, Recorded
  <2> QED
    BY <1>0, <2>1, <2>2 DEF Recorded
<1>7. ASSUME NEW id \in Ids, Record(id) PROVE Recorded'
  <2> DEFINE n == Len(results)
             r == goroutine[id].result
  <2>1. /\ UNCHANGED <<planVars, pc>> /\ results' = Append(results, r) /\ executed' = executed \cup {id}
        /\ goroutine[id] # Idle /\ r.task = id /\ r.success /\ r \in Result
        /\ goroutine' = [goroutine EXCEPT ![id] = Idle]
    <3>1. r \in Result
      BY <1>7 DEF Record, Goroutine
    <3> QED
      BY <1>7, <3>1 DEF Record, Idle, Recorded
  <2>2. pc = "wait" /\ Ready(id) /\ phase = "planned" /\ ValidTasks
    BY <2>1 DEF OrderInv, IInv, Waves, AllIdle, Needed
  <2>3. id \in Known \ executed /\ needs[id] \subseteq executed /\ needs[id] = Normalised(At(id))
    BY <2>2 DEF Ready, OrderInv, Needed
  <2> HIDE DEF r
  <2>4. /\ n \in Nat /\ DOMAIN results = 1..n /\ DOMAIN results' = 1..(n + 1) /\ Len(results') = n + 1
        /\ \A k \in 1..n : results'[k] = results[k]
        /\ results'[n + 1] = r
    BY <2>1
  <2> HIDE DEF n
  <2>5. {results'[k].task : k \in DOMAIN results'} = executed'
    <3>1. \A k \in 1..n : results[k].task \in executed
      BY <2>4 DEF Recorded
    <3>2. \A k \in 1..(n + 1) : results'[k].task \in executed'
      BY <2>1, <2>4, <3>1
    <3>3. \A t \in executed : \E k \in 1..n : results[k].task = t
      BY <2>4 DEF Recorded
    <3>4. \A t \in executed : \E k \in 1..(n + 1) : results'[k].task = t
      BY <2>4, <3>3
    <3>5. n + 1 \in 1..(n + 1) /\ results'[n + 1].task = id
      BY <2>1, <2>4
    <3>6. \A t \in executed' : \E k \in 1..(n + 1) : results'[k].task = t
      BY <2>1, <3>4, <3>5
    <3> QED
      BY <2>4, <3>2, <3>6
  <2>6. IsFiniteSet(executed') /\ Len(results') = Cardinality(executed')
    BY <2>1, <2>3, <2>4, FS_AddElement DEF Recorded, n
  <2>7. FinalSynthesis(At(id)) => executed' = Known
    <3> SUFFICES ASSUME FinalSynthesis(At(id)) PROVE executed' = Known
      OBVIOUS
    <3>1. IdsAt(Position \ {At(id)}) \subseteq executed
      BY <2>3 DEF Normalised, ForSynthesis
    <3>2. tasks[At(id)].id = id
      BY <2>3 DEF At, Known
    <3>3. \A i \in Position : tasks[i].id \in executed'
      BY <2>1, <3>1, <3>2 DEF IdsAt
    <3>4. executed \subseteq Known
      BY DEF OrderInv, IInv, Waves
    <3> QED
      BY <2>1, <2>3, <3>3, <3>4 DEF Known
  <2>8. \A k \in 1..n : ~FinalSynthesis(At(results[k].task))
    BY <2>3, <2>4 DEF Recorded
  <2>9. \A k \in DOMAIN results' :
          FinalSynthesis(At(results'[k].task)) => k = Len(results') /\ executed' = Known
    BY <2>1, <2>4, <2>7, <2>8
  <2>10. \A i \in Ids : goroutine'[i].state \in {"clock", "record"} =>
          goroutine'[i].result.task = i /\ goroutine'[i].result.success
    BY <2>1 DEF Recorded, Idle
  <2>11. \A k \in DOMAIN results' : results'[k].success
    BY <2>1, <2>4 DEF Recorded
  <2>12. Known' = Known /\ \A k : FinalSynthesis(At(results[k].task))' = FinalSynthesis(At(results'[k].task))
    BY <1>0, <2>1 DEF FinalSynthesis, At, Typed, Position, planVars
  <2> QED
    BY <2>1, <2>2, <2>5, <2>6, <2>9, <2>10, <2>11, <2>12 DEF Recorded
<1> QED
  BY <1>1, <1>2, <1>3, <1>4, <1>5, <1>6, <1>7 DEF Next, ProcessThought, Goroutines

LEMMA RecordedInit == Init => Recorded
<1> SUFFICES ASSUME Init PROVE Recorded
  OBVIOUS
<1>1. /\ \A id \in Ids : goroutine[id].state \notin {"clock", "record"}
      /\ results = <<>> /\ executed = {} /\ pc = "plan"
  BY DEF Init, Idle
<1>2. IsFiniteSet({}) /\ Cardinality({}) = 0
  BY FS_EmptySet
<1> QED
  BY <1>1, <1>2 DEF Recorded

\* A plan with a synthesis has a final one.
LEMMA FinalExists ==
  ASSUME Fixed, Typed("synthesis") # {}
  PROVE  \E i \in Position : FinalSynthesis(i)
<1> DEFINE n == Len(tasks)
           T == {m \in Nat : \E i \in Typed("synthesis") : m = n - i}
<1>1. n \in Nat /\ Position = 1..n /\ Typed("synthesis") \subseteq Position
  BY PositionFacts DEF Typed
<1>2. \A i \in Typed("synthesis") : n - i \in T
  BY <1>1
<1>3. T \in SUBSET Nat /\ T # {}
  BY <1>2
<1>4. PICK m \in T : \A l \in T : m <= l
  BY <1>3, LeastNatural
<1>5. PICK i \in Typed("synthesis") : m = n - i
  BY <1>4
<1>6. \A j \in Typed("synthesis") : n - i <= n - j
  BY <1>2, <1>4, <1>5
<1> QED
  BY <1>1, <1>6 DEF FinalSynthesis

\* The report of a finished plan is the final synthesis, the last result.
LEMMA ChosenIsFinal ==
  ASSUME Recorded, OrderInv, ExecTypeOK, PlanInv, pc \in {"synthesise", "ok"}
  PROVE  /\ Chosen = Len(results) /\ Chosen \in DOMAIN results
         /\ FinalSynthesis(At(results[Chosen].task))
<1>1. phase = "planned" /\ ValidTasks /\ executed = Known /\ Fixed /\ Typed("synthesis") # {}
  BY DEF OrderInv, IInv, Needed, Recorded, PlanInv, Ended, Breaches
<1>2. PICK i \in Position : FinalSynthesis(i)
  BY <1>1, FinalExists
<1>3. tasks[i].id \in Known /\ At(tasks[i].id) = i
  BY <1>1 DEF Known, At, ValidTasks
<1>4. PICK k \in DOMAIN results : results[k].task = tasks[i].id
  BY <1>1, <1>3 DEF Recorded
<1>5. k = Len(results) /\ FinalSynthesis(At(results[k].task))
  BY <1>2, <1>3, <1>4 DEF Recorded
<1>6. k \in Syntheses
  BY <1>2, <1>3, <1>4 DEF Syntheses, TypeOf, Recorded, FinalSynthesis, Typed
<1>7. \A l \in Syntheses : l \in 1..Len(results)
  BY DEF Syntheses, ExecTypeOK
<1>8. Len(results) \in Nat
  BY DEF ExecTypeOK
<1>9. Chosen = k
  BY <1>5, <1>6, <1>7, <1>8 DEF Chosen
<1> QED
  BY <1>4, <1>5, <1>9

-----------------------------------------------------------------------------
(* What the results add up to. *)

SumOf(s) == FoldLeft(LAMBDA u, r : Plus(u, r.usage), Zero, s)

\* f is the function FoldLeft defines on the sets of the first n places of s.
SumsUpTo(f, s, n) ==
  f = [S \in SUBSET (1..n) |-> IF S = {} THEN Zero ELSE Plus(f[S \ {Max(S)}], s[Max(S)].usage)]

LEMMA MaxOfInterval ==
  ASSUME NEW n \in Nat, NEW S \in SUBSET (1..n), n \in S
  PROVE  Max(S) = n
<1>1. \A m \in S : n >= m
  OBVIOUS
<1>2. \A x \in S : (\A m \in S : x >= m) => x = n
  OBVIOUS
<1>3. Max(S) \in S /\ \A m \in S : Max(S) >= m
  BY <1>1 DEF Max
<1> QED
  BY <1>2, <1>3

LEMMA SumsExist ==
  ASSUME NEW s \in Seq(Result), NEW n \in 0..Len(s)
  PROVE  \E f : SumsUpTo(f, s, n)
<1> DEFINE T == {k \in Nat : k <= Len(s) /\ ~\E f : SumsUpTo(f, s, k)}
<1> SUFFICES ASSUME n \in T PROVE FALSE
  OBVIOUS
<1>1. T \in SUBSET Nat /\ T # {}
  OBVIOUS
<1>2. PICK k \in T : \A m \in T : k <= m
  BY <1>1, LeastNatural
<1>3. k \in Nat /\ k <= Len(s) /\ ~\E f : SumsUpTo(f, s, k)
  BY <1>2
<1>4. CASE k = 0
  <2> DEFINE f == [S \in SUBSET (1..0) |-> Zero]
  <2>1. \A S \in SUBSET (1..0) : S = {}
    OBVIOUS
  <2>2. SumsUpTo(f, s, 0)
    BY <2>1 DEF SumsUpTo
  <2> QED
    BY <1>3, <1>4, <2>2
<1>5. CASE k > 0
  <2>1. k - 1 \in Nat /\ k - 1 \notin T
    BY <1>2, <1>3, <1>5
  <2>2. PICK g : SumsUpTo(g, s, k - 1)
    BY <1>3, <2>1
  <2> DEFINE f == [S \in SUBSET (1..k) |-> IF k \in S THEN Plus(g[S \ {k}], s[k].usage) ELSE g[S]]
  <2>3. \A S \in SUBSET (1..k) : k \notin S => S \in SUBSET (1..(k - 1))
    BY <1>3
  <2>4. ASSUME NEW S \in SUBSET (1..k)
        PROVE  f[S] = IF S = {} THEN Zero ELSE Plus(f[S \ {Max(S)}], s[Max(S)].usage)
    <3>1. CASE k \in S
      <4>1. Max(S) = k
        BY <1>3, <3>1, MaxOfInterval
      <4>2. f[S \ {k}] = g[S \ {k}]
        OBVIOUS
      <4> QED
        BY <3>1, <4>1, <4>2
    <3>2. CASE k \notin S
      <4>1. S \in SUBSET (1..(k - 1)) /\ f[S] = g[S]
        BY <2>3, <3>2
      <4>2. f[S \ {Max(S)}] = g[S \ {Max(S)}]
        BY <3>2
      <4>3. g[S] = IF S = {} THEN Zero ELSE Plus(g[S \ {Max(S)}], s[Max(S)].usage)
        BY <2>2, <4>1 DEF SumsUpTo
      <4> QED
        BY <4>1, <4>2, <4>3
    <3> QED
      BY <3>1, <3>2
  <2>5. SumsUpTo(f, s, k)
    <3>1. f = [S \in SUBSET (1..k) |-> f[S]]
      OBVIOUS
    <3> HIDE DEF f
    <3> QED
      BY <2>4, <3>1 DEF SumsUpTo
  <2> QED
    BY <1>3, <2>5
<1> QED
  BY <1>3, <1>4, <1>5

LEMMA SumsValue ==
  ASSUME NEW f, NEW s \in Seq(Result), NEW n \in 0..Len(s), SumsUpTo(f, s, n)
  PROVE  /\ f[1..0] = Zero
         /\ \A k \in 1..n : f[1..k] = Plus(f[1..(k - 1)], s[k].usage)
<1>1. f[{}] = Zero
  <2>1. {} \in SUBSET (1..n)
    OBVIOUS
  <2> QED
    BY <2>1 DEF SumsUpTo
<1>2. ASSUME NEW k \in 1..n PROVE f[1..k] = Plus(f[1..(k - 1)], s[k].usage)
  <2>1. 1..k \in SUBSET (1..n) /\ 1..k # {} /\ k \in Nat
    OBVIOUS
  <2>2. Max(1..k) = k
    BY <2>1, MaxOfInterval
  <2>3. (1..k) \ {k} = 1..(k - 1)
    BY <2>1
  <2>4. f[1..k] = Plus(f[(1..k) \ {Max(1..k)}], s[Max(1..k)].usage)
    BY <2>1 DEF SumsUpTo
  <2> QED
    BY <2>2, <2>3, <2>4
<1>3. 1..0 = {}
  OBVIOUS
<1> QED
  BY <1>1, <1>2, <1>3

\* The sum of a sequence is that of its places.
LEMMA SumOfSeq ==
  ASSUME NEW s \in Seq(Result)
  PROVE  \E f : SumsUpTo(f, s, Len(s)) /\ SumOf(s) = f[1..Len(s)]
<1> DEFINE f == CHOOSE f : SumsUpTo(f, s, Len(s))
<1>1. DOMAIN s = 1..Len(s) /\ Len(s) \in 0..Len(s)
  OBVIOUS
<1>2. SumsUpTo(f, s, Len(s))
  BY <1>1, SumsExist
<1>3. SumOf(s) = f[1..Len(s)]
  BY <1>1 DEF SumOf, FoldLeft, MapThenFoldSet, SumsUpTo
<1> QED
  BY <1>2, <1>3

\* Two sequences have the same sums as far as they are the same.
LEMMA SumsAgree ==
  ASSUME NEW s \in Seq(Result), NEW t \in Seq(Result), NEW n \in 0..Len(s), NEW m \in n..Len(t),
         NEW f, NEW g, SumsUpTo(f, s, n), SumsUpTo(g, t, m), \A k \in 1..n : s[k] = t[k]
  PROVE  f[1..n] = g[1..n]
<1> DEFINE T == {k \in Nat : k <= n /\ f[1..k] # g[1..k]}
<1> SUFFICES ASSUME T # {} PROVE FALSE
  OBVIOUS
<1>1. PICK k \in T : \A l \in T : k <= l
  BY LeastNatural
<1>2. m \in 0..Len(t)
  OBVIOUS
<1>3. k # 0
  BY <1>1, <1>2, SumsValue
<1>4. k - 1 \in Nat /\ k - 1 \notin T /\ k \in 1..n /\ k \in 1..m
  BY <1>1, <1>3
<1>5. f[1..(k - 1)] = g[1..(k - 1)]
  BY <1>4
<1>6. f[1..k] = Plus(f[1..(k - 1)], s[k].usage) /\ g[1..k] = Plus(g[1..(k - 1)], t[k].usage)
  BY <1>2, <1>4, SumsValue
<1> QED
  BY <1>1, <1>4, <1>5, <1>6

\* One result more adds its usage.
LEMMA SumOfAppend ==
  ASSUME NEW s \in Seq(Result), NEW r \in Result
  PROVE  SumOf(Append(s, r)) = Plus(SumOf(s), r.usage)
<1> DEFINE t == Append(s, r)
           n == Len(s)
<1>1. n \in Nat /\ t \in Seq(Result) /\ Len(t) = n + 1 /\ t[n + 1] = r /\ \A k \in 1..n : s[k] = t[k]
  OBVIOUS
<1>2. PICK f : SumsUpTo(f, s, n) /\ SumOf(s) = f[1..n]
  BY SumOfSeq
<1>3. PICK g : SumsUpTo(g, t, n + 1) /\ SumOf(t) = g[1..(n + 1)]
  BY <1>1, SumOfSeq
<1> HIDE DEF t, n
<1>4. g[1..(n + 1)] = Plus(g[1..n], t[n + 1].usage)
  <2>1. n + 1 \in 0..Len(t) /\ n + 1 \in 1..(n + 1) /\ (n + 1) - 1 = n
    BY <1>1
  <2>2. SumsUpTo(g, t, n + 1)
    BY <1>3
  <2>3. \A k \in 1..(n + 1) : g[1..k] = Plus(g[1..(k - 1)], t[k].usage)
    BY <1>1, <2>1, <2>2, SumsValue
  <2> QED
    BY <2>1, <2>3
<1>5. f[1..n] = g[1..n]
  <2>1. n \in 0..Len(s) /\ n + 1 \in n..Len(t)
    BY <1>1 DEF n
  <2> QED
    BY <1>1, <1>2, <1>3, <2>1, SumsAgree
<1> QED
  BY <1>1, <1>2, <1>3, <1>4, <1>5 DEF t

LEMMA SumOfEmpty == SumOf(<<>>) = Zero
<1>1. <<>> \in Seq(Result) /\ Len(<<>>) = 0
  OBVIOUS
<1>2. PICK f : SumsUpTo(f, <<>>, 0) /\ SumOf(<<>>) = f[1..0]
  BY <1>1, SumOfSeq
<1>3. f[1..0] = Zero
  BY <1>1, <1>2, 0 \in 0..0, SumsValue
<1> QED
  BY <1>2, <1>3

LEMMA SumOfType ==
  ASSUME NEW s \in Seq(Result)
  PROVE  SumOf(s) \in Usage
<1> DEFINE n == Len(s)
<1>1. n \in Nat
  OBVIOUS
<1>2. PICK f : SumsUpTo(f, s, n) /\ SumOf(s) = f[1..n]
  BY SumOfSeq
<1> DEFINE T == {k \in Nat : k <= n /\ f[1..k] \notin Usage}
<1>3. CASE T = {}
  BY <1>1, <1>2, <1>3
<1>4. CASE T # {}
  <2>1. PICK k \in T : \A l \in T : k <= l
    BY <1>4, LeastNatural
  <2>2. k # 0
    BY <1>1, <1>2, <2>1, SumsValue DEF Zero, Usage
  <2>3. k - 1 \in Nat /\ k - 1 \notin T /\ k \in 1..n
    BY <2>1, <2>2
  <2>4. f[1..(k - 1)] \in Usage /\ s[k] \in Result
    BY <2>3
  <2>5. f[1..k] = Plus(f[1..(k - 1)], s[k].usage)
    BY <1>1, <1>2, <2>3, SumsValue
  <2> QED
    BY <2>1, <2>4, <2>5 DEF Plus, Usage, Result
<1> QED
  BY <1>3, <1>4

LEMMA PlusLaws ==
  /\ Zero \in Usage
  /\ \A u \in Usage : Plus(u, Zero) = u
  /\ \A u, v \in Usage : Plus(u, v) \in Usage /\ Plus(u, v) = Plus(v, u)
  /\ \A u, v, w \in Usage : Plus(u, Plus(v, w)) = Plus(Plus(u, v), w)
<1>1. \A u \in Usage : u = [cost |-> u.cost, tokens |-> u.tokens] /\ u.cost \in Nat /\ u.tokens \in Nat
  BY DEF Usage
<1>2. Zero \in Usage /\ \A u, v \in Usage : Plus(u, v) \in Usage
  BY DEF Zero, Usage, Plus
<1>3. \A u \in Usage : Plus(u, Zero) = [cost |-> u.cost, tokens |-> u.tokens]
  BY <1>1 DEF Plus, Zero
<1>4. \A u, v \in Usage : Plus(u, v) = Plus(v, u)
  BY <1>1 DEF Plus
<1>5. \A u, v, w \in Usage : Plus(u, Plus(v, w)) = Plus(Plus(u, v), w)
  BY <1>1 DEF Plus
<1> QED
  BY <1>1, <1>2, <1>3, <1>4, <1>5

\* Goroutines whose usage is counted and whose result is not recorded yet.
Holders == {id \in Ids : goroutine[id].state \in {"clock", "record"}}
Held(id) == goroutine[id].result.usage

\* G says of every set of tasks what their goroutines hold.
HeldBy(G) ==
  /\ G \in [SUBSET Ids -> Usage]
  /\ G[{}] = Zero
  /\ \A S \in SUBSET Ids : G[S] = G[S \cap Holders]
  /\ \A S \in SUBSET Ids : \A id \in S \cap Holders : G[S] = Plus(G[S \ {id}], Held(id))

\* The monitor has counted the results and what is held, as long as nothing that
\* was counted is thrown away.
Counted ==
  Monitored /\ errs = <<>> /\ (\A id \in Ids : goroutine[id].state # "over") =>
    \E G : HeldBy(G) /\ used = Plus(SumOf(results), G[Ids])

LEMMA HoldersHold ==
  ASSUME ExecTypeOK
  PROVE  \A id \in Holders : id \in Ids /\ goroutine[id].result \in Result /\ Held(id) \in Usage
<1> SUFFICES ASSUME NEW id \in Holders
             PROVE  id \in Ids /\ goroutine[id].result \in Result /\ Held(id) \in Usage
  OBVIOUS
<1>1. id \in Ids /\ goroutine[id] \in Goroutine /\ goroutine[id].state \in {"clock", "record"}
  BY DEF Holders, ExecTypeOK
<1>2. goroutine[id].result \in Result
  BY <1>1 DEF Goroutine
<1> QED
  BY <1>1, <1>2 DEF Result, Held

\* Nothing is held: the sum is that of the results.
LEMMA NothingHeld ==
  ASSUME NEW G, HeldBy(G), Holders = {}
  PROVE  G[Ids] = Zero
<1>1. Ids \in SUBSET Ids /\ Ids \cap Holders = {}
  OBVIOUS
<1>2. G[Ids] = G[Ids \cap Holders] /\ G[{}] = Zero
  BY <1>1 DEF HeldBy
<1> QED
  BY <1>1, <1>2

LEMMA CountedInit == Init => Counted
<1> SUFFICES ASSUME Init PROVE Counted
  OBVIOUS
<1> DEFINE G == [S \in SUBSET Ids |-> Zero]
<1>1. Holders = {}
  BY DEF Init, Holders, Idle
<1>2. HeldBy(G)
  BY <1>1, PlusLaws DEF HeldBy
<1>3. used = Plus(SumOf(results), G[Ids])
  <2>1. SumOf(results) = Zero /\ G[Ids] = Zero /\ used = Zero
    BY SumOfEmpty DEF Init
  <2> QED
    BY <2>1, PlusLaws
<1> QED
  BY <1>2, <1>3 DEF Counted

\* The same is held and counted.
LEMMA CountedStays ==
  ASSUME Counted, UNCHANGED <<budget, used, results>>,
         errs' = <<>> => errs = <<>>,
         (\A id \in Ids : goroutine'[id].state # "over") => \A id \in Ids : goroutine[id].state # "over",
         Holders' = Holders, \A id \in Holders : Held(id)' = Held(id)
  PROVE  Counted'
<1> SUFFICES ASSUME Monitored', errs' = <<>>, \A id \in Ids : goroutine'[id].state # "over"
             PROVE  \E G : HeldBy(G)' /\ used = Plus(SumOf(results), G[Ids])
  BY DEF Counted
<1>1. Monitored
  BY MonitorStays
<1>2. PICK G : HeldBy(G) /\ used = Plus(SumOf(results), G[Ids])
  BY <1>1 DEF Counted
<1>3. HeldBy(G)'
  BY <1>2 DEF HeldBy
<1> QED
  BY <1>2, <1>3

\* A goroutine more holds what the monitor has counted.
LEMMA CountedAdd ==
  ASSUME Counted, ExecTypeOK, NEW id \in Ids, NEW u \in Usages, NEW good \in BOOLEAN, Add(id, u, good)
  PROVE  Counted'
<1> SUFFICES ASSUME Monitored', errs' = <<>>, \A i \in Ids : goroutine'[i].state # "over"
             PROVE  \E H : HeldBy(H)' /\ used' = Plus(SumOf(results), H[Ids])
  BY DEF Counted, Add
<1> DEFINE r == Executed(id, u, good)
<1>1. /\ Monitored /\ errs = <<>> /\ goroutine[id].state = "running" /\ used' = Plus(used, u)
      /\ goroutine' = [goroutine EXCEPT ![id] = [state |-> "clock", result |-> r]]
      /\ u \in Usage /\ r.usage = u
  <2>1. Monitored /\ goroutine[id].state = "running" /\ errs = <<>>
    BY MonitorStays DEF Add, planVars
  <2>2. goroutine'[id].state # "over"
    OBVIOUS
  <2>3. used' = Plus(used, u) /\ goroutine' = [goroutine EXCEPT ![id] = [state |-> "clock", result |-> r]]
    BY <2>1, <2>2 DEF Add, ExecTypeOK
  <2> QED
    BY <2>1, <2>3, UsagesAssumption DEF Executed
<1> HIDE DEF r
<1>2. \A i \in Ids \ {id} : goroutine'[i] = goroutine[i]
  BY <1>1
<1>3. \A i \in Ids : goroutine[i].state # "over"
  BY <1>1, <1>2
<1>4. PICK G : HeldBy(G) /\ used = Plus(SumOf(results), G[Ids])
  BY <1>1, <1>3 DEF Counted
<1>5. id \notin Holders /\ Holders' = Holders \cup {id} /\ Held(id)' = u /\ \A i \in Holders : Held(i)' = Held(i)
  <2>1. goroutine'[id] = [state |-> "clock", result |-> r]
    BY <1>1 DEF ExecTypeOK
  <2> QED
    BY <1>1, <1>2, <2>1 DEF Holders, Held
<1> DEFINE H == [S \in SUBSET Ids |-> IF id \in S THEN Plus(G[S], u) ELSE G[S]]
<1>6. G \in [SUBSET Ids -> Usage] /\ G[{}] = Zero
  BY <1>4 DEF HeldBy
<1>7. H \in [SUBSET Ids -> Usage] /\ H[{}] = Zero
  BY <1>1, <1>6, PlusLaws
<1>8. ASSUME NEW S \in SUBSET Ids PROVE H[S] = H[S \cap Holders']
  <2>1. G[S] = G[S \cap Holders]
    BY <1>4 DEF HeldBy
  <2>2. G[S \cap Holders'] = G[(S \cap Holders') \cap Holders]
    BY <1>4 DEF HeldBy
  <2>3. (S \cap Holders') \cap Holders = S \cap Holders
    BY <1>5
  <2>4. id \in S <=> id \in S \cap Holders'
    BY <1>5
  <2> QED
    BY <2>1, <2>2, <2>3, <2>4
<1>9. ASSUME NEW S \in SUBSET Ids, NEW i \in S \cap Holders'
      PROVE  H[S] = Plus(H[S \ {i}], Held(i)')
  <2>1. CASE i = id
    <3>1. G[S] = G[S \cap Holders] /\ G[S \ {id}] = G[(S \ {id}) \cap Holders]
      BY <1>4 DEF HeldBy
    <3>2. S \cap Holders = (S \ {id}) \cap Holders
      BY <1>5
    <3>3. H[S] = Plus(G[S], u) /\ H[S \ {id}] = G[S \ {id}]
      BY <2>1
    <3> QED
      BY <1>5, <2>1, <3>1, <3>2, <3>3
  <2>2. CASE i # id
    <3>1. i \in S \cap Holders
      BY <1>5, <2>2
    <3>2. G[S] = Plus(G[S \ {i}], Held(i))
      BY <1>4, <3>1 DEF HeldBy
    <3>3. G[S \ {i}] \in Usage /\ Held(i) \in Usage
      BY <1>6, <3>1, HoldersHold
    <3>4. Plus(Plus(G[S \ {i}], Held(i)), u) = Plus(Plus(G[S \ {i}], u), Held(i))
      BY <1>1, <3>3 DEF Plus, Usage
    <3>5. id \in S <=> id \in S \ {i}
      BY <2>2
    <3> QED
      BY <1>5, <3>1, <3>2, <3>4, <3>5
  <2> QED
    BY <2>1, <2>2
<1>10. H[Ids] = Plus(G[Ids], u)
  OBVIOUS
<1> HIDE DEF H
<1>11. HeldBy(H)'
  BY <1>7, <1>8, <1>9 DEF HeldBy
<1>12. used' = Plus(SumOf(results), H[Ids])
  <2>1. SumOf(results) \in Usage /\ G[Ids] \in Usage
    BY <1>6, SumOfType DEF ExecTypeOK
  <2>2. Plus(SumOf(results), Plus(G[Ids], u)) = Plus(Plus(SumOf(results), G[Ids]), u)
    BY <1>1, <2>1 DEF Plus, Usage
  <2> QED
    BY <1>1, <1>4, <1>10, <2>2
<1> QED
  BY <1>11, <1>12

\* What a goroutine holds becomes a result.
LEMMA CountedRecord ==
  ASSUME Counted, ExecTypeOK, NEW id \in Ids, Record(id)
  PROVE  Counted'
<1> SUFFICES ASSUME Monitored', errs' = <<>>, \A i \in Ids : goroutine'[i].state # "over"
             PROVE  \E H : HeldBy(H)' /\ used = Plus(SumOf(results'), H[Ids])
  BY DEF Counted, Record
<1>1. /\ Monitored /\ errs = <<>> /\ goroutine[id].state = "record"
      /\ results' = Append(results, goroutine[id].result)
      /\ goroutine' = [goroutine EXCEPT ![id] = Idle]
  BY MonitorStays DEF Record, planVars
<1>2. \A i \in Ids \ {id} : goroutine'[i] = goroutine[i]
  BY <1>1
<1>3. \A i \in Ids : goroutine[i].state # "over"
  BY <1>1, <1>2
<1>4. PICK G : HeldBy(G) /\ used = Plus(SumOf(results), G[Ids])
  BY <1>1, <1>3 DEF Counted
<1>5. id \in Holders /\ Holders' = Holders \ {id} /\ \A i \in Holders' : Held(i)' = Held(i)
  <2>1. goroutine'[id] = Idle
    BY <1>1 DEF ExecTypeOK
  <2> QED
    BY <1>1, <1>2, <2>1 DEF Holders, Held, Idle
<1> DEFINE H == [S \in SUBSET Ids |-> G[S \ {id}]]
<1>6. G \in [SUBSET Ids -> Usage] /\ G[{}] = Zero
  BY <1>4 DEF HeldBy
<1>7. H \in [SUBSET Ids -> Usage] /\ H[{}] = Zero
  <2>1. {} \ {id} = {}
    OBVIOUS
  <2> QED
    BY <1>6, <2>1
<1>8. ASSUME NEW S \in SUBSET Ids PROVE H[S] = H[S \cap Holders']
  <2>1. /\ G[S \ {id}] = G[(S \ {id}) \cap Holders]
        /\ G[(S \cap Holders') \ {id}] = G[((S \cap Holders') \ {id}) \cap Holders]
    BY <1>4 DEF HeldBy
  <2>2. (S \ {id}) \cap Holders = ((S \cap Holders') \ {id}) \cap Holders
    BY <1>5
  <2> QED
    BY <2>1, <2>2
<1>9. ASSUME NEW S \in SUBSET Ids, NEW i \in S \cap Holders'
      PROVE  H[S] = Plus(H[S \ {i}], Held(i)')
  <2>1. i \in (S \ {id}) \cap Holders
    BY <1>5
  <2>2. G[S \ {id}] = Plus(G[(S \ {id}) \ {i}], Held(i))
    BY <1>4, <2>1 DEF HeldBy
  <2>3. (S \ {id}) \ {i} = (S \ {i}) \ {id}
    OBVIOUS
  <2> QED
    BY <1>5, <2>2, <2>3
<1>10. H[Ids] = G[Ids \ {id}]
  OBVIOUS
<1> HIDE DEF H
<1>11. HeldBy(H)'
  BY <1>7, <1>8, <1>9 DEF HeldBy
<1>12. used = Plus(SumOf(results'), H[Ids])
  <2>1. G[Ids] = Plus(G[Ids \ {id}], Held(id))
    BY <1>4, <1>5 DEF HeldBy
  <2>2. SumOf(results') = Plus(SumOf(results), Held(id))
    BY <1>1, <1>5, HoldersHold, SumOfAppend DEF ExecTypeOK, Held
  <2>3. SumOf(results) \in Usage /\ G[Ids \ {id}] \in Usage /\ Held(id) \in Usage
    BY <1>5, <1>6, HoldersHold, SumOfType DEF ExecTypeOK
  <2>4. /\ Plus(G[Ids \ {id}], Held(id)) = Plus(Held(id), G[Ids \ {id}])
        /\ Plus(SumOf(results), Plus(Held(id), G[Ids \ {id}]))
             = Plus(Plus(SumOf(results), Held(id)), G[Ids \ {id}])
    BY <2>3 DEF Plus, Usage
  <2> QED
    BY <1>4, <1>10, <2>1, <2>2, <2>4
<1> QED
  BY <1>11, <1>12

LEMMA CountedStep == Counted /\ IInv /\ [Next]_vars => Counted'
<1> SUFFICES ASSUME Counted, IInv, [Next]_vars PROVE Counted'
  OBVIOUS
<1>0. ExecTypeOK
  BY DEF IInv
<1>1. ASSUME UNCHANGED <<budget, used, results, goroutine, errs>> PROVE Counted'
  BY <1>1, CountedStays DEF Holders, Held
<1>2. CASE PlanTask
  BY <1>1, <1>2, PlanKeeps DEF PlanTask
<1>3. CASE UNCHANGED vars \/ Revalidate \/ WaveJoined \/ Synthesise \/ Expire
  BY <1>1, <1>3 DEF vars, execVars, planVars, Revalidate, WaveJoined, Synthesise, Expire
<1>4. CASE StartWave
  <2>1. errs = <<>> /\ \A id \in Ids : goroutine[id] = Idle
    BY <1>4 DEF StartWave, IInv, Told, Waves, AllIdle
  <2>2. \A id \in Ids : goroutine'[id].state \notin {"clock", "record"}
    BY <1>4, <2>1 DEF StartWave, Idle
  <2>3. Holders = {} /\ Holders' = {} /\ \A id \in Ids : goroutine[id].state # "over"
    BY <2>1, <2>2 DEF Holders, Idle
  <2>4. UNCHANGED <<budget, used, results>>
    BY <1>4 DEF StartWave, planVars
  <2> QED
    BY <2>1, <2>3, <2>4, CountedStays
<1>5. ASSUME NEW id \in Ids, ExecuteFails(id) \/ Breach(id) PROVE Counted'
  <2>1. errs' # <<>>
    BY <1>0, <1>5 DEF ExecuteFails, Breach, ExecTypeOK
  <2> QED
    BY <2>1 DEF Counted
<1>6. ASSUME NEW id \in Ids, CheckTime(id) PROVE Counted'
  <2>1. /\ goroutine[id].state = "clock" /\ UNCHANGED <<budget, used, results, errs>>
        /\ \A i \in Ids \ {id} : goroutine'[i] = goroutine[i]
        /\ \/ goroutine'[id] = [state |-> "over", kind |-> "time"]
           \/ goroutine'[id] = [state |-> "record", result |-> goroutine[id].result]
    BY <1>0, <1>6 DEF CheckTime, planVars, ExecTypeOK
  <2>2. CASE goroutine'[id] = [state |-> "over", kind |-> "time"]
    BY <2>2 DEF Counted
  <2>3. CASE goroutine'[id] = [state |-> "record", result |-> goroutine[id].result]
    <3>1. Holders' = Holders /\ \A i \in Holders : Held(i)' = Held(i)
      BY <2>1, <2>3 DEF Holders, Held
    <3>2. (\A i \in Ids : goroutine'[i].state # "over") => \A i \in Ids : goroutine[i].state # "over"
      BY <2>1
    <3> QED
      BY <2>1, <3>1, <3>2, CountedStays
  <2> QED
    BY <2>1, <2>2, <2>3
<1>7. ASSUME NEW id \in Ids, NEW u \in Usages, NEW good \in Outcomes(id), Add(id, u, good) PROVE Counted'
  BY <1>0, <1>7, CountedAdd DEF Outcomes
<1>8. ASSUME NEW id \in Ids, Record(id) PROVE Counted'
  BY <1>0, <1>8, CountedRecord
<1> QED
  BY <1>2, <1>3, <1>4, <1>5, <1>6, <1>7, <1>8 DEF Next, ProcessThought, Goroutines

-----------------------------------------------------------------------------
(* The invariant of the whole thought. *)

WholeInv == OrderInv /\ PlanInv /\ Recorded /\ Counted /\ ValidatedAgain /\ final \in Usage

LEMMA FinalStep ==
  ASSUME OrderInv, PlanInv, Recorded, final \in Usage, [Next]_vars
  PROVE  final' \in Usage
<1>0. ExecTypeOK
  BY DEF OrderInv, IInv
<1>1. CASE Synthesise
  <2>1. Chosen \in DOMAIN results
    BY <1>0, <1>1, ChosenIsFinal DEF Synthesise
  <2>2. results[Chosen].usage \in Usage
    <3>1. results[Chosen] \in Result
      BY <1>0, <2>1 DEF ExecTypeOK
    <3> QED
      BY <3>1 DEF Result
  <2>3. Spent \in Usage
    BY <1>0, SumOfType DEF Spent, SumOf, ExecTypeOK
  <2>4. Plus(Spent, results[Chosen].usage) \in Usage
    BY <2>2, <2>3, PlusLaws
  <2> QED
    BY <1>1, <2>4 DEF Synthesise
<1>2. CASE PlanTask \/ Revalidate \/ StartWave \/ WaveJoined \/ Goroutines \/ Expire \/ UNCHANGED vars
  BY <1>2 DEF PlanTask, Revalidate, StartWave, WaveJoined, Goroutines, Expire, ExecuteFails, Add,
     CheckTime, Breach, Record, vars, execVars
<1> QED
  BY <1>1, <1>2 DEF Next, ProcessThought

LEMMA WholeInvariant == Spec => []WholeInv
<1>1. Init => WholeInv
  <2>1. Init => Needed /\ ValidatedAgain /\ final \in Usage
    BY PlusLaws DEF Init, PlanInit, Needed, ValidatedAgain
  <2> QED
    BY <2>1, InitInv, PlanInvInit, RecordedInit, CountedInit DEF WholeInv, OrderInv
<1>2. ASSUME WholeInv, [Next]_vars PROVE WholeInv'
  <2>1. OrderInv'
    BY <1>2, NeededStep, FixedStep, TypeStep, WavesStep, ToldStep DEF WholeInv, OrderInv, IInv
  <2>2. Fixed /\ ExecTypeOK /\ IInv /\ Needed
    BY <1>2 DEF WholeInv, OrderInv, IInv
  <2>3. PlanInv' /\ Recorded' /\ Counted' /\ ValidatedAgain' /\ final' \in Usage
    BY <1>2, <2>2, PlanInvNext, RecordedStep, CountedStep, ValidatedStep, FinalStep DEF WholeInv
  <2> QED
    BY <2>1, <2>3 DEF WholeInv
<1> QED
  BY <1>1, <1>2, PTL DEF Spec

\* Every variable of a thought has its type, also the order the planner makes of
\* the layers and the sum the orchestrator makes of the results.
THEOREM TypeCorrect == Spec => []TypeOK
<1>1. WholeInv => TypeOK
  BY DEF WholeInv, OrderInv, IInv, PlanInv, TypeOK
<1> QED
  BY <1>1, WholeInvariant, PTL

\* Of every document that is accepted the layers are those of its dependencies;
\* one is rejected for its layers only if it has a cycle; the dependencies Plan
\* adds make no cycle of an obedient document; and no plan is refused by the
\* validation of the order the planner has made for it.
THEOREM PlanIsExecutable == Spec => []PlanExecutable
<1>1. ASSUME WholeInv PROVE PlanExecutable
  <2>1. PlanInv /\ Fixed /\ Needed /\ ValidatedAgain
    BY <1>1 DEF WholeInv, OrderInv, IInv
  <2>2. LayersCorrect
    BY <2>1, LayersAreCorrect
  <2>3. ObedientPlanFeasible
    <3> SUFFICES ASSUME phase = "planned", Obedient
                 PROVE  ~\E S \in SUBSET Position : Deadlocked(S, LAMBDA i : needs[tasks[i].id])
      BY DEF ObedientPlanFeasible
    <3>1. ValidTasks /\ Layering /\ Layered = Position /\ \A id \in Known : needs[id] = Normalised(At(id))
      BY <2>1 DEF PlanInv, Ordered, Needed
    <3> QED
      BY <2>1, <3>1, ObedientFeasible
  <2> QED
    BY <2>1, <2>2, <2>3 DEF PlanExecutable
<1> QED
  BY <1>1, WholeInvariant, PTL

\* The report of a thought that ends well tells of every task of the plan once,
\* adds up to all the monitor has counted, and is the final synthesis, which had
\* its turn when every other task was done.
THEOREM ReportIsComplete == Spec => []ReportComplete
<1>1. ASSUME WholeInv, pc = "ok" PROVE ReportComplete
  <2>1. ExecTypeOK /\ OrderInv /\ PlanInv /\ Recorded /\ Counted /\ AllIdle /\ errs = <<>>
    BY <1>1 DEF WholeInv, OrderInv, IInv, Waves, Told
  <2>2. Monitored => used = Spent
    <3> SUFFICES ASSUME Monitored PROVE used = SumOf(results)
      BY DEF Spent, SumOf
    <3>1. Holders = {} /\ \A id \in Ids : goroutine[id].state # "over"
      BY <2>1 DEF AllIdle, Holders, Idle
    <3>2. PICK G : HeldBy(G) /\ used = Plus(SumOf(results), G[Ids])
      BY <2>1, <3>1 DEF Counted
    <3>3. SumOf(results) \in Usage
      BY <2>1, SumOfType DEF ExecTypeOK
    <3> QED
      BY <3>1, <3>2, <3>3, NothingHeld, PlusLaws
  <2>3. executed = Known
    BY <1>1, <2>1 DEF Recorded
  <2>4. Chosen = Len(results) /\ FinalSynthesis(At(results[Chosen].task))
    BY <1>1, <2>1, ChosenIsFinal
  <2> QED
    BY <2>1, <2>2, <2>3, <2>4 DEF ReportComplete, Recorded
<1> QED
  BY <1>1, WholeInvariant, PTL DEF ReportComplete
=============================================================================
