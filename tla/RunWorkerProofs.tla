--------------------------- MODULE RunWorkerProofs ---------------------------
(***************************************************************************)
(* Proofs about RunWorker, for any number of workers, goroutines, entries, *)
(* events and runs, and any number of faults.  Seven inductive invariants: *)
(*   WellFormed   types, and which local variables are set at which step;  *)
(*   ClaimInv     at most one goroutine is past the claim of an event, and *)
(*                it publishes once;                                       *)
(*   ResumeInv    what a listed checkpoint promises until it is written    *)
(*                back;                                                    *)
(*   LossInv      without a fault, a claim is in some hands until its      *)
(*                task is published or its run parked;                     *)
(*   ParkedInv    without a fault, a parked run is asked or decided about, *)
(*                and a run is of one topic wherever it is recorded;       *)
(*   RecordInv    whatever fails, a run is of one topic, in the records,   *)
(*                the stale copies and the hands of the goroutines alike;  *)
(*   ApprovalInv  who is past the gate has seen his topic free of          *)
(*                approval, or has none.                                   *)
(* Each but the first has conditions (Calm, Steady, Tended, Narrow,        *)
(* Followed, Confined, Busied, Gated) that keep it and that most steps     *)
(* meet; the steps that do not have their own lemma or their own steps.    *)
(* The last section proves that the workers implement Dispatch.            *)
(***************************************************************************)
EXTENDS RunWorker, TLAPS

-----------------------------------------------------------------------------
(* Types, and the local variables of a goroutine at each step. *)

Shape(t) ==
  /\ pc[t] \in {"claim", "ack"} \cup HandlerSteps => job[t].entry # None
  /\ pc[t] \in GateSteps \cup {"receive", "start", "publish", "fail"}
                 \cup {"redispatch", "bump", "settle"} => job[t].run # None
  /\ pc[t] \in GateSteps \cup {"create", "receive"} => job[t].topic # None
  /\ pc[t] \in GateSteps \ {"policy"} => job[t].topic \in Topics

SnapOK(w) ==
  /\ pc[w] \in {"redispatch", "bump", "settle"} => Resuming(w)
  /\ pc[w] \in GateSteps \cup {"redispatch", "bump"} /\ Resuming(w) => snap[w] \in Listed

WellFormed == TypeOK /\ (\A t \in Thread : Shape(t)) /\ (\A w \in Workers : SnapOK(w))

\* Counting one more message leaves a family of counters one.
LEMMA Increment ==
  ASSUME NEW S, NEW f \in [S -> Nat], NEW x \in S
  PROVE  [f EXCEPT ![x] = @ + 1] \in [S -> Nat]
OBVIOUS

\* Every step keeps the types: a handler has its entry, run and topic when it
\* uses them, and ResumePending its listed checkpoint.
LEMMA WellFormedStep == WellFormed /\ [Next]_vars => WellFormed'
<1> SUFFICES ASSUME WellFormed, [Next]_vars PROVE WellFormed'
  OBVIOUS
<1> USE ThreadAssumption, PayloadAssumption, BoundAssumption
    DEF WellFormed, TypeOK, Shape, SnapOK, Thread, Step, GateSteps, HandlerSteps,
        ResumeSteps, Job, Listed, TopicIds, Request, Spend, Insert, Goto, Outcome, Performed, EventOf, Resuming,
        streamVars, taskVars, dbVars, mainVars, userVars
<1>0. CASE UNCHANGED vars
  BY <1>0 DEF vars
<1>1. ASSUME NEW e \in Entries, Enqueue(e) PROVE WellFormed'
  BY <1>1 DEF Enqueue, EntryState
<1>2. ASSUME NEW e \in Entries, Age(e) PROVE WellFormed'
  BY <1>2 DEF Age
<1>3. ASSUME NEW tp \in Topics, EditBudget(tp) PROVE WellFormed'
  BY <1>3 DEF EditBudget
<1>resolve. ASSUME NEW r \in Runs, ResolveBudgetApproval(r) PROVE WellFormed'
  <2>1. approval' \in [Runs -> Request \cup {None}]
    <3>1. PICK tp \in Topics : /\ approval[r] = [topic |-> tp, status |-> "pending"]
                               /\ approval' = [approval EXCEPT ![r].status = "decided"]
      BY <1>resolve DEF ResolveBudgetApproval, Asks
    <3>2. [approval[r] EXCEPT !.status = "decided"] \in Request
      BY <3>1
    <3> QED BY <3>1, <3>2
  <2>2. faults' \in 0..MaxFaults /\ deciding' \subseteq Runs
    BY <1>resolve DEF ResolveBudgetApproval
  <2>3. TypeOK'
    BY <1>resolve, <2>1, <2>2 DEF ResolveBudgetApproval
  <2>4. ASSUME NEW u \in Thread PROVE Shape(u)'
    BY <1>resolve DEF ResolveBudgetApproval
  <2>5. ASSUME NEW u \in Workers PROVE SnapOK(u)'
    BY <1>resolve DEF ResolveBudgetApproval
  <2> QED BY <2>3, <2>4, <2>5
<1>set. ASSUME NEW r \in Runs, SetDecidedStatus(r) PROVE WellFormed'
  <2>1. runStatus' \in [Runs -> RunStatus] /\ faults' \in 0..MaxFaults
    BY <1>set DEF SetDecidedStatus, RunStatus
  <2>2. TypeOK'
    BY <1>set, <2>1 DEF SetDecidedStatus
  <2>3. ASSUME NEW u \in Thread PROVE Shape(u)'
    BY <1>set DEF SetDecidedStatus
  <2>4. ASSUME NEW u \in Workers PROVE SnapOK(u)'
    BY <1>set DEF SetDecidedStatus
  <2> QED BY <2>2, <2>3, <2>4
<1>4. ASSUME NEW t \in Thread, Claim(t) PROVE WellFormed'
  <2> DEFINE v == EventOf(t)
  <2>1. v \in Events /\ pc[t] = "claim" /\ job[t].entry # None
    BY <1>4 DEF Claim, TakeUp
  <2>2. claimed' \subseteq Events /\ faults' \in 0..MaxFaults /\ free' \subseteq Thread
    BY <1>4, <2>1 DEF Claim, TakeUp
  <2>3. UNCHANGED <<streamVars, taskVars, runStatus, approval, received, checkpoint,
                    requireApproval, edits, deciding, mainVars>>
    BY <1>4 DEF Claim, TakeUp
  <2>4. \/ /\ job' = [job EXCEPT ![t] = [entry |-> job[t].entry, run |-> PayloadRun[v],
                                       topic |-> PayloadTopic[v]]]
           /\ pc' = [pc EXCEPT ![t] = IF PayloadRun[v] = None THEN "create" ELSE "policy"]
        \/ pc' = [pc EXCEPT ![t] = "ack"] /\ job' = job
    BY <1>4 DEF Claim, TakeUp
  <2> HIDE DEF v
  <2>5. TypeOK'
    <3>1. job' \in [Thread -> Job]
      <4>1. job[t].entry \in Entries \cup {None} /\ PayloadRun[v] \in Runs \cup {None}
              /\ PayloadTopic[v] \in TopicIds
        BY <2>1
      <4> DEFINE j == [entry |-> job[t].entry, run |-> PayloadRun[v],
                      topic |-> PayloadTopic[v]]
      <4>2. j \in Job
        BY <4>1
      <4>3. job' = job \/ job' = [job EXCEPT ![t] = j]
        BY <2>4
      <4> HIDE DEF j
      <4>4. CASE job' = job
        BY <4>4
      <4>5. CASE job' = [job EXCEPT ![t] = j]
        BY <4>2, <4>5
      <4> QED
        BY <4>3, <4>4, <4>5
    <3>2. pc' \in [Thread -> Step]
      BY <2>4
    <3> QED
      BY <2>2, <2>3, <3>1, <3>2
  <2>6. ASSUME NEW u \in Thread PROVE Shape(u)'
    <3>1. PayloadTopic[v] # None
      BY <2>1
    <3>2. CASE u = t
      BY <2>1, <2>4, <3>1, <3>2
    <3>3. CASE u # t
      BY <2>4, <3>3
    <3> QED
      BY <3>2, <3>3
  <2>7. ASSUME NEW u \in Workers PROVE SnapOK(u)'
    BY <2>1, <2>3, <2>4
  <2> QED
    BY <2>5, <2>6, <2>7
<1>5. ASSUME NEW t \in Thread, CreateRun(t) PROVE WellFormed'
  <2>1. PICK r \in Runs :
          \/ job' = [job EXCEPT ![t].run = r] /\ pc' = [pc EXCEPT ![t] = "policy"]
          \/ pc' = [pc EXCEPT ![t] = "ack"] /\ job' = job
    BY <1>5 DEF CreateRun, Insert
  <2>2. /\ pc[t] = "create" /\ runStatus' \in [Runs -> RunStatus] /\ faults' \in 0..MaxFaults
        /\ UNCHANGED <<streamVars, taskVars, claimed, approval, received, checkpoint,
                        userVars, mainVars>>
    BY <1>5 DEF CreateRun, Insert, RunStatus
  <2>3. TypeOK'
    <3>1. job' \in [Thread -> Job]
      <4>1. job[t] \in Job
        OBVIOUS
      <4>2. [job[t] EXCEPT !.run = r] \in Job
        BY <4>1
      <4>3. CASE job' = job
        BY <4>3
      <4>4. CASE job' = [job EXCEPT ![t].run = r]
        <5>1. job' = [u \in Thread |-> IF u = t THEN [job[t] EXCEPT !.run = r] ELSE job[u]]
          BY <4>4
        <5> QED
          BY <4>2, <5>1
      <4> QED
        BY <2>1, <4>3, <4>4
    <3>2. pc' \in [Thread -> Step]
      BY <2>1
    <3> QED
      BY <2>2, <3>1, <3>2
  <2>4. ASSUME NEW u \in Thread PROVE Shape(u)'
    BY <2>1, <2>2
  <2>5. job[t].entry # None /\ job'[t].entry = job[t].entry
    BY <2>1, <2>2
  <2>6. \A u \in Thread : u # t => pc'[u] = pc[u] /\ job'[u] = job[u]
    BY <2>1
  <2>7. ASSUME NEW u \in Workers PROVE SnapOK(u)'
    <3>1. snap' = snap /\ SnapOK(u) /\ u \in Thread
      BY <2>2
    <3>2. CASE u = t
      <4>1. job'[u].entry # None
        BY ONLY <2>5, <3>2
      <4>2. pc'[u] \in {"policy", "ack"}
        BY <2>1, <3>1, <3>2
      <4> QED BY <4>1, <4>2
    <3>3. CASE u # t
      BY ONLY <2>6, <3>1, <3>3 DEF SnapOK, Resuming
    <3> QED BY <3>2, <3>3
  <2> QED
    BY <2>3, <2>4, <2>7
<1>6. ASSUME NEW t \in Thread, LoadPolicy(t) PROVE WellFormed'
  <2>1. job' = job /\ UNCHANGED <<streamVars, taskVars, dbVars, userVars, mainVars>>
    BY <1>6 DEF LoadPolicy
  <2>2. PICK s \in {"ack", "pick", "mark", "redispatch", "receive"} : pc' = [pc EXCEPT ![t] = s]
    BY <1>6 DEF LoadPolicy, GatePass, GateError
  <2>3. /\ s = "mark" => job[t].topic \in Topics
        /\ s = "redispatch" => Resuming(t)
        /\ s \in {"ack", "receive"} => ~Resuming(t)
        /\ pc[t] = "policy" /\ faults' \in 0..MaxFaults
    BY <1>6, <2>2 DEF LoadPolicy, GatePass, GateError
  <2>4. TypeOK'
    BY <2>1, <2>2, <2>3
  <2>5. ASSUME NEW u \in Thread PROVE Shape(u)'
    BY <2>1, <2>2, <2>3
  <2>6. ASSUME NEW u \in Workers PROVE SnapOK(u)'
    BY <2>1, <2>2, <2>3
  <2> QED
    BY <2>4, <2>5, <2>6
<1>7. ASSUME NEW t \in Thread, MarkRunPendingApproval(t) PROVE WellFormed'
  <2>1. TypeOK'
    <3>1. runStatus' \in [Runs -> RunStatus]
      BY <1>7 DEF MarkRunPendingApproval, RunStatus
    <3>2. faults' \in 0..MaxFaults
      BY <1>7 DEF MarkRunPendingApproval
    <3>3. pc' \in [Thread -> Step]
      BY <1>7 DEF MarkRunPendingApproval, GateError
    <3> QED
      BY <1>7, <3>1, <3>2, <3>3 DEF MarkRunPendingApproval
  <2>2. ASSUME NEW u \in Thread PROVE Shape(u)'
    BY <1>7 DEF MarkRunPendingApproval, GateError
  <2>3. ASSUME NEW u \in Workers PROVE SnapOK(u)'
    BY <1>7 DEF MarkRunPendingApproval, GateError
  <2> QED
    BY <2>1, <2>2, <2>3
<1>8. ASSUME NEW t \in Thread, FindPendingApproval(t) PROVE WellFormed'
  <2>1. TypeOK'
    BY <1>8 DEF FindPendingApproval, GateSkip
  <2>2. ASSUME NEW u \in Thread PROVE Shape(u)'
    BY <1>8 DEF FindPendingApproval, GateSkip
  <2>3. ASSUME NEW u \in Workers PROVE SnapOK(u)'
    BY <1>8 DEF FindPendingApproval, GateSkip
  <2> QED
    BY <2>1, <2>2, <2>3
<1>9. ASSUME NEW t \in Thread, CreateBudgetApproval(t) PROVE WellFormed'
  <2>1. TypeOK'
    <3>1. approval' \in [Runs -> Request \cup {None}]
      <4>1. job[t].run \in Runs /\ job[t].topic \in Topics
        BY <1>9 DEF CreateBudgetApproval
      <4> QED BY <1>9, <4>1 DEF CreateBudgetApproval
    <3>2. faults' \in 0..MaxFaults
      BY <1>9 DEF CreateBudgetApproval, Insert
    <3>3. pc' \in [Thread -> Step]
      BY <1>9 DEF CreateBudgetApproval, Insert, GateError
    <3> QED
      BY <1>9, <3>1, <3>2, <3>3 DEF CreateBudgetApproval, Insert
  <2>2. ASSUME NEW u \in Thread PROVE Shape(u)'
    BY <1>9 DEF CreateBudgetApproval, Insert, GateError
  <2>3. ASSUME NEW u \in Workers PROVE SnapOK(u)'
    BY <1>9 DEF CreateBudgetApproval, Insert, GateError
  <2> QED
    BY <2>1, <2>2, <2>3
<1>10. ASSUME NEW t \in Thread, AnnounceApproval(t) PROVE WellFormed'
  BY <1>10 DEF AnnounceApproval, GateSkip
<1>11. ASSUME NEW t \in Thread, UpsertReceived(t) PROVE WellFormed'
  BY <1>11 DEF UpsertReceived, AfterReceived
<1>12. ASSUME NEW t \in Thread, SaveTaskStart(t) PROVE WellFormed'
  BY <1>12 DEF SaveTaskStart, Checkpoint
<1>13. ASSUME NEW t \in Thread, RunTask(t) PROVE WellFormed'
  <2>1. TypeOK'
    <3>1. EventOf(t) \in Events /\ job[t].run \in Runs
      BY <1>13 DEF RunTask
    <3>2. primary' \in [Events -> Nat]
      <4>1. primary' \in {primary, [primary EXCEPT ![EventOf(t)] = @ + 1]}
        BY <1>13 DEF RunTask
      <4> QED
        BY <3>1, <4>1, Increment
    <3>3. sent' \in [Runs -> Nat]
      <4>1. sent' \in {sent, [sent EXCEPT ![job[t].run] = @ + 1]}
        BY <1>13 DEF RunTask
      <4> QED
        BY <3>1, <4>1, Increment
    <3>4. faults' \in 0..MaxFaults
      BY <1>13 DEF RunTask
    <3>5. pc' \in [Thread -> Step]
      BY <1>13 DEF RunTask
    <3> QED
      BY <1>13, <3>1, <3>2, <3>3, <3>4, <3>5 DEF RunTask
  <2>2. ASSUME NEW u \in Thread PROVE Shape(u)'
    BY <1>13 DEF RunTask
  <2>3. ASSUME NEW u \in Workers PROVE SnapOK(u)'
    BY <1>13 DEF RunTask
  <2> QED
    BY <2>1, <2>2, <2>3
<1>14. ASSUME NEW t \in Thread, SaveTaskFailure(t) PROVE WellFormed'
  BY <1>14 DEF SaveTaskFailure, Checkpoint, FailedCheckpoint
<1>15. ASSUME NEW t \in Thread, Ack(t) PROVE WellFormed'
  <2>1. /\ UNCHANGED <<grouped, taskVars, dbVars, requireApproval, edits, deciding, mainVars>>
        /\ job' = [job EXCEPT ![t] = NoJob] /\ free' = free \ {t}
        /\ pc' = [pc EXCEPT ![t] = Rest(t)] /\ Rest(t) \in {"loop", "idle"}
    BY <1>15 DEF Ack, Drop, Rest
  <2>2. entry' \in [Entries -> EntryState] /\ idle' \subseteq Entries /\ faults' \in 0..MaxFaults
    BY <1>15 DEF Ack, EntryState
  <2>3. NoJob \in Job
    BY DEF NoJob
  <2>4. TypeOK'
    BY <2>1, <2>2, <2>3
  <2>5. ASSUME NEW u \in Thread PROVE Shape(u)'
    BY <2>1
  <2>6. ASSUME NEW u \in Workers PROVE SnapOK(u)'
    BY <2>1
  <2> QED BY <2>4, <2>5, <2>6
<1>16. ASSUME NEW w \in Workers, StartWorker(w) PROVE WellFormed'
  BY <1>16 DEF StartWorker
<1>17. ASSUME NEW w \in Workers, StopWorker(w) PROVE WellFormed'
  BY <1>17 DEF StopWorker, Forget, SlotsOf, NoJob
<1>18. ASSUME NEW w \in Workers, CrashWorker(w) PROVE WellFormed'
  BY <1>18 DEF CrashWorker, Forget, SlotsOf, NoJob
<1>19. ASSUME NEW w \in Workers, Read(w) PROVE WellFormed'
  BY <1>19 DEF Read, AtLoop, EntryState
<1>20. ASSUME NEW w \in Workers, Hand(w) PROVE WellFormed'
  <2>1. PICK e \in batch[w], u \in Thread :
          batch' = [batch EXCEPT ![w] = @ \ {e}] /\ Work(u, e) /\ u \in {w} \cup SlotsOf(w)
    BY <1>20 DEF Hand, SlotsOf
  <2>2. e \in Entries /\ batch' \in [Workers -> SUBSET Entries]
    BY <2>1
  <2>3. TypeOK'
    BY <1>20, <2>1, <2>2 DEF Hand, Work
  <2>4. ASSUME NEW x \in Thread PROVE Shape(x)'
    BY <1>20, <2>1, <2>2 DEF Hand, Work
  <2>5. ASSUME NEW x \in Workers PROVE SnapOK(x)'
    BY <1>20, <2>1, <2>2 DEF Hand, Work
  <2> QED
    BY <2>3, <2>4, <2>5
<1>21. ASSUME NEW w \in Workers, HandleReclaimed(w) PROVE WellFormed'
  BY <1>21 DEF HandleReclaimed, Work
<1>22. ASSUME NEW w \in Workers, ResumeTick(w) PROVE WellFormed'
  BY <1>22 DEF ResumeTick, AtLoop
<1>23. ASSUME NEW w \in Workers, ListCheckpoints(w) PROVE WellFormed'
  <2>1. /\ UNCHANGED <<streamVars, taskVars, dbVars, userVars, job, batch, reclaimed, snap>>
        /\ pc' = [pc EXCEPT ![w] = pc'[w]] /\ pc'[w] \in {"pick", "loop"}
        /\ faults' \in 0..MaxFaults
    BY <1>23 DEF ListCheckpoints
  <2>2. todo' \in [Workers -> SUBSET Listed]
    BY <1>23 DEF ListCheckpoints, Checkpoint, NoCheckpoint
  <2>3. TypeOK'
    BY <2>1, <2>2
  <2>4. ASSUME NEW u \in Thread PROVE Shape(u)'
    BY <2>1
  <2>5. ASSUME NEW u \in Workers PROVE SnapOK(u)'
    BY <2>1
  <2> QED BY <2>3, <2>4, <2>5
<1>24. ASSUME NEW w \in Workers, PickCheckpoint(w) PROVE WellFormed'
  <2>1. PICK c \in todo[w] : \E tp \in TopicIds :
          /\ todo' = [todo EXCEPT ![w] = @ \ {c}] /\ snap' = [snap EXCEPT ![w] = c]
          /\ TakeUp(w, None, c.run, tp) /\ pc' = [pc EXCEPT ![w] = "policy"]
    <3>1. \A c \in todo[w], o \in {"ok", "failed"} : ResumeTopic(c, o) \subseteq TopicIds
      BY DEF ResumeTopic
    <3> QED BY <1>24, <3>1 DEF PickCheckpoint
  <2>2. PICK tp \in TopicIds : TakeUp(w, None, c.run, tp)
    BY <2>1
  <2>3. /\ UNCHANGED <<streamVars, taskVars, dbVars, requireApproval, edits, deciding,
                       batch, reclaimed>>
        /\ faults' \in 0..MaxFaults /\ pc[w] = "pick"
    BY <1>24 DEF PickCheckpoint
  <2>4. free' \subseteq Thread /\ c \in Listed
    BY <2>2 DEF TakeUp
  <2>5. /\ job' = [job EXCEPT ![w] = [entry |-> None, run |-> c.run, topic |-> tp]]
        /\ [entry |-> None, run |-> c.run, topic |-> tp] \in Job
    BY <2>2, <2>4 DEF TakeUp
  <2>6. TypeOK'
    BY <2>1, <2>3, <2>4, <2>5
  <2>7. c.run # None /\ tp # None
    BY <2>4
  <2>8. ASSUME NEW u \in Thread PROVE Shape(u)'
    BY <2>1, <2>5, <2>7
  <2>9. ASSUME NEW u \in Workers PROVE SnapOK(u)'
    BY <2>1, <2>3, <2>4, <2>5
  <2> QED BY <2>6, <2>8, <2>9
<1>25. ASSUME NEW w \in Workers, AllPicked(w) PROVE WellFormed'
  BY <1>25 DEF AllPicked, Drop, NoJob
<1>26. ASSUME NEW w \in Workers, Redispatch(w) PROVE WellFormed'
  <2>1. TypeOK'
    <3>1. sent' \in [Runs -> Nat]
      <4>1. job[w].run \in Runs
        BY <1>26 DEF Redispatch
      <4>2. sent' \in {sent, [sent EXCEPT ![job[w].run] = @ + 1]}
        BY <1>26 DEF Redispatch
      <4> QED
        BY <4>1, <4>2, Increment
    <3>2. faults' \in 0..MaxFaults
      BY <1>26 DEF Redispatch
    <3>3. pc' \in [Thread -> Step]
      BY <1>26 DEF Redispatch, AfterRedispatch
    <3> QED
      BY <1>26, <3>1, <3>2, <3>3 DEF Redispatch
  <2>2. ASSUME NEW u \in Thread PROVE Shape(u)'
    BY <1>26 DEF Redispatch, AfterRedispatch
  <2>3. ASSUME NEW u \in Workers PROVE SnapOK(u)'
    BY <1>26 DEF Redispatch, AfterRedispatch
  <2> QED
    BY <2>1, <2>2, <2>3
<1>27. ASSUME NEW w \in Workers, BumpRetries(w) PROVE WellFormed'
  BY <1>27 DEF BumpRetries, Checkpoint
<1>28. ASSUME NEW w \in Workers, SettleSkipped(w) PROVE WellFormed'
  <2> DEFINE r == job[w].run
  <2>1. r \in Runs /\ pc[w] = "settle"
    BY <1>28 DEF SettleSkipped
  <2>2. checkpoint' \in [Runs -> Checkpoint \cup {NoCheckpoint}]
    <3>1. CASE checkpoint[r] = NoCheckpoint
      BY <1>28, <3>1 DEF SettleSkipped
    <3>2. CASE checkpoint[r] # NoCheckpoint
      <4>1. checkpoint[r] \in Checkpoint
        BY <2>1, <3>2
      <4>2. [checkpoint[r] EXCEPT !.status = "completed"] \in Checkpoint
        BY <4>1 DEF Checkpoint
      <4> QED
        BY <1>28, <2>1, <4>2 DEF SettleSkipped
    <3> QED
      BY <3>1, <3>2
  <2>3. faults' \in 0..MaxFaults
    BY <1>28 DEF SettleSkipped
  <2>4. TypeOK'
    BY <1>28, <2>2, <2>3 DEF SettleSkipped
  <2>5. ASSUME NEW u \in Thread PROVE Shape(u)'
    BY <1>28 DEF SettleSkipped
  <2>6. ASSUME NEW u \in Workers PROVE SnapOK(u)'
    BY <1>28 DEF SettleSkipped
  <2> QED
    BY <2>4, <2>5, <2>6
<1>29. ASSUME NEW w \in Workers, AutoClaim(w) PROVE WellFormed'
  BY <1>29 DEF AutoClaim, EntryState
<1> QED
  BY <1>0, <1>1, <1>2, <1>3, <1>resolve, <1>set, <1>4, <1>5, <1>6, <1>7, <1>8, <1>9, <1>10, <1>11,
     <1>12, <1>13, <1>14, <1>15, <1>16, <1>17, <1>18, <1>19, <1>20, <1>21, <1>22,
     <1>23, <1>24, <1>25, <1>26, <1>27, <1>28, <1>29 DEF Next, Handle,
     ResumePending
-----------------------------------------------------------------------------
(* Claims. *)

\* Past(t): goroutine t is past the claim of its event.
Past(t) == pc[t] \in HandlerSteps \cup GateSteps /\ job[t].entry # None

ClaimedFirst == \A t \in Thread : Past(t) => EventOf(t) \in claimed
Exclusive ==
  \A t, u \in Thread : Past(t) /\ Past(u) /\ EventOf(t) = EventOf(u) => t = u
PublishedOnce ==
  \A v \in Events :
    /\ primary[v] <= 1
    /\ primary[v] # 0 => /\ v \in claimed
                         /\ \A t \in Thread : Past(t) /\ EventOf(t) = v => pc[t] = "fail"

ClaimInv == ClaimedFirst /\ Exclusive /\ PublishedOnce

\* A step that brings nobody past a claim and publishes nothing.
Calm ==
  /\ claimed' = claimed /\ primary' = primary
  /\ \A u \in Thread : Past(u)' => /\ Past(u) /\ EventOf(u)' = EventOf(u)
                                   /\ pc[u] = "fail" => pc'[u] = "fail"

\* Moving on within a handler, or leaving it, disturbs no claim.
LEMMA CalmKeepsClaimInv == ClaimInv /\ Calm => ClaimInv'
<1> SUFFICES ASSUME ClaimInv, Calm PROVE ClaimInv'
  OBVIOUS
<1>1. ClaimedFirst'
  BY DEF ClaimInv, ClaimedFirst, Calm
<1>2. Exclusive'
  BY DEF ClaimInv, Exclusive, Calm
<1>3. PublishedOnce'
  BY DEF ClaimInv, PublishedOnce, Calm
<1> QED
  BY <1>1, <1>2, <1>3 DEF ClaimInv

\* Only the first INSERT of a key lets its handler past ClaimIdempotency.
LEMMA ClaimKeepsClaimInv ==
  ASSUME WellFormed, ClaimInv, NEW t \in Thread, Claim(t)
  PROVE  ClaimInv'
<1> DEFINE v == EventOf(t)
<1>1. v \in Events /\ pc[t] = "claim" /\ job[t].entry # None
  BY ThreadAssumption, PayloadAssumption
  DEF Claim, TakeUp, WellFormed, TypeOK, Shape, HandlerSteps, Job, EventOf
<1>2. /\ pc \in [Thread -> Step] /\ job \in [Thread -> Job]
      /\ primary' = primary /\ primary \in [Events -> Nat]
  BY DEF Claim, TakeUp, taskVars, WellFormed, TypeOK
<1>3. ASSUME NEW u \in Thread, u # t
      PROVE  pc'[u] = pc[u] /\ job'[u] = job[u]
  BY <1>2, <1>3 DEF Claim, TakeUp, Goto
<1>4. EventOf(t)' = v
  BY <1>1, <1>2 DEF Claim, TakeUp, EventOf
<1>5. CASE Past(t)'
  <2>1. v \notin claimed /\ claimed' = claimed \cup {v}
    BY <1>1, <1>2, <1>5 DEF Claim, TakeUp, Past, FirstClaim, Performed, Goto, HandlerSteps,
       GateSteps
  <2>2. \A u \in Thread : Past(u) => EventOf(u) # v
    BY <2>1 DEF ClaimInv, ClaimedFirst
  <2>3. ClaimedFirst'
    BY <1>3, <1>4, <2>1 DEF ClaimInv, ClaimedFirst, Past, EventOf
  <2>4. Exclusive'
    BY <1>3, <1>4, <2>2 DEF ClaimInv, Exclusive, Past, EventOf
  <2>5. primary[v] = 0
    BY <1>1, <2>1 DEF ClaimInv, PublishedOnce
  <2>6. PublishedOnce'
    BY <1>2, <1>3, <1>4, <2>1, <2>5 DEF ClaimInv, PublishedOnce, Past, EventOf
  <2> QED
    BY <2>3, <2>4, <2>6 DEF ClaimInv
<1>6. CASE ~Past(t)'
  <2>1. claimed \subseteq claimed'
    BY DEF Claim, TakeUp
  <2>2. \A u \in Thread : Past(u)' => Past(u) /\ EventOf(u)' = EventOf(u) /\ pc'[u] = pc[u]
    BY <1>3, <1>6 DEF Past, EventOf
  <2> QED
    BY <1>2, <2>1, <2>2 DEF ClaimInv, ClaimedFirst, Exclusive, PublishedOnce
<1> QED
  BY <1>5, <1>6

\* RunTask publishes for an event that nobody has published for, and leaves
\* the publishing step for good.
LEMMA RunTaskKeepsClaimInv ==
  ASSUME WellFormed, ClaimInv, NEW t \in Thread, RunTask(t)
  PROVE  ClaimInv'
<1> DEFINE v == EventOf(t)
<1>1. /\ v \in Events /\ Past(t) /\ pc[t] = "publish" /\ v \in claimed
      /\ pc \in [Thread -> Step] /\ primary \in [Events -> Nat]
  BY ThreadAssumption, PayloadAssumption
  DEF RunTask, WellFormed, TypeOK, Shape, HandlerSteps, Job, EventOf, Past, ClaimInv,
      ClaimedFirst
<1>2. primary[v] = 0
  BY <1>1 DEF ClaimInv, PublishedOnce
<1>3. job' = job /\ claimed' = claimed
  BY DEF RunTask, dbVars
<1>4. pc' = [pc EXCEPT ![t] = "ack"] \/ pc' = [pc EXCEPT ![t] = "fail"]
  BY DEF RunTask, Goto
<1>5. /\ \A u \in Thread : Past(u)' => Past(u) /\ EventOf(u)' = EventOf(u)
      /\ \A u \in Thread \ {t} : pc'[u] = pc[u]
      /\ Past(t)' => pc'[t] = "fail"
  BY <1>1, <1>3, <1>4 DEF Past, EventOf, HandlerSteps, GateSteps
<1>6. ClaimedFirst' /\ Exclusive'
  BY <1>3, <1>5 DEF ClaimInv, ClaimedFirst, Exclusive
<1>7. primary' = [primary EXCEPT ![v] = 1] \/ primary' = primary
  BY <1>1, <1>2 DEF RunTask
<1>8. \A u \in Thread : Past(u)' /\ EventOf(u)' = v => pc'[u] = "fail"
  BY <1>1, <1>5 DEF ClaimInv, Exclusive
<1>9. PublishedOnce'
  BY <1>1, <1>3, <1>5, <1>7, <1>8 DEF ClaimInv, PublishedOnce
<1> QED
  BY <1>6, <1>9 DEF ClaimInv

\* Every step keeps ClaimInv.
LEMMA ClaimInvStep == WellFormed /\ ClaimInv /\ [Next]_vars => ClaimInv'
<1> SUFFICES ASSUME WellFormed, ClaimInv, [Next]_vars PROVE ClaimInv'
  OBVIOUS
<1>1. pc \in [Thread -> Step] /\ job \in [Thread -> Job]
  BY DEF WellFormed, TypeOK
<1> USE <1>1, ThreadAssumption
    DEF Calm, Past, EventOf, HandlerSteps, GateSteps, Goto, Resuming, streamVars,
        taskVars, dbVars, mainVars, userVars, Thread
<1>2. CASE UNCHANGED vars
  BY <1>2, CalmKeepsClaimInv DEF vars
<1>3. ASSUME NEW e \in Entries, Enqueue(e) PROVE Calm
  BY <1>3 DEF Enqueue
<1>4. ASSUME NEW e \in Entries, Age(e) PROVE Calm
  BY <1>4 DEF Age
<1>5. ASSUME NEW tp \in Topics, EditBudget(tp) PROVE Calm
  BY <1>5 DEF EditBudget
<1>resolve. ASSUME NEW r \in Runs, ResolveBudgetApproval(r) PROVE Calm
  BY <1>resolve DEF ResolveBudgetApproval
<1>set. ASSUME NEW r \in Runs, SetDecidedStatus(r) PROVE Calm
  BY <1>set DEF SetDecidedStatus
<1>6. ASSUME NEW t \in Thread, Claim(t) PROVE ClaimInv'
  BY <1>6, ClaimKeepsClaimInv
<1>7. ASSUME NEW t \in Thread, CreateRun(t) PROVE ClaimInv'
  <2>1. \A u \in Thread : job'[u].entry = job[u].entry
    BY <1>7 DEF CreateRun, Insert, Job
  <2>2. Calm
    BY <1>7, <2>1 DEF CreateRun, Insert
  <2> QED
    BY <2>2, CalmKeepsClaimInv
<1>8. ASSUME NEW t \in Thread, LoadPolicy(t) PROVE Calm
  BY <1>8 DEF LoadPolicy, GatePass, GateError
<1>9. ASSUME NEW t \in Thread, MarkRunPendingApproval(t) PROVE Calm
  BY <1>9 DEF MarkRunPendingApproval, GateError
<1>10. ASSUME NEW t \in Thread, FindPendingApproval(t) PROVE Calm
  BY <1>10 DEF FindPendingApproval, GateSkip
<1>11. ASSUME NEW t \in Thread, CreateBudgetApproval(t) PROVE Calm
  BY <1>11 DEF CreateBudgetApproval, Insert, GateError
<1>12. ASSUME NEW t \in Thread, AnnounceApproval(t) PROVE Calm
  BY <1>12 DEF AnnounceApproval, GateSkip
<1>13. ASSUME NEW t \in Thread, UpsertReceived(t) PROVE Calm
  BY <1>13 DEF UpsertReceived, AfterReceived
<1>14. ASSUME NEW t \in Thread, SaveTaskStart(t) PROVE Calm
  BY <1>14 DEF SaveTaskStart
<1>15. ASSUME NEW t \in Thread, RunTask(t) PROVE ClaimInv'
  BY <1>15, RunTaskKeepsClaimInv
<1>16. ASSUME NEW t \in Thread, SaveTaskFailure(t) PROVE Calm
  BY <1>16 DEF SaveTaskFailure
<1>17. ASSUME NEW t \in Thread, Ack(t) PROVE Calm
  BY <1>17 DEF Ack, Drop, Rest, NoJob
<1>18. ASSUME NEW w \in Workers, StartWorker(w) PROVE Calm
  BY <1>18 DEF StartWorker
<1>19. ASSUME NEW w \in Workers, StopWorker(w) PROVE Calm
  BY <1>19 DEF StopWorker, Forget, SlotsOf, NoJob
<1>20. ASSUME NEW w \in Workers, CrashWorker(w) PROVE Calm
  BY <1>20 DEF CrashWorker, Forget, SlotsOf, NoJob
<1>21. ASSUME NEW w \in Workers, Read(w) PROVE Calm
  BY <1>21 DEF Read
<1>22. ASSUME NEW w \in Workers, Hand(w) PROVE Calm
  BY <1>22 DEF Hand, Work, SlotsOf
<1>23. ASSUME NEW w \in Workers, HandleReclaimed(w) PROVE Calm
  BY <1>23 DEF HandleReclaimed, Work
<1>24. ASSUME NEW w \in Workers, ResumeTick(w) PROVE Calm
  BY <1>24 DEF ResumeTick, AtLoop
<1>25. ASSUME NEW w \in Workers, ListCheckpoints(w) PROVE Calm
  BY <1>25 DEF ListCheckpoints
<1>26. ASSUME NEW w \in Workers, PickCheckpoint(w) PROVE Calm
  BY <1>26 DEF PickCheckpoint, TakeUp
<1>27. ASSUME NEW w \in Workers, AllPicked(w) PROVE Calm
  BY <1>27 DEF AllPicked, Drop, NoJob
<1>28. ASSUME NEW w \in Workers, Redispatch(w) PROVE Calm
  BY <1>28 DEF Redispatch, AfterRedispatch
<1>29. ASSUME NEW w \in Workers, BumpRetries(w) PROVE Calm
  BY <1>29 DEF BumpRetries
<1>30. ASSUME NEW w \in Workers, SettleSkipped(w) PROVE Calm
  BY <1>30 DEF SettleSkipped
<1>31. ASSUME NEW w \in Workers, AutoClaim(w) PROVE Calm
  BY <1>31 DEF AutoClaim
<1> QED
  BY CalmKeepsClaimInv, <1>resolve, <1>set, <1>2, <1>3, <1>4, <1>5, <1>6, <1>7, <1>8, <1>9, <1>10,
     <1>11, <1>12, <1>13, <1>14, <1>15, <1>16, <1>17, <1>18, <1>19, <1>20, <1>21,
     <1>22, <1>23, <1>24, <1>25, <1>26, <1>27, <1>28, <1>29, <1>30, <1>31 DEF Next,
     Handle, ResumePending
-----------------------------------------------------------------------------
(* Checkpoints and their stale copies. *)

\* Resumes(w): ResumePending of w is between picking a checkpoint and
\* writing it back.
Resumes(w) == pc[w] \in GateSteps \cup {"redispatch", "bump"} /\ Resuming(w)

ReceivedFirst == \A r \in Runs : checkpoint[r] # NoCheckpoint => received[r] # None
Bootstrapping ==
  \A t \in Thread : /\ pc[t] = "start" => received[job[t].run] # None
                    /\ pc[t] \in {"publish",
                        "fail"} => checkpoint[job[t].run] # NoCheckpoint
ListedOK(c) == checkpoint[c.run] # NoCheckpoint /\ c.retries <= sent[c.run]
TodoOK == \A w \in Workers : \A c \in todo[w] : ListedOK(c)
ResumesOK ==
  \A w \in Workers : Resumes(w) =>
    /\ snap[w].run = job[w].run /\ ListedOK(snap[w])
    /\ pc[w] = "bump" => snap[w].retries + 1 <= sent[snap[w].run]

ResumeInv == /\ CheckpointedBeforeDispatch /\ RetriesCovered
             /\ ReceivedFirst /\ Bootstrapping /\ TodoOK /\ ResumesOK

\* A step that leaves the checkpoints alone and resumes nothing new.
Steady ==
  /\ sent' = sent /\ checkpoint' = checkpoint
  /\ \A r \in Runs : received[r] # None => received'[r] # None
  /\ \A t \in Thread : pc'[t] \in {"start", "publish", "fail"} =>
                         pc'[t] = pc[t] /\ job'[t].run = job[t].run
  /\ \A w \in Workers :
       /\ todo'[w] \subseteq todo[w]
       /\ Resumes(w)' => /\ Resumes(w) /\ snap'[w] = snap[w] /\ job'[w].run = job[w].run
                         /\ pc'[w] = "bump" => pc[w] = "bump"

\* A step that neither writes checkpoints nor resumes keeps ResumeInv.
LEMMA SteadyKeepsResumeInv == WellFormed /\ ResumeInv /\ Steady => ResumeInv'
<1> SUFFICES ASSUME WellFormed, ResumeInv, Steady PROVE ResumeInv'
  OBVIOUS
<1> USE DEF ResumeInv, Steady
<1>1. CheckpointedBeforeDispatch' /\ RetriesCovered' /\ ReceivedFirst'
  BY DEF CheckpointedBeforeDispatch, RetriesCovered, ReceivedFirst
<1>2. Bootstrapping'
  BY ThreadAssumption
  DEF Bootstrapping, WellFormed, TypeOK, Shape, GateSteps, HandlerSteps, Job
<1>3. TodoOK'
  BY DEF TodoOK, ListedOK
<1>4. ResumesOK'
  BY DEF ResumesOK, ListedOK
<1> QED
  BY <1>1, <1>2, <1>3, <1>4

\* The steps that write or read a checkpoint or publish a task, one by one:
\* the run.enqueued checkpoint comes first,
LEMMA UpsertReceivedKeepsResumeInv ==
  ASSUME WellFormed, ResumeInv, NEW t \in Thread, UpsertReceived(t)
  PROVE  ResumeInv'
<1> USE ThreadAssumption, PayloadAssumption
    DEF WellFormed, TypeOK, Shape, SnapOK, ResumeInv, Resumes, Resuming, GateSteps,
        HandlerSteps, Goto, Outcome, Performed, Job, Listed, Checkpoint, NoCheckpoint,
        Thread, streamVars, taskVars, dbVars, mainVars, userVars, UpsertReceived, AfterReceived
<1>1. CheckpointedBeforeDispatch'
  BY DEF CheckpointedBeforeDispatch, ReceivedFirst, Bootstrapping, ResumesOK, ListedOK
<1>2. RetriesCovered'
  BY DEF RetriesCovered, ResumesOK
<1>3. ReceivedFirst'
  BY DEF ReceivedFirst, Bootstrapping, ResumesOK, ListedOK
<1>4. Bootstrapping'
  BY DEF Bootstrapping
<1>5. TodoOK'
  BY DEF TodoOK, ListedOK, RetriesCovered
<1>6. ResumesOK'
  BY DEF ResumesOK, ListedOK, TodoOK
<1> QED
  BY <1>1, <1>2, <1>3, <1>4, <1>5, <1>6

\* then the dispatched one with no retries,
LEMMA SaveTaskStartKeepsResumeInv ==
  ASSUME WellFormed, ResumeInv, NEW t \in Thread, SaveTaskStart(t)
  PROVE  ResumeInv'
<1> USE ThreadAssumption, PayloadAssumption
    DEF WellFormed, TypeOK, Shape, SnapOK, ResumeInv, Resumes, Resuming, GateSteps,
        HandlerSteps, Goto, Outcome, Performed, Job, Listed, Checkpoint, NoCheckpoint,
        Thread, streamVars, taskVars, dbVars, mainVars, userVars, SaveTaskStart
<1>1. CheckpointedBeforeDispatch'
  BY DEF CheckpointedBeforeDispatch, ReceivedFirst, Bootstrapping, ResumesOK, ListedOK
<1>2. RetriesCovered'
  BY DEF RetriesCovered, ResumesOK
<1>3. ReceivedFirst'
  BY DEF ReceivedFirst, Bootstrapping, ResumesOK, ListedOK
<1>4. Bootstrapping'
  BY DEF Bootstrapping
<1>5. TodoOK'
  BY DEF TodoOK, ListedOK, RetriesCovered
<1>6. ResumesOK'
  BY DEF ResumesOK, ListedOK, TodoOK
<1> QED
  BY <1>1, <1>2, <1>3, <1>4, <1>5, <1>6

\* then the message;
LEMMA RunTaskKeepsResumeInv ==
  ASSUME WellFormed, ResumeInv, NEW t \in Thread, RunTask(t)
  PROVE  ResumeInv'
<1>1. /\ UNCHANGED <<received, checkpoint, job, todo, snap>> /\ pc[t] = "publish"
      /\ pc' = [pc EXCEPT ![t] = "ack"] \/ pc' = [pc EXCEPT ![t] = "fail"]
  BY DEF RunTask, Goto, dbVars, mainVars
<1>2. /\ job[t].run \in Runs /\ sent \in [Runs -> Nat] /\ pc \in [Thread -> Step]
      /\ todo \in [Workers -> SUBSET Listed]
      /\ checkpoint \in [Runs -> Checkpoint \cup {NoCheckpoint}]
  BY <1>1, ThreadAssumption DEF WellFormed, TypeOK, Shape, Job
<1>3. sent' \in [Runs -> Nat] /\ \A r \in Runs : sent[r] <= sent'[r]
  <2>1. sent' = sent \/ sent' = [sent EXCEPT ![job[t].run] = @ + 1]
    BY DEF RunTask
  <2> QED BY <1>2, <2>1
<1>4. checkpoint[job[t].run] # NoCheckpoint
  BY <1>1 DEF ResumeInv, Bootstrapping
<1>5. CheckpointedBeforeDispatch'
  <2>1. \A r \in Runs : sent'[r] = sent[r] \/ r = job[t].run
    BY <1>2 DEF RunTask
  <2> QED BY <1>1, <1>4, <2>1 DEF ResumeInv, CheckpointedBeforeDispatch, ReceivedFirst
<1>6. RetriesCovered'
  <2>1. \A r \in Runs : checkpoint[r].status = "dispatched" => checkpoint[r].retries \in Nat
    BY <1>2 DEF Checkpoint, NoCheckpoint
  <2> QED BY <1>1, <1>2, <1>3, <2>1 DEF ResumeInv, RetriesCovered
<1>7. ReceivedFirst'
  BY <1>1 DEF ResumeInv, ReceivedFirst
<1>8. Bootstrapping'
  BY <1>1, <1>2 DEF ResumeInv, Bootstrapping
<1>9. TodoOK'
  BY <1>1, <1>2, <1>3 DEF ResumeInv, TodoOK, ListedOK, Listed
<1>10. ResumesOK'
  <2>1. ASSUME NEW w \in Workers, Resumes(w)'
        PROVE  Resumes(w) /\ (pc'[w] = "bump" => pc[w] = "bump")
    BY <1>1, <1>2, <2>1 DEF Resumes, Resuming, GateSteps, Thread
  <2>2. ASSUME NEW w \in Workers, Resumes(w)' PROVE snap[w].run \in Runs /\ snap[w].retries \in Nat
    BY <2>1, <2>2 DEF WellFormed, SnapOK, Resumes, Listed
  <2> QED BY <1>1, <1>2, <1>3, <2>1, <2>2 DEF ResumeInv, ResumesOK, ListedOK
<1> QED
  BY <1>5, <1>6, <1>7, <1>8, <1>9, <1>10 DEF ResumeInv

\* a failed publish closes the checkpoint;
LEMMA SaveTaskFailureKeepsResumeInv ==
  ASSUME WellFormed, ResumeInv, NEW t \in Thread, SaveTaskFailure(t)
  PROVE  ResumeInv'
<1> USE ThreadAssumption, PayloadAssumption
    DEF WellFormed, TypeOK, Shape, SnapOK, ResumeInv, Resumes, Resuming, GateSteps,
        HandlerSteps, Goto, Outcome, Performed, Job, Listed, Checkpoint, NoCheckpoint,
        Thread, streamVars, taskVars, dbVars, mainVars, userVars, SaveTaskFailure,
        FailedCheckpoint
<1>1. CheckpointedBeforeDispatch'
  BY DEF CheckpointedBeforeDispatch, ReceivedFirst, Bootstrapping, ResumesOK, ListedOK
<1>2. RetriesCovered'
  BY DEF RetriesCovered, ResumesOK
<1>3. ReceivedFirst'
  BY DEF ReceivedFirst, Bootstrapping, ResumesOK, ListedOK
<1>4. Bootstrapping'
  BY DEF Bootstrapping
<1>5. TodoOK'
  BY DEF TodoOK, ListedOK, RetriesCovered
<1>6. ResumesOK'
  BY DEF ResumesOK, ListedOK, TodoOK
<1> QED
  BY <1>1, <1>2, <1>3, <1>4, <1>5, <1>6

\* a listed copy counts no more retries than messages sent, now and later;
LEMMA ListCheckpointsKeepsResumeInv ==
  ASSUME WellFormed, ResumeInv, NEW w \in Workers, ListCheckpoints(w)
  PROVE  ResumeInv'
<1> USE ThreadAssumption, PayloadAssumption
    DEF WellFormed, TypeOK, Shape, SnapOK, ResumeInv, Resumes, Resuming, GateSteps,
        HandlerSteps, Goto, Outcome, Performed, Job, Listed, Checkpoint, NoCheckpoint,
        Thread, streamVars, taskVars, dbVars, mainVars, userVars, ListCheckpoints
<1>1. CheckpointedBeforeDispatch'
  BY DEF CheckpointedBeforeDispatch, ReceivedFirst, Bootstrapping, ResumesOK, ListedOK
<1>2. RetriesCovered'
  BY DEF RetriesCovered, ResumesOK
<1>3. ReceivedFirst'
  BY DEF ReceivedFirst, Bootstrapping, ResumesOK, ListedOK
<1>4. Bootstrapping'
  BY DEF Bootstrapping
<1>5. TodoOK'
  BY DEF TodoOK, ListedOK, RetriesCovered
<1>6. ResumesOK'
  BY DEF ResumesOK, ListedOK, TodoOK
<1> QED
  BY <1>1, <1>2, <1>3, <1>4, <1>5, <1>6

\* so does the one picked;
LEMMA PickCheckpointKeepsResumeInv ==
  ASSUME WellFormed, ResumeInv, NEW w \in Workers, PickCheckpoint(w)
  PROVE  ResumeInv'
<1> USE ThreadAssumption, PayloadAssumption
    DEF WellFormed, TypeOK, Shape, SnapOK, ResumeInv, Resumes, Resuming, GateSteps,
        HandlerSteps, Goto, Outcome, Performed, Job, Listed, Checkpoint, NoCheckpoint,
        Thread, streamVars, taskVars, dbVars, mainVars, userVars, PickCheckpoint, TakeUp, ResumeTopic
<1>1. CheckpointedBeforeDispatch'
  BY DEF CheckpointedBeforeDispatch, ReceivedFirst, Bootstrapping, ResumesOK, ListedOK
<1>2. RetriesCovered'
  BY DEF RetriesCovered, ResumesOK
<1>3. ReceivedFirst'
  BY DEF ReceivedFirst, Bootstrapping, ResumesOK, ListedOK
<1>4. Bootstrapping'
  BY DEF Bootstrapping
<1>5. TodoOK'
  BY DEF TodoOK, ListedOK, RetriesCovered
<1>6. ResumesOK'
  BY DEF ResumesOK, ListedOK, TodoOK
<1> QED
  BY <1>1, <1>2, <1>3, <1>4, <1>5, <1>6

\* publishing it again makes room for one more retry,
LEMMA RedispatchKeepsResumeInv ==
  ASSUME WellFormed, ResumeInv, NEW w \in Workers, Redispatch(w)
  PROVE  ResumeInv'
<1> DEFINE r == job[w].run
<1>1. /\ r \in Runs /\ Resumes(w) /\ pc[w] = "redispatch" /\ pc \in [Thread -> Step]
      /\ snap \in [Workers -> Listed \cup {None}] /\ snap[w] \in Listed
      /\ sent \in [Runs -> Nat] /\ checkpoint \in [Runs -> Checkpoint \cup {NoCheckpoint}]
      /\ todo \in [Workers -> SUBSET Listed]
  BY ThreadAssumption
  DEF Redispatch, WellFormed, TypeOK, Shape, SnapOK, Resumes, Job, Thread
<1>2. snap[w].run = r /\ ListedOK(snap[w])
  BY <1>1 DEF ResumeInv, ResumesOK
<1>3. UNCHANGED <<checkpoint, received, job, todo, snap>>
  BY DEF Redispatch, dbVars, mainVars
<1>4. \/ sent' = [sent EXCEPT ![r] = @ + 1] /\ pc' = [pc EXCEPT ![w] = "bump"]
      \/ sent' = [sent EXCEPT ![r] = @ + 1] /\ pc' = [pc EXCEPT ![w] = "pick"]
      \/ sent' = sent /\ pc' = [pc EXCEPT ![w] = "pick"]
  BY DEF Redispatch, AfterRedispatch, Goto, Performed, Outcome
<1>5. sent' \in [Runs -> Nat] /\ \A x \in Runs : sent[x] <= sent'[x]
  BY <1>1, <1>4
<1>6. \A x \in Runs : checkpoint[x].status = "dispatched" => checkpoint[x].retries \in Nat
  BY <1>1 DEF Checkpoint, NoCheckpoint
<1>7. CheckpointedBeforeDispatch'
  BY <1>1, <1>2, <1>3, <1>4
  DEF ResumeInv, CheckpointedBeforeDispatch, ReceivedFirst, ListedOK
<1>8. RetriesCovered'
  BY <1>1, <1>3, <1>5, <1>6 DEF ResumeInv, RetriesCovered
<1>9. ReceivedFirst'
  BY <1>3 DEF ResumeInv, ReceivedFirst
<1>10. Bootstrapping'
  BY <1>1, <1>3, <1>4, ThreadAssumption DEF ResumeInv, Bootstrapping, Thread
<1>11. TodoOK'
  BY <1>1, <1>3, <1>5 DEF ResumeInv, TodoOK, ListedOK, Listed
<1>12. ResumesOK'
  <2>1. ASSUME NEW x \in Workers, Resumes(x)'
        PROVE  Resumes(x) /\ (pc'[x] = "bump" => pc[x] = "bump" \/ x = w)
    BY <1>1, <1>3, <1>4, <2>1, ThreadAssumption DEF Resumes, Resuming, GateSteps, Thread
  <2>2. ASSUME NEW x \in Workers, Resumes(x)'
        PROVE  snap[x].run = job[x].run /\ ListedOK(snap[x])'
    <3>1. snap[x].run = job[x].run /\ ListedOK(snap[x])
      BY <2>1, <2>2 DEF ResumeInv, ResumesOK
    <3>2. snap[x] \in Listed
      BY <2>1, <2>2 DEF WellFormed, SnapOK, Resumes
    <3> QED
      BY <1>1, <1>3, <1>5, <3>1, <3>2 DEF ListedOK, Listed
  <2>3. ASSUME NEW x \in Workers, Resumes(x)', pc'[x] = "bump"
        PROVE  snap[x].retries + 1 <= sent'[snap[x].run]
    <3>1. CASE x = w
      <4>1. pc'[w] = "bump"
        BY <2>3, <3>1
      <4>2. sent' = [sent EXCEPT ![r] = @ + 1]
        BY <1>1, <1>4, <4>1, ThreadAssumption DEF Thread
      <4> QED
        BY <1>1, <1>2, <3>1, <4>2 DEF ListedOK, Listed
    <3>2. CASE x # w
      <4>1. pc[x] = "bump" /\ Resumes(x)
        BY <2>1, <2>3, <3>2
      <4>2. snap[x] \in Listed /\ snap[x].retries + 1 <= sent[snap[x].run]
        BY <4>1 DEF ResumeInv, ResumesOK, WellFormed, SnapOK, Resumes
      <4> QED
        BY <1>1, <1>5, <4>2 DEF Listed
    <3> QED
      BY <3>1, <3>2
  <2> QED
    BY <1>3, <2>2, <2>3 DEF ResumesOK
<1> QED
  BY <1>7, <1>8, <1>9, <1>10, <1>11, <1>12 DEF ResumeInv

\* which the stale copy written back counts;
LEMMA BumpRetriesKeepsResumeInv ==
  ASSUME WellFormed, ResumeInv, NEW w \in Workers, BumpRetries(w)
  PROVE  ResumeInv'
<1> USE ThreadAssumption, PayloadAssumption
    DEF WellFormed, TypeOK, Shape, SnapOK, ResumeInv, Resumes, Resuming, GateSteps,
        HandlerSteps, Goto, Outcome, Performed, Job, Listed, Checkpoint, NoCheckpoint,
        Thread, streamVars, taskVars, dbVars, mainVars, userVars, BumpRetries
<1>1. CheckpointedBeforeDispatch'
  BY DEF CheckpointedBeforeDispatch, ReceivedFirst, Bootstrapping, ResumesOK, ListedOK
<1>2. RetriesCovered'
  BY DEF RetriesCovered, ResumesOK
<1>3. ReceivedFirst'
  BY DEF ReceivedFirst, Bootstrapping, ResumesOK, ListedOK
<1>4. Bootstrapping'
  BY DEF Bootstrapping
<1>5. TodoOK'
  BY DEF TodoOK, ListedOK, RetriesCovered
<1>6. ResumesOK'
  BY DEF ResumesOK, ListedOK, TodoOK
<1> QED
  BY <1>1, <1>2, <1>3, <1>4, <1>5, <1>6

\* a run held back by the gate has its checkpoint closed.
LEMMA SettleSkippedKeepsResumeInv ==
  ASSUME WellFormed, ResumeInv, NEW w \in Workers, SettleSkipped(w)
  PROVE  ResumeInv'
<1> USE ThreadAssumption, PayloadAssumption
    DEF WellFormed, TypeOK, Shape, SnapOK, ResumeInv, Resumes, Resuming, GateSteps,
        HandlerSteps, Goto, Outcome, Performed, Job, Listed, Checkpoint, NoCheckpoint,
        Thread, streamVars, taskVars, dbVars, mainVars, userVars, SettleSkipped
<1>1. CheckpointedBeforeDispatch'
  BY DEF CheckpointedBeforeDispatch, ReceivedFirst, Bootstrapping, ResumesOK, ListedOK
<1>2. RetriesCovered'
  BY DEF RetriesCovered, ResumesOK
<1>3. ReceivedFirst'
  BY DEF ReceivedFirst, Bootstrapping, ResumesOK, ListedOK
<1>4. Bootstrapping'
  BY DEF Bootstrapping
<1>5. TodoOK'
  BY DEF TodoOK, ListedOK, RetriesCovered
<1>6. ResumesOK'
  BY DEF ResumesOK, ListedOK, TodoOK
<1> QED
  BY <1>1, <1>2, <1>3, <1>4, <1>5, <1>6

\* Every step keeps ResumeInv.
LEMMA ResumeInvStep == WellFormed /\ ResumeInv /\ [Next]_vars => ResumeInv'
<1> SUFFICES ASSUME WellFormed, ResumeInv, [Next]_vars PROVE ResumeInv'
  OBVIOUS
<1>1. /\ pc \in [Thread -> Step] /\ job \in [Thread -> Job]
      /\ todo \in [Workers -> SUBSET Listed] /\ snap \in [Workers -> Listed \cup {None}]
  BY DEF WellFormed, TypeOK
<1> USE <1>1, ThreadAssumption
    DEF Steady, Resumes, GateSteps, Goto, Resuming, streamVars, taskVars, dbVars,
        mainVars, userVars, Thread
<1>2. CASE UNCHANGED vars
  BY <1>2, SteadyKeepsResumeInv DEF vars
<1>3. ASSUME NEW e \in Entries, Enqueue(e) PROVE Steady
  BY <1>3 DEF Enqueue
<1>4. ASSUME NEW e \in Entries, Age(e) PROVE Steady
  BY <1>4 DEF Age
<1>5. ASSUME NEW tp \in Topics, EditBudget(tp) PROVE Steady
  BY <1>5 DEF EditBudget
<1>resolve. ASSUME NEW r \in Runs, ResolveBudgetApproval(r) PROVE Steady
  BY <1>resolve DEF ResolveBudgetApproval
<1>set. ASSUME NEW r \in Runs, SetDecidedStatus(r) PROVE Steady
  BY <1>set DEF SetDecidedStatus
<1>6. ASSUME NEW t \in Thread, Claim(t) PROVE ResumeInv'
  <2>1. UNCHANGED <<sent, checkpoint, received, todo, snap>> /\ pc[t] = "claim"
    BY <1>6 DEF Claim, TakeUp
  <2>2. \A u \in Thread \ {t} : pc'[u] = pc[u] /\ job'[u] = job[u]
    BY <1>6 DEF Claim, TakeUp
  <2>3. pc'[t] \in {"ack", "create", "policy"} /\ job'[t].entry # None
    BY <1>6 DEF Claim, TakeUp, WellFormed, TypeOK, Shape
  <2>4. Steady
    BY <2>1, <2>2, <2>3
  <2> QED
    BY <2>4, SteadyKeepsResumeInv
<1>7. ASSUME NEW t \in Thread, CreateRun(t) PROVE ResumeInv'
  <2>1. UNCHANGED <<sent, checkpoint, received, todo, snap>> /\ pc[t] = "create"
    BY <1>7 DEF CreateRun, Insert
  <2>2. \A u \in Thread \ {t} : pc'[u] = pc[u] /\ job'[u] = job[u]
    BY <1>7 DEF CreateRun, Insert
  <2>3. job[t].entry # None
    BY <2>1 DEF WellFormed, Shape, HandlerSteps
  <2>4. pc'[t] \in {"ack", "policy"} /\ job'[t].entry # None
    BY <1>7, <2>3 DEF CreateRun, Insert, Job
  <2>5. Steady
    BY <2>1, <2>2, <2>4
  <2> QED
    BY <2>5, SteadyKeepsResumeInv
<1>8. ASSUME NEW t \in Thread, LoadPolicy(t) PROVE Steady
  BY <1>8 DEF LoadPolicy, GatePass, GateError
<1>9. ASSUME NEW t \in Thread, MarkRunPendingApproval(t) PROVE Steady
  BY <1>9 DEF MarkRunPendingApproval, GateError
<1>10. ASSUME NEW t \in Thread, FindPendingApproval(t) PROVE Steady
  BY <1>10 DEF FindPendingApproval, GateSkip
<1>11. ASSUME NEW t \in Thread, CreateBudgetApproval(t) PROVE Steady
  BY <1>11 DEF CreateBudgetApproval, Insert, GateError
<1>12. ASSUME NEW t \in Thread, AnnounceApproval(t) PROVE Steady
  BY <1>12 DEF AnnounceApproval, GateSkip
<1>13. ASSUME NEW t \in Thread, UpsertReceived(t) PROVE ResumeInv'
  BY <1>13, UpsertReceivedKeepsResumeInv
<1>14. ASSUME NEW t \in Thread, SaveTaskStart(t) PROVE ResumeInv'
  BY <1>14, SaveTaskStartKeepsResumeInv
<1>15. ASSUME NEW t \in Thread, RunTask(t) PROVE ResumeInv'
  BY <1>15, RunTaskKeepsResumeInv
<1>16. ASSUME NEW t \in Thread, SaveTaskFailure(t) PROVE ResumeInv'
  BY <1>16, SaveTaskFailureKeepsResumeInv
<1>17. ASSUME NEW t \in Thread, Ack(t) PROVE Steady
  BY <1>17 DEF Ack, Drop, Rest, NoJob
<1>18. ASSUME NEW w \in Workers, StartWorker(w) PROVE Steady
  BY <1>18 DEF StartWorker
<1>19. ASSUME NEW w \in Workers, StopWorker(w) PROVE Steady
  BY <1>19 DEF StopWorker, Forget, SlotsOf, NoJob
<1>20. ASSUME NEW w \in Workers, CrashWorker(w) PROVE Steady
  BY <1>20 DEF CrashWorker, Forget, SlotsOf, NoJob
<1>21. ASSUME NEW w \in Workers, Read(w) PROVE Steady
  BY <1>21 DEF Read
<1>22. ASSUME NEW w \in Workers, Hand(w) PROVE Steady
  BY <1>22 DEF Hand, Work, SlotsOf
<1>23. ASSUME NEW w \in Workers, HandleReclaimed(w) PROVE Steady
  BY <1>23 DEF HandleReclaimed, Work
<1>24. ASSUME NEW w \in Workers, ResumeTick(w) PROVE Steady
  BY <1>24 DEF ResumeTick, AtLoop
<1>25. ASSUME NEW w \in Workers, ListCheckpoints(w) PROVE ResumeInv'
  BY <1>25, ListCheckpointsKeepsResumeInv
<1>26. ASSUME NEW w \in Workers, PickCheckpoint(w) PROVE ResumeInv'
  BY <1>26, PickCheckpointKeepsResumeInv
<1>27. ASSUME NEW w \in Workers, AllPicked(w) PROVE Steady
  BY <1>27 DEF AllPicked, Drop, NoJob
<1>28. ASSUME NEW w \in Workers, Redispatch(w) PROVE ResumeInv'
  BY <1>28, RedispatchKeepsResumeInv
<1>29. ASSUME NEW w \in Workers, BumpRetries(w) PROVE ResumeInv'
  BY <1>29, BumpRetriesKeepsResumeInv
<1>30. ASSUME NEW w \in Workers, SettleSkipped(w) PROVE ResumeInv'
  BY <1>30, SettleSkippedKeepsResumeInv
<1>31. ASSUME NEW w \in Workers, AutoClaim(w) PROVE Steady
  BY <1>31 DEF AutoClaim
<1> QED
  BY SteadyKeepsResumeInv, <1>resolve, <1>set, <1>2, <1>3, <1>4, <1>5, <1>6, <1>7, <1>8, <1>9, <1>10,
     <1>11, <1>12, <1>13, <1>14, <1>15, <1>16, <1>17, <1>18, <1>19, <1>20, <1>21,
     <1>22, <1>23, <1>24, <1>25, <1>26, <1>27, <1>28, <1>29, <1>30, <1>31 DEF Next,
     Handle, ResumePending
-----------------------------------------------------------------------------
(* What an event without faults comes to.                                   *)

\* Handler t is yet to publish for event v, or to park its run.
OnTheWay(t, v) ==
  /\ job[t].entry # None /\ EventOf(t) = v /\ job[t].run = PayloadRun[v]
  /\ pc[t] \in {"policy", "mark", "receive", "start", "publish"}

\* Whoever decides about a run has found it parked.
ParkedOrSent(v) ==
  primary[v] = 1 \/ runStatus[PayloadRun[v]] \in {"pending_approval", "decided"}

\* Nothing is acked before its event is claimed, and a claim is in somebody's
\* hands until its task is published or its run is parked.
LossInv ==
  faults = 0 =>
    /\ \A e \in Entries \ Undecodable : entry[e] = "acked" => EntryEvent[e] \in claimed
    /\ \A t \in Thread : pc[t] = "ack" => EventOf(t) \in claimed
    /\ \A v \in claimed \ Garbled : PayloadRun[v] # None =>
         ParkedOrSent(v) \/ \E t \in Thread : OnTheWay(t, v)

\* A step that claims nothing and gives up no event.
Tended ==
  /\ claimed' = claimed
  /\ \A e \in Entries \ Undecodable : entry'[e] = "acked" =>
       entry[e] = "acked" \/ \E t \in Thread : pc[t] = "ack" /\ job[t].entry = e
  /\ \A t \in Thread : pc'[t] = "ack" =>
       (pc[t] = "ack" \/ Past(t)) /\ job'[t].entry = job[t].entry
  /\ \A v \in Events : PayloadRun[v] # None =>
       /\ ParkedOrSent(v) => ParkedOrSent(v)'
       /\ \A t \in Thread : OnTheWay(t, v) => OnTheWay(t, v)' \/ ParkedOrSent(v)'

LEMMA TendedKeepsLossInv ==
  ASSUME WellFormed, ClaimInv, LossInv, faults = 0, Tended
  PROVE  LossInv'
<1>1. \A e \in Entries \ Undecodable : entry'[e] = "acked" => EntryEvent[e] \in claimed'
  BY DEF LossInv, Tended, EventOf
<1>2. \A t \in Thread : pc'[t] = "ack" => EventOf(t)' \in claimed'
  BY DEF LossInv, Tended, EventOf, ClaimInv, ClaimedFirst
<1>3. \A v \in claimed' \ Garbled : PayloadRun[v] # None =>
        ParkedOrSent(v)' \/ \E t \in Thread : OnTheWay(t, v)'
  <2> SUFFICES ASSUME NEW v \in claimed \ Garbled, PayloadRun[v] # None, ~ParkedOrSent(v)'
               PROVE  \E t \in Thread : OnTheWay(t, v)'
    BY DEF Tended
  <2>1. v \in Events
    BY DEF WellFormed, TypeOK
  <2>2. PICK t \in Thread : OnTheWay(t, v)
    BY <2>1 DEF LossInv, Tended
  <2> QED BY <2>1, <2>2 DEF Tended
<1> QED BY <1>1, <1>2, <1>3 DEF LossInv

\* A claim that is the first brings its handler on the way.
LEMMA ClaimKeepsLossInv ==
  ASSUME WellFormed, LossInv, faults = 0, faults' = 0, NEW t \in Thread, Claim(t)
  PROVE  LossInv'
<1> DEFINE v == EventOf(t)
<1>1. v \in Events /\ pc[t] = "claim" /\ job[t].entry # None /\ job[t].entry \in Entries
  BY ThreadAssumption, PayloadAssumption
  DEF Claim, TakeUp, WellFormed, TypeOK, Shape, HandlerSteps, Job, EventOf
<1>2. /\ pc \in [Thread -> Step] /\ job \in [Thread -> Job] /\ claimed \subseteq Events
      /\ entry' = entry /\ primary' = primary /\ runStatus' = runStatus
  BY DEF Claim, TakeUp, WellFormed, TypeOK, streamVars, taskVars
<1>3. /\ claimed' = claimed \cup {v}
      /\ \/ /\ v \notin claimed
            /\ job' = [job EXCEPT ![t] = [entry |-> job[t].entry, run |-> PayloadRun[v],
                                          topic |-> PayloadTopic[v]]]
            /\ pc' = [pc EXCEPT ![t] = IF PayloadRun[v] = None THEN "create" ELSE "policy"]
         \/ /\ v \in claimed \cup Garbled
            /\ pc' = [pc EXCEPT ![t] = "ack"] /\ job' = job
  BY DEF Claim, TakeUp, Spend, Outcome, Performed, FirstClaim, Goto
<1> HIDE DEF v
<1>4. \A u \in Thread : u # t => pc'[u] = pc[u] /\ job'[u] = job[u]
  BY <1>2, <1>3
<1>5. job'[t].entry = job[t].entry /\ EventOf(t)' = v
  BY <1>1, <1>2, <1>3 DEF EventOf, v
<1>6. \A e \in Entries \ Undecodable : entry'[e] = "acked" => EntryEvent[e] \in claimed'
  BY <1>2, <1>3 DEF LossInv
<1>7. \A u \in Thread : pc'[u] = "ack" => EventOf(u)' \in claimed'
  BY <1>3, <1>4, <1>5 DEF LossInv, EventOf
<1>8. ASSUME NEW x \in claimed' \ Garbled, PayloadRun[x] # None
      PROVE  ParkedOrSent(x)' \/ \E u \in Thread : OnTheWay(u, x)'
  <2>1. CASE x \in claimed
    <3>1. CASE ParkedOrSent(x)
      BY <1>2, <3>1 DEF ParkedOrSent
    <3>2. CASE ~ParkedOrSent(x)
      <4>1. PICK u \in Thread : OnTheWay(u, x)
        BY <1>8, <2>1, <3>2 DEF LossInv
      <4>2. u # t
        BY <1>1, <4>1 DEF OnTheWay
      <4> QED BY <1>4, <4>1, <4>2 DEF OnTheWay, EventOf
    <3> QED BY <3>1, <3>2
  <2>2. CASE x \notin claimed
    <3>1. x = v /\ v \notin claimed
      BY <1>3, <2>2
    <3>2. OnTheWay(t, x)'
      BY <1>1, <1>2, <1>3, <1>5, <1>8, <3>1 DEF OnTheWay
    <3> QED BY <3>2
  <2> QED BY <2>1, <2>2
<1> QED BY <1>6, <1>7, <1>8 DEF LossInv

\* No step takes a fault back.
LEMMA FaultsStay == WellFormed /\ [Next]_vars /\ faults' = 0 => faults = 0
<1> SUFFICES ASSUME WellFormed, [Next]_vars, faults' = 0 PROVE faults = 0
  OBVIOUS
<1>1. faults \in Nat
  BY BoundAssumption DEF WellFormed, TypeOK
<1> USE DEF Spend
<1>2. ASSUME NEW t \in Thread, Handle(t) PROVE faults' \in {faults, faults + 1}
  BY <1>2 DEF Handle, Claim, CreateRun, Insert, LoadPolicy, MarkRunPendingApproval,
     FindPendingApproval, CreateBudgetApproval, AnnounceApproval, UpsertReceived, SaveTaskStart, RunTask,
     SaveTaskFailure, Ack
<1>3. ASSUME NEW w \in Workers, ResumePending(w) PROVE faults' \in {faults, faults + 1}
  BY <1>3 DEF ResumePending, ListCheckpoints, PickCheckpoint, AllPicked, Redispatch,
     BumpRetries, SettleSkipped, AutoClaim
<1>4. ASSUME NEW w \in Workers, Read(w) PROVE faults' \in {faults, faults + 1}
  BY <1>4 DEF Read
<1>5. ASSUME NEW w \in Workers,
             StartWorker(w) \/ StopWorker(w) \/ CrashWorker(w) \/ Hand(w)
               \/ HandleReclaimed(w) \/ ResumeTick(w)
      PROVE  faults' \in {faults, faults + 1}
  BY <1>5 DEF StartWorker, StopWorker, CrashWorker, Hand, HandleReclaimed, ResumeTick
<1>6. CASE UNCHANGED vars \/ (\E e \in Entries : Enqueue(e) \/ Age(e))
             \/ \E tp \in Topics : EditBudget(tp)
  BY <1>6 DEF vars, Enqueue, Age, EditBudget
<1>7. ASSUME NEW r \in Runs, ResolveBudgetApproval(r) \/ SetDecidedStatus(r)
      PROVE  faults' \in {faults, faults + 1}
  BY <1>7 DEF ResolveBudgetApproval, SetDecidedStatus
<1> QED BY <1>1, <1>2, <1>3, <1>4, <1>5, <1>6, <1>7 DEF Next

\* Every step keeps LossInv: whoever leaves a handler has published or parked.
LEMMA LossInvStep == WellFormed /\ ClaimInv /\ ClaimInv' /\ LossInv /\ [Next]_vars => LossInv'
<1> SUFFICES ASSUME WellFormed, ClaimInv, ClaimInv', LossInv, [Next]_vars, faults' = 0 PROVE LossInv'
  BY DEF LossInv
<1>0. faults = 0
  BY FaultsStay
<1>1. /\ pc \in [Thread -> Step] /\ job \in [Thread -> Job] /\ entry \in [Entries -> EntryState]
      /\ primary \in [Events -> Nat] /\ runStatus \in [Runs -> RunStatus]
      /\ \A t \in Thread : Shape(t)
  BY DEF WellFormed, TypeOK
<1> USE <1>0, <1>1, ThreadAssumption, PayloadAssumption
    DEF Tended, ParkedOrSent, OnTheWay, Past, EventOf, HandlerSteps, GateSteps, Goto, Resuming,
        Spend, Outcome, Performed, streamVars, taskVars, dbVars, mainVars, userVars, Thread
<1>2. CASE UNCHANGED vars
  BY <1>2, TendedKeepsLossInv DEF vars
<1>3. ASSUME NEW t \in Thread, Claim(t) PROVE LossInv'
  BY <1>3, ClaimKeepsLossInv
<1>4. ASSUME NEW e \in Entries, Enqueue(e) PROVE Tended
  BY <1>4 DEF Enqueue
<1>5. ASSUME NEW e \in Entries, Age(e) PROVE Tended
  BY <1>5 DEF Age
<1>6. ASSUME NEW tp \in Topics, EditBudget(tp) PROVE Tended
  BY <1>6 DEF EditBudget
<1>resolve. ASSUME NEW r \in Runs, ResolveBudgetApproval(r) PROVE Tended
  BY <1>resolve DEF ResolveBudgetApproval
<1>set. ASSUME NEW r \in Runs, SetDecidedStatus(r) PROVE Tended
  BY <1>set DEF SetDecidedStatus
<1>7. ASSUME NEW t \in Thread, CreateRun(t) PROVE Tended
  <2>1. PICK r \in Runs :
          /\ runStatus[r] = "absent"
          /\ runStatus' \in {runStatus, [runStatus EXCEPT ![r] = "pending"]}
          /\ \/ job' = [job EXCEPT ![t].run = r] /\ pc' = [pc EXCEPT ![t] = "policy"]
             \/ job' = job /\ pc' = [pc EXCEPT ![t] = "ack"]
    BY <1>7 DEF CreateRun
  <2>2. /\ pc[t] = "create" /\ claimed' = claimed /\ entry' = entry /\ primary' = primary
        /\ job[t].entry # None
    BY <1>7 DEF CreateRun, Shape
  <2>3. \A v \in Events : PayloadRun[v] # None /\ ParkedOrSent(v) => ParkedOrSent(v)'
    BY <2>1, <2>2
  <2>4. \A u \in Thread : job'[u].entry = job[u].entry
    BY <2>1 DEF Job
  <2>5. \A u \in Thread : u # t => pc'[u] = pc[u] /\ job'[u] = job[u]
    BY <2>1
  <2> HIDE DEF ParkedOrSent
  <2> QED BY <2>2, <2>3, <2>4, <2>5
<1>8. ASSUME NEW t \in Thread, LoadPolicy(t) PROVE Tended
  BY <1>8 DEF LoadPolicy, GatePass, GateError
<1>9. ASSUME NEW t \in Thread, MarkRunPendingApproval(t) PROVE Tended
  <2>1. /\ pc[t] = "mark" /\ job[t].run \in Runs
        /\ pc' = [pc EXCEPT ![t] = "find"] /\ job' = job /\ claimed' = claimed
        /\ entry' = entry /\ primary' = primary
        /\ runStatus' = [runStatus EXCEPT ![job[t].run] = "pending_approval"]
    BY <1>9 DEF MarkRunPendingApproval, Shape, Job
  <2>2. \A r \in Runs : runStatus[r] \in {"pending_approval", "decided"}
          => runStatus'[r] \in {"pending_approval", "decided"}
    BY <2>1
  <2>3. \A v \in Events : PayloadRun[v] # None => PayloadRun[v] \in Runs
    BY DEF Thread
  <2>4. ASSUME NEW v \in Events, PayloadRun[v] # None
        PROVE  /\ ParkedOrSent(v) => ParkedOrSent(v)'
               /\ OnTheWay(t, v) => ParkedOrSent(v)'
    BY <2>1, <2>2, <2>3, <2>4
  <2>5. \A u \in Thread : u # t => pc'[u] = pc[u]
    BY <2>1
  <2>6. ASSUME NEW v \in Events, NEW u \in Thread, PayloadRun[v] # None, OnTheWay(u, v)
        PROVE  OnTheWay(u, v)' \/ ParkedOrSent(v)'
    BY <2>1, <2>4, <2>5, <2>6
  <2>7. \A u \in Thread : pc'[u] = "ack" => pc[u] = "ack"
    BY <2>1
  <2> QED BY <2>1, <2>4, <2>6, <2>7
<1>10. ASSUME NEW t \in Thread, FindPendingApproval(t) PROVE Tended
  BY <1>10 DEF FindPendingApproval, GateSkip
<1>11. ASSUME NEW t \in Thread, CreateBudgetApproval(t) PROVE Tended
  BY <1>11 DEF CreateBudgetApproval, Insert, GateError
<1>12. ASSUME NEW t \in Thread, AnnounceApproval(t) PROVE Tended
  BY <1>12 DEF AnnounceApproval, GateSkip
<1>13. ASSUME NEW t \in Thread, UpsertReceived(t) PROVE Tended
  BY <1>13 DEF UpsertReceived, AfterReceived
<1>14. ASSUME NEW t \in Thread, SaveTaskStart(t) PROVE Tended
  BY <1>14 DEF SaveTaskStart
<1>15. ASSUME NEW t \in Thread, RunTask(t) PROVE Tended
  <2>1. pc[t] = "publish" /\ job[t].entry # None
    BY <1>15 DEF RunTask, Shape
  <2>2. EventOf(t) \in Events
    BY <2>1 DEF Job
  <2>3. PICK o \in Outcome :
          /\ Spend(o)
          /\ Performed(o) => primary' = [primary EXCEPT ![EventOf(t)] = @ + 1]
          /\ Goto(t, IF o = "ok" THEN "ack" ELSE "fail")
    BY <1>15 DEF RunTask
  <2>4. o = "ok"
    BY <2>3
  <2>5. job' = job /\ claimed' = claimed /\ entry' = entry /\ runStatus' = runStatus
    BY <1>15 DEF RunTask
  <2>6. /\ pc' = [pc EXCEPT ![t] = "ack"] /\ job' = job /\ claimed' = claimed
        /\ entry' = entry /\ runStatus' = runStatus
        /\ primary' = [primary EXCEPT ![EventOf(t)] = @ + 1]
    BY <2>3, <2>4, <2>5
  <2>7. primary[EventOf(t)] = 0
    BY <2>1, <2>2 DEF ClaimInv, PublishedOnce
  <2>8. \A v \in Events : primary[v] = 1 => primary'[v] = 1
    BY <2>2, <2>6, <2>7
  <2>9. primary'[EventOf(t)] = 1
    BY <2>2, <2>6, <2>7
  <2> QED BY <2>1, <2>6, <2>8, <2>9
<1>16. ASSUME NEW t \in Thread, SaveTaskFailure(t) PROVE Tended
  BY <1>16 DEF SaveTaskFailure, Shape
<1>17. ASSUME NEW t \in Thread, Ack(t) PROVE Tended
  BY <1>17 DEF Ack, Drop, Rest, NoJob
<1>18. ASSUME NEW w \in Workers, StartWorker(w) PROVE Tended
  BY <1>18 DEF StartWorker
<1>19. ASSUME NEW w \in Workers, StopWorker(w) PROVE Tended
  BY <1>19 DEF StopWorker, Forget, SlotsOf, NoJob
<1>20. ASSUME NEW w \in Workers, CrashWorker(w) PROVE Tended
  BY <1>20 DEF CrashWorker
<1>21. ASSUME NEW w \in Workers, Read(w) PROVE Tended
  BY <1>21 DEF Read
<1>22. ASSUME NEW w \in Workers, Hand(w) PROVE Tended
  BY <1>22 DEF Hand, Work, SlotsOf
<1>23. ASSUME NEW w \in Workers, HandleReclaimed(w) PROVE Tended
  BY <1>23 DEF HandleReclaimed, Work
<1>24. ASSUME NEW w \in Workers, ResumeTick(w) PROVE Tended
  BY <1>24 DEF ResumeTick, AtLoop
<1>25. ASSUME NEW w \in Workers, ListCheckpoints(w) PROVE Tended
  BY <1>25 DEF ListCheckpoints
<1>26. ASSUME NEW w \in Workers, PickCheckpoint(w) PROVE Tended
  BY <1>26 DEF PickCheckpoint, TakeUp
<1>27. ASSUME NEW w \in Workers, AllPicked(w) PROVE Tended
  BY <1>27 DEF AllPicked, Drop, NoJob
<1>28. ASSUME NEW w \in Workers, Redispatch(w) PROVE Tended
  BY <1>28 DEF Redispatch, AfterRedispatch
<1>29. ASSUME NEW w \in Workers, BumpRetries(w) PROVE Tended
  BY <1>29 DEF BumpRetries
<1>30. ASSUME NEW w \in Workers, SettleSkipped(w) PROVE Tended
  BY <1>30 DEF SettleSkipped
<1>31. ASSUME NEW w \in Workers, AutoClaim(w) PROVE Tended
  BY <1>31 DEF AutoClaim
<1> QED
  BY TendedKeepsLossInv, <1>resolve, <1>set, <1>2, <1>3, <1>4, <1>5, <1>6, <1>7, <1>8, <1>9, <1>10, <1>11, <1>12, <1>13, <1>14, <1>15, <1>16, <1>17, <1>18, <1>19, <1>20, <1>21, <1>22, <1>23, <1>24, <1>25, <1>26, <1>27, <1>28, <1>29, <1>30, <1>31 DEF Next, Handle, ResumePending

-----------------------------------------------------------------------------
(* Parked runs and their requests.                                          *)

\* Run r is, by what is recorded or at hand, of topic tp.
OfTopic(r, tp) ==
  \/ received[r] = tp \/ (approval[r] # None /\ approval[r].topic = tp)
  \/ \E t \in Thread : job[t].run = r /\ job[t].topic = tp
  \/ \E v \in Events : PayloadRun[v] = r /\ PayloadTopic[v] = tp

TopicInv ==
  \A r \in Runs : \A a \in TopicIds : OfTopic(r, a) =>
    runStatus[r] # "absent" /\ \A b \in TopicIds : OfTopic(r, b) => b = a

Parked(v) ==
  PayloadRun[v] \notin Anonymous \cup {None} /\ runStatus[PayloadRun[v]] = "pending_approval"
\* The request that the run of v waits for, or what has come of it.
Asked(v) == \E q \in Runs : Asks(q, PayloadTopic[v])
Answered(v) ==
  \/ Asked(v) \/ PayloadRun[v] \in deciding
  \/ \E q \in Runs \ {PayloadRun[v]} : Decided(q, PayloadTopic[v])
Asking(t, v) == job[t].run = PayloadRun[v] /\ pc[t] \in {"find", "request"}

ParkedInv ==
  faults = 0 =>
    /\ TopicInv
    /\ \A v \in Events : Parked(v) => Answered(v) \/ \E t \in Thread : Asking(t, v)

\* A step that brings no run under another topic.
Narrow ==
  \A r \in Runs :
    /\ \A tp \in TopicIds : OfTopic(r, tp)' => OfTopic(r, tp)
    /\ runStatus'[r] = "absent" => runStatus[r] = "absent"

\* A step that parks no run nobody asks for, and gives up no request but for a
\* decision.
Followed ==
  \A v \in Events :
    /\ Parked(v)' => Parked(v) \/ \E t \in Thread : Asking(t, v)'
    /\ Answered(v) => Answered(v)' \/ ~Parked(v)'
    /\ \A t \in Thread : Asking(t, v) =>
         Asking(t, v)' \/ Answered(v)' \/ PayloadRun[v] \in Anonymous \cup {None}

LEMMA FollowedKeepsParkedInv ==
  ASSUME ParkedInv, faults = 0, TopicInv', Followed
  PROVE  ParkedInv'
<1> SUFFICES ASSUME NEW v \in Events, Parked(v)', ~Answered(v)'
             PROVE  \E t \in Thread : Asking(t, v)'
  BY DEF ParkedInv
<1>1. CASE \E t \in Thread : Asking(t, v)'
  BY <1>1
<1>2. CASE Parked(v)
  <2>1. PICK t \in Thread : Asking(t, v)
    BY <1>2 DEF ParkedInv, Followed
  <2>2. PayloadRun[v] \notin Anonymous \cup {None}
    BY <1>2 DEF Parked
  <2> QED BY <2>1, <2>2 DEF Followed
<1> QED BY <1>1, <1>2 DEF Followed

LEMMA NarrowKeepsTopicInv ==
  ASSUME TopicInv, Narrow
  PROVE  TopicInv'
  BY DEF TopicInv, Narrow

LEMMA CreateRunKeepsParkedInv ==
  ASSUME WellFormed, ParkedInv, faults = 0, faults' = 0, NEW t \in Thread, CreateRun(t)
  PROVE  ParkedInv'
<1>a. PICK o \in Outcome, r \in {x \in Runs : runStatus[x] = "absent"} :
        /\ Insert(job[t].topic # Blank, o)
        /\ runStatus' = IF Performed(o) THEN [runStatus EXCEPT ![r] = "pending"] ELSE runStatus
        /\ IF o = "ok" THEN job' = [job EXCEPT ![t].run = r] /\ Goto(t, "policy")
                       ELSE UNCHANGED job /\ Goto(t, "ack")
  BY DEF CreateRun
<1>0. o = "ok" \/ ~Performed(o)
  BY <1>a DEF Insert, Spend, Performed
<1>1. /\ received' = received /\ approval' = approval /\ deciding' = deciding /\ pc[t] = "create"
      /\ pc \in [Thread -> Step] /\ job \in [Thread -> Job] /\ runStatus \in [Runs -> RunStatus]
  BY DEF CreateRun, userVars, WellFormed, TypeOK
<1>2. \A u \in Thread : u # t => job'[u] = job[u] /\ pc'[u] = pc[u]
  BY <1>a, <1>1 DEF Goto
<1>3. \A v \in Events : Answered(v) => Answered(v)'
  BY <1>1 DEF Answered, Asked, Asks, Decided
<1>4. \A v \in Events, u \in Thread : Asking(u, v) => Asking(u, v)'
  BY <1>1, <1>2 DEF Asking
<1>5. CASE o = "ok"
  <2>1. /\ r \in Runs /\ runStatus[r] = "absent"
        /\ runStatus' = [runStatus EXCEPT ![r] = "pending"]
        /\ job'[t].run = r /\ job'[t].topic = job[t].topic
    BY <1>a, <1>1, <1>5 DEF Performed, Job
  <2>2. \A tp \in TopicIds : ~OfTopic(r, tp)
    BY <2>1 DEF ParkedInv, TopicInv
  <2>3. \A tp \in TopicIds : OfTopic(r, tp)' => tp = job[t].topic
    BY <1>1, <1>2, <2>1, <2>2 DEF OfTopic
  <2>4. \A q \in Runs : q # r => \A tp \in TopicIds : OfTopic(q, tp)' => OfTopic(q, tp)
    BY <1>1, <1>2, <2>1 DEF OfTopic
  <2>5. runStatus'[r] = "pending" /\ \A q \in Runs : q # r => runStatus'[q] = runStatus[q]
    BY <1>1, <2>1
  <2>6. TopicInv'
    BY <2>3, <2>4, <2>5 DEF ParkedInv, TopicInv
  <2>7. \A v \in Events : PayloadRun[v] # None => PayloadRun[v] \in Runs /\ PayloadRun[v] # r
    BY <2>2, PayloadAssumption DEF OfTopic
  <2>8. \A v \in Events : Parked(v)' => Parked(v)
    BY <2>5, <2>7 DEF Parked
  <2>9. Followed
    BY <1>3, <1>4, <2>8 DEF Followed
  <2> QED BY <2>6, <2>9, FollowedKeepsParkedInv
<1>6. CASE o # "ok"
  <2>1. job' = job /\ runStatus' = runStatus
    BY <1>a, <1>0, <1>6
  <2>2. TopicInv'
    BY <1>1, <2>1 DEF ParkedInv, TopicInv, OfTopic
  <2>3. Followed
    BY <1>3, <1>4, <2>1 DEF Followed, Parked
  <2> QED BY <2>2, <2>3, FollowedKeepsParkedInv
<1> QED BY <1>5, <1>6

\* Every step keeps ParkedInv.
LEMMA ParkedInvStep == WellFormed /\ ResumeInv /\ ParkedInv /\ [Next]_vars => ParkedInv'
<1> SUFFICES ASSUME WellFormed, ResumeInv, ParkedInv, [Next]_vars, faults' = 0 PROVE ParkedInv'
  BY DEF ParkedInv
<1>0. faults = 0 /\ TopicInv
  BY FaultsStay DEF ParkedInv
<1>1. /\ pc \in [Thread -> Step] /\ job \in [Thread -> Job]
      /\ approval \in [Runs -> Request \cup {None}] /\ received \in [Runs -> TopicIds \cup {None}]
      /\ runStatus \in [Runs -> RunStatus] /\ deciding \subseteq Runs
      /\ \A t \in Thread : Shape(t)
  BY DEF WellFormed, TypeOK
<1>kept. ASSUME Narrow, Followed PROVE ParkedInv'
  BY <1>0, <1>kept, NarrowKeepsTopicInv, FollowedKeepsParkedInv
<1> USE <1>0, <1>1, ThreadAssumption, PayloadAssumption
    DEF Narrow, Followed, OfTopic, Parked, Answered, Asked, Asks, Decided, Asking, EventOf, Goto, Resuming,
        Spend, Outcome, Performed, streamVars, taskVars, dbVars, mainVars, userVars
<1>2. CASE UNCHANGED vars
  <2>1. Narrow
    BY <1>2 DEF vars
  <2>2. Followed
    BY <1>2 DEF vars
  <2> QED BY <1>kept, <2>1, <2>2
<1>3. ASSUME NEW t \in Thread, CreateRun(t) PROVE ParkedInv'
  BY <1>3, CreateRunKeepsParkedInv
<1>4. ASSUME NEW e \in Entries, Enqueue(e) PROVE Narrow /\ Followed
  <2>1. Narrow
    BY <1>4 DEF Enqueue
  <2>2. Followed
    BY <1>4 DEF Enqueue
  <2> QED BY <2>1, <2>2
<1>5. ASSUME NEW e \in Entries, Age(e) PROVE Narrow /\ Followed
  <2>1. Narrow
    BY <1>5 DEF Age
  <2>2. Followed
    BY <1>5 DEF Age
  <2> QED BY <2>1, <2>2
<1>6. ASSUME NEW tp \in Topics, EditBudget(tp) PROVE Narrow /\ Followed
  <2>1. Narrow
    BY <1>6 DEF EditBudget
  <2>2. Followed
    BY <1>6 DEF EditBudget
  <2> QED BY <2>1, <2>2
<1>resolve. ASSUME NEW r \in Runs, ResolveBudgetApproval(r) PROVE Narrow /\ Followed
  <2>1. PICK tp \in Topics, o \in {"ok", "lost"} :
          /\ Asks(r, tp) /\ Spend(o)
          /\ approval' = [approval EXCEPT ![r].status = "decided"]
          /\ deciding' = IF o = "ok" THEN deciding \cup {r} ELSE deciding
    BY <1>resolve DEF ResolveBudgetApproval
  <2>2. /\ received' = received /\ runStatus' = runStatus /\ job' = job /\ pc' = pc
        /\ deciding' = deciding \cup {r} /\ approval[r].topic = tp
    BY <1>resolve, <2>1 DEF ResolveBudgetApproval
  <2>3. /\ approval'[r] = [topic |-> tp, status |-> "decided"] /\ approval[r] # None
        /\ \A q \in Runs : q # r => approval'[q] = approval[q]
    BY <2>1, RequestAssumption DEF Request, TopicIds
  <2>4. Narrow
    BY <2>2, <2>3
  <2>5. ASSUME NEW v \in Events, Answered(v) PROVE Answered(v)'
    BY <2>1, <2>2, <2>3, <2>5
  <2>6. Followed
    BY <2>2, <2>5
  <2> QED BY <2>4, <2>6
<1>set. ASSUME NEW r \in Runs, SetDecidedStatus(r) PROVE Narrow /\ Followed
  <2>1. /\ received' = received /\ approval' = approval /\ job' = job /\ pc' = pc
        /\ deciding' = deciding \ {r} /\ runStatus' = [runStatus EXCEPT ![r] = "decided"]
    BY <1>set DEF SetDecidedStatus
  <2>2. Narrow
    BY <2>1
  <2>3. Followed
    BY <2>1
  <2> QED BY <2>2, <2>3
<1>7. ASSUME NEW t \in Thread, Claim(t) PROVE Narrow /\ Followed
  <2> DEFINE v == EventOf(t)
             j == [entry |-> job[t].entry, run |-> PayloadRun[v], topic |-> PayloadTopic[v]]
  <2>1. v \in Events /\ pc[t] = "claim"
    BY <1>7 DEF Claim, TakeUp, Shape, Job
  <2>2. \/ job' = job /\ pc' = [pc EXCEPT ![t] = "ack"]
        \/ /\ job' = [job EXCEPT ![t] = j]
           /\ pc' = [pc EXCEPT ![t] = IF PayloadRun[v] = None THEN "create" ELSE "policy"]
    BY <1>7 DEF Claim, TakeUp
  <2>3. received' = received /\ approval' = approval /\ runStatus' = runStatus
        /\ deciding' = deciding
    BY <1>7 DEF Claim, TakeUp
  <2>4. j.run = PayloadRun[v] /\ j.topic = PayloadTopic[v]
    OBVIOUS
  <2> HIDE DEF v, j
  <2>5. \A u \in Thread : job'[u] = job[u] \/ (u = t /\ job'[u] = j)
    BY <2>2
  <2>6. Narrow
    BY <2>1, <2>3, <2>4, <2>5
  <2>7. \A u \in Thread : pc[u] \in {"find", "request"} => pc'[u] = pc[u] /\ job'[u] = job[u]
    BY <2>1, <2>2
  <2>8. Followed
    BY <2>3, <2>7
  <2> QED BY <2>6, <2>8
<1>8. ASSUME NEW t \in Thread, LoadPolicy(t) PROVE Narrow /\ Followed
  <2>1. Narrow
    BY <1>8 DEF LoadPolicy, GatePass, GateError
  <2>2. Followed
    BY <1>8 DEF LoadPolicy, GatePass, GateError
  <2> QED BY <2>1, <2>2
<1>9. ASSUME NEW t \in Thread, MarkRunPendingApproval(t) PROVE Narrow /\ Followed
  <2>1. Narrow
    BY <1>9 DEF MarkRunPendingApproval, GateError
  <2>2. Followed
    BY <1>9 DEF MarkRunPendingApproval, GateError
  <2> QED BY <2>1, <2>2
<1>10. ASSUME NEW t \in Thread, FindPendingApproval(t) PROVE Narrow /\ Followed
  <2>1. /\ pc[t] = "find" /\ job' = job /\ received' = received /\ approval' = approval
        /\ runStatus' = runStatus /\ deciding' = deciding
        /\ pc' = [pc EXCEPT ![t] = "request"] \/ ApprovalPending(job[t].topic)
        /\ \A u \in Thread : u # t => pc'[u] = pc[u]
    BY <1>10 DEF FindPendingApproval, GateSkip
  <2>2. Narrow
    BY <2>1
  <2>3. job[t].topic \in TopicIds /\ job[t].run \in Runs
    BY <2>1 DEF Shape, GateSteps, Job
  <2>4. ASSUME NEW v \in Events, PayloadRun[v] = job[t].run PROVE PayloadTopic[v] = job[t].topic
    BY <2>3, <2>4 DEF TopicInv
  <2>5. Followed
    BY <2>1, <2>3, <2>4 DEF ApprovalPending
  <2> QED BY <2>2, <2>5
<1>11. ASSUME NEW t \in Thread, CreateBudgetApproval(t) PROVE Narrow /\ Followed
  <2> DEFINE asked == [topic |-> job[t].topic, status |-> "pending"]
  <2>1. /\ pc[t] = "request" /\ job' = job /\ received' = received /\ runStatus' = runStatus
        /\ deciding' = deciding /\ \A u \in Thread : u # t => pc'[u] = pc[u]
    <3>1. /\ pc[t] = "request" /\ job' = job /\ received' = received /\ runStatus' = runStatus
          /\ deciding' = deciding
      BY <1>11 DEF CreateBudgetApproval
    <3>2. \A u \in Thread : u # t => pc'[u] = pc[u]
      BY <1>11 DEF CreateBudgetApproval, GateError
    <3> QED BY <3>1, <3>2
  <2>2. \/ approval' = [approval EXCEPT ![job[t].run] = asked]
        \/ approval' = approval /\ job[t].run \in Anonymous
    <3>1. PICK o \in Outcome :
            /\ Insert(job[t].run \notin Anonymous, o)
            /\ approval' = IF Performed(o) THEN [approval EXCEPT ![job[t].run] = asked]
                                           ELSE approval
      BY <1>11 DEF CreateBudgetApproval
    <3>2. CASE job[t].run \in Anonymous
      BY <3>1, <3>2 DEF Insert
    <3>3. CASE job[t].run \notin Anonymous
      <4>1. o = "ok"
        BY <3>1, <3>3 DEF Insert
      <4> QED BY <3>1, <4>1
    <3> QED BY <3>2, <3>3
  <2>3. job[t].topic \in Topics /\ job[t].run \in Runs
    BY <2>1 DEF Shape, GateSteps, Job
  <2>4. ASSUME NEW v \in Events, PayloadRun[v] = job[t].run PROVE PayloadTopic[v] = job[t].topic
    BY <2>3, <2>4 DEF TopicInv, TopicIds
  <2>5. \A tp \in TopicIds : approval[job[t].run] # None /\ approval[job[t].run].topic = tp
          => tp = job[t].topic
    BY <2>3 DEF TopicInv, TopicIds
  <2>6. asked # None /\ asked.topic = job[t].topic
    BY <2>3, RequestAssumption DEF Request, TopicIds
  <2> HIDE DEF asked
  <2>7. Narrow
    BY <2>1, <2>2, <2>3, <2>6
  <2>8. ASSUME NEW v \in Events, Answered(v) PROVE Answered(v)'
    <3>1. \A q \in Runs : q # job[t].run => approval'[q] = approval[q]
      BY <2>2
    <3>2. CASE approval' = approval
      BY <2>1, <2>8, <3>2
    <3>3. CASE PayloadTopic[v] = job[t].topic /\ approval' = [approval EXCEPT ![job[t].run] = asked]
      <4>1. Asks(job[t].run, PayloadTopic[v])'
        BY <2>1, <2>3, <3>3 DEF asked
      <4> QED BY <2>1, <2>3, <4>1
    <3>4. CASE PayloadTopic[v] # job[t].topic
      <4>1. ~Asks(job[t].run, PayloadTopic[v]) /\ ~Decided(job[t].run, PayloadTopic[v])
        BY <2>3, <2>5, <3>4, RequestAssumption
      <4>2. \A q \in Runs : Asks(q, PayloadTopic[v]) => Asks(q, PayloadTopic[v])'
        BY <3>1, <4>1
      <4>3. \A q \in Runs : Decided(q, PayloadTopic[v]) => Decided(q, PayloadTopic[v])'
        BY <3>1, <4>1
      <4> HIDE DEF Asks, Decided
      <4> QED BY <2>1, <2>8, <4>2, <4>3
    <3> QED BY <2>2, <3>2, <3>3, <3>4
  <2>9. ASSUME NEW v \in Events, NEW u \in Thread, Asking(u, v)
        PROVE  Asking(u, v)' \/ Answered(v)' \/ PayloadRun[v] \in Anonymous \cup {None}
    <3>1. CASE u = t /\ approval' = [approval EXCEPT ![job[t].run] = asked]
      <4>1. Asks(job[t].run, PayloadTopic[v])'
        BY <2>1, <2>3, <2>4, <2>9, <3>1 DEF asked
      <4> QED BY <2>1, <2>3, <4>1
    <3>2. CASE u = t /\ job[t].run \in Anonymous
      BY <2>9, <3>2
    <3>3. CASE u # t
      BY <2>1, <2>9, <3>3
    <3> QED BY <2>2, <3>1, <3>2, <3>3
  <2>10. \A v \in Events : Parked(v)' => Parked(v)
    BY <2>1
  <2> HIDE DEF Answered, Asking, Parked
  <2> QED BY <2>7, <2>8, <2>9, <2>10
<1>12. ASSUME NEW t \in Thread, AnnounceApproval(t) PROVE Narrow /\ Followed
  <2>1. Narrow
    BY <1>12 DEF AnnounceApproval, GateSkip
  <2>2. Followed
    BY <1>12 DEF AnnounceApproval, GateSkip
  <2> QED BY <2>1, <2>2
<1>13. ASSUME NEW t \in Thread, UpsertReceived(t) PROVE Narrow /\ Followed
  <2>1. Narrow
    BY <1>13 DEF UpsertReceived, AfterReceived
  <2>2. Followed
    BY <1>13 DEF UpsertReceived, AfterReceived
  <2> QED BY <2>1, <2>2
<1>14. ASSUME NEW t \in Thread, SaveTaskStart(t) PROVE Narrow /\ Followed
  <2>1. Narrow
    BY <1>14 DEF SaveTaskStart
  <2>2. Followed
    BY <1>14 DEF SaveTaskStart
  <2> QED BY <2>1, <2>2
<1>15. ASSUME NEW t \in Thread, RunTask(t) PROVE Narrow /\ Followed
  <2>1. Narrow
    BY <1>15 DEF RunTask
  <2>2. Followed
    BY <1>15 DEF RunTask
  <2> QED BY <2>1, <2>2
<1>16. ASSUME NEW t \in Thread, SaveTaskFailure(t) PROVE Narrow /\ Followed
  <2>1. Narrow
    BY <1>16 DEF SaveTaskFailure
  <2>2. Followed
    BY <1>16 DEF SaveTaskFailure
  <2> QED BY <2>1, <2>2
<1>17. ASSUME NEW t \in Thread, Ack(t) PROVE Narrow /\ Followed
  <2>1. Narrow
    BY <1>17 DEF Ack, Drop, Rest, NoJob
  <2>2. Followed
    BY <1>17 DEF Ack, Drop, Rest, NoJob
  <2> QED BY <2>1, <2>2
<1>18. ASSUME NEW w \in Workers, StartWorker(w) PROVE Narrow /\ Followed
  <2>1. Narrow
    BY <1>18 DEF StartWorker
  <2>2. Followed
    BY <1>18 DEF StartWorker
  <2> QED BY <2>1, <2>2
<1>19. ASSUME NEW w \in Workers, StopWorker(w) PROVE Narrow /\ Followed
  <2>1. Narrow
    BY <1>19 DEF StopWorker, Forget, SlotsOf, NoJob
  <2>2. Followed
    BY <1>19 DEF StopWorker, Forget, SlotsOf, NoJob
  <2> QED BY <2>1, <2>2
<1>20. ASSUME NEW w \in Workers, CrashWorker(w) PROVE Narrow /\ Followed
  <2>1. Narrow
    BY <1>20 DEF CrashWorker
  <2>2. Followed
    BY <1>20 DEF CrashWorker
  <2> QED BY <2>1, <2>2
<1>21. ASSUME NEW w \in Workers, Read(w) PROVE Narrow /\ Followed
  <2>1. Narrow
    BY <1>21 DEF Read
  <2>2. Followed
    BY <1>21 DEF Read
  <2> QED BY <2>1, <2>2
<1>22. ASSUME NEW w \in Workers, Hand(w) PROVE Narrow /\ Followed
  <2>1. Narrow
    BY <1>22 DEF Hand, Work, SlotsOf
  <2>2. Followed
    BY <1>22 DEF Hand, Work, SlotsOf
  <2> QED BY <2>1, <2>2
<1>23. ASSUME NEW w \in Workers, HandleReclaimed(w) PROVE Narrow /\ Followed
  <2>1. Narrow
    BY <1>23 DEF HandleReclaimed, Work
  <2>2. Followed
    BY <1>23 DEF HandleReclaimed, Work
  <2> QED BY <2>1, <2>2
<1>24. ASSUME NEW w \in Workers, ResumeTick(w) PROVE Narrow /\ Followed
  <2>1. Narrow
    BY <1>24 DEF ResumeTick, AtLoop
  <2>2. Followed
    BY <1>24 DEF ResumeTick, AtLoop
  <2> QED BY <2>1, <2>2
<1>25. ASSUME NEW w \in Workers, ListCheckpoints(w) PROVE Narrow /\ Followed
  <2>1. Narrow
    BY <1>25 DEF ListCheckpoints
  <2>2. Followed
    BY <1>25 DEF ListCheckpoints
  <2> QED BY <2>1, <2>2
<1>26. ASSUME NEW w \in Workers, PickCheckpoint(w) PROVE Narrow /\ Followed
  <2>1. PICK c \in todo[w] : /\ \E tp \in {received[c.run]} :
                                 job' = [job EXCEPT ![w] = [entry |-> None, run |-> c.run, topic |-> tp]]
                            /\ received[c.run] # None
    <3>1. PICK c \in todo[w], o \in {"ok", "failed"} : \E tp \in ResumeTopic(c, o) :
            /\ Spend(o)
            /\ job' = [job EXCEPT ![w] = [entry |-> None, run |-> c.run, topic |-> tp]]
      BY <1>26 DEF PickCheckpoint, TakeUp
    <3>2. o = "ok"
      BY <3>1
    <3>3. received[c.run] # None
      BY DEF ResumeInv, TodoOK, ListedOK, ReceivedFirst, WellFormed, TypeOK, Listed
    <3> QED BY <3>1, <3>2, <3>3 DEF ResumeTopic
  <2>2. /\ received' = received /\ approval' = approval /\ runStatus' = runStatus
        /\ deciding' = deciding /\ w \in Thread
        /\ pc[w] = "pick" /\ \A u \in Thread : u # w => pc'[u] = pc[u] /\ job'[u] = job[u]
    BY <1>26 DEF PickCheckpoint, TakeUp, Thread
  <2>3. job'[w].run = c.run /\ job'[w].topic = received[c.run]
    BY <2>1, <2>2
  <2>4. Narrow
    BY <2>2, <2>3
  <2>5. Followed
    BY <2>2
  <2> QED BY <2>4, <2>5
<1>27. ASSUME NEW w \in Workers, AllPicked(w) PROVE Narrow /\ Followed
  <2>1. Narrow
    BY <1>27 DEF AllPicked, Drop, NoJob
  <2>2. Followed
    BY <1>27 DEF AllPicked, Drop, NoJob
  <2> QED BY <2>1, <2>2
<1>28. ASSUME NEW w \in Workers, Redispatch(w) PROVE Narrow /\ Followed
  <2>1. Narrow
    BY <1>28 DEF Redispatch, AfterRedispatch
  <2>2. Followed
    BY <1>28 DEF Redispatch, AfterRedispatch
  <2> QED BY <2>1, <2>2
<1>29. ASSUME NEW w \in Workers, BumpRetries(w) PROVE Narrow /\ Followed
  <2>1. Narrow
    BY <1>29 DEF BumpRetries
  <2>2. Followed
    BY <1>29 DEF BumpRetries
  <2> QED BY <2>1, <2>2
<1>30. ASSUME NEW w \in Workers, SettleSkipped(w) PROVE Narrow /\ Followed
  <2>1. Narrow
    BY <1>30 DEF SettleSkipped
  <2>2. Followed
    BY <1>30 DEF SettleSkipped
  <2> QED BY <2>1, <2>2
<1>31. ASSUME NEW w \in Workers, AutoClaim(w) PROVE Narrow /\ Followed
  <2>1. Narrow
    BY <1>31 DEF AutoClaim
  <2>2. Followed
    BY <1>31 DEF AutoClaim
  <2> QED BY <2>1, <2>2
<1> QED
  BY <1>kept, <1>resolve, <1>set, <1>2, <1>3, <1>4, <1>5, <1>6, <1>7, <1>8, <1>9, <1>10, <1>11, <1>12, <1>13, <1>14, <1>15, <1>16, <1>17, <1>18, <1>19, <1>20, <1>21, <1>22, <1>23, <1>24, <1>25, <1>26, <1>27, <1>28, <1>29, <1>30, <1>31 DEF Next, Handle, ResumePending

-----------------------------------------------------------------------------
(* A run is of one topic, also after faults.                                *)

\* Run r is of topic tp by an event, a record, a goroutine or a listed checkpoint;
\* a topic that could not be read back says nothing of it.
Under(r, tp) ==
  \/ received[r] = tp
  \/ checkpoint[r] # NoCheckpoint /\ PayloadTopic[checkpoint[r].event] = tp
  \/ \E t \in Thread :
       /\ job[t].run = r
       /\ \/ job[t].topic = tp /\ ~(Resuming(t) /\ tp = Blank)
          \/ job[t].entry # None /\ PayloadTopic[EventOf(t)] = tp
  \/ \E w \in Workers : \E c \in todo[w] \cup {snap[w]} :
       c # None /\ c.run = r /\ PayloadTopic[c.event] = tp
  \/ \E v \in Events : PayloadRun[v] = r /\ PayloadTopic[v] = tp

OneTopic ==
  \A r \in Runs : \A a \in TopicIds : Under(r, a) =>
    runStatus[r] # "absent" /\ \A b \in TopicIds : Under(r, b) => b = a

\* What a handler past its claim works on is what its event says.
Handed ==
  \A t \in Thread : Past(t) =>
    /\ job[t].topic = PayloadTopic[EventOf(t)]
    /\ PayloadRun[EventOf(t)] \in IF pc[t] = "create" THEN {None} ELSE {job[t].run, None}

RecordInv == OneTopic /\ Handed

\* A step that brings no run under another topic.
Confined ==
  \A r \in Runs :
    /\ \A tp \in TopicIds : Under(r, tp)' => Under(r, tp)
    /\ runStatus'[r] = "absent" => runStatus[r] = "absent"

\* A step that hands nobody new work.
Busied ==
  \A t \in Thread : Past(t)' =>
    Past(t) /\ job'[t] = job[t] /\ (pc[t] = "create" <=> pc'[t] = "create")

LEMMA ConfinedKeepsRecordInv == RecordInv /\ Confined /\ Busied => RecordInv'
<1> SUFFICES ASSUME RecordInv, Confined, Busied PROVE RecordInv'
  OBVIOUS
<1>1. OneTopic'
  BY DEF RecordInv, OneTopic, Confined
<1>2. Handed'
  BY DEF RecordInv, Handed, Busied, EventOf
<1> QED BY <1>1, <1>2 DEF RecordInv

\* A step that writes no record and takes nothing new in hand.
Quiet ==
  /\ received' = received /\ checkpoint' = checkpoint /\ runStatus' = runStatus
  /\ \A t \in Thread : job'[t] = job[t] \/ job'[t].run = None
  /\ \A w \in Workers : todo'[w] \subseteq todo[w] /\ snap'[w] \in {snap[w], None}

LEMMA QuietIsConfined == Quiet => Confined
<1> SUFFICES ASSUME Quiet, NEW r \in Runs, NEW tp \in TopicIds, Under(r, tp)' PROVE Under(r, tp)
  BY DEF Quiet, Confined
<1>1. r # None
  BY ThreadAssumption
<1> QED BY <1>1 DEF Quiet, Under, EventOf, Resuming

\* The steps that do more than that, one by one.
LEMMA MarkRunPendingApprovalKeepsRecordInv ==
  ASSUME WellFormed, RecordInv, NEW t \in Thread, MarkRunPendingApproval(t)
  PROVE  RecordInv'
<1>1. /\ received' = received /\ checkpoint' = checkpoint /\ job' = job
      /\ todo' = todo /\ snap' = snap
  BY DEF MarkRunPendingApproval, mainVars
<1>2. ASSUME NEW r \in Runs, runStatus'[r] = "absent" PROVE runStatus[r] = "absent"
  BY <1>2 DEF MarkRunPendingApproval, WellFormed, TypeOK
<1>3. Confined
  BY <1>1, <1>2 DEF Confined, Under, EventOf, Resuming
<1>4. Busied
  BY ThreadAssumption DEF MarkRunPendingApproval, GateError, Busied, Past, Goto, HandlerSteps,
     GateSteps, WellFormed, TypeOK
<1> QED BY <1>3, <1>4, ConfinedKeepsRecordInv

LEMMA SetDecidedStatusKeepsRecordInv ==
  ASSUME WellFormed, RecordInv, NEW q \in Runs, SetDecidedStatus(q)
  PROVE  RecordInv'
<1>1. /\ received' = received /\ checkpoint' = checkpoint /\ job' = job /\ pc' = pc
      /\ todo' = todo /\ snap' = snap
  BY DEF SetDecidedStatus, mainVars
<1>2. ASSUME NEW r \in Runs, runStatus'[r] = "absent" PROVE runStatus[r] = "absent"
  BY <1>2 DEF SetDecidedStatus, WellFormed, TypeOK
<1>3. Confined
  BY <1>1, <1>2 DEF Confined, Under, EventOf, Resuming
<1>4. Busied
  BY <1>1 DEF Busied, Past
<1> QED BY <1>3, <1>4, ConfinedKeepsRecordInv

\* What a goroutine writes of its run it already knows of it.
LEMMA UpsertReceivedKeepsRecordInv ==
  ASSUME WellFormed, RecordInv, NEW t \in Thread, UpsertReceived(t)
  PROVE  RecordInv'
<1>1. /\ checkpoint' = checkpoint /\ job' = job /\ todo' = todo /\ snap' = snap
      /\ runStatus' = runStatus /\ job[t].entry # None
  BY DEF UpsertReceived, mainVars, WellFormed, Shape, HandlerSteps
<1>2. ASSUME NEW r \in Runs PROVE received'[r] \in {received[r]} \/ (job[t].run = r /\ received'[r] = job[t].topic)
  BY <1>2 DEF UpsertReceived, WellFormed, TypeOK
<1>3. Confined
  BY <1>1, <1>2 DEF Confined, Under, EventOf, Resuming
<1>4. Busied
  BY ThreadAssumption DEF UpsertReceived, AfterReceived, Busied, Past, Goto, HandlerSteps,
     GateSteps, WellFormed, TypeOK
<1> QED BY <1>3, <1>4, ConfinedKeepsRecordInv

LEMMA SaveTaskStartKeepsRecordInv ==
  ASSUME WellFormed, RecordInv, NEW t \in Thread, SaveTaskStart(t)
  PROVE  RecordInv'
<1>1. /\ received' = received /\ job' = job /\ todo' = todo /\ snap' = snap
      /\ runStatus' = runStatus /\ job[t].entry # None
  BY DEF SaveTaskStart, mainVars, WellFormed, Shape, HandlerSteps
<1>2. ASSUME NEW r \in Runs
      PROVE  checkpoint'[r] = checkpoint[r]
               \/ (job[t].run = r /\ checkpoint'[r].event = EventOf(t))
  BY <1>2 DEF SaveTaskStart, WellFormed, TypeOK
<1>3. Confined
  BY <1>1, <1>2 DEF Confined, Under, EventOf, Resuming
<1>4. Busied
  BY ThreadAssumption DEF SaveTaskStart, Busied, Past, Goto, HandlerSteps,
     GateSteps, WellFormed, TypeOK
<1> QED BY <1>3, <1>4, ConfinedKeepsRecordInv

LEMMA SaveTaskFailureKeepsRecordInv ==
  ASSUME WellFormed, RecordInv, NEW t \in Thread, SaveTaskFailure(t)
  PROVE  RecordInv'
<1>1. /\ received' = received /\ job' = job /\ todo' = todo /\ snap' = snap
      /\ runStatus' = runStatus /\ job[t].entry # None
  BY DEF SaveTaskFailure, mainVars, WellFormed, Shape, HandlerSteps
<1>2. ASSUME NEW r \in Runs
      PROVE  checkpoint'[r] = checkpoint[r]
               \/ (job[t].run = r /\ checkpoint'[r].event = EventOf(t))
  BY <1>2 DEF SaveTaskFailure, FailedCheckpoint, WellFormed, TypeOK
<1>3. Confined
  BY <1>1, <1>2 DEF Confined, Under, EventOf, Resuming
<1>4. Busied
  BY ThreadAssumption DEF SaveTaskFailure, Busied, Past, Goto, HandlerSteps,
     GateSteps, WellFormed, TypeOK
<1> QED BY <1>3, <1>4, ConfinedKeepsRecordInv

\* A handler takes run and topic from the payload of its event.
LEMMA ClaimKeepsRecordInv ==
  ASSUME WellFormed, RecordInv, NEW t \in Thread, Claim(t)
  PROVE  RecordInv'
<1> DEFINE v == EventOf(t)
           j == [entry |-> job[t].entry, run |-> PayloadRun[v], topic |-> PayloadTopic[v]]
<1>1. v \in Events /\ pc[t] = "claim" /\ job[t].entry # None
  BY PayloadAssumption DEF Claim, TakeUp, WellFormed, TypeOK, Shape, Job, EventOf
<1>2. /\ received' = received /\ checkpoint' = checkpoint /\ todo' = todo /\ snap' = snap
      /\ runStatus' = runStatus
  BY DEF Claim, TakeUp, mainVars
<1>3. \/ job' = job /\ pc' = [pc EXCEPT ![t] = "ack"]
      \/ /\ job' = [job EXCEPT ![t] = j]
         /\ pc' = [pc EXCEPT ![t] = IF PayloadRun[v] = None THEN "create" ELSE "policy"]
  BY DEF Claim, TakeUp, Goto
<1>4. pc \in [Thread -> Step] /\ job \in [Thread -> Job]
  BY DEF WellFormed, TypeOK
<1>5. /\ j.entry = job[t].entry /\ j.run = PayloadRun[v] /\ j.topic = PayloadTopic[v]
      /\ PayloadTopic[EntryEvent[j.entry]] = PayloadTopic[v]
      /\ PayloadRun[EntryEvent[j.entry]] = PayloadRun[v]
  BY DEF EventOf
<1>6. PayloadRun[v] = None \/ PayloadRun[v] \in Runs
  BY <1>1, PayloadAssumption
<1> HIDE DEF v, j
<1>7. \A u \in Thread : job'[u] = job[u] \/ (u = t /\ job'[u] = j)
  BY <1>3, <1>4
<1>8. ASSUME NEW r \in Runs, NEW tp \in TopicIds, Under(r, tp)' PROVE Under(r, tp)
  <2>1. r # None
    BY ThreadAssumption
  <2>2. ASSUME NEW u \in Thread, job'[u].run = r,
               \/ job'[u].topic = tp /\ ~(job'[u].entry = None /\ tp = Blank)
               \/ job'[u].entry # None /\ PayloadTopic[EntryEvent[job'[u].entry]] = tp
        PROVE  Under(r, tp)
    BY <2>2, <1>7, <1>5, <1>1, <2>1 DEF Under, EventOf, Resuming
  <2> QED BY <2>2, <1>2, <1>8 DEF Under, EventOf, Resuming
<1>9. Confined
  BY <1>8, <1>2 DEF Confined
<1>10. OneTopic'
  BY <1>9 DEF RecordInv, OneTopic, Confined
<1>11. Handed'
  <2> SUFFICES ASSUME NEW u \in Thread, Past(u)'
               PROVE  /\ job'[u].topic = PayloadTopic[EntryEvent[job'[u].entry]]
                      /\ PayloadRun[EntryEvent[job'[u].entry]] \in
                           IF pc'[u] = "create" THEN {None} ELSE {job'[u].run, None}
    BY DEF Handed, EventOf
  <2>1. CASE u # t
    <3>1. pc'[u] = pc[u] /\ job'[u] = job[u]
      BY <2>1, <1>3, <1>4
    <3> QED BY <3>1 DEF RecordInv, Handed, Past, EventOf
  <2>2. CASE u = t
    <3>1. pc'[t] # "ack"
      BY <2>2 DEF Past, HandlerSteps, GateSteps
    <3>2. job'[t] = j /\ pc'[t] = IF PayloadRun[v] = None THEN "create" ELSE "policy"
      BY <3>1, <1>3, <1>4
    <3> QED BY <2>2, <3>2, <1>5
  <2> QED BY <2>1, <2>2
<1> QED BY <1>10, <1>11 DEF RecordInv

\* A new run is known to nobody, and its creator is of its event's topic.
LEMMA CreateRunKeepsRecordInv ==
  ASSUME WellFormed, RecordInv, NEW t \in Thread, CreateRun(t)
  PROVE  RecordInv'
<1>0. PICK o \in Outcome, r \in {x \in Runs : runStatus[x] = "absent"} :
        /\ runStatus' = IF Performed(o) THEN [runStatus EXCEPT ![r] = "pending"] ELSE runStatus
        /\ IF o = "ok" THEN job' = [job EXCEPT ![t].run = r] /\ Goto(t, "policy")
                       ELSE UNCHANGED job /\ Goto(t, "ack")
  BY DEF CreateRun, Insert
<1>1. /\ received' = received /\ checkpoint' = checkpoint /\ todo' = todo /\ snap' = snap
      /\ pc[t] = "create" /\ job[t].entry # None /\ Past(t)
  BY DEF CreateRun, Insert, mainVars, WellFormed, Shape, HandlerSteps, Past
<1>2. pc \in [Thread -> Step] /\ job \in [Thread -> Job] /\ runStatus \in [Runs -> RunStatus]
  BY DEF WellFormed, TypeOK
<1>3. \A q \in Runs : runStatus'[q] = "absent" => runStatus[q] = "absent"
  BY <1>0, <1>2
<1>4. job[t].topic = PayloadTopic[EventOf(t)] /\ ~\E a \in TopicIds : Under(r, a)
  BY <1>1, <1>0 DEF RecordInv, Handed, OneTopic
<1>5. EventOf(t) \in Events
  BY <1>1, <1>2, PayloadAssumption DEF EventOf, Job
<1>6. CASE o = "ok"
  <2>1. /\ pc' = [pc EXCEPT ![t] = "policy"] /\ runStatus'[r] = "pending"
        /\ \A u \in Thread \ {t} : job'[u] = job[u]
        /\ job'[t].entry = job[t].entry /\ job'[t].topic = job[t].topic /\ job'[t].run = r
    BY <1>0, <1>6, <1>2 DEF Job, Goto, Performed
  <2>2. PayloadRun[EventOf(t)] = None \/ Under(PayloadRun[EventOf(t)], PayloadTopic[EventOf(t)])
    BY <1>5 DEF Under
  <2>3. PICK x : x = PayloadTopic[EventOf(t)]
    OBVIOUS
  <2>4. ASSUME NEW q \in Runs, NEW tp \in TopicIds, Under(q, tp)'
        PROVE  Under(q, tp) \/ (q = r /\ tp = x)
    <3>1. ASSUME NEW u \in Thread, job'[u].run = q,
                 \/ job'[u].topic = tp /\ ~(job'[u].entry = None /\ tp = Blank)
                 \/ job'[u].entry # None /\ PayloadTopic[EntryEvent[job'[u].entry]] = tp
          PROVE  Under(q, tp) \/ (q = r /\ tp = x)
      BY <3>1, <2>1, <2>3, <1>4 DEF Under, EventOf, Resuming
    <3> QED BY <3>1, <1>1, <2>4 DEF Under, EventOf, Resuming
  <2>5. OneTopic'
    <3> SUFFICES ASSUME NEW q \in Runs, NEW a \in TopicIds, Under(q, a)'
                 PROVE  runStatus'[q] # "absent" /\ \A b \in TopicIds : Under(q, b)' => b = a
      BY DEF OneTopic
    <3>1. CASE q = r
      BY <3>1, <2>4, <2>1, <1>4
    <3>2. CASE q # r
      BY <3>2, <2>4, <1>3 DEF RecordInv, OneTopic
    <3> QED BY <3>1, <3>2
  <2>6. PayloadRun[EventOf(t)] \in {r, None}
    BY <1>1 DEF RecordInv, Handed
  <2>7. Handed'
    <3> SUFFICES ASSUME NEW u \in Thread, Past(u)'
                 PROVE  /\ job'[u].topic = PayloadTopic[EntryEvent[job'[u].entry]]
                        /\ PayloadRun[EntryEvent[job'[u].entry]] \in
                             IF pc'[u] = "create" THEN {None} ELSE {job'[u].run, None}
      BY DEF Handed, EventOf
    <3>1. CASE u # t
      <4>1. pc'[u] = pc[u] /\ job'[u] = job[u]
        BY <3>1, <2>1, <1>2
      <4> QED BY <4>1 DEF RecordInv, Handed, Past, EventOf
    <3>2. CASE u = t
      <4>1. pc'[t] = "policy"
        BY <2>1, <1>2
      <4> QED BY <4>1, <3>2, <2>1, <1>4, <2>6 DEF EventOf
    <3> QED BY <3>1, <3>2
  <2> QED BY <2>5, <2>7 DEF RecordInv
<1>7. CASE o # "ok"
  <2>1. job' = job /\ pc' = [pc EXCEPT ![t] = "ack"]
    BY <1>7, <1>0 DEF Goto
  <2>2. Confined
    BY <2>1, <1>1, <1>3 DEF Confined, Under, EventOf, Resuming
  <2>3. Busied
    BY <2>1, <1>2 DEF Busied, Past, HandlerSteps, GateSteps
  <2> QED BY <2>2, <2>3, ConfinedKeepsRecordInv
<1> QED BY <1>6, <1>7

\* ResumePending passes on what the checkpoints say.
LEMMA ListCheckpointsKeepsRecordInv ==
  ASSUME WellFormed, RecordInv, NEW w \in Workers, ListCheckpoints(w)
  PROVE  RecordInv'
<1>1. /\ received' = received /\ checkpoint' = checkpoint /\ job' = job /\ snap' = snap
      /\ runStatus' = runStatus
  BY DEF ListCheckpoints, mainVars, dbVars
<1>2. ASSUME NEW u \in Workers, NEW c \in todo'[u]
      PROVE  \/ c \in todo[u]
             \/ /\ checkpoint[c.run].status = "dispatched"
                /\ c.event = checkpoint[c.run].event
  BY <1>2 DEF ListCheckpoints, WellFormed, TypeOK
<1>3. NoCheckpoint.status # "dispatched"
  BY DEF NoCheckpoint
<1>4. Confined
  BY <1>1, <1>2, <1>3 DEF Confined, Under, EventOf, Resuming
<1>5. Busied
  BY ThreadAssumption DEF ListCheckpoints, Busied, Past, Goto, HandlerSteps,
     GateSteps, WellFormed, TypeOK
<1> QED BY <1>4, <1>5, ConfinedKeepsRecordInv

LEMMA PickCheckpointKeepsRecordInv ==
  ASSUME WellFormed, RecordInv, NEW w \in Workers, PickCheckpoint(w)
  PROVE  RecordInv'
<1>0. PICK c \in todo[w] : \E tp \in {received[c.run], PayloadTopic[c.event], Blank} :
        /\ todo' = [todo EXCEPT ![w] = @ \ {c}] /\ snap' = [snap EXCEPT ![w] = c]
        /\ job' = [job EXCEPT ![w] = [entry |-> None, run |-> c.run, topic |-> tp]]
  BY DEF PickCheckpoint, TakeUp, ResumeTopic
<1>a. PICK tp \in {received[c.run], PayloadTopic[c.event], Blank} :
        job' = [job EXCEPT ![w] = [entry |-> None, run |-> c.run, topic |-> tp]]
  BY <1>0
<1>1. /\ received' = received /\ checkpoint' = checkpoint /\ runStatus' = runStatus
  BY DEF PickCheckpoint, TakeUp, dbVars
<1>2. /\ pc \in [Thread -> Step] /\ job \in [Thread -> Job] /\ w \in Thread
      /\ todo \in [Workers -> SUBSET Listed] /\ snap \in [Workers -> Listed \cup {None}]
  BY DEF WellFormed, TypeOK, Thread
<1>3. c \in Listed /\ c # None
  BY <1>2, ListedAssumption
<1>4. /\ \A u \in Thread \ {w} : job'[u] = job[u]
      /\ job'[w].entry = None /\ job'[w].run = c.run /\ job'[w].topic = tp
  BY <1>a, <1>2
<1>5. \A u \in Workers : todo'[u] \subseteq todo[u] /\ (snap'[u] = snap[u] \/ (u = w /\ snap'[u] = c))
  BY <1>0, <1>2
<1>6. Confined
  <2> SUFFICES ASSUME NEW r \in Runs, NEW b \in TopicIds, Under(r, b)' PROVE Under(r, b)
    BY <1>1 DEF Confined
  <2>1. b # None
    BY ThreadAssumption
  <2>2. \A u \in Thread :
          /\ job'[u].run = r
          /\ \/ job'[u].topic = b /\ ~(job'[u].entry = None /\ b = Blank)
             \/ job'[u].entry # None /\ PayloadTopic[EntryEvent[job'[u].entry]] = b
          => Under(r, b)
    BY <1>3, <1>4, <2>1 DEF Under, EventOf, Resuming
  <2>3. \A u \in Workers : \A d \in todo'[u] \cup {snap'[u]} :
          d # None /\ d.run = r /\ PayloadTopic[d.event] = b => Under(r, b)
    BY <1>5, <1>3 DEF Under
  <2> QED BY <2>2, <2>3, <1>1 DEF Under, EventOf, Resuming
<1>7. Busied
  <2>1. pc' = [pc EXCEPT ![w] = pc'[w]] /\ pc[w] = "pick"
    BY <1>2 DEF PickCheckpoint, TakeUp, Goto
  <2> QED BY <2>1, <1>2, <1>4 DEF Busied, Past, HandlerSteps, GateSteps
<1> QED BY <1>6, <1>7, ConfinedKeepsRecordInv

LEMMA BumpRetriesKeepsRecordInv ==
  ASSUME WellFormed, RecordInv, NEW w \in Workers, BumpRetries(w)
  PROVE  RecordInv'
<1>1. /\ received' = received /\ job' = job /\ todo' = todo /\ snap' = snap
      /\ runStatus' = runStatus
  BY DEF BumpRetries, mainVars
<1>2. snap[w] \in Listed /\ snap[w] # None
  BY ListedAssumption DEF BumpRetries, WellFormed, SnapOK
<1>3. ASSUME NEW r \in Runs
      PROVE  checkpoint'[r] = checkpoint[r]
               \/ (snap[w].run = r /\ checkpoint'[r].event = snap[w].event)
  BY <1>3 DEF BumpRetries, WellFormed, TypeOK
<1>4. Confined
  BY <1>1, <1>2, <1>3 DEF Confined, Under, EventOf, Resuming
<1>5. Busied
  BY ThreadAssumption DEF BumpRetries, Busied, Past, Goto, HandlerSteps,
     GateSteps, WellFormed, TypeOK
<1> QED BY <1>4, <1>5, ConfinedKeepsRecordInv

LEMMA SettleSkippedKeepsRecordInv ==
  ASSUME WellFormed, RecordInv, NEW w \in Workers, SettleSkipped(w)
  PROVE  RecordInv'
<1>1. /\ received' = received /\ job' = job /\ todo' = todo /\ snap' = snap
      /\ runStatus' = runStatus
  BY DEF SettleSkipped, mainVars
<1>2. ASSUME NEW r \in Runs
      PROVE  checkpoint'[r] = checkpoint[r]
               \/ (checkpoint[r] # NoCheckpoint /\ checkpoint'[r].event = checkpoint[r].event)
  BY <1>2 DEF SettleSkipped, WellFormed, TypeOK, Checkpoint
<1>3. Confined
  BY <1>1, <1>2 DEF Confined, Under, EventOf, Resuming
<1>4. Busied
  BY ThreadAssumption DEF SettleSkipped, Busied, Past, Goto, HandlerSteps,
     GateSteps, WellFormed, TypeOK
<1> QED BY <1>3, <1>4, ConfinedKeepsRecordInv

\* A run is of one topic and a handler keeps to its event, whatever step is made.
LEMMA RecordInvStep == WellFormed /\ RecordInv /\ [Next]_vars => RecordInv'
<1> SUFFICES ASSUME WellFormed, RecordInv, [Next]_vars PROVE RecordInv'
  OBVIOUS
<1>1. /\ pc \in [Thread -> Step] /\ job \in [Thread -> Job]
      /\ todo \in [Workers -> SUBSET Listed] /\ snap \in [Workers -> Listed \cup {None}]
  BY DEF WellFormed, TypeOK
<1>kept. ASSUME Quiet, Busied PROVE RecordInv'
  BY <1>kept, QuietIsConfined, ConfinedKeepsRecordInv
<1> USE <1>1, ThreadAssumption
    DEF Quiet, Busied, Past, HandlerSteps, GateSteps, Goto, Resuming, streamVars,
        taskVars, dbVars, mainVars, userVars, Thread
<1>2. CASE UNCHANGED vars
  <2>1. Quiet /\ Busied
    BY <1>2 DEF vars
  <2> QED BY <2>1, <1>kept
<1>3. ASSUME NEW e \in Entries, Enqueue(e) PROVE Quiet /\ Busied
  <2>1. Quiet
    BY <1>3 DEF Enqueue
  <2>2. Busied
    BY <1>3 DEF Enqueue
  <2> QED BY <2>1, <2>2
<1>4. ASSUME NEW e \in Entries, Age(e) PROVE Quiet /\ Busied
  <2>1. Quiet
    BY <1>4 DEF Age
  <2>2. Busied
    BY <1>4 DEF Age
  <2> QED BY <2>1, <2>2
<1>5. ASSUME NEW tp \in Topics, EditBudget(tp) PROVE Quiet /\ Busied
  <2>1. Quiet
    BY <1>5 DEF EditBudget
  <2>2. Busied
    BY <1>5 DEF EditBudget
  <2> QED BY <2>1, <2>2
<1>resolve. ASSUME NEW r \in Runs, ResolveBudgetApproval(r) PROVE Quiet /\ Busied
  <2>1. Quiet
    BY <1>resolve DEF ResolveBudgetApproval
  <2>2. Busied
    BY <1>resolve DEF ResolveBudgetApproval
  <2> QED BY <2>1, <2>2
<1>set. ASSUME NEW r \in Runs, SetDecidedStatus(r) PROVE RecordInv'
  BY <1>set, SetDecidedStatusKeepsRecordInv
<1>6. ASSUME NEW t \in Thread, LoadPolicy(t) PROVE Quiet /\ Busied
  <2>1. Quiet
    BY <1>6 DEF LoadPolicy, GatePass, GateError
  <2>2. Busied
    BY <1>6 DEF LoadPolicy, GatePass, GateError
  <2> QED BY <2>1, <2>2
<1>7. ASSUME NEW t \in Thread, FindPendingApproval(t) PROVE Quiet /\ Busied
  <2>1. Quiet
    BY <1>7 DEF FindPendingApproval, GateSkip
  <2>2. Busied
    BY <1>7 DEF FindPendingApproval, GateSkip
  <2> QED BY <2>1, <2>2
<1>8. ASSUME NEW t \in Thread, CreateBudgetApproval(t) PROVE Quiet /\ Busied
  <2>1. Quiet
    BY <1>8 DEF CreateBudgetApproval, Insert, GateError
  <2>2. Busied
    BY <1>8 DEF CreateBudgetApproval, Insert, GateError
  <2> QED BY <2>1, <2>2
<1>9. ASSUME NEW t \in Thread, AnnounceApproval(t) PROVE Quiet /\ Busied
  <2>1. Quiet
    BY <1>9 DEF AnnounceApproval, GateSkip
  <2>2. Busied
    BY <1>9 DEF AnnounceApproval, GateSkip
  <2> QED BY <2>1, <2>2
<1>10. ASSUME NEW t \in Thread, RunTask(t) PROVE Quiet /\ Busied
  <2>1. Quiet
    BY <1>10 DEF RunTask
  <2>2. Busied
    BY <1>10 DEF RunTask
  <2> QED BY <2>1, <2>2
<1>11. ASSUME NEW t \in Thread, Ack(t) PROVE Quiet /\ Busied
  <2>1. Quiet
    BY <1>11 DEF Ack, Drop, Rest, NoJob
  <2>2. Busied
    BY <1>11 DEF Ack, Drop, Rest, NoJob
  <2> QED BY <2>1, <2>2
<1>12. ASSUME NEW w \in Workers, StartWorker(w) PROVE Quiet /\ Busied
  <2>1. Quiet
    BY <1>12 DEF StartWorker
  <2>2. Busied
    BY <1>12 DEF StartWorker
  <2> QED BY <2>1, <2>2
<1>13. ASSUME NEW w \in Workers, StopWorker(w) PROVE Quiet /\ Busied
  <2>1. Quiet
    BY <1>13 DEF StopWorker, Forget, SlotsOf, NoJob
  <2>2. Busied
    BY <1>13 DEF StopWorker, Forget, SlotsOf, NoJob
  <2> QED BY <2>1, <2>2
<1>14. ASSUME NEW w \in Workers, CrashWorker(w) PROVE Quiet /\ Busied
  <2>1. Quiet
    BY <1>14 DEF CrashWorker, Forget, SlotsOf, NoJob
  <2>2. Busied
    BY <1>14 DEF CrashWorker, Forget, SlotsOf, NoJob
  <2> QED BY <2>1, <2>2
<1>15. ASSUME NEW w \in Workers, Read(w) PROVE Quiet /\ Busied
  <2>1. Quiet
    BY <1>15 DEF Read
  <2>2. Busied
    BY <1>15 DEF Read
  <2> QED BY <2>1, <2>2
<1>16. ASSUME NEW w \in Workers, Hand(w) PROVE Quiet /\ Busied
  <2>1. Quiet
    BY <1>16 DEF Hand, Work, SlotsOf
  <2>2. Busied
    BY <1>16 DEF Hand, Work, SlotsOf
  <2> QED BY <2>1, <2>2
<1>17. ASSUME NEW w \in Workers, HandleReclaimed(w) PROVE Quiet /\ Busied
  <2>1. Quiet
    BY <1>17 DEF HandleReclaimed, Work
  <2>2. Busied
    BY <1>17 DEF HandleReclaimed, Work
  <2> QED BY <2>1, <2>2
<1>18. ASSUME NEW w \in Workers, ResumeTick(w) PROVE Quiet /\ Busied
  <2>1. Quiet
    BY <1>18 DEF ResumeTick, AtLoop
  <2>2. Busied
    BY <1>18 DEF ResumeTick, AtLoop
  <2> QED BY <2>1, <2>2
<1>19. ASSUME NEW w \in Workers, AllPicked(w) PROVE Quiet /\ Busied
  <2>1. Quiet
    BY <1>19 DEF AllPicked, Drop, NoJob
  <2>2. Busied
    BY <1>19 DEF AllPicked, Drop, NoJob
  <2> QED BY <2>1, <2>2
<1>20. ASSUME NEW w \in Workers, Redispatch(w) PROVE Quiet /\ Busied
  <2>1. Quiet
    BY <1>20 DEF Redispatch, AfterRedispatch
  <2>2. Busied
    BY <1>20 DEF Redispatch, AfterRedispatch
  <2> QED BY <2>1, <2>2
<1>21. ASSUME NEW w \in Workers, AutoClaim(w) PROVE Quiet /\ Busied
  <2>1. Quiet
    BY <1>21 DEF AutoClaim
  <2>2. Busied
    BY <1>21 DEF AutoClaim
  <2> QED BY <2>1, <2>2
<1>22. ASSUME NEW t \in Thread, MarkRunPendingApproval(t) PROVE RecordInv'
  BY <1>22, MarkRunPendingApprovalKeepsRecordInv
<1>23. ASSUME NEW t \in Thread, UpsertReceived(t) PROVE RecordInv'
  BY <1>23, UpsertReceivedKeepsRecordInv
<1>24. ASSUME NEW t \in Thread, SaveTaskStart(t) PROVE RecordInv'
  BY <1>24, SaveTaskStartKeepsRecordInv
<1>25. ASSUME NEW t \in Thread, SaveTaskFailure(t) PROVE RecordInv'
  BY <1>25, SaveTaskFailureKeepsRecordInv
<1>26. ASSUME NEW t \in Thread, Claim(t) PROVE RecordInv'
  BY <1>26, ClaimKeepsRecordInv
<1>27. ASSUME NEW t \in Thread, CreateRun(t) PROVE RecordInv'
  BY <1>27, CreateRunKeepsRecordInv
<1>28. ASSUME NEW w \in Workers, ListCheckpoints(w) PROVE RecordInv'
  BY <1>28, ListCheckpointsKeepsRecordInv
<1>29. ASSUME NEW w \in Workers, PickCheckpoint(w) PROVE RecordInv'
  BY <1>29, PickCheckpointKeepsRecordInv
<1>30. ASSUME NEW w \in Workers, BumpRetries(w) PROVE RecordInv'
  BY <1>30, BumpRetriesKeepsRecordInv
<1>31. ASSUME NEW w \in Workers, SettleSkipped(w) PROVE RecordInv'
  BY <1>31, SettleSkippedKeepsRecordInv
<1> HIDE DEF Quiet, Busied, Past
<1> QED
  BY <1>kept, <1>resolve, <1>set, <1>2, <1>3, <1>4, <1>5, <1>6, <1>7, <1>8, <1>9, <1>10, <1>11, <1>12, <1>13, <1>14, <1>15, <1>16, <1>17, <1>18, <1>19, <1>20, <1>21, <1>22, <1>23, <1>24, <1>25, <1>26, <1>27, <1>28, <1>29, <1>30, <1>31 DEF Next,
     Handle, ResumePending

-----------------------------------------------------------------------------
(* The budget gate. *)

Dispatching == {"receive", "start", "publish", "redispatch"}

\* t has no topic_id because what it took up came without, or could not be read.
Unnamed(t) ==
  \/ ~Resuming(t) /\ PayloadTopic[EventOf(t)] = Blank
  \/ t \in Workers /\ Resuming(t) /\ (PayloadTopic[snap[t].event] = Blank \/ faults # 0)

\* Who has a topic that asks for no approval has seen it so, and who is past
\* the gate has seen it so or has no topic.
ApprovalInv ==
  \A t \in Thread :
    /\ pc[t] \in Dispatching => t \in free \/ job[t].topic = Blank
    /\ job[t].topic \in Topics => requireApproval[job[t].topic] \/ t \in free
    /\ job[t].topic = Blank => Unnamed(t)

\* A step that lets nobody past the gate and takes nothing up.
Gated ==
  /\ requireApproval' = requireApproval
  /\ \A t \in Thread :
       \/ job'[t].topic = None /\ pc'[t] \notin Dispatching
       \/ /\ job'[t].entry = job[t].entry /\ job'[t].topic = job[t].topic
          /\ t \in free => t \in free'
          /\ t \in Workers /\ Resuming(t) => snap'[t] = snap[t]
          /\ pc'[t] \in Dispatching => pc[t] \in Dispatching

LEMMA GatedKeepsApprovalInv ==
  ASSUME ApprovalInv, Gated, faults # 0 => faults' # 0
  PROVE  ApprovalInv'
<1> SUFFICES ASSUME NEW t \in Thread
             PROVE  /\ pc'[t] \in Dispatching => t \in free' \/ job'[t].topic = Blank
                    /\ job'[t].topic \in Topics => requireApproval'[job'[t].topic] \/ t \in free'
                    /\ job'[t].topic = Blank => Unnamed(t)'
  BY DEF ApprovalInv, Dispatching
<1>1. CASE job'[t].topic = None /\ pc'[t] \notin Dispatching
  BY <1>1, ThreadAssumption DEF TopicIds
<1>2. CASE /\ job'[t].entry = job[t].entry /\ job'[t].topic = job[t].topic
           /\ t \in free => t \in free'
           /\ t \in Workers /\ Resuming(t) => snap'[t] = snap[t]
           /\ pc'[t] \in Dispatching => pc[t] \in Dispatching
  BY <1>2 DEF Gated, ApprovalInv, Unnamed, Resuming, EventOf
<1> QED BY <1>1, <1>2 DEF Gated

\* Taking up an event sees the budget of its topic as it is.
LEMMA ClaimKeepsApprovalInv ==
  ASSUME WellFormed, ApprovalInv, faults # 0 => faults' # 0, NEW t \in Thread, Claim(t)
  PROVE  ApprovalInv'
<1> DEFINE v == EventOf(t)
<1>1. /\ v \in Events /\ pc[t] = "claim" /\ job[t].entry # None
      /\ pc \in [Thread -> Step] /\ job \in [Thread -> Job]
  BY PayloadAssumption DEF Claim, WellFormed, TypeOK, Shape, Job, EventOf
<1>2. UNCHANGED <<requireApproval, snap>>
  BY DEF Claim, mainVars
<1>3. CASE pc' = [pc EXCEPT ![t] = "ack"] /\ UNCHANGED <<job, free>>
  <2>1. Gated
    BY <1>1, <1>2, <1>3 DEF Gated, Dispatching
  <2> QED BY <2>1, GatedKeepsApprovalInv
<1>4. CASE /\ TakeUp(t, job[t].entry, PayloadRun[v], PayloadTopic[v])
           /\ pc' = [pc EXCEPT ![t] = IF PayloadRun[v] = None THEN "create" ELSE "policy"]
  <2>1. /\ job'[t].entry = job[t].entry /\ job'[t].topic = PayloadTopic[v]
        /\ pc'[t] \notin Dispatching
        /\ PayloadTopic[v] \in Topics => requireApproval[PayloadTopic[v]] \/ t \in free'
    BY <1>1, <1>4 DEF TakeUp, Dispatching
  <2>2. \A u \in Thread : u # t => /\ pc'[u] = pc[u] /\ job'[u] = job[u]
                                   /\ u \in free => u \in free'
    BY <1>1, <1>4 DEF TakeUp
  <2>3. job'[t].topic = Blank => Unnamed(t)'
    BY <1>1, <2>1 DEF Unnamed, Resuming, EventOf
  <2>4. ASSUME NEW u \in Thread, u # t, job[u].topic = Blank PROVE Unnamed(u)'
    BY <1>2, <2>2, <2>4 DEF ApprovalInv, Unnamed, Resuming, EventOf
  <2> QED BY <1>2, <2>1, <2>2, <2>3, <2>4 DEF ApprovalInv
<1> QED BY <1>3, <1>4 DEF Claim, Goto

\* Taking up a checkpoint does, too; its topic is the run's, unless it could
\* not be read.
LEMMA PickCheckpointKeepsApprovalInv ==
  ASSUME WellFormed, ResumeInv, RecordInv, ApprovalInv, faults # 0 => faults' # 0,
         NEW w \in Workers, PickCheckpoint(w)
  PROVE  ApprovalInv'
<1>1. PICK c \in todo[w], o \in {"ok", "failed"} : \E tp \in ResumeTopic(c, o) :
        /\ Spend(o) /\ snap' = [snap EXCEPT ![w] = c]
        /\ TakeUp(w, None, c.run, tp) /\ Goto(w, "policy")
  BY DEF PickCheckpoint
<1>2. PICK tp \in ResumeTopic(c, o) :
        /\ Spend(o) /\ snap' = [snap EXCEPT ![w] = c]
        /\ TakeUp(w, None, c.run, tp) /\ Goto(w, "policy")
  BY <1>1
<1>3. /\ pc \in [Thread -> Step] /\ job \in [Thread -> Job] /\ w \in Thread
      /\ snap \in [Workers -> Listed \cup {None}] /\ c \in Listed
      /\ received \in [Runs -> TopicIds \cup {None}] /\ requireApproval' = requireApproval
  BY DEF PickCheckpoint, WellFormed, TypeOK, Thread
<1>4. /\ job'[w].entry = None /\ job'[w].topic = tp /\ pc'[w] = "policy" /\ snap'[w] = c
      /\ tp \in Topics => requireApproval[tp] \/ w \in free'
  BY <1>2, <1>3 DEF TakeUp, Goto
<1>5. \A u \in Thread : u # w => /\ pc'[u] = pc[u] /\ job'[u] = job[u]
                                 /\ u \in free => u \in free'
                                 /\ u \in Workers => snap'[u] = snap[u]
  BY <1>2, <1>3 DEF TakeUp, Goto
<1>6. ASSUME tp = Blank, faults' = 0 PROVE PayloadTopic[c.event] = Blank
  <2>1. o = "ok"
    <3>1. faults' = faults + 1 => faults' # 0
      BY DEF WellFormed, TypeOK
    <3> QED BY <1>2, <1>6, <3>1 DEF Spend
  <2>2. c.run \in Runs /\ c.event \in Events /\ received[c.run] # None
    BY <1>3 DEF ResumeInv, TodoOK, ListedOK, ReceivedFirst, Listed
  <2>3. received[c.run] = Blank
    BY <1>6, <2>1, <2>2 DEF ResumeTopic
  <2>4. Under(c.run, Blank) /\ Under(c.run, PayloadTopic[c.event])
    BY <1>3, <2>3, ListedAssumption DEF Under
  <2> QED BY <2>2, <2>4, PayloadAssumption DEF RecordInv, OneTopic, TopicIds
<1>7. tp = Blank => Unnamed(w)'
  BY <1>4, <1>6 DEF Unnamed, Resuming
<1>8. ASSUME NEW u \in Thread, u # w, job[u].topic = Blank PROVE Unnamed(u)'
  BY <1>5, <1>8 DEF ApprovalInv, Unnamed, Resuming, EventOf
<1> QED BY <1>3, <1>4, <1>5, <1>7, <1>8 DEF ApprovalInv, Dispatching

\* Every step keeps ApprovalInv: LoadPolicy lets through only who has seen his
\* topic free of approval or has none, and an edit that frees a topic is seen
\* by all that have it.
LEMMA ApprovalInvStep ==
  WellFormed /\ WellFormed' /\ ResumeInv /\ RecordInv /\ ApprovalInv /\ [Next]_vars
    => ApprovalInv'
<1> SUFFICES ASSUME WellFormed, WellFormed', ResumeInv, RecordInv, ApprovalInv, [Next]_vars
             PROVE  ApprovalInv'
  OBVIOUS
<1>0. faults # 0 => faults' # 0
  BY FaultsStay
<1>1. /\ pc \in [Thread -> Step] /\ job \in [Thread -> Job]
      /\ snap \in [Workers -> Listed \cup {None}]
  BY DEF WellFormed, TypeOK
<1> USE <1>0, <1>1, ThreadAssumption
    DEF Gated, Dispatching, GateSteps, Goto, Resuming, streamVars, taskVars, dbVars,
        mainVars, userVars, Thread
<1>2. CASE UNCHANGED vars
  <2>1. Gated
    BY <1>2 DEF vars
  <2> QED BY <2>1, GatedKeepsApprovalInv
<1>3. ASSUME NEW e \in Entries, Enqueue(e) PROVE Gated
  BY <1>3 DEF Enqueue
<1>4. ASSUME NEW e \in Entries, Age(e) PROVE Gated
  BY <1>4 DEF Age
<1>5. ASSUME NEW r \in Runs, ResolveBudgetApproval(r) PROVE Gated
  BY <1>5 DEF ResolveBudgetApproval
<1>6. ASSUME NEW r \in Runs, SetDecidedStatus(r) PROVE Gated
  BY <1>6 DEF SetDecidedStatus
<1>7. ASSUME NEW t \in Thread, CreateRun(t) PROVE Gated
  <2>1. \A u \in Thread : job'[u].entry = job[u].entry /\ job'[u].topic = job[u].topic
    BY <1>7 DEF CreateRun, Job
  <2> QED BY <1>7, <2>1 DEF CreateRun
<1>8. ASSUME NEW t \in Thread, MarkRunPendingApproval(t) PROVE Gated
  BY <1>8 DEF MarkRunPendingApproval, GateError
<1>9. ASSUME NEW t \in Thread, FindPendingApproval(t) PROVE Gated
  BY <1>9 DEF FindPendingApproval, GateSkip
<1>10. ASSUME NEW t \in Thread, CreateBudgetApproval(t) PROVE Gated
  BY <1>10 DEF CreateBudgetApproval, GateError
<1>11. ASSUME NEW t \in Thread, AnnounceApproval(t) PROVE Gated
  BY <1>11 DEF AnnounceApproval, GateSkip
<1>12. ASSUME NEW t \in Thread, UpsertReceived(t) PROVE Gated
  BY <1>12 DEF UpsertReceived, AfterReceived
<1>13. ASSUME NEW t \in Thread, SaveTaskStart(t) PROVE Gated
  BY <1>13 DEF SaveTaskStart
<1>14. ASSUME NEW t \in Thread, RunTask(t) PROVE Gated
  BY <1>14 DEF RunTask
<1>15. ASSUME NEW t \in Thread, SaveTaskFailure(t) PROVE Gated
  BY <1>15 DEF SaveTaskFailure
<1>16. ASSUME NEW t \in Thread, Ack(t) PROVE Gated
  BY <1>16 DEF Ack, Drop, Rest, NoJob
<1>17. ASSUME NEW w \in Workers, StartWorker(w) PROVE Gated
  BY <1>17 DEF StartWorker
<1>18. ASSUME NEW w \in Workers, StopWorker(w) PROVE Gated
  BY <1>18 DEF StopWorker, Forget, SlotsOf, NoJob
<1>19. ASSUME NEW w \in Workers, CrashWorker(w) PROVE Gated
  BY <1>19 DEF CrashWorker, Forget, SlotsOf, NoJob
<1>20. ASSUME NEW w \in Workers, Read(w) PROVE Gated
  BY <1>20 DEF Read
<1>21. ASSUME NEW w \in Workers, Hand(w) PROVE Gated
  BY <1>21 DEF Hand, Work, SlotsOf
<1>22. ASSUME NEW w \in Workers, HandleReclaimed(w) PROVE Gated
  BY <1>22 DEF HandleReclaimed, Work
<1>23. ASSUME NEW w \in Workers, ResumeTick(w) PROVE Gated
  BY <1>23 DEF ResumeTick, AtLoop
<1>24. ASSUME NEW w \in Workers, ListCheckpoints(w) PROVE Gated
  BY <1>24 DEF ListCheckpoints
<1>25. ASSUME NEW w \in Workers, AllPicked(w) PROVE Gated
  BY <1>25 DEF AllPicked, Drop, NoJob
<1>26. ASSUME NEW w \in Workers, Redispatch(w) PROVE Gated
  BY <1>26 DEF Redispatch, AfterRedispatch
<1>27. ASSUME NEW w \in Workers, BumpRetries(w) PROVE Gated
  BY <1>27 DEF BumpRetries
<1>28. ASSUME NEW w \in Workers, SettleSkipped(w) PROVE Gated
  BY <1>28 DEF SettleSkipped
<1>29. ASSUME NEW w \in Workers, AutoClaim(w) PROVE Gated
  BY <1>29 DEF AutoClaim
<1>30. ASSUME NEW tp \in Topics, EditBudget(tp) PROVE ApprovalInv'
  <2>1. /\ pc' = pc /\ job' = job /\ snap' = snap /\ faults' = faults
        /\ requireApproval' = [requireApproval EXCEPT ![tp] = ~@]
        /\ free' = IF requireApproval[tp] THEN free \cup {t \in Thread : job[t].topic = tp} ELSE free
    BY <1>30 DEF EditBudget
  <2>2. requireApproval \in [Topics -> BOOLEAN]
    BY DEF WellFormed, TypeOK
  <2>3. ASSUME NEW t \in Thread, job[t].topic \in Topics
        PROVE  requireApproval'[job[t].topic] \/ t \in free'
    <3>1. CASE job[t].topic = tp
      BY <2>1, <2>2, <2>3, <3>1 DEF ApprovalInv
    <3>2. CASE job[t].topic # tp
      BY <2>1, <2>2, <2>3, <3>2 DEF ApprovalInv
    <3> QED BY <3>1, <3>2
  <2>4. \A t \in Thread : t \in free => t \in free'
    BY <2>1
  <2>5. \A t \in Thread : Unnamed(t) => Unnamed(t)'
    BY <2>1 DEF Unnamed, EventOf
  <2> QED BY <2>1, <2>3, <2>4, <2>5 DEF ApprovalInv
<1>31. ASSUME NEW t \in Thread, Claim(t) PROVE ApprovalInv'
  BY <1>31, ClaimKeepsApprovalInv
<1>32. ASSUME NEW t \in Thread, LoadPolicy(t) PROVE ApprovalInv'
  <2>1. job' = job /\ free' = free /\ requireApproval' = requireApproval /\ snap' = snap
    BY <1>32 DEF LoadPolicy
  <2>2. job[t].topic \in TopicIds /\ pc[t] = "policy"
    BY <1>32 DEF LoadPolicy, WellFormed, TypeOK, Shape, Job
  <2>3. ASSUME NEW u \in Thread, pc'[u] \in Dispatching PROVE u \in free \/ job[u].topic = Blank
    <3>1. CASE u # t
      <4>1. pc'[u] = pc[u]
        BY <1>32, <3>1 DEF LoadPolicy, GatePass, GateError
      <4> QED BY <2>3, <4>1 DEF ApprovalInv
    <3>2. CASE u = t
      <4>1. job[t].topic = Blank \/ ~requireApproval[job[t].topic]
        BY <1>32, <2>3, <3>2 DEF LoadPolicy, GatePass, GateError
      <4> QED BY <2>2, <3>2, <4>1 DEF ApprovalInv, TopicIds
    <3> QED BY <3>1, <3>2
  <2>4. \A u \in Thread : Unnamed(u) => Unnamed(u)'
    BY <2>1 DEF Unnamed, EventOf
  <2> HIDE DEF Dispatching
  <2> QED BY <2>1, <2>3, <2>4 DEF ApprovalInv
<1>33. ASSUME NEW w \in Workers, PickCheckpoint(w) PROVE ApprovalInv'
  BY <1>33, PickCheckpointKeepsApprovalInv
<1> HIDE DEF Gated
<1> QED
    BY GatedKeepsApprovalInv, <1>2, <1>3, <1>4, <1>5, <1>6, <1>7, <1>8, <1>9,
     <1>10, <1>11, <1>12, <1>13, <1>14, <1>15, <1>16, <1>17, <1>18, <1>19,
     <1>20, <1>21, <1>22, <1>23, <1>24, <1>25, <1>26, <1>27, <1>28, <1>29,
     <1>30, <1>31, <1>32, <1>33 DEF Next, Handle, ResumePending

-----------------------------------------------------------------------------
(* The initial states, and the theorems.                                    *)

\* All invariants hold before any worker is started.
LEMMA InitInv ==
  Init => /\ WellFormed /\ ClaimInv /\ ResumeInv /\ ApprovalInv /\ LossInv /\ ParkedInv
          /\ RecordInv
<1> SUFFICES ASSUME Init
             PROVE  /\ WellFormed /\ ClaimInv /\ ResumeInv /\ ApprovalInv /\ LossInv
                    /\ ParkedInv /\ RecordInv
  OBVIOUS
<1> USE ThreadAssumption, BoundAssumption DEF Init
<1>1. TypeOK
  <2>1. NoJob \in Job
    BY DEF NoJob, Job
  <2>2. pc \in [Thread -> Step] /\ job \in [Thread -> Job]
    BY <2>1 DEF Step, Thread
  <2>3. runStatus \in [Runs -> RunStatus] /\ entry \in [Entries -> EntryState]
    BY DEF RunStatus, EntryState
  <2>4. /\ checkpoint \in [Runs -> Checkpoint \cup {NoCheckpoint}]
        /\ faults \in 0..MaxFaults /\ edits \in 0..MaxEdits
    OBVIOUS
  <2>5. requireApproval \in [Topics -> BOOLEAN]
    OBVIOUS
  <2>6. /\ approval \in [Runs -> Request \cup {None}] /\ received \in [Runs -> TopicIds \cup {None}]
        /\ todo \in [Workers -> SUBSET Listed] /\ snap \in [Workers -> Listed \cup {None}]
    OBVIOUS
  <2> QED
    BY <2>2, <2>3, <2>4, <2>5, <2>6 DEF TypeOK
<1>2. \A t \in Thread : pc[t] \in {"down", "idle"}
  OBVIOUS
<1>3. (\A t \in Thread : Shape(t)) /\ (\A w \in Workers : SnapOK(w))
  BY <1>2 DEF Shape, SnapOK, Thread, GateSteps, HandlerSteps
<1>4. ClaimInv
  BY <1>2 DEF ClaimInv, ClaimedFirst, Exclusive, PublishedOnce, Past, GateSteps,
     HandlerSteps
<1>5. CheckpointedBeforeDispatch /\ RetriesCovered /\ ReceivedFirst
  BY DEF CheckpointedBeforeDispatch, RetriesCovered, ReceivedFirst, NoCheckpoint
<1>6. Bootstrapping /\ TodoOK /\ ResumesOK
  BY <1>2 DEF Bootstrapping, TodoOK, ResumesOK, Resumes, GateSteps, Thread
<1>7. ApprovalInv
  BY <1>2 DEF ApprovalInv, Dispatching, NoJob, TopicIds
<1>8. LossInv
  BY <1>2 DEF LossInv
<1>9. ParkedInv
  <2>1. \A v \in Events : ~Parked(v)
    BY PayloadAssumption DEF Parked
  <2>2. ASSUME NEW r \in Runs, NEW a \in TopicIds, OfTopic(r, a)
        PROVE  \E v \in Events : PayloadRun[v] = r /\ PayloadTopic[v] = a
    BY <2>2 DEF OfTopic, NoJob
  <2>3. TopicInv
    <3> SUFFICES ASSUME NEW r \in Runs, NEW a \in TopicIds, OfTopic(r, a)
                 PROVE  runStatus[r] # "absent" /\ \A b \in TopicIds : OfTopic(r, b) => b = a
      BY DEF TopicInv
    <3>1. PICK v \in Events : PayloadRun[v] = r /\ PayloadTopic[v] = a
      BY <2>2
    <3>2. runStatus[r] # "absent"
      BY <3>1
    <3>3. \A b \in TopicIds : OfTopic(r, b) => b = a
      BY <2>2, <3>1, TopicAssumption
    <3> QED BY <3>2, <3>3
  <2> QED BY <2>1, <2>3 DEF ParkedInv
<1>10. RecordInv
  <2>1. ASSUME NEW r \in Runs, NEW a \in TopicIds, Under(r, a)
        PROVE  \E v \in Events : PayloadRun[v] = r /\ PayloadTopic[v] = a
    BY <2>1 DEF Under, NoJob
  <2>2. OneTopic
    <3> SUFFICES ASSUME NEW r \in Runs, NEW a \in TopicIds, Under(r, a)
                 PROVE  runStatus[r] # "absent" /\ \A b \in TopicIds : Under(r, b) => b = a
      BY DEF OneTopic
    <3>1. PICK v \in Events : PayloadRun[v] = r /\ PayloadTopic[v] = a
      BY <2>1
    <3>2. runStatus[r] # "absent"
      BY <3>1
    <3>3. \A b \in TopicIds : Under(r, b) => b = a
      BY <2>1, <3>1, TopicAssumption
    <3> QED BY <3>2, <3>3
  <2>3. Handed
    BY <1>2 DEF Handed, Past, HandlerSteps, GateSteps
  <2> QED BY <2>2, <2>3 DEF RecordInv
<1> QED
  BY <1>1, <1>3, <1>4, <1>5, <1>6, <1>7, <1>8, <1>9, <1>10 DEF WellFormed, ResumeInv

\* All invariants hold in every behaviour.
LEMMA InvariantsHold ==
  Spec => [](/\ WellFormed /\ ClaimInv /\ ResumeInv /\ ApprovalInv /\ LossInv /\ ParkedInv
             /\ RecordInv)
  BY InitInv, WellFormedStep, ClaimInvStep, ResumeInvStep, ApprovalInvStep, LossInvStep,
     ParkedInvStep, RecordInvStep, PTL DEF Spec

\* Every variable keeps its type (the rows, streams and local variables of the
\* worker have the values the code gives them).
THEOREM TypeCorrect == Spec => []TypeOK
<1>1. WellFormed => TypeOK
  BY DEF WellFormed
<1> QED
  BY <1>1, InvariantsHold, PTL

\* handleRunEnqueued publishes at most one task.dispatch for an event, whatever
\* is redelivered, duplicated, reclaimed or crashes.
THEOREM OnePrimaryPerEvent == Spec => []AtMostOnePrimary
<1>1. ClaimInv => AtMostOnePrimary
  BY DEF ClaimInv, PublishedOnce, AtMostOnePrimary
<1> QED
  BY <1>1, InvariantsHold, PTL

\* A run with a task.dispatch message has both its checkpoints in Postgres, so
\* ResumePending can find it after a crash.
THEOREM DispatchIsCheckpointed == Spec => []CheckpointedBeforeDispatch
<1>1. ResumeInv => CheckpointedBeforeDispatch
  BY DEF ResumeInv
<1> QED
  BY <1>1, InvariantsHold, PTL

\* The retries of a dispatched checkpoint never exceed the messages published
\* for its run, although ResumePending writes stale copies back.
THEOREM RetriesAreCovered == Spec => []RetriesCovered
<1>1. ResumeInv => RetriesCovered
  BY DEF ResumeInv
<1> QED
  BY <1>1, InvariantsHold, PTL

\* Whatever users edit and whatever fails, enforceBudgetGate lets pass only who
\* has seen the topic of the run free of approval since taking it up, or has no
\* topic_id to look at: none came with the event, or buildResumePayload could
\* not read it back.
THEOREM ApprovalIsRespected == Spec => []ApprovalRespected
<1>1. WellFormed /\ ApprovalInv => ApprovalRespected
  <2> SUFFICES ASSUME WellFormed, ApprovalInv, NEW t \in Thread, pc[t] \in Dispatching
               PROVE  \/ t \in free
                      \/ /\ job[t].topic = Blank
                         /\ PayloadTopic[Source(t)] = Blank \/ (Resuming(t) /\ faults > 0)
    BY DEF ApprovalRespected, Dispatching
  <2>1. faults # 0 => faults > 0
    BY DEF WellFormed, TypeOK
  <2> QED BY <2>1 DEF ApprovalInv, Unnamed, Source, Resuming
<1> QED
  BY <1>1, InvariantsHold, PTL

\* Without a fault no event is lost: once its entry is acked and nobody works on
\* it, its task is on task.dispatch or its run is parked for approval
\* (processMessageSync, handleRunEnqueued).
THEOREM NoEventIsLost == Spec => []NoSilentLoss
<1>1. WellFormed /\ LossInv => NoSilentLoss
  <2> SUFFICES ASSUME WellFormed, LossInv, faults = 0, NEW e \in Entries \ Undecodable,
                      entry[e] = "acked", PayloadRun[EntryEvent[e]] # None,
                      EntryEvent[e] \notin Garbled,
                      \A t \in Thread : ~Handling(t, EntryEvent[e])
               PROVE  ParkedOrSent(EntryEvent[e])
    BY DEF NoSilentLoss, ParkedOrSent
  <2> QED BY DEF LossInv, OnTheWay, Handling
<1> QED
  BY <1>1, InvariantsHold, PTL

\* Without a fault a user's parked run has a pending request of its topic once
\* its gate is through, whoever else has found or written one, unless it is
\* being decided about or stands behind another's that was (enforceBudgetGate,
\* budgetDecision).
THEOREM ParkedRunsHaveRequests == Spec => []ParkedHasRequest
<1>1. ParkedInv => ParkedHasRequest
  BY DEF ParkedInv, ParkedHasRequest, Parked, Answered, Asked, Asking
<1> QED
  BY <1>1, InvariantsHold, PTL

-----------------------------------------------------------------------------
(* The promise to the stream task.dispatch.                                 *)

PromiseVars == <<claimed, primary, [r \in Runs |-> Recorded(r)], sent>>

\* Of the handlers, Claim takes an event,
LEMMA ClaimTakes ==
  ASSUME WellFormed, NEW t \in Thread, Claim(t)
  PROVE  [Promise!Next]_PromiseVars
<1>1. PICK v \in Events : claimed' \in {claimed, claimed \cup {v}}
  <2>1. EventOf(t) \in Events
    BY PayloadAssumption DEF Claim, TakeUp, WellFormed, TypeOK, Shape, Job, EventOf
  <2> QED BY <2>1 DEF Claim, TakeUp
<1>2. UNCHANGED <<primary, sent, checkpoint, received>>
  BY DEF Claim, TakeUp, taskVars
<1>3. UNCHANGED [r \in Runs |-> Recorded(r)]
  BY <1>2 DEF Recorded
<1> QED BY <1>1, <1>2, <1>3 DEF PromiseVars, Promise!Next, Promise!Take

\* UpsertReceived writes the topic that is already there, if the run was dispatched,
LEMMA UpsertReceivedKeepsRecorded ==
  ASSUME WellFormed, ResumeInv, RecordInv, NEW t \in Thread, UpsertReceived(t)
  PROVE  UNCHANGED PromiseVars
<1>1. UNCHANGED <<claimed, primary, sent, checkpoint>>
  BY DEF UpsertReceived, taskVars
<1>2. /\ job[t].run \in Runs /\ job[t].topic \in TopicIds
      /\ received \in [Runs -> TopicIds \cup {None}] /\ job[t].entry # None
  BY DEF UpsertReceived, WellFormed, TypeOK, Shape, Job, GateSteps, HandlerSteps
<1>3. ASSUME NEW r \in Runs, checkpoint[r] # NoCheckpoint PROVE received'[r] = received[r]
  <2>1. received[r] \in TopicIds
    BY <1>2, <1>3 DEF ResumeInv, ReceivedFirst
  <2>2. CASE r # job[t].run
    BY <2>2, <1>2 DEF UpsertReceived
  <2>3. CASE r = job[t].run
    <3>1. Under(r, received[r]) /\ Under(r, job[t].topic)
      BY <1>2, <2>3 DEF Under, Resuming
    <3>2. received[r] = job[t].topic
      BY <3>1, <2>1, <1>2 DEF RecordInv, OneTopic
    <3> QED BY <3>2, <2>3, <1>2 DEF UpsertReceived
  <2> QED BY <2>2, <2>3
<1>4. \A r \in Runs : Recorded(r)' = Recorded(r)
  BY <1>1, <1>3 DEF Recorded
<1> QED BY <1>1, <1>4 DEF PromiseVars

\* SaveTaskStart records the run,
LEMMA SaveTaskStartRecords ==
  ASSUME WellFormed, ResumeInv, RecordInv, NEW t \in Thread, SaveTaskStart(t)
  PROVE  [Promise!Next]_PromiseVars
<1>1. UNCHANGED <<claimed, primary, sent, received>> /\ pc[t] = "start"
  BY DEF SaveTaskStart, taskVars
<1>2. PICK r \in Runs : r = job[t].run
  BY <1>1 DEF WellFormed, TypeOK, Shape, Job
<1>3. received[r] \in TopicIds
  BY <1>1, <1>2 DEF WellFormed, TypeOK, ResumeInv, Bootstrapping
<1>4. PICK c : c # NoCheckpoint /\ checkpoint' \in {checkpoint, [checkpoint EXCEPT ![r] = c]}
  <2>1. [status |-> "dispatched", event |-> EventOf(t), retries |-> 0] # NoCheckpoint
    BY DEF NoCheckpoint
  <2> QED BY <2>1, <1>2 DEF SaveTaskStart
<1>5. checkpoint \in [Runs -> Checkpoint \cup {NoCheckpoint}]
  BY DEF WellFormed, TypeOK
<1>6. CASE checkpoint[r] # NoCheckpoint \/ checkpoint' = checkpoint
  <2>1. \A q \in Runs : Recorded(q)' = Recorded(q)
    BY <1>1, <1>4, <1>5, <1>6 DEF Recorded
  <2> QED BY <2>1, <1>1 DEF PromiseVars
<1>7. CASE checkpoint[r] = NoCheckpoint /\ checkpoint' = [checkpoint EXCEPT ![r] = c]
  <2>1. Recorded(r) = None
    BY <1>7 DEF Recorded
  <2>2. \A q \in Runs : Recorded(q)' = IF q = r THEN received[r] ELSE Recorded(q)
    BY <1>1, <1>4, <1>5, <1>7 DEF Recorded
  <2>3. Promise!Record(r, received[r])
    BY <2>1, <2>2, <1>1 DEF Promise!Record
  <2> QED BY <2>3, <1>3 DEF Promise!Next
<1> QED BY <1>4, <1>6, <1>7

\* SaveTaskFailure writes over that record,
LEMMA SaveTaskFailureKeepsRecorded ==
  ASSUME WellFormed, ResumeInv, NEW t \in Thread, SaveTaskFailure(t)
  PROVE  UNCHANGED PromiseVars
<1>1. UNCHANGED <<claimed, primary, sent, received>>
  BY DEF SaveTaskFailure, taskVars
<1>2. \A r \in Runs : checkpoint'[r] = NoCheckpoint <=> checkpoint[r] = NoCheckpoint
  BY DEF SaveTaskFailure, FailedCheckpoint, NoCheckpoint, WellFormed, TypeOK, ResumeInv,
     Bootstrapping
<1>3. \A r \in Runs : Recorded(r)' = Recorded(r)
  BY <1>1, <1>2 DEF Recorded
<1> QED BY <1>1, <1>3 DEF PromiseVars

\* and RunTask publishes for an event that has not been published for.
LEMMA RunTaskPublishes ==
  ASSUME WellFormed, ClaimInv, ResumeInv, RecordInv, NEW t \in Thread, RunTask(t)
  PROVE  [Promise!Next]_PromiseVars
<1>1. UNCHANGED <<claimed, checkpoint, received>> /\ pc[t] = "publish"
  BY DEF RunTask, dbVars
<1>2. UNCHANGED [r \in Runs |-> Recorded(r)]
  BY <1>1 DEF Recorded
<1>3. job[t].entry # None /\ Past(t)
  BY <1>1 DEF WellFormed, Shape, HandlerSteps, Past
<1>4. PICK r \in Runs, v \in Events : r = job[t].run /\ v = EventOf(t)
  BY <1>1, <1>3, PayloadAssumption DEF WellFormed, TypeOK, Shape, Job, EventOf
<1>5. v \in claimed /\ primary[v] = 0
  <2>1. v \in claimed
    BY <1>3, <1>4 DEF ClaimInv, ClaimedFirst
  <2>2. primary[v] # 0 => pc[t] = "fail"
    BY <1>3, <1>4 DEF ClaimInv, PublishedOnce
  <2> QED BY <2>1, <2>2, <1>1
<1>6. PayloadRun[v] \in {r, None}
  BY <1>1, <1>3, <1>4 DEF RecordInv, Handed
<1>7. Recorded(r) = PayloadTopic[v]
  <2>1. checkpoint[r] # NoCheckpoint
    BY <1>1, <1>4 DEF ResumeInv, Bootstrapping
  <2>2. received[r] \in TopicIds
    BY <2>1 DEF ResumeInv, ReceivedFirst, WellFormed, TypeOK
  <2>3. Under(r, received[r]) /\ Under(r, PayloadTopic[v])
    BY <1>3, <1>4 DEF Under, Resuming
  <2>4. received[r] = PayloadTopic[v]
    BY <2>2, <2>3, PayloadAssumption DEF RecordInv, OneTopic
  <2> QED BY <2>1, <2>4 DEF Recorded
<1>8. CASE UNCHANGED <<primary, sent>>
  BY <1>1, <1>2, <1>8 DEF PromiseVars
<1>9. CASE /\ primary' = [primary EXCEPT ![v] = @ + 1]
           /\ sent' = [sent EXCEPT ![r] = @ + 1]
  <2>1. primary' = [primary EXCEPT ![v] = 1]
    BY <1>5, <1>9
  <2>2. Promise!Publish(v, r)
    BY <2>1, <1>1, <1>2, <1>5, <1>6, <1>7, <1>9 DEF Promise!Publish
  <2> QED BY <2>2 DEF Promise!Next
<1> QED BY <1>4, <1>8, <1>9 DEF RunTask

\* Resuming publishes again for a recorded run
LEMMA RedispatchResends ==
  ASSUME WellFormed, ResumeInv, NEW w \in Workers, Redispatch(w)
  PROVE  [Promise!Next]_PromiseVars
<1>1. UNCHANGED <<claimed, primary, checkpoint, received>> /\ pc[w] = "redispatch"
  BY DEF Redispatch, dbVars
<1>2. UNCHANGED [r \in Runs |-> Recorded(r)]
  BY <1>1 DEF Recorded
<1>3. PICK r \in Runs : r = job[w].run
  BY <1>1 DEF WellFormed, TypeOK, Shape, Job, Thread
<1>4. Recorded(r) # None
  <2>1. checkpoint[r] # NoCheckpoint
    BY <1>1, <1>3 DEF WellFormed, SnapOK, ResumeInv, ResumesOK, Resumes, ListedOK
  <2> QED BY <2>1 DEF Recorded, ResumeInv, ReceivedFirst
<1>5. CASE UNCHANGED sent
  BY <1>1, <1>2, <1>5 DEF PromiseVars
<1>6. CASE sent' = [sent EXCEPT ![r] = @ + 1]
  <2>1. Promise!Resend(r)
    BY <1>1, <1>2, <1>4, <1>6 DEF Promise!Resend
  <2> QED BY <2>1 DEF Promise!Next
<1> QED BY <1>3, <1>5, <1>6 DEF Redispatch

\* and leaves it one.
LEMMA BumpRetriesKeepsRecorded ==
  ASSUME WellFormed, ResumeInv, NEW w \in Workers, BumpRetries(w)
  PROVE  UNCHANGED PromiseVars
<1>1. UNCHANGED <<claimed, primary, sent, received>> /\ pc[w] = "bump"
  BY DEF BumpRetries, taskVars
<1>2. checkpoint[snap[w].run] # NoCheckpoint
  BY <1>1 DEF WellFormed, SnapOK, ResumeInv, ResumesOK, Resumes, ListedOK
<1>3. \A r \in Runs : checkpoint'[r] = NoCheckpoint <=> checkpoint[r] = NoCheckpoint
  BY <1>2 DEF BumpRetries, NoCheckpoint, WellFormed, TypeOK
<1>4. \A r \in Runs : Recorded(r)' = Recorded(r)
  BY <1>1, <1>3 DEF Recorded
<1> QED BY <1>1, <1>4 DEF PromiseVars

LEMMA SettleSkippedKeepsRecorded ==
  ASSUME WellFormed, NEW w \in Workers, SettleSkipped(w)
  PROVE  UNCHANGED PromiseVars
<1>1. UNCHANGED <<claimed, primary, sent, received>>
  BY DEF SettleSkipped, taskVars
<1>2. \A r \in Runs : checkpoint'[r] = NoCheckpoint <=> checkpoint[r] = NoCheckpoint
  BY DEF SettleSkipped, NoCheckpoint, WellFormed, TypeOK, Checkpoint
<1>3. \A r \in Runs : Recorded(r)' = Recorded(r)
  BY <1>1, <1>2 DEF Recorded
<1> QED BY <1>1, <1>3 DEF PromiseVars

LEMMA PromiseStep ==
  WellFormed /\ ClaimInv /\ ResumeInv /\ RecordInv /\ [Next]_vars => [Promise!Next]_PromiseVars
<1> SUFFICES ASSUME WellFormed, ClaimInv, ResumeInv, RecordInv, [Next]_vars
             PROVE  [Promise!Next]_PromiseVars
  OBVIOUS
<1>kept. ASSUME UNCHANGED <<claimed, primary, sent, checkpoint, received>>
         PROVE  UNCHANGED PromiseVars
  BY <1>kept DEF PromiseVars, Recorded
<1> USE DEF taskVars, dbVars
<1>1. CASE UNCHANGED vars
  BY <1>1, <1>kept DEF vars
<1>2. ASSUME NEW e \in Entries, Enqueue(e) \/ Age(e) PROVE UNCHANGED PromiseVars
  BY <1>2, <1>kept DEF Enqueue, Age
<1>3. ASSUME NEW tp \in Topics, EditBudget(tp) PROVE UNCHANGED PromiseVars
  BY <1>3, <1>kept DEF EditBudget
<1>decide. ASSUME NEW r \in Runs, ResolveBudgetApproval(r) \/ SetDecidedStatus(r)
           PROVE  UNCHANGED PromiseVars
  BY <1>decide, <1>kept DEF ResolveBudgetApproval, SetDecidedStatus
<1>4. ASSUME NEW t \in Thread, Handle(t) PROVE [Promise!Next]_PromiseVars
  <2>1. CASE CreateRun(t)
    BY <2>1, <1>kept DEF CreateRun, Insert
  <2>2. CASE LoadPolicy(t)
    BY <2>2, <1>kept DEF LoadPolicy
  <2>3. CASE MarkRunPendingApproval(t)
    BY <2>3, <1>kept DEF MarkRunPendingApproval
  <2>4. CASE FindPendingApproval(t)
    BY <2>4, <1>kept DEF FindPendingApproval
  <2>5. CASE CreateBudgetApproval(t)
    BY <2>5, <1>kept DEF CreateBudgetApproval, Insert
  <2>6. CASE AnnounceApproval(t)
    BY <2>6, <1>kept DEF AnnounceApproval
  <2>7. CASE Ack(t)
    BY <2>7, <1>kept DEF Ack, Drop
  <2> QED BY <1>4, <2>1, <2>2, <2>3, <2>4, <2>5, <2>6, <2>7, ClaimTakes, UpsertReceivedKeepsRecorded,
             SaveTaskStartRecords, SaveTaskFailureKeepsRecorded, RunTaskPublishes DEF Handle
<1>5. ASSUME NEW w \in Workers, StartWorker(w) \/ StopWorker(w) \/ CrashWorker(w)
      PROVE  UNCHANGED PromiseVars
  BY <1>5, <1>kept DEF StartWorker, StopWorker, CrashWorker
<1>6. ASSUME NEW w \in Workers, Read(w) \/ Hand(w) \/ HandleReclaimed(w) \/ ResumeTick(w)
      PROVE  UNCHANGED PromiseVars
  BY <1>6, <1>kept DEF Read, Hand, HandleReclaimed, ResumeTick
<1>7. ASSUME NEW w \in Workers, ResumePending(w) PROVE [Promise!Next]_PromiseVars
  <2>1. CASE ListCheckpoints(w) \/ PickCheckpoint(w) \/ AllPicked(w) \/ AutoClaim(w)
    BY <2>1, <1>kept DEF ListCheckpoints, PickCheckpoint, TakeUp, AllPicked, Drop, AutoClaim
  <2> QED BY <1>7, <2>1, RedispatchResends, BumpRetriesKeepsRecorded, SettleSkippedKeepsRecorded
          DEF ResumePending
<1> QED BY <1>1, <1>2, <1>3, <1>decide, <1>4, <1>5, <1>6, <1>7 DEF Next

\* Whatever is redelivered, reclaimed, resumed or lost in a crash, the handlers
\* of an event publish one task.dispatch message at most, for the run and topic
\* of its payload, and every message is for a run that both checkpoints record
\* under that topic (handleRunEnqueued, SaveTaskStart, ResumePending).
THEOREM PromiseIsKept == Spec => KeepsPromise
<1>1. Init => Promise!Init
  BY DEF Init, Promise!Init, Recorded
<1>2. WellFormed /\ ClaimInv /\ ResumeInv /\ RecordInv /\ [Next]_vars
        => [Promise!Next]_<<claimed, primary, [r \in Runs |-> Recorded(r)], sent>>
  BY PromiseStep DEF PromiseVars
<1> QED BY <1>1, <1>2, InvariantsHold, PTL DEF Spec, KeepsPromise, Promise!Spec

=============================================================================
