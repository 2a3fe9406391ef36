-------------------------- MODULE SchedulerProofs --------------------------
(* Proofs of the safety properties of Scheduler. *)
EXTENDS Scheduler, TLAPS

-----------------------------------------------------------------------------
(* Types.                                                                   *)

LEMMA TypeInit == Init => TypeOK
BY SchedulerAssumption DEF Init, TypeOK, TickOK

LEMMA TypeStep == TypeOK /\ [Next]_vars => TypeOK'
<1> SUFFICES ASSUME TypeOK, [Next]_vars PROVE TypeOK'
  OBVIOUS
<1> USE SchedulerAssumption DEF TypeOK, topicVars, lockVars, tickVars, Outcome, Performed, Costs
<1>1. CASE UNCHANGED vars
  BY <1>1 DEF vars, TickOK
<1>2. ASSUME NEW t \in Topics, FallDue(t) \/ RunElsewhere(t)
      PROVE  TypeOK'
  BY <1>2 DEF FallDue, RunElsewhere, TickOK
<1>3. ASSUME NEW t \in Topics, Expire(t)
      PROVE  TypeOK'
  BY <1>3 DEF Expire, Expires, TickOK
<1>4. ASSUME NEW s \in Schedulers, Run(s)
      PROVE  TypeOK'
  <2>1. CASE Tick(s)
    <3>1. /\ \/ /\ pc' = [pc EXCEPT ![s] = "topics"]
                /\ todo' = [todo EXCEPT ![s] = Topics]
             \/ UNCHANGED <<pc, todo>>
          /\ faults' \in 0..MaxFaults
          /\ UNCHANGED <<topicVars, lockVars, current, deferred>>
      BY <2>1 DEF Tick
    <3>2. \A r \in Schedulers : TickOK(r)'
      BY <3>1 DEF TickOK
    <3> QED
      BY <3>1, <3>2
  <2>2. ASSUME NEW t \in Topics, LoadDue(s, t)
        PROVE  TypeOK'
    <3>1. PICK o \in {"ok", "failed"} :
            /\ Costs(o)
            /\ pc' = [pc EXCEPT ![s] = IF o = "failed" \/ t \in due THEN "lock" ELSE "topics"]
      BY <2>2 DEF LoadDue
    <3>2. CASE pc' = [pc EXCEPT ![s] = "lock"]
      BY <2>2, <3>1, <3>2 DEF LoadDue, TickOK
    <3>3. CASE pc' = [pc EXCEPT ![s] = "topics"]
      BY <2>2, <3>1, <3>3 DEF LoadDue, TickOK
    <3> QED
      BY <3>1, <3>2, <3>3
  <2>3. CASE SetNX(s)
    <3> DEFINE t == current[s]
    <3>1. PICK o \in Outcome :
            /\ Costs(o)
            /\ lock' = IF o \in Performed /\ Free(t) THEN [lock EXCEPT ![t] = s] ELSE lock
            /\ IF o = "ok" /\ Free(t)
               THEN /\ deferred' = [deferred EXCEPT ![s] = @ \cup {t}]
                    /\ pc' = [pc EXCEPT ![s] = "create"]
               ELSE /\ UNCHANGED deferred
                    /\ pc' = [pc EXCEPT ![s] = "topics"]
      BY <2>3 DEF SetNX
    <3>2. t \in Topics /\ pc[s] = "lock" /\ UNCHANGED <<topicVars, overrun, todo, current>>
      BY <2>3 DEF SetNX, TickOK
    <3> HIDE DEF t
    <3>3. lock' = [lock EXCEPT ![t] = s] \/ lock' = lock
      BY <3>1
    <3>4. lock' \in [Topics -> Schedulers \cup {None}]
      BY <3>2, <3>3
    <3>5. faults' \in 0..MaxFaults
      BY <3>1
    <3>6. /\ \/ deferred' = [deferred EXCEPT ![s] = @ \cup {t}]
             \/ deferred' = deferred
          /\ \/ pc' = [pc EXCEPT ![s] = "create"]
             \/ pc' = [pc EXCEPT ![s] = "topics"]
      BY <3>1
    <3>7. deferred' \in [Schedulers -> SUBSET Topics]
      BY <3>2, <3>6
    <3>8. pc' \in [Schedulers -> {"idle", "topics", "lock", "create", "unlock"}]
      BY <3>6
    <3>9. ASSUME NEW r \in Schedulers
          PROVE  TickOK(r)'
      <4>1. CASE r = s
        BY <3>2, <3>6, <4>1 DEF TickOK, t
      <4>2. CASE r # s
        BY <3>2, <3>6, <4>2 DEF TickOK
      <4> QED
        BY <4>1, <4>2
    <3> QED
      BY <3>2, <3>4, <3>5, <3>7, <3>8, <3>9
  <2>4. CASE CreateRun(s)
    <3>0. PICK o \in Outcome :
            /\ Costs(o)
            /\ IF o \in Performed
               THEN /\ created' = [created EXCEPT ![s][current[s]] = @ + 1]
                    /\ due' = DueAfterCreate(current[s])
               ELSE UNCHANGED <<created, due>>
      BY <2>4 DEF CreateRun
    <3>1. /\ created' \in [Schedulers -> [Topics -> Nat]]
          /\ due' \subseteq Topics
          /\ faults' \in 0..MaxFaults
      <4>1. current[s] \in Topics
        BY <2>4 DEF CreateRun, TickOK
      <4>2. CASE o \in Performed
        <5>1. created' = [created EXCEPT ![s] = [created[s] EXCEPT ![current[s]] = @ + 1]]
          BY <3>0, <4>2
        <5>2. [created[s] EXCEPT ![current[s]] = @ + 1] \in [Topics -> Nat]
          BY <4>1
        <5>3. due' \subseteq Topics /\ faults' \in 0..MaxFaults
          BY <3>0, <4>2 DEF DueAfterCreate
        <5> QED
          BY <5>1, <5>2, <5>3
      <4>3. CASE o \notin Performed
        BY <3>0, <4>3
      <4> QED
        BY <4>2, <4>3
    <3>2. /\ pc' = [pc EXCEPT ![s] = "topics"]
          /\ UNCHANGED <<period, lockVars, todo, current, deferred>>
      BY <2>4 DEF CreateRun
    <3>3. \A r \in Schedulers : TickOK(r)'
      BY <3>2 DEF TickOK
    <3> QED
      BY <3>1, <3>2, <3>3
  <2>5. CASE EndOfLoop(s)
    BY <2>5 DEF EndOfLoop, TickOK
  <2>6. ASSUME NEW t \in Topics, Unlock(s, t)
        PROVE  TypeOK'
    <3>1. PICK o \in Outcome :
            /\ Costs(o)
            /\ lock' = IF o \in Performed THEN [lock EXCEPT ![t] = None] ELSE lock
      BY <2>6 DEF Unlock
    <3>2. faults' \in 0..MaxFaults /\ lock' \in [Topics -> Schedulers \cup {None}]
      BY <3>1
    <3>3. /\ deferred' = [deferred EXCEPT ![s] = @ \ {t}]
          /\ UNCHANGED <<topicVars, overrun, pc, todo, current>>
      BY <2>6 DEF Unlock
    <3>4. \A r \in Schedulers : TickOK(r)'
      BY <3>3 DEF TickOK
    <3> QED
      BY <3>2, <3>3, <3>4
  <2>7. CASE TickDone(s)
    <3>1. /\ pc[s] = "unlock" /\ deferred[s] = {}
          /\ pc' = [pc EXCEPT ![s] = "idle"]
          /\ current' = [current EXCEPT ![s] = None]
          /\ UNCHANGED <<topicVars, lockVars, todo, deferred, faults>>
      BY <2>7 DEF TickDone, AllUnlocked
    <3>2. \A r \in Schedulers : TickOK(r)'
      BY <3>1 DEF TickOK
    <3> QED
      BY <3>1, <3>2
  <2> QED
    BY <1>4, <2>1, <2>2, <2>3, <2>4, <2>5, <2>6, <2>7 DEF Run
<1>5. ASSUME NEW s \in Schedulers, Crash(s)
      PROVE  TypeOK'
  BY <1>5 DEF Crash, TickOK
<1> QED
  BY <1>1, <1>2, <1>3, <1>4, <1>5 DEF Next

\* Every reachable state is well typed, and a scheduler between two ticks has
\* no lock left to delete.
THEOREM TypeCorrect == Spec => []TypeOK
BY TypeInit, TypeStep, PTL DEF Spec

-----------------------------------------------------------------------------
(* The lock.                                                                *)

\* OneHolder is inductive by itself: a lock is only overwritten when it is
\* free, and Del and Expire meet the tick that took it or mark the topic.
LEMMA HolderStep == TypeOK /\ OneHolder /\ [Next]_vars => OneHolder'
<1> SUFFICES ASSUME TypeOK, OneHolder, [Next]_vars,
                    NEW r \in Schedulers, NEW u \in (deferred[r] \ overrun)'
             PROVE  lock'[u] = r
  BY DEF OneHolder
<1> USE DEF topicVars, lockVars, tickVars
<1>0. /\ \A q \in Schedulers : \A t \in deferred[q] \ overrun : lock[t] = q
      /\ deferred \in [Schedulers -> SUBSET Topics]
      /\ lock \in [Topics -> Schedulers \cup {None}]
      /\ None \notin Schedulers
  BY SchedulerAssumption DEF TypeOK, OneHolder
<1>1. CASE UNCHANGED <<lockVars, deferred>>
  BY <1>0, <1>1
<1>2. ASSUME NEW t \in Topics, Expire(t)
      PROVE  lock'[u] = r
  <2>1. /\ lock' = [lock EXCEPT ![t] = None]
        /\ overrun' = IF t \in deferred[lock[t]] THEN overrun \cup {t} ELSE overrun
        /\ UNCHANGED deferred
    BY <1>2 DEF Expire
  <2>2. u \in deferred[r] \ overrun /\ lock[u] = r
    BY <1>0, <2>1
  <2>3. u # t
    BY <2>1, <2>2
  <2> QED
    BY <1>0, <2>1, <2>2, <2>3
<1>3. ASSUME NEW s \in Schedulers, SetNX(s)
      PROVE  lock'[u] = r
  <2> DEFINE t == current[s]
  <2>1. PICK o \in Outcome :
          /\ lock' = IF o \in Performed /\ Free(t) THEN [lock EXCEPT ![t] = s] ELSE lock
          /\ IF o = "ok" /\ Free(t)
             THEN deferred' = [deferred EXCEPT ![s] = @ \cup {t}]
             ELSE UNCHANGED deferred
    BY <1>3 DEF SetNX
  <2>2. t \in Topics /\ UNCHANGED overrun
    BY <1>3 DEF SetNX, TypeOK, TickOK
  <2> HIDE DEF t
  <2>3. CASE r = s /\ u = t /\ u \notin deferred[r]
    <3>1. o = "ok" /\ Free(t)
      BY <1>0, <2>1, <2>2, <2>3
    <3> QED
      BY <1>0, <2>1, <2>2, <2>3, <3>1 DEF Performed
  <2>4. CASE u \in deferred[r]
    <3>1. lock[u] = r
      BY <1>0, <2>2, <2>4
    <3>2. u = t => ~Free(t)
      BY <1>0, <3>1 DEF Free
    <3> QED
      BY <1>0, <2>1, <2>2, <3>1, <3>2
  <2>5. (r = s /\ u = t) \/ u \in deferred[r]
    BY <1>0, <2>1, <2>2
  <2> QED
    BY <2>3, <2>4, <2>5
<1>4. ASSUME NEW s \in Schedulers, NEW t \in Topics, Unlock(s, t)
      PROVE  lock'[u] = r
  <2>1. PICK o \in Outcome :
          lock' = IF o \in Performed THEN [lock EXCEPT ![t] = None] ELSE lock
    BY <1>4 DEF Unlock
  <2>2. /\ t \in deferred[s] /\ UNCHANGED overrun
        /\ deferred' = [deferred EXCEPT ![s] = @ \ {t}]
    BY <1>4 DEF Unlock
  <2>3. u \in deferred[r] \ overrun /\ lock[u] = r
    BY <1>0, <2>2
  <2>4. u # t
    <3>1. CASE r = s
      BY <1>0, <2>2, <3>1
    <3>2. CASE r # s
      BY <1>0, <2>2, <2>3, <3>2
    <3> QED
      BY <3>1, <3>2
  <2> QED
    BY <1>0, <2>1, <2>3, <2>4
<1>5. ASSUME NEW s \in Schedulers, Crash(s)
      PROVE  lock'[u] = r
  <2>1. deferred' = [deferred EXCEPT ![s] = {}] /\ UNCHANGED lockVars
    BY <1>5 DEF Crash
  <2> QED
    BY <1>0, <2>1
<1>6. ASSUME NEW t \in Topics, FallDue(t) \/ RunElsewhere(t)
      PROVE  lock'[u] = r
  BY <1>1, <1>6 DEF FallDue, RunElsewhere
<1>7. ASSUME NEW s \in Schedulers, Tick(s) \/ CreateRun(s) \/ EndOfLoop(s) \/ TickDone(s)
      PROVE  lock'[u] = r
  BY <1>1, <1>7 DEF Tick, CreateRun, EndOfLoop, TickDone
<1>8. ASSUME NEW s \in Schedulers, NEW t \in Topics, LoadDue(s, t)
      PROVE  lock'[u] = r
  BY <1>1, <1>8 DEF LoadDue
<1> QED
  BY <1>1, <1>2, <1>3, <1>4, <1>5, <1>6, <1>7, <1>8 DEF Next, Run, vars

\* A topic is between SetNX and Del in one tick at a time.
THEOREM HolderIsOne == Spec => []OneHolder
<1>1. Init => OneHolder
  BY DEF Init, OneHolder
<1> QED
  BY <1>1, TypeCorrect, HolderStep, PTL DEF Spec

-----------------------------------------------------------------------------
(* Duplicate runs.                                                          *)

\* The period a scheduler has found the topic due in, and the one that is
\* open now, have not had a run from that scheduler.
DuplicateInv ==
  \A s \in Schedulers : \A t \in Topics :
    /\ created[s][t] <= period[t] + faults
    /\ t \in due => created[s][t] + 1 <= period[t] + faults
    /\ pc[s] \in {"lock", "create"} /\ current[s] = t
         => created[s][t] + 1 <= period[t] + faults

LEMMA DuplicateStep == TypeOK /\ DuplicateInv /\ [Next]_vars => DuplicateInv'
<1> SUFFICES ASSUME TypeOK, DuplicateInv, [Next]_vars, NEW r \in Schedulers, NEW u \in Topics
             PROVE  /\ created'[r][u] <= period'[u] + faults'
                    /\ u \in due' => created'[r][u] + 1 <= period'[u] + faults'
                    /\ pc'[r] \in {"lock", "create"} /\ current'[r] = u
                         => created'[r][u] + 1 <= period'[u] + faults'
  BY DEF DuplicateInv
<1> DEFINE Goal == /\ created'[r][u] <= period'[u] + faults'
                   /\ u \in due' => created'[r][u] + 1 <= period'[u] + faults'
                   /\ pc'[r] \in {"lock", "create"} /\ current'[r] = u
                        => created'[r][u] + 1 <= period'[u] + faults'
<1> USE DEF topicVars, lockVars, tickVars
<1>a. /\ period \in [Topics -> Nat] /\ created \in [Schedulers -> [Topics -> Nat]]
      /\ pc \in [Schedulers -> {"idle", "topics", "lock", "create", "unlock"}]
      /\ current \in [Schedulers -> Topics \cup {None}]
      /\ faults \in Nat
      /\ created[r][u] \in Nat /\ period[u] \in Nat
  BY SchedulerAssumption DEF TypeOK
<1>b. /\ created[r][u] <= period[u] + faults
      /\ u \in due => created[r][u] + 1 <= period[u] + faults
      /\ pc[r] \in {"lock", "create"} /\ current[r] = u
           => created[r][u] + 1 <= period[u] + faults
  BY DEF DuplicateInv
<1>c. ASSUME NEW o, Costs(o)
      PROVE  faults' \in Nat /\ faults <= faults' /\ (o # "ok" => faults' = faults + 1)
  BY <1>a, <1>c DEF Costs
\* A step that creates nothing, opens no period and finds no topic due.
<1>d. ASSUME UNCHANGED <<created, period>>, due' \subseteq due,
             faults' \in Nat, faults <= faults',
             pc'[r] \in {"lock", "create"} => pc[r] \in {"lock", "create"} /\ current'[r] = current[r]
      PROVE  Goal
  BY <1>a, <1>b, <1>d
<1>1. CASE UNCHANGED vars
  BY <1>a, <1>d, <1>1 DEF vars
<1>2. ASSUME NEW t \in Topics, FallDue(t)
      PROVE  Goal
  <2>1. /\ period' = [period EXCEPT ![t] = @ + 1] /\ due' = due \cup {t}
        /\ UNCHANGED <<created, pc, current, faults>>
    BY <1>2 DEF FallDue
  <2>2. CASE u = t
    BY <1>a, <1>b, <2>1, <2>2
  <2>3. CASE u # t
    BY <1>a, <1>b, <2>1, <2>3
  <2> QED
    BY <2>2, <2>3
<1>3. ASSUME NEW t \in Topics, RunElsewhere(t) \/ Expire(t)
      PROVE  Goal
  <2>1. UNCHANGED <<created, period, pc, current, faults>> /\ due' \subseteq due
    BY <1>3 DEF RunElsewhere, Expire
  <2> QED
    BY <1>a, <1>d, <2>1
<1>4. ASSUME NEW s \in Schedulers, Tick(s)
      PROVE  Goal
  <2>1. UNCHANGED <<created, period, due, current>>
    BY <1>4 DEF Tick
  <2>2. pc' = pc \/ pc' = [pc EXCEPT ![s] = "topics"]
    BY <1>4 DEF Tick
  <2>3. \E o \in Outcome : Costs(o)
    BY <1>4 DEF Tick
  <2> QED
    BY <1>a, <1>c, <1>d, <2>1, <2>2, <2>3
<1>5. ASSUME NEW s \in Schedulers, NEW t \in Topics, LoadDue(s, t)
      PROVE  Goal
  <2>1. PICK o \in {"ok", "failed"} :
          /\ Costs(o)
          /\ pc' = [pc EXCEPT ![s] = IF o = "failed" \/ t \in due THEN "lock" ELSE "topics"]
    BY <1>5 DEF LoadDue
  <2>2. UNCHANGED <<created, period, due>> /\ current' = [current EXCEPT ![s] = t]
    BY <1>5 DEF LoadDue
  <2>3. faults' \in Nat /\ faults <= faults' /\ (o # "ok" => faults' = faults + 1)
    BY <1>c, <2>1
  <2>4. CASE r = s /\ u = t
    \* The topic is due, or the failure pays for the run.
    <3>1. pc'[r] = "lock" => u \in due \/ faults' = faults + 1
      BY <1>a, <2>1, <2>3, <2>4
    <3>2. pc'[r] \in {"lock", "topics"}
      BY <1>a, <2>1, <2>4
    <3> QED
      BY <1>a, <1>b, <2>2, <2>3, <3>1, <3>2
  <2>5. CASE r = s /\ u # t
    BY <1>a, <1>b, <2>2, <2>3, <2>5
  <2>6. CASE r # s
    BY <1>a, <1>d, <2>1, <2>2, <2>3, <2>6
  <2> QED
    BY <2>4, <2>5, <2>6
<1>6. ASSUME NEW s \in Schedulers, SetNX(s)
      PROVE  Goal
  <2>1. UNCHANGED <<created, period, due, current>> /\ pc[s] = "lock"
    BY <1>6 DEF SetNX
  <2>2. pc' = [pc EXCEPT ![s] = "create"] \/ pc' = [pc EXCEPT ![s] = "topics"]
    BY <1>6 DEF SetNX
  <2>3. \E o \in Outcome : Costs(o)
    BY <1>6 DEF SetNX
  <2> QED
    BY <1>a, <1>c, <1>d, <2>1, <2>2, <2>3
<1>7. ASSUME NEW s \in Schedulers, CreateRun(s)
      PROVE  Goal
  <2> DEFINE t == current[s]
  <2>1. PICK o \in Outcome :
          /\ Costs(o)
          /\ IF o \in Performed
             THEN /\ created' = [created EXCEPT ![s][t] = @ + 1]
                  /\ due' = due \ {t}
             ELSE UNCHANGED <<created, due>>
    BY <1>7 DEF CreateRun, DueAfterCreate
  <2>2. /\ pc[s] = "create" /\ t \in Topics
        /\ pc' = [pc EXCEPT ![s] = "topics"]
        /\ UNCHANGED <<period, current>>
    BY <1>7 DEF CreateRun, TypeOK, TickOK
  <2>3. faults' \in Nat /\ faults <= faults'
    BY <1>c, <2>1
  <2> HIDE DEF t
  <2>4. CASE o \notin Performed
    BY <1>a, <1>d, <2>1, <2>2, <2>3, <2>4
  <2>5. CASE o \in Performed /\ r = s /\ u = t
    <3>1. created[r][u] + 1 <= period[u] + faults
      BY <1>b, <2>2, <2>5 DEF t
    <3>2. created'[r][u] = created[r][u] + 1
      BY <1>a, <2>1, <2>2, <2>5
    <3>3. u \notin due' /\ pc'[r] = "topics" /\ period'[u] = period[u]
      BY <1>a, <2>1, <2>2, <2>5
    <3> QED
      BY <1>a, <2>3, <3>1, <3>2, <3>3
  <2>6. CASE o \in Performed /\ ~(r = s /\ u = t)
    <3>1. created'[r][u] = created[r][u]
      BY <1>a, <2>1, <2>2, <2>6
    <3>2. /\ due' \subseteq due /\ period' = period /\ current' = current
          /\ pc'[r] \in {"lock", "create"} => pc[r] \in {"lock", "create"}
      BY <1>a, <2>1, <2>2, <2>6
    <3> QED
      BY <1>a, <1>b, <2>3, <3>1, <3>2
  <2> QED
    BY <2>4, <2>5, <2>6
<1>8. ASSUME NEW s \in Schedulers, EndOfLoop(s) \/ TickDone(s) \/ Crash(s)
      PROVE  Goal
  <2>1. UNCHANGED <<created, period, due>>
    BY <1>8 DEF EndOfLoop, TickDone, Crash
  <2>2. faults' \in Nat /\ faults <= faults'
    BY <1>a, <1>8 DEF EndOfLoop, TickDone, Crash
  <2>3. pc' = [pc EXCEPT ![s] = "unlock"] \/ pc' = [pc EXCEPT ![s] = "idle"]
    BY <1>8 DEF EndOfLoop, TickDone, Crash
  <2>4. current' = current \/ current' = [current EXCEPT ![s] = None]
    BY <1>8 DEF EndOfLoop, TickDone, Crash
  <2> QED
    BY <1>a, <1>d, <2>1, <2>2, <2>3, <2>4
<1>9. ASSUME NEW s \in Schedulers, NEW t \in Topics, Unlock(s, t)
      PROVE  Goal
  <2>1. UNCHANGED <<created, period, due, pc, current>> /\ \E o \in Outcome : Costs(o)
    BY <1>9 DEF Unlock
  <2> QED
    BY <1>c, <1>d, <2>1
<1> QED
  BY <1>1, <1>2, <1>3, <1>4, <1>5, <1>6, <1>7, <1>8, <1>9 DEF Next, Run

\* However many schedulers there are, each creates at most one run for every
\* time a topic fell due, and one more for every failed call.
THEOREM DuplicatesAreBounded == Spec => []BoundedDuplicates
<1>1. Init => DuplicateInv
  BY SchedulerAssumption DEF Init, DuplicateInv
<1>2. DuplicateInv => BoundedDuplicates
  BY DEF DuplicateInv, BoundedDuplicates
<1> QED
  BY <1>1, <1>2, TypeCorrect, DuplicateStep, PTL DEF Spec
=============================================================================
