----------------------------- MODULE Scheduler -----------------------------
(***************************************************************************)
(* The cron scheduler inside every API server (internal/server/            *)
(* scheduler.go).  Once an hour each server walks the topics, asks         *)
(* Postgres when a topic ran last, takes a Redis lock with a time to live  *)
(* and creates the run.  An action is one call to Postgres or Redis with   *)
(* the local code up to the next.  Clocks appear as due: whether isDue     *)
(* would say yes of the latest run time the database holds.                *)
(***************************************************************************)
EXTENDS Naturals, FiniteSets

CONSTANTS
  Schedulers,  \* API server processes
  Topics,
  None,
  MaxPeriods,  \* bound: how often each topic falls due
  MaxFaults    \* bound: calls that fail or lose their reply, and crashes

ASSUME SchedulerAssumption ==
  /\ None \notin Schedulers \cup Topics
  /\ MaxPeriods \in [Topics -> Nat]
  /\ MaxFaults \in Nat

VARIABLES
  due,         \* topics isDue answers yes for
  period,      \* how often a topic has fallen due
  created,     \* runs a scheduler has created for a topic
  lock,        \* sched:lock:<topic>: whose SetNX wrote it, or None
  overrun,     \* topics whose lock expired before the tick that took it ended
  pc,          \* next step of the goroutine of Start
  todo,        \* topics the tick has not reached
  current,     \* the topic of the iteration
  deferred,    \* locks the tick deletes when it returns
  faults

topicVars == <<due, period, created>>
lockVars == <<lock, overrun>>
tickVars == <<pc, todo, current, deferred>>
vars == <<topicVars, lockVars, tickVars, faults>>

\* Nothing is left of a tick that has returned.
TickOK(s) ==
  /\ pc[s] \in {"idle", "unlock"} => todo[s] = {}
  /\ pc[s] = "idle" => deferred[s] = {}
  /\ pc[s] \in {"lock", "create"} => current[s] \in Topics

TypeOK ==
  /\ due \subseteq Topics
  /\ period \in [Topics -> Nat]
  /\ created \in [Schedulers -> [Topics -> Nat]]
  /\ lock \in [Topics -> Schedulers \cup {None}]
  /\ overrun \subseteq Topics
  /\ pc \in [Schedulers -> {"idle", "topics", "lock", "create", "unlock"}]
  /\ todo \in [Schedulers -> SUBSET Topics]
  /\ current \in [Schedulers -> Topics \cup {None}]
  /\ deferred \in [Schedulers -> SUBSET Topics]
  /\ faults \in 0..MaxFaults
  /\ \A s \in Schedulers : TickOK(s)

\* A topic that never ran is due.
Init ==
  /\ due \in SUBSET Topics
  /\ period = [t \in Topics |-> IF t \in due THEN 1 ELSE 0]
  /\ created = [s \in Schedulers |-> [t \in Topics |-> 0]]
  /\ lock = [t \in Topics |-> None]
  /\ overrun = {}
  /\ pc = [s \in Schedulers |-> "idle"]
  /\ todo = [s \in Schedulers |-> {}]
  /\ current = [s \in Schedulers |-> None]
  /\ deferred = [s \in Schedulers |-> {}]
  /\ faults = 0

\* How a call ends: done, not done, or done with its reply lost.
Outcome == {"ok", "failed", "lost"}
Performed == {"ok", "lost"}
Costs(o) ==
  /\ o # "ok" => faults < MaxFaults
  /\ faults' = IF o = "ok" THEN faults ELSE faults + 1

-----------------------------------------------------------------------------
(* What happens outside the schedulers.                                     *)

\* The time of a topic's schedule is over.
FallDue(t) ==
  /\ t \notin due /\ period[t] < MaxPeriods[t]
  /\ due' = due \cup {t}
  /\ period' = [period EXCEPT ![t] = @ + 1]
  /\ UNCHANGED <<created, lockVars, tickVars, faults>>

\* A run of the topic is triggered by hand, or one finishes.
RunElsewhere(t) ==
  /\ t \in due
  /\ due' = due \ {t}
  /\ UNCHANGED <<period, created, lockVars, tickVars, faults>>

\* Mutant: a lock without a time to live.
ExpiresNever(t) == FALSE
Expires(t) == lock[t] # None

\* Two minutes after SetNX, with the tick that took the lock over or not.
Expire(t) ==
  /\ Expires(t)
  /\ lock' = [lock EXCEPT ![t] = None]
  /\ overrun' = IF t \in deferred[lock[t]] THEN overrun \cup {t} ELSE overrun
  /\ UNCHANGED <<topicVars, tickVars, faults>>

-----------------------------------------------------------------------------
(* One tick.                                                                *)

Tick(s) ==
  /\ pc[s] = "idle"
  /\ \E o \in Outcome :
       /\ Costs(o)
       /\ IF o = "ok"
          THEN /\ pc' = [pc EXCEPT ![s] = "topics"]
               /\ todo' = [todo EXCEPT ![s] = Topics]
          ELSE UNCHANGED <<pc, todo>>
  /\ UNCHANGED <<topicVars, lockVars, current, deferred>>

\* isDue says yes when LatestRunTime fails: its error is dropped and no time
\* means that the topic never ran.
LoadDue(s, t) ==
  /\ pc[s] = "topics" /\ t \in todo[s]
  /\ todo' = [todo EXCEPT ![s] = @ \ {t}]
  /\ current' = [current EXCEPT ![s] = t]
  /\ \E o \in {"ok", "failed"} :
       /\ Costs(o)
       /\ pc' = [pc EXCEPT ![s] = IF o = "failed" \/ t \in due THEN "lock" ELSE "topics"]
  /\ UNCHANGED <<topicVars, lockVars, deferred>>

\* Mutant: SET instead of SET NX.
FreeAlways(t) == TRUE
Free(t) == lock[t] = None

\* A lost reply leaves a lock that only its time to live removes.
SetNX(s) ==
  LET t == current[s] IN
  /\ pc[s] = "lock"
  /\ \E o \in Outcome :
       /\ Costs(o)
       /\ lock' = IF o \in Performed /\ Free(t) THEN [lock EXCEPT ![t] = s] ELSE lock
       /\ IF o = "ok" /\ Free(t)
          THEN /\ deferred' = [deferred EXCEPT ![s] = @ \cup {t}]
               /\ pc' = [pc EXCEPT ![s] = "create"]
          ELSE /\ UNCHANGED deferred
               /\ pc' = [pc EXCEPT ![s] = "topics"]
  /\ UNCHANGED <<topicVars, overrun, todo, current>>

\* Mutant: only runs that have finished count for the latest run time.
DueStill(t) == due
\* started_at of the new run is the latest run time.
DueAfterCreate(t) == due \ {t}

CreateRun(s) ==
  LET t == current[s] IN
  /\ pc[s] = "create"
  /\ \E o \in Outcome :
       /\ Costs(o)
       /\ IF o \in Performed
          THEN /\ created' = [created EXCEPT ![s][t] = @ + 1]
               /\ due' = DueAfterCreate(t)
          ELSE UNCHANGED <<created, due>>
  /\ pc' = [pc EXCEPT ![s] = "topics"]
  /\ UNCHANGED <<period, lockVars, todo, current, deferred>>

EndOfLoop(s) ==
  /\ pc[s] = "topics" /\ todo[s] = {}
  /\ pc' = [pc EXCEPT ![s] = "unlock"]
  /\ UNCHANGED <<topicVars, lockVars, todo, current, deferred, faults>>

\* Del does not ask whose lock it is, and nobody asks whether it worked.
Unlock(s, t) ==
  /\ pc[s] = "unlock" /\ t \in deferred[s]
  /\ deferred' = [deferred EXCEPT ![s] = @ \ {t}]
  /\ \E o \in Outcome :
       /\ Costs(o)
       /\ lock' = IF o \in Performed THEN [lock EXCEPT ![t] = None] ELSE lock
  /\ UNCHANGED <<topicVars, overrun, pc, todo, current>>

\* Mutant: the tick returns with locks it has not deleted.
AllUnlockedAlways(s) == TRUE
AllUnlocked(s) == deferred[s] = {}

TickDone(s) ==
  /\ pc[s] = "unlock" /\ AllUnlocked(s)
  /\ pc' = [pc EXCEPT ![s] = "idle"]
  /\ current' = [current EXCEPT ![s] = None]
  /\ UNCHANGED <<topicVars, lockVars, todo, deferred, faults>>

\* The server ends and another takes its place; its locks stay in Redis.
Crash(s) ==
  /\ pc[s] # "idle" /\ faults < MaxFaults
  /\ faults' = faults + 1
  /\ pc' = [pc EXCEPT ![s] = "idle"]
  /\ todo' = [todo EXCEPT ![s] = {}]
  /\ current' = [current EXCEPT ![s] = None]
  /\ deferred' = [deferred EXCEPT ![s] = {}]
  /\ UNCHANGED <<topicVars, lockVars>>

-----------------------------------------------------------------------------
Run(s) ==
  \/ Tick(s)
  \/ \E t \in Topics : LoadDue(s, t)
  \/ SetNX(s) \/ CreateRun(s) \/ EndOfLoop(s)
  \/ \E t \in Topics : Unlock(s, t)
  \/ TickDone(s)

Next ==
  \/ \E t \in Topics : FallDue(t) \/ RunElsewhere(t) \/ Expire(t)
  \/ \E s \in Schedulers : Run(s) \/ Crash(s)

Spec == Init /\ [][Next]_vars

\* The ticker never stops, a tick goes on to its end, Redis drops what has
\* expired.
FairSpec ==
  /\ Spec
  /\ \A s \in Schedulers : WF_vars(Run(s))
  /\ \A t \in Topics : WF_vars(Expire(t))

-----------------------------------------------------------------------------
(* Properties.                                                              *)

\* As long as no tick outlasts its lock, a topic is between SetNX and Del in
\* one tick at a time, whatever fails or crashes.
OneHolder ==
  \A s \in Schedulers : \A t \in deferred[s] \ overrun : lock[t] = s

\* "distributed lock to avoid duplicate runs": what it really avoids.  A run
\* time read before the lock was taken may be stale, but it costs one run of
\* each scheduler at most for every time the topic fell due, and one for
\* every LatestRunTime that failed; slow ticks and lost locks cost no more.
BoundedDuplicates ==
  \A s \in Schedulers : \A t \in Topics : created[s][t] <= period[t] + faults

\* The comment taken at its word, for locks that do not expire too early: as
\* many runs as the topic fell due.
NoDuplicateRuns ==
  \A t \in Topics \ overrun : \A s, r \in Schedulers :
    s # r => created[s][t] + created[r][t] <= period[t]

\* A topic that is due gets a run, also when a scheduler has crashed with
\* the topic's lock in Redis, or lost a call.
EventuallyFired == \A t \in Topics : t \in due ~> t \notin due
=============================================================================
