----------------------------- MODULE RunWorker -----------------------------
(***************************************************************************)
(* The run worker (internal/worker, cmd/worker): several worker processes  *)
(* share the consumer group of the Redis stream run.enqueued, record what  *)
(* they did in Postgres (idempotency keys, run rows, approval requests,    *)
(* checkpoints) and publish task.dispatch messages.                        *)
(*                                                                         *)
(* One action is one call to Postgres or Redis together with the local     *)
(* code up to the next call, so every interleaving of two processes, of a  *)
(* process and its goroutines, and every crash between two calls is a      *)
(* behaviour.  A worker w is its own main goroutine; the goroutines it     *)
(* starts when maxConcurrency > 1 are the Slots it owns, one for each      *)
(* permit of its semaphore.                                                *)
(***************************************************************************)
EXTENDS Naturals, FiniteSets

CONSTANTS
  Workers,          \* worker processes
  Slots,            \* semaphore permits of the workers with maxConcurrency > 1
  SlotOwner,        \* the worker a permit belongs to
  Entries,          \* entries of the run.enqueued stream
  Undecodable,      \* the entries decodeMessage rejects
  Events,           \* event_ids of the envelopes
  EntryEvent,       \* the event an entry carries: XADD retried by a producer
                    \* leaves two entries with one event
  Runs, Topics,
  PayloadRun,       \* run_id of an event's payload, None when absent
  PayloadTopic,     \* topic_id of an event's payload, Blank when empty
  Garbled,          \* events whose payload does not unmarshal
  Anonymous,        \* runs whose payload has no user_id
  None, Blank,
  ReadBatchSize,    \* WithReadBatchSize
  PeriodicResume,   \* resumeInterval > 0
  BackpressureLimit,\* WithBackpressureThreshold, 0 disables
  MaxEdits,         \* bound: edits of topic budgets while the workers run
  MaxFaults,        \* bound: calls that fail or lose their reply, and crashes
  MaxSent           \* bound: task.dispatch messages for one run; ResumePending
                    \* publishes no more than this

Thread == Workers \cup Slots
TopicIds == Topics \cup {Blank}

ASSUME ThreadAssumption ==
  /\ Workers \cap Slots = {}
  /\ None \notin Thread \cup Entries \cup Runs \cup TopicIds \cup Events
  /\ Blank \notin Topics
  /\ SlotOwner \in [Slots -> Workers]

ASSUME PayloadAssumption ==
  /\ Undecodable \subseteq Entries
  /\ EntryEvent \in [Entries -> Events]
  /\ PayloadRun \in [Events -> Runs \cup {None}]
  /\ PayloadTopic \in [Events -> TopicIds]
  /\ Garbled \subseteq Events
  /\ Anonymous \subseteq Runs

\* A row of runs has one topic: who names a run names the topic it is of, or
\* leaves it blank every time.
ASSUME TopicAssumption ==
  \A u, v \in Events :
    PayloadRun[u] = PayloadRun[v] /\ PayloadRun[u] # None => PayloadTopic[u] = PayloadTopic[v]

ASSUME BoundAssumption ==
  /\ ReadBatchSize \in Nat \ {0}
  /\ BackpressureLimit \in Nat
  /\ MaxEdits \in Nat
  /\ MaxFaults \in Nat
  /\ MaxSent \in Nat
  /\ PeriodicResume \in BOOLEAN

VARIABLES
  \* Redis: stream run.enqueued with its consumer group, stream task.dispatch
  grouped,     \* EnsureGroup has created the group
  entry,       \* where each entry of run.enqueued stands
  idle,        \* pending entries not touched for five minutes
  primary,     \* task.dispatch messages published by the handler of an event
  sent,        \* all task.dispatch messages of a run
  announced,   \* runs with a budget.approval.requested message
  \* Postgres
  claimed,     \* idempotency_keys
  runStatus,   \* runs.status
  approval,    \* run_budget_approvals: the row of a run, or None
  received,    \* queue_checkpoints, stage run.enqueued: the topic, or None
  checkpoint,  \* queue_checkpoints, stage bootstrap.dispatch, or NoCheckpoint
  requireApproval, \* topic budget in force with require_approval
  edits,       \* edits of topic budgets so far
  deciding,    \* runs whose request is resolved, by a handler of the API server
               \* that has yet to set their status
  free,        \* history: the goroutines with a topic that, at some moment since
               \* they took up the event or the checkpoint, was free of approval
  \* worker processes
  pc,          \* next step of each goroutine
  job,         \* the entry, run and topic a goroutine works on
  batch,       \* entries read and not yet handed to a goroutine
  reclaimed,   \* entries auto-claimed and not yet handled
  todo,        \* checkpoints listed by ResumePending and not yet visited
  snap,        \* the listed checkpoint being resumed
  faults       \* faults so far

streamVars == <<grouped, entry, idle>>
taskVars   == <<primary, sent, announced>>
dbVars     == <<claimed, runStatus, approval, received, checkpoint>>
userVars   == <<requireApproval, edits, deciding, free>>
mainVars   == <<batch, reclaimed, todo, snap>>
vars == <<streamVars, taskVars, dbVars, userVars, pc, job, mainVars, faults>>

-----------------------------------------------------------------------------
(* Types *)

EntryState == {"unsent", "missed", "queued", "pending", "acked"}
\* "decided" is the running or the rejected of a decision: what comes of it is
\* in RunLifecycle.
RunStatus  == {"absent", "pending", "pending_approval", "decided"}
Request    == [topic : Topics, status : {"pending", "decided"}]
ASSUME RequestAssumption == None \notin [topic : TopicIds, status : {"pending", "decided"}]

NoCheckpoint == [status |-> "none", event |-> None, retries |-> 0]
\* The bootstrap.dispatch checkpoint; its token is "bootstrap:<event>:<run>".
Checkpoint == [status : {"dispatched", "completed"}, event : Events, retries : Nat]
Listed     == [run : Runs, event : Events, retries : Nat]
ASSUME ListedAssumption == None \notin Listed

Job   == [entry : Entries \cup {None}, run : Runs \cup {None},
          topic : TopicIds \cup {None}]
NoJob == [entry |-> None, run |-> None, topic |-> None]

GateSteps    == {"policy", "mark", "find", "request", "announce"}
HandlerSteps == {"create", "receive", "start", "publish", "fail"}
ResumeSteps  == {"list", "pick", "redispatch", "bump", "settle", "autoclaim"}
Step == GateSteps \cup HandlerSteps \cup ResumeSteps
          \cup {"down", "idle", "loop", "claim", "ack"}

TypeOK ==
  /\ grouped \in BOOLEAN
  /\ entry \in [Entries -> EntryState]
  /\ idle \subseteq Entries
  /\ primary \in [Events -> Nat]
  /\ sent \in [Runs -> Nat]
  /\ announced \subseteq Runs
  /\ claimed \subseteq Events
  /\ runStatus \in [Runs -> RunStatus]
  /\ approval \in [Runs -> Request \cup {None}]
  /\ received \in [Runs -> TopicIds \cup {None}]
  /\ checkpoint \in [Runs -> Checkpoint \cup {NoCheckpoint}]
  /\ requireApproval \in [Topics -> BOOLEAN]
  /\ edits \in 0..MaxEdits
  /\ deciding \subseteq Runs
  /\ free \subseteq Thread
  /\ pc \in [Thread -> Step]
  /\ job \in [Thread -> Job]
  /\ batch \in [Workers -> SUBSET Entries]
  /\ reclaimed \in [Workers -> SUBSET Entries]
  /\ todo \in [Workers -> SUBSET Listed]
  /\ snap \in [Workers -> Listed \cup {None}]
  /\ faults \in 0..MaxFaults

Init ==
  /\ grouped = FALSE
  /\ entry = [e \in Entries |-> "unsent"]
  /\ idle = {}
  /\ primary = [v \in Events |-> 0]
  /\ sent = [r \in Runs |-> 0]
  /\ announced = {}
  /\ claimed = {}
  \* The producer of an event with a run_id has created that run.
  /\ runStatus = [r \in Runs |-> IF \E v \in Events : PayloadRun[v] = r
                                 THEN "pending" ELSE "absent"]
  /\ approval = [r \in Runs |-> None]
  /\ received = [r \in Runs |-> None]
  /\ checkpoint = [r \in Runs |-> NoCheckpoint]
  /\ requireApproval \in [Topics -> BOOLEAN]
  /\ edits = 0
  /\ deciding = {}
  /\ free = {}
  /\ pc = [t \in Thread |-> IF t \in Workers THEN "down" ELSE "idle"]
  /\ job = [t \in Thread |-> NoJob]
  /\ batch = [w \in Workers |-> {}]
  /\ reclaimed = [w \in Workers |-> {}]
  /\ todo = [w \in Workers |-> {}]
  /\ snap = [w \in Workers |-> None]
  /\ faults = 0

-----------------------------------------------------------------------------
(* How a call to Postgres or Redis ends: "ok"; "lost", performed but its    *)
(* caller sees an error (a reply lost, a context cancelled); "failed", not  *)
(* performed.                                                               *)

Outcome == {"ok", "lost", "failed"}
Performed(o) == o # "failed"
Spend(o) == IF o = "ok" THEN faults' = faults
                        ELSE faults < MaxFaults /\ faults' = faults + 1

\* Postgres refuses a row whose topic_id or requested_by is no UUID.
Insert(uuids, o) == IF uuids THEN Spend(o) ELSE o = "failed" /\ UNCHANGED faults

Goto(t, step) == pc' = [pc EXCEPT ![t] = step]
SlotsOf(w)    == {s \in Slots : SlotOwner[s] = w}
Synchronous(w) == SlotsOf(w) = {}
EventOf(t)    == EntryEvent[job[t].entry]
Resuming(t)   == job[t].entry = None
\* Where a goroutine goes when it has nothing more to do for an entry.
Rest(t)       == IF t \in Workers THEN "loop" ELSE "idle"
PendingEntries == {e \in Entries : entry[e] = "pending"}

-----------------------------------------------------------------------------
(* Surroundings: producers of run.enqueued, the passing of time, users.     *)

\* The group starts at "$": it never delivers what was added before it.
Enqueue(e) ==
  /\ entry[e] = "unsent"
  /\ entry' = [entry EXCEPT ![e] = IF grouped THEN "queued" ELSE "missed"]
  /\ UNCHANGED <<grouped, idle, taskVars, dbVars, userVars, pc, job,
                 mainVars, faults>>

Age(e) ==
  /\ entry[e] = "pending" /\ e \notin idle
  /\ idle' = idle \cup {e}
  /\ UNCHANGED <<grouped, entry, taskVars, dbVars, userVars, pc, job,
                 mainVars, faults>>

EditBudget(tp) ==
  /\ edits < MaxEdits /\ edits' = edits + 1
  /\ requireApproval' = [requireApproval EXCEPT ![tp] = ~@]
  /\ free' = IF requireApproval[tp] THEN free \cup {t \in Thread : job[t].topic = tp}
                                    ELSE free
  /\ UNCHANGED <<streamVars, taskVars, dbVars, deciding, pc, job, mainVars, faults>>

Asks(r, tp)    == approval[r] = [topic |-> tp, status |-> "pending"]
Decided(r, tp) == approval[r] = [topic |-> tp, status |-> "decided"]

\* budgetDecision on the tables it shares with the workers: the request first,
\* then the status of its run.  It takes the oldest pending request of a topic
\* only, here any; and what a failing handler leaves undone nobody repeats.
ResolveBudgetApproval(r) ==
  /\ r \notin deciding
  /\ \E tp \in Topics, o \in {"ok", "lost"} :
       /\ Asks(r, tp) /\ Spend(o)
       /\ approval' = [approval EXCEPT ![r].status = "decided"]
       /\ deciding' = IF o = "ok" THEN deciding \cup {r} ELSE deciding
  /\ UNCHANGED <<streamVars, taskVars, claimed, runStatus, received, checkpoint,
                 requireApproval, edits, free, pc, job, mainVars>>

SetDecidedStatus(r) ==
  /\ r \in deciding
  /\ \E o \in Outcome :
       /\ Spend(o)
       /\ runStatus' = IF Performed(o) THEN [runStatus EXCEPT ![r] = "decided"]
                                       ELSE runStatus
  /\ deciding' = deciding \ {r}
  /\ UNCHANGED <<streamVars, taskVars, claimed, approval, received, checkpoint,
                 requireApproval, edits, free, pc, job, mainVars>>

-----------------------------------------------------------------------------
(* Life of a worker process.                                                *)

StartWorker(w) ==
  /\ pc[w] = "down"
  /\ grouped' = TRUE
  /\ Goto(w, "list")
  /\ UNCHANGED <<entry, idle, taskVars, dbVars, userVars, job, mainVars,
                 faults>>

\* What a process forgets when it ends.
Forget(w) ==
  LET own == {w} \cup SlotsOf(w) IN
  /\ pc' = [t \in Thread |-> IF t = w THEN "down"
                             ELSE IF t \in own THEN "idle" ELSE pc[t]]
  /\ job' = [t \in Thread |-> IF t \in own THEN NoJob ELSE job[t]]
  /\ free' = free \ own
  /\ batch' = [batch EXCEPT ![w] = {}]
  /\ reclaimed' = [reclaimed EXCEPT ![w] = {}]
  /\ todo' = [todo EXCEPT ![w] = {}]
  /\ snap' = [snap EXCEPT ![w] = None]

\* SIGTERM: the main loop waits for its goroutines; one waiting for a permit
\* drops the rest of its batch, which stays pending in the group.
StopWorker(w) ==
  /\ pc[w] = "loop" /\ reclaimed[w] = {}
  /\ batch[w] # {} => ~Synchronous(w)
  /\ \A s \in SlotsOf(w) : pc[s] = "idle"
  /\ Forget(w)
  /\ UNCHANGED <<streamVars, taskVars, dbVars, requireApproval, edits, deciding,
                 faults>>

CrashWorker(w) ==
  /\ pc[w] # "down"
  /\ faults < MaxFaults /\ faults' = faults + 1
  /\ Forget(w)
  /\ UNCHANGED <<streamVars, taskVars, dbVars, requireApproval, edits, deciding>>

-----------------------------------------------------------------------------
(* The main loop: Processor.Start.                                          *)

AtLoop(w) == pc[w] = "loop" /\ reclaimed[w] = {} /\ batch[w] = {}

\* LagMetrics counts the pending entries of the whole group; when it fails the
\* loop reads all the same.
Backpressure == BackpressureLimit > 0
                  /\ Cardinality(PendingEntries) >= BackpressureLimit

MayRead(m) == IF m = "ok" THEN ~Backpressure ELSE BackpressureLimit > 0

\* XREADGROUP with ">": entries become pending; decodeMessage acks and drops
\* the ones it cannot decode.  A lost reply leaves them pending, unread.
Read(w) ==
  /\ AtLoop(w)
  /\ \E S \in SUBSET {e \in Entries : entry[e] = "queued"},
        m \in {"ok", "failed"}, o \in {"ok", "lost"} :
       /\ S # {} /\ Cardinality(S) <= ReadBatchSize
       /\ MayRead(m)
       /\ IF o = "ok" THEN Spend(m) ELSE m = "ok" /\ Spend(o)
       /\ entry' = [e \in Entries |-> IF e \notin S THEN entry[e]
                                      ELSE IF o = "ok" /\ e \in Undecodable
                                      THEN "acked" ELSE "pending"]
       /\ batch' = [batch EXCEPT ![w] = IF o = "ok" THEN S \ Undecodable ELSE {}]
  /\ UNCHANGED <<grouped, idle, taskVars, dbVars, userVars, pc, job,
                 reclaimed, todo, snap>>

Work(t, e) ==
  /\ Goto(t, "claim")
  /\ job' = [job EXCEPT ![t] = [entry |-> e, run |-> None, topic |-> None]]

\* A synchronous worker handles the batch itself, the others acquire a permit.
Hand(w) ==
  /\ pc[w] = "loop" /\ reclaimed[w] = {}
  /\ \E e \in batch[w] :
       /\ batch' = [batch EXCEPT ![w] = @ \ {e}]
       /\ \/ Synchronous(w) /\ Work(w, e)
          \/ \E s \in SlotsOf(w) : pc[s] = "idle" /\ Work(s, e)
  /\ UNCHANGED <<streamVars, taskVars, dbVars, userVars, reclaimed, todo,
                 snap, faults>>

\* ResumePending handles what it auto-claimed itself, before the loop goes on.
HandleReclaimed(w) ==
  /\ pc[w] = "loop"
  /\ \E e \in reclaimed[w] :
       /\ reclaimed' = [reclaimed EXCEPT ![w] = @ \ {e}]
       /\ Work(w, e)
  /\ UNCHANGED <<streamVars, taskVars, dbVars, userVars, batch, todo, snap,
                 faults>>

ResumeTick(w) ==
  /\ PeriodicResume /\ AtLoop(w)
  /\ Goto(w, "list")
  /\ UNCHANGED <<streamVars, taskVars, dbVars, userVars, job, mainVars,
                 faults>>

-----------------------------------------------------------------------------
(* handleRunEnqueued, up to the budget gate.                                *)

TakeUp(t, e, r, tp) ==
  /\ job' = [job EXCEPT ![t] = [entry |-> e, run |-> r, topic |-> tp]]
  /\ free' = IF tp \in Topics /\ ~requireApproval[tp] THEN free \cup {t}
                                                     ELSE free \ {t}

\* Mutant: the conflict is not looked at.
FirstClaimAlways(v) == TRUE

\* INSERT INTO idempotency_keys ... ON CONFLICT DO NOTHING RETURNING true
FirstClaim(v) == v \notin claimed

Claim(t) ==
  LET v == EventOf(t) IN
  /\ pc[t] = "claim"
  /\ \E o \in Outcome :
       /\ Spend(o)
       /\ claimed' = IF Performed(o) THEN claimed \cup {v} ELSE claimed
       /\ IF o = "ok" /\ FirstClaim(v) /\ v \notin Garbled
          THEN /\ TakeUp(t, job[t].entry, PayloadRun[v], PayloadTopic[v])
               /\ Goto(t, IF PayloadRun[v] = None THEN "create" ELSE "policy")
          ELSE Goto(t, "ack") /\ UNCHANGED <<job, free>>
  /\ UNCHANGED <<streamVars, taskVars, runStatus, approval, received, checkpoint,
                 requireApproval, edits, deciding, mainVars>>

\* Not without a topic_id.
CreateRun(t) ==
  /\ pc[t] = "create"
  /\ \E o \in Outcome, r \in {x \in Runs : runStatus[x] = "absent"} :
       /\ Insert(job[t].topic # Blank, o)
       /\ runStatus' = IF Performed(o) THEN [runStatus EXCEPT ![r] = "pending"]
                                       ELSE runStatus
       /\ IF o = "ok"
          THEN job' = [job EXCEPT ![t].run = r] /\ Goto(t, "policy")
          ELSE UNCHANGED job /\ Goto(t, "ack")
  /\ UNCHANGED <<streamVars, taskVars, claimed, approval, received, checkpoint,
                 userVars, mainVars>>

-----------------------------------------------------------------------------
(* enforceBudgetGate, called for an event and for a listed checkpoint.      *)

\* Mutant: the gate's answer is read the wrong way round.
GatePassHeld(t) == Goto(t, IF Resuming(t) THEN "settle" ELSE "ack")
GatePass(t)  == Goto(t, IF Resuming(t) THEN "redispatch" ELSE "receive")
GateSkip(t)  == Goto(t, IF Resuming(t) THEN "settle" ELSE "ack")
\* Mutant: the gate fails open.
GateErrorOpen(t) == Goto(t, IF Resuming(t) THEN "pick" ELSE "receive")
GateError(t) == Goto(t, IF Resuming(t) THEN "pick" ELSE "ack")

\* Without a topic there is no budget to look at: the gate lets the run pass.
LoadPolicy(t) ==
  LET tp == job[t].topic IN
  /\ pc[t] = "policy"
  /\ \/ tp = Blank /\ GatePass(t) /\ UNCHANGED faults
     \/ /\ tp # Blank
        /\ \E o \in {"ok", "failed"} :
             /\ Spend(o)
             /\ \/ o = "failed" /\ GateError(t)
                \/ o = "ok" /\ requireApproval[tp] /\ Goto(t, "mark")
                \/ o = "ok" /\ ~requireApproval[tp] /\ GatePass(t)
  /\ UNCHANGED <<streamVars, taskVars, dbVars, userVars, job, mainVars>>

MarkRunPendingApproval(t) ==
  /\ pc[t] = "mark"
  /\ \E o \in Outcome :
       /\ Spend(o)
       /\ runStatus' = IF Performed(o)
                       THEN [runStatus EXCEPT ![job[t].run] = "pending_approval"]
                       ELSE runStatus
       /\ IF o = "ok" THEN Goto(t, "find") ELSE GateError(t)
  /\ UNCHANGED <<streamVars, taskVars, claimed, approval, received, checkpoint,
                 userVars, job, mainVars>>

\* Mutant: parked runs are taken for approval requests.
ApprovalPendingByStatus(tp) == \E r \in Runs : runStatus[r] = "pending_approval"
ApprovalPending(tp) == \E r \in Runs : Asks(r, tp)

\* Any pending approval of the topic ends the gate; a failed lookup does not.
FindPendingApproval(t) ==
  /\ pc[t] = "find"
  /\ \E o \in {"ok", "failed"} :
       /\ Spend(o)
       /\ IF o = "ok" /\ ApprovalPending(job[t].topic)
          THEN GateSkip(t) ELSE Goto(t, "request")
  /\ UNCHANGED <<streamVars, taskVars, dbVars, userVars, job, mainVars>>

\* A row decided before is pending again.  Without a user_id the request is
\* "system"'s.
CreateBudgetApproval(t) ==
  LET r == job[t].run IN
  /\ pc[t] = "request"
  /\ \E o \in Outcome :
       /\ Insert(r \notin Anonymous, o)
       /\ approval' = IF Performed(o)
                      THEN [approval EXCEPT ![r] = [topic |-> job[t].topic,
                                                    status |-> "pending"]]
                      ELSE approval
       /\ IF o = "ok" THEN Goto(t, "announce") ELSE GateError(t)
  /\ UNCHANGED <<streamVars, taskVars, claimed, runStatus, received, checkpoint,
                 userVars, job, mainVars>>

\* A failed budget.approval.requested publish is logged only.
AnnounceApproval(t) ==
  /\ pc[t] = "announce"
  /\ \E o \in Outcome :
       /\ Spend(o)
       /\ announced' = IF Performed(o) THEN announced \cup {job[t].run} ELSE announced
  /\ GateSkip(t)
  /\ UNCHANGED <<streamVars, primary, sent, dbVars, userVars, job, mainVars>>

-----------------------------------------------------------------------------
(* handleRunEnqueued after the gate; the executor runs the one bootstrap    *)
(* task, with no retries.                                                   *)

AfterReceived(o) == IF o = "ok" THEN "start" ELSE "ack"

UpsertReceived(t) ==
  /\ pc[t] = "receive"
  /\ \E o \in Outcome :
       /\ Spend(o)
       /\ received' = IF Performed(o)
                      THEN [received EXCEPT ![job[t].run] = job[t].topic]
                      ELSE received
       /\ Goto(t, AfterReceived(o))
  /\ UNCHANGED <<streamVars, taskVars, claimed, runStatus, approval, checkpoint,
                 userVars, job, mainVars>>

SaveTaskStart(t) ==
  /\ pc[t] = "start"
  /\ \E o \in Outcome :
       /\ Spend(o)
       /\ checkpoint' =
            IF Performed(o)
            THEN [checkpoint EXCEPT ![job[t].run] =
                    [status |-> "dispatched", event |-> EventOf(t), retries |-> 0]]
            ELSE checkpoint
       /\ Goto(t, IF o = "ok" THEN "publish" ELSE "ack")
  /\ UNCHANGED <<streamVars, taskVars, claimed, runStatus, approval, received,
                 userVars, job, mainVars>>

RunTask(t) ==
  /\ pc[t] = "publish"
  /\ \E o \in Outcome :
       /\ Spend(o)
       /\ IF Performed(o)
          THEN /\ primary' = [primary EXCEPT ![EventOf(t)] = @ + 1]
               /\ sent' = [sent EXCEPT ![job[t].run] = @ + 1]
          ELSE UNCHANGED <<primary, sent>>
       /\ Goto(t, IF o = "ok" THEN "ack" ELSE "fail")
  /\ UNCHANGED <<streamVars, announced, dbVars, userVars, job, mainVars>>

\* Mutant: a status the checkpoints do not have.
FailedCheckpointNamed(v) == [status |-> "failed", event |-> v, retries |-> 1]
FailedCheckpoint(v) == [status |-> "completed", event |-> v, retries |-> 1]

SaveTaskFailure(t) ==
  /\ pc[t] = "fail"
  /\ \E o \in Outcome :
       /\ Spend(o)
       /\ checkpoint' =
            IF Performed(o)
            THEN [checkpoint EXCEPT ![job[t].run] = FailedCheckpoint(EventOf(t))]
            ELSE checkpoint
  /\ Goto(t, "ack")
  /\ UNCHANGED <<streamVars, taskVars, claimed, runStatus, approval, received,
                 userVars, job, mainVars>>

Drop(t) ==
  /\ job' = [job EXCEPT ![t] = NoJob]
  /\ free' = free \ {t}

\* After success and after any error alike.
Ack(t) ==
  /\ pc[t] = "ack"
  /\ \E o \in Outcome :
       /\ Spend(o)
       /\ IF Performed(o)
          THEN /\ entry' = [entry EXCEPT ![job[t].entry] = "acked"]
               /\ idle' = idle \ {job[t].entry}
          ELSE UNCHANGED <<entry, idle>>
  /\ Drop(t)
  /\ Goto(t, Rest(t))
  /\ UNCHANGED <<grouped, taskVars, dbVars, requireApproval, edits, deciding,
                 mainVars>>

-----------------------------------------------------------------------------
(* ResumePending.                                                           *)

ListCheckpoints(w) ==
  /\ pc[w] = "list"
  /\ \E o \in {"ok", "failed"} :
       /\ Spend(o)
       /\ todo' = [todo EXCEPT ![w] =
            IF o = "ok"
            THEN {[run |-> r, event |-> checkpoint[r].event,
                   retries |-> checkpoint[r].retries] :
                    r \in {x \in Runs : checkpoint[x].status = "dispatched"}}
            ELSE {}]
       /\ Goto(w, IF o = "ok" THEN "pick" ELSE "loop")
  /\ UNCHANGED <<streamVars, taskVars, dbVars, userVars, job, batch,
                 reclaimed, snap>>

\* buildResumePayload: the topic of the run.enqueued checkpoint; when that
\* cannot be read, whatever the free-form context snapshot holds.
ResumeTopic(c, o) ==
  IF o = "ok" /\ received[c.run] # None THEN {received[c.run]}
                                        ELSE {PayloadTopic[c.event], Blank}

PickCheckpoint(w) ==
  /\ pc[w] = "pick"
  /\ \E c \in todo[w], o \in {"ok", "failed"} : \E tp \in ResumeTopic(c, o) :
       /\ Spend(o)
       /\ todo' = [todo EXCEPT ![w] = @ \ {c}]
       /\ snap' = [snap EXCEPT ![w] = c]
       /\ TakeUp(w, None, c.run, tp)
       /\ Goto(w, "policy")
  /\ UNCHANGED <<streamVars, taskVars, dbVars, requireApproval, edits, deciding,
                 batch, reclaimed>>

\* Mutant: resuming ends with the checkpoints, nothing is reclaimed.
AllPickedNoReclaim(w) ==
  /\ pc[w] = "pick" /\ todo[w] = {}
  /\ snap' = [snap EXCEPT ![w] = None]
  /\ Drop(w)
  /\ Goto(w, "loop")
  /\ UNCHANGED <<streamVars, taskVars, dbVars, requireApproval, edits, deciding,
                 batch, reclaimed, todo, faults>>

AllPicked(w) ==
  /\ pc[w] = "pick" /\ todo[w] = {}
  /\ snap' = [snap EXCEPT ![w] = None]
  /\ Drop(w)
  /\ Goto(w, "autoclaim")
  /\ UNCHANGED <<streamVars, taskVars, dbVars, requireApproval, edits, deciding,
                 batch, reclaimed, todo, faults>>

\* Mutant: a failed publish counts as a retry.
AfterRedispatchAlways(o) == "bump"
AfterRedispatch(o) == IF o = "ok" THEN "bump" ELSE "pick"

\* The model's bound MaxSent appears as a publish that fails.
Redispatch(w) ==
  LET r == job[w].run IN
  /\ pc[w] = "redispatch"
  /\ \/ /\ sent[r] < MaxSent
        /\ \E o \in Outcome :
             /\ Spend(o)
             /\ sent' = IF Performed(o) THEN [sent EXCEPT ![r] = @ + 1] ELSE sent
             /\ Goto(w, AfterRedispatch(o))
     \/ /\ sent[r] >= MaxSent
        /\ Goto(w, "pick")
        /\ UNCHANGED <<sent, faults>>
  /\ UNCHANGED <<streamVars, primary, announced, dbVars, userVars, job,
                 mainVars>>

\* The listed checkpoint is written back whole, with one more retry.
BumpRetries(w) ==
  LET c == snap[w] IN
  /\ pc[w] = "bump"
  /\ \E o \in Outcome :
       /\ Spend(o)
       /\ checkpoint' =
            IF Performed(o)
            THEN [checkpoint EXCEPT ![c.run] = [status |-> "dispatched",
                    event |-> c.event, retries |-> c.retries + 1]]
            ELSE checkpoint
  /\ Goto(w, "pick")
  /\ UNCHANGED <<streamVars, taskVars, claimed, runStatus, approval, received,
                 userVars, job, mainVars>>

\* The gate held the run back: its checkpoint is closed.
SettleSkipped(w) ==
  /\ pc[w] = "settle"
  /\ \E o \in Outcome :
       /\ Spend(o)
       /\ checkpoint' = IF Performed(o) /\ checkpoint[job[w].run] # NoCheckpoint
                        THEN [checkpoint EXCEPT ![job[w].run].status = "completed"]
                        ELSE checkpoint
  /\ Goto(w, "pick")
  /\ UNCHANGED <<streamVars, taskVars, claimed, runStatus, approval, received,
                 userVars, job, mainVars>>

\* XAUTOCLAIM takes every entry idle for five minutes, whoever held it and
\* even while its holder still works on it.
AutoClaim(w) ==
  /\ pc[w] = "autoclaim"
  /\ \E o \in Outcome :
       /\ Spend(o)
       /\ idle' = IF Performed(o) THEN {} ELSE idle
       /\ entry' = [e \in Entries |-> IF o = "ok" /\ e \in idle \cap Undecodable
                                      THEN "acked" ELSE entry[e]]
       /\ reclaimed' = [reclaimed EXCEPT ![w] =
                           IF o = "ok" THEN idle \ Undecodable ELSE {}]
  /\ Goto(w, "loop")
  /\ UNCHANGED <<grouped, taskVars, dbVars, userVars, job, batch, todo, snap>>

-----------------------------------------------------------------------------
(* Specification.                                                           *)

Handle(t) ==
  \/ Claim(t) \/ CreateRun(t)
  \/ LoadPolicy(t) \/ MarkRunPendingApproval(t) \/ FindPendingApproval(t)
  \/ CreateBudgetApproval(t) \/ AnnounceApproval(t)
  \/ UpsertReceived(t) \/ SaveTaskStart(t) \/ RunTask(t) \/ SaveTaskFailure(t)
  \/ Ack(t)

ResumePending(w) ==
  \/ ListCheckpoints(w) \/ PickCheckpoint(w) \/ AllPicked(w)
  \/ Redispatch(w) \/ BumpRetries(w) \/ SettleSkipped(w) \/ AutoClaim(w)

Next ==
  \/ \E e \in Entries : Enqueue(e) \/ Age(e)
  \/ \E tp \in Topics : EditBudget(tp)
  \/ \E r \in Runs : ResolveBudgetApproval(r) \/ SetDecidedStatus(r)
  \/ \E t \in Thread : Handle(t)
  \/ \E w \in Workers :
       \/ StartWorker(w) \/ StopWorker(w) \/ CrashWorker(w)
       \/ Read(w) \/ Hand(w) \/ HandleReclaimed(w) \/ ResumeTick(w)
       \/ ResumePending(w)

Spec == Init /\ [][Next]_vars

\* Goroutines keep running, ended processes are started again, time passes.
\* Read needs strong fairness: the resume ticker takes the loop away from it
\* again and again, but a tick is not ready every time the loop selects.
Fairness ==
  /\ \A t \in Thread : WF_vars(Handle(t))
  /\ \A w \in Workers :
       /\ WF_vars(StartWorker(w)) /\ WF_vars(ResumePending(w))
       /\ WF_vars(ResumeTick(w)) /\ WF_vars(Hand(w)) /\ WF_vars(HandleReclaimed(w))
       /\ SF_vars(Read(w))
  /\ \A e \in Entries : WF_vars(Age(e))

FairSpec == Spec /\ Fairness

-----------------------------------------------------------------------------
(* Properties.                                                              *)

\* Goroutine t has an entry of event v in its hands.
Handling(t, v) == job[t].entry # None /\ EventOf(t) = v

\* An event leads its handlers to publish at most one task.dispatch message,
\* however often its entry is delivered, duplicated or auto-claimed while a
\* slow holder still works on it (ClaimIdempotency guards handleRunEnqueued).
AtMostOnePrimary == \A v \in Events : primary[v] <= 1

\* A run with a task on the stream has both checkpoints, so a restarted
\* worker can find it (SaveTaskStart comes before RunTask).
CheckpointedBeforeDispatch ==
  \A r \in Runs : sent[r] > 0 => checkpoint[r] # NoCheckpoint /\ received[r] # None

\* The topic of a run that has both its checkpoints.
Recorded(r) == IF checkpoint[r] = NoCheckpoint THEN None ELSE received[r]
Promise == INSTANCE Dispatch WITH Topics <- TopicIds, taken <- claimed,
                                  record <- [r \in Runs |-> Recorded(r)]

\* The workers keep the promise of Dispatch: one message at most for an event,
\* whatever is redelivered or reclaimed, for the run and topic it names, and
\* none for a run that a restarted worker could not find under its topic.
KeepsPromise == Promise!Spec

\* A dispatched checkpoint never counts more retries than messages were
\* published, although workers write stale copies back over each other.
RetriesCovered ==
  \A r \in Runs : checkpoint[r].status = "dispatched" =>
                     checkpoint[r].retries <= sent[r]

\* The event whose handler, or whose checkpoint, has t at work.
Source(t) == IF Resuming(t) THEN snap[t].event ELSE EventOf(t)

\* However users edit the budget and whatever fails, who is about to dispatch
\* a run, as a new event or on resume, has had a moment since it took the run
\* up when its topic asked for no approval; but the gate lets pass what has no
\* topic_id: an event that came without, and a checkpoint whose payload could
\* not be read back.
ApprovalRespected ==
  \A t \in Thread :
    pc[t] \in {"receive", "start", "publish", "redispatch"} =>
      \/ t \in free
      \/ /\ job[t].topic = Blank
         /\ PayloadTopic[Source(t)] = Blank \/ (Resuming(t) /\ faults > 0)

\* Without a fault, an event whose entry is acked and that nobody works on
\* has been dispatched, or is parked for approval or decided about:
\* processMessageSync acks whatever happened, so this is all that an ack can
\* promise.
NoSilentLoss ==
  faults = 0 =>
    \A e \in Entries \ Undecodable :
      LET v == EntryEvent[e] IN
      /\ entry[e] = "acked" /\ PayloadRun[v] # None /\ v \notin Garbled
      /\ \A t \in Thread : ~Handling(t, v)
      => \/ primary[v] = 1
         \/ runStatus[PayloadRun[v]] \in {"pending_approval", "decided"}

\* Without a fault, once its gate is through a parked run of a user has a
\* pending request of its topic to wait for, although two gates may look for
\* one at the same time and users decide meanwhile.  The gate lets a run stand
\* behind another's request, and nothing takes it up when that is decided:
\* this, and a decision about the run itself under way, are the exceptions.
ParkedHasRequest ==
  faults = 0 =>
    \A v \in Events :
      LET r == PayloadRun[v]
          tp == PayloadTopic[v] IN
      /\ r \notin Anonymous \cup {None} /\ runStatus[r] = "pending_approval"
      /\ \A t \in Thread : job[t].run = r => pc[t] \notin {"find", "request"}
      => \/ \E q \in Runs : Asks(q, tp)
         \/ \E q \in Runs \ {r} : Decided(q, tp)
         \/ r \in deciding

\* Every entry the group holds is acked in the end, after crashes and failed
\* acks too, when workers resume periodically.
EventuallyAcked ==
  \A e \in Entries : entry[e] \in {"queued", "pending"} ~> entry[e] = "acked"

\* tasks.md: "Crashed worker resumes job without duplication."
NoDuplicateDispatch == \A r \in Runs : sent[r] <= 1

=============================================================================
