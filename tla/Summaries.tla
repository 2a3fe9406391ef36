------------------------------ MODULE Summaries ------------------------------
(***************************************************************************)
(* Summaries of one topic and their jobs (Manager.Summarize in             *)
(* internal/memory/manager/manager.go, runSummaries in                     *)
(* cmd/memory/scheduler.go, memory_jobs in internal/store/store.go): users *)
(* ask for them, and the scheduler of the memory service makes one per     *)
(* interval.                                                               *)
(***************************************************************************)
EXTENDS Calls, Sequences

CONSTANTS
  Requests,        \* requests for a summary
  Scheduler,       \* the memory scheduler
  SummaryInterval,
  MaxHour,         \* bound: the clock
  MaxJobs          \* bound: memory jobs

ASSUME SummariesAssumption ==
  /\ Scheduler \notin Requests
  /\ SummaryInterval \in Nat /\ MaxHour \in Nat \ {0} /\ MaxJobs \in Nat

VARIABLES
  hour,
  jobs,         \* memory_jobs.status, in the order of their ids
  work,         \* what a summary is at
  lastSummary,  \* memoryScheduler.lastSummary, 0 when it has none
  orphaned      \* jobs whose completion failed, or whose process ended

svars == <<hour, jobs, work, lastSummary, orphaned, mishaps>>

-----------------------------------------------------------------------------
Summarizers == Requests \cup {Scheduler}

Idle == [at |-> "rest", job |-> 0, err |-> FALSE, time |-> 0]

SummariesTypeOK ==
  /\ hour \in 1..MaxHour
  /\ jobs \in Seq({"running", "success", "failed"})
  /\ work \in [Summarizers -> [at : {"rest", "create", "read", "close"},
                               job : 0..Len(jobs), err : BOOLEAN, time : 0..MaxHour]]
  /\ lastSummary \in 0..MaxHour
  /\ orphaned \subseteq 1..Len(jobs)
  /\ mishaps \in Nat

SummariesInit ==
  /\ hour = 1
  /\ jobs = <<>>
  /\ work = [x \in Summarizers |-> Idle]
  /\ lastSummary = 0
  /\ orphaned = {}
  /\ mishaps = 0

PassHour ==
  /\ hour < MaxHour
  /\ hour' = hour + 1
  /\ UNCHANGED <<jobs, work, lastSummary, orphaned, mishaps>>

-----------------------------------------------------------------------------
Ask(q) ==
  /\ work[q] = Idle /\ Len(jobs) < MaxJobs
  /\ work' = [work EXCEPT ![q].at = "create"]
  /\ UNCHANGED <<hour, jobs, lastSummary, orphaned, mishaps>>

SummaryDue == lastSummary = 0 \/ hour - lastSummary >= SummaryInterval

\* The topic is listed, and due.
TickSummary ==
  /\ work[Scheduler] = Idle /\ Len(jobs) < MaxJobs
  /\ SummaryDue
  /\ work' = [work EXCEPT ![Scheduler].at = "create", ![Scheduler].time = hour]
  /\ UNCHANGED <<hour, jobs, lastSummary, orphaned, mishaps>>

\* CreateMemoryJob; without a job the summary goes on.
CreateJob(x) ==
  /\ work[x].at = "create" /\ Len(jobs) < MaxJobs
  /\ \E o \in Ending :
       /\ Ends(o)
       /\ jobs' = IF o \in Took THEN Append(jobs, "running") ELSE jobs
       /\ orphaned' = IF o = "lost" THEN orphaned \cup {Len(jobs')} ELSE orphaned
       /\ work' = [work EXCEPT ![x].at = "read", ![x].job = IF o = "ok" THEN Len(jobs') ELSE 0]
  /\ UNCHANGED <<hour, lastSummary>>

\* ListRuns, and GetEpisodeByRunID of each: the first error ends the summary.
ReadRuns(x) ==
  /\ work[x].at = "read"
  /\ \E o \in {"ok", "failed"} :
       /\ Ends(o)
       /\ work' = [work EXCEPT ![x].at = "close", ![x].err = (o = "failed")]
  /\ UNCHANGED <<hour, jobs, lastSummary, orphaned>>

\* Mutant: only the path without an error completes the job.
ToCompleteOnSuccess(x) == work[x].job # 0 /\ ~work[x].err
ToComplete(x) == work[x].job # 0

\* The deferred CompleteMemoryJob, whose error is only logged; then
\* recordSummaryRun of the scheduler.
CloseJob(x) ==
  /\ work[x].at = "close"
  /\ IF ToComplete(x)
     THEN \E o \in Ending :
            /\ Ends(o)
            /\ jobs' = IF o \in Took
                       THEN [jobs EXCEPT ![work[x].job] = IF work[x].err THEN "failed" ELSE "success"]
                       ELSE jobs
            /\ orphaned' = IF o = "failed" THEN orphaned \cup {work[x].job} ELSE orphaned
     ELSE UNCHANGED <<jobs, orphaned, mishaps>>
  /\ work' = [work EXCEPT ![x] = Idle]
  /\ lastSummary' = IF x = Scheduler /\ ~work[x].err THEN work[x].time ELSE lastSummary
  /\ UNCHANGED hour

\* The service ends and starts again; its scheduler has forgotten.
RestartMemory ==
  /\ Ends("failed")
  /\ orphaned' = orphaned \cup ({work[x].job : x \in Summarizers} \ {0})
  /\ work' = [x \in Summarizers |-> Idle]
  /\ lastSummary' = 0
  /\ UNCHANGED <<hour, jobs>>

SummariesNext ==
  \/ PassHour
  \/ \E q \in Requests : Ask(q)
  \/ TickSummary
  \/ \E x \in Summarizers : CreateJob(x) \/ ReadRuns(x) \/ CloseJob(x)
  \/ RestartMemory

SummariesSpec == SummariesInit /\ [][SummariesNext]_svars

-----------------------------------------------------------------------------
(* Properties.                                                              *)

\* A job is not left running: who made it still works on it, unless its
\* completion failed or its process ended: Summarize.
JobsClosed ==
  \A j \in 1..Len(jobs) :
    jobs[j] = "running" => j \in orphaned \/ \E x \in Summarizers : work[x].job = j
=============================================================================
