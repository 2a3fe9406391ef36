------------------------------- MODULE Memory -------------------------------
(***************************************************************************)
(* Episodic and semantic memory of one topic (internal/memory/manager,     *)
(* internal/memory/semantic, cmd/memory and their tables in                *)
(* internal/store/store.go): run pipelines save episodes and embeddings,   *)
(* the scheduler of the memory service prunes them, and a rebuild embeds   *)
(* every episode again.  An action is one statement, or one transaction,   *)
(* of Postgres.  The summaries of the service are in Summaries.            *)
(***************************************************************************)
EXTENDS Calls, Sequences, FiniteSets

CONSTANTS
  Runs,
  Batch,           \* episodes of a page of the rebuild
  Retention,       \* of episodes and embeddings
  PruneInterval,
  MaxTime          \* bound: the clock

ASSUME MemoryAssumption ==
  /\ IsFiniteSet(Runs)
  /\ Batch \in Nat \ {0}
  /\ Retention \in Nat /\ PruneInterval \in Nat
  /\ MaxTime \in Nat \ {0}

VARIABLES
  now,
  born,         \* run_episodes.created_at, 0 without a row
  vectorAt,     \* run_embeddings.created_at
  stepsAt,      \* plan_step_embeddings.created_at
  pipeline,     \* what is next for a run that has been processed
  service,      \* the memory service
  pruning,      \* the statement its scheduler is at, and the time of the tick
  lastPrune,    \* memoryScheduler.lastPrune, 0 before the first
  rebuild

episodes == <<born, vectorAt, stepsAt>>
mvars == <<now, episodes, pipeline, service, pruning, lastPrune, rebuild, mishaps>>

-----------------------------------------------------------------------------
NoPruning == [at |-> "rest", time |-> 0]

\* Where the rebuild is; the runs of the page that are left; created_at of the
\* oldest of the page, and of the oldest of the page before, 0 at first.  For
\* the properties: the runs embedded again, those only counted as embedded, and
\* those that had an episode when it began and have had it since.
NoRebuild ==
  [at |-> "off", page |-> <<>>, oldest |-> 0, cursor |-> 0, remade |-> {}, believed |-> {}, begun |-> {}]

MemoryTypeOK ==
  /\ now \in 1..MaxTime
  /\ born \in [Runs -> 0..MaxTime]
  /\ vectorAt \in [Runs -> 0..MaxTime]
  /\ stepsAt \in [Runs -> 0..MaxTime]
  /\ pipeline \in [Runs -> {"running", "vector", "steps", "over"}]
  /\ pruning \in [at : {"rest", "episodes", "vectors", "steps"}, time : 0..MaxTime]
  /\ service \in {"down", "rebuilding", "up"}
  /\ lastPrune \in 0..MaxTime
  /\ rebuild \in [at : {"off", "page", "load", "vector", "steps"}, page : Seq(Runs),
                  oldest : 0..MaxTime, cursor : 0..MaxTime,
                  remade : SUBSET Runs, believed : SUBSET Runs, begun : SUBSET Runs]
  /\ mishaps \in Nat

\* A run that is processed a second time may have an episode.
MemoryInit ==
  /\ now = 1
  /\ born \in [Runs -> {0, 1}]
  /\ vectorAt = [r \in Runs |-> 0]
  /\ stepsAt = [r \in Runs |-> 0]
  /\ pipeline = [r \in Runs |-> "running"]
  /\ service = "down"
  /\ pruning = NoPruning /\ lastPrune = 0
  /\ rebuild = NoRebuild
  /\ mishaps = 0

Tock ==
  /\ now < MaxTime
  /\ now' = now + 1
  /\ UNCHANGED <<episodes, pipeline, pruning, service, lastPrune, rebuild, mishaps>>

-----------------------------------------------------------------------------
(* A run that has been processed: its episode, the embedding of its summary *)
(* and the embeddings of the steps of its plan.                             *)

Written(table, r) == [table EXCEPT ![r] = now]

\* SaveEpisode: the upsert of a run that is processed again keeps created_at.
\* Its error is only logged.
SaveEpisode(r) ==
  /\ pipeline[r] = "running"
  /\ \E o \in Ending :
       /\ Ends(o)
       /\ born' = IF o \in Took /\ born[r] = 0 THEN Written(born, r) ELSE born
  /\ pipeline' = [pipeline EXCEPT ![r] = "vector"]
  /\ UNCHANGED <<now, vectorAt, stepsAt, pruning, service, lastPrune, rebuild>>

\* IngestRun: UpsertRunEmbedding, then, unless it failed, ReplacePlanStepEmbeddings.
EmbedSummary(r) ==
  /\ pipeline[r] = "vector"
  /\ \E o \in Ending :
       /\ Ends(o)
       /\ vectorAt' = IF o \in Took THEN Written(vectorAt, r) ELSE vectorAt
       /\ pipeline' = [pipeline EXCEPT ![r] = IF o = "ok" THEN "steps" ELSE "over"]
  /\ UNCHANGED <<now, born, stepsAt, pruning, service, lastPrune, rebuild>>

\* What ReplacePlanStepEmbeddings comes to, which deletes and inserts in one
\* transaction, and inserts nothing for a run whose plan has no tasks or does not
\* parse.  It commits in a defer, whose error nobody gets; that of a step without
\* an ID or a vector is another variable than the one the defer looks at, so
\* that what was deleted, and inserted until then, is committed.
Replacings(r) ==
  {[told |-> "ok", ends |-> "ok", at |-> t] : t \in {now, 0}}
    \cup {[told |-> "ok", ends |-> "failed", at |-> stepsAt[r]]}
    \cup {[told |-> "failed", ends |-> "failed", at |-> t] : t \in {stepsAt[r], now, 0}}

EmbedSteps(r) ==
  /\ pipeline[r] = "steps"
  /\ \E x \in Replacings(r) :
       /\ Ends(x.ends)
       /\ stepsAt' = [stepsAt EXCEPT ![r] = x.at]
  /\ pipeline' = [pipeline EXCEPT ![r] = "over"]
  /\ UNCHANGED <<now, born, vectorAt, pruning, service, lastPrune, rebuild>>

-----------------------------------------------------------------------------
(* The pruning of the scheduler: runPrune and PruneSemanticEmbeddings.      *)

PruneDue == lastPrune = 0 \/ now - lastPrune >= PruneInterval

Tick ==
  /\ service = "up" /\ pruning = NoPruning
  /\ PruneDue
  /\ pruning' = [at |-> "episodes", time |-> now]
  /\ UNCHANGED <<now, episodes, pipeline, service, lastPrune, rebuild, mishaps>>

Expired(t) == t # 0 /\ t + Retention < pruning.time

Pruned(table) == [r \in Runs |-> IF Expired(table[r]) THEN 0 ELSE table[r]]

\* An error ends the pruning of this tick.
AfterPrune(step, o) == pruning' = IF o = "ok" THEN [pruning EXCEPT !.at = step] ELSE NoPruning

PruneEpisodesBefore ==
  /\ pruning.at = "episodes"
  /\ \E o \in Ending :
       /\ Ends(o)
       /\ born' = IF o \in Took THEN Pruned(born) ELSE born
       /\ rebuild' = [rebuild EXCEPT !.begun = {r \in @ : born'[r] # 0}]
       /\ AfterPrune("vectors", o)
  /\ UNCHANGED <<now, vectorAt, stepsAt, pipeline, service, lastPrune>>

\* PruneSemanticEmbeddings creates no job before: CreateMemoryJob wants a
\* topic, which a pruning has not, and its error is only logged.
PruneRunEmbeddings ==
  /\ pruning.at = "vectors"
  /\ \E o \in Ending :
       /\ Ends(o)
       /\ vectorAt' = IF o \in Took THEN Pruned(vectorAt) ELSE vectorAt
       /\ AfterPrune("steps", o)
  /\ UNCHANGED <<now, born, stepsAt, pipeline, service, lastPrune, rebuild>>

\* Mutant: the pruning is recorded, whether it has succeeded or not.
PrunedAtAnyway(o) == pruning.time
PrunedAt(o) == IF o = "ok" THEN pruning.time ELSE lastPrune

PrunePlanStepEmbeddings ==
  /\ pruning.at = "steps"
  /\ \E o \in Ending :
       /\ Ends(o)
       /\ stepsAt' = IF o \in Took THEN Pruned(stepsAt) ELSE stepsAt
       /\ lastPrune' = PrunedAt(o)
  /\ pruning' = NoPruning
  /\ UNCHANGED <<now, born, vectorAt, pipeline, service, rebuild>>

-----------------------------------------------------------------------------
(* The rebuild, on its own or before the service serves.                    *)

BeginRebuild == rebuild' = [NoRebuild EXCEPT !.at = "page", !.begun = {r \in Runs : born[r] # 0}]

\* The end of a rebuild: a service that waited for it is up, or has failed.
EndRebuild(ok) ==
  /\ rebuild' = NoRebuild
  /\ service' = CASE service # "rebuilding" -> service [] ok -> "up" [] OTHER -> "down"

StartService(rebuilds) ==
  /\ service = "down"
  /\ IF rebuilds
     THEN rebuild.at = "off" /\ BeginRebuild /\ service' = "rebuilding"
     ELSE UNCHANGED rebuild /\ service' = "up"
  /\ UNCHANGED <<now, episodes, pipeline, pruning, lastPrune, mishaps>>

\* rebuild-embeddings of the command line.
RunRebuild ==
  /\ rebuild.at = "off"
  /\ BeginRebuild
  /\ UNCHANGED <<now, episodes, pipeline, pruning, service, lastPrune, mishaps>>

\* ListEpisodes, newest first, of those not after the cursor.
UpTo(c) == {r \in Runs : born[r] # 0 /\ (c # 0 => born[r] <= c)}

Pages(c) ==
  LET n == IF Cardinality(UpTo(c)) < Batch THEN Cardinality(UpTo(c)) ELSE Batch IN
  {p \in [1..n -> UpTo(c)] :
     /\ \A i, j \in 1..n : i < j => p[i] # p[j] /\ born[p[i]] >= born[p[j]]
     /\ \A r \in UpTo(c) : (\A i \in 1..n : p[i] # r) => born[r] <= born[p[n]]}

ListPage ==
  /\ rebuild.at = "page"
  /\ \/ /\ UpTo(rebuild.cursor) # {}
        /\ \E p \in Pages(rebuild.cursor) :
             rebuild' = [rebuild EXCEPT !.at = "load", !.page = p, !.oldest = born[p[Len(p)]]]
        /\ UNCHANGED <<mishaps, service>>
     \/ /\ UpTo(rebuild.cursor) = {}
        /\ EndRebuild(TRUE)
        /\ UNCHANGED mishaps
     \/ Ends("failed") /\ EndRebuild(FALSE)
  /\ UNCHANGED <<now, episodes, pipeline, pruning, lastPrune>>

\* Mutant: the cursor that the code means, a nanosecond before the last.
CursorBefore(t) == t - 1

\* The cursor is a nanosecond before created_at of the last episode; as a
\* timestamp of Postgres, which counts microseconds, it is created_at again.
CursorAfter(t) == t

\* The next of the page, or the next page.
NextOfPage ==
  LET rest == Tail(rebuild.page) IN
  [rebuild EXCEPT !.page = rest,
                  !.at = IF rest = <<>> THEN "page" ELSE "load",
                  !.cursor = IF rest = <<>> THEN CursorAfter(rebuild.oldest) ELSE @]

\* GetEpisodeByRunID: one that is gone is skipped.
LoadEpisode ==
  /\ rebuild.at = "load"
  /\ \/ /\ rebuild' = IF born[Head(rebuild.page)] = 0 THEN NextOfPage
                      ELSE [rebuild EXCEPT !.at = "vector"]
        /\ UNCHANGED <<mishaps, service>>
     \/ Ends("failed") /\ EndRebuild(FALSE)
  /\ UNCHANGED <<now, episodes, pipeline, pruning, lastPrune>>

\* IngestRun again; its error ends the rebuild.
EmbedSummaryAgain ==
  /\ rebuild.at = "vector"
  /\ \E o \in Ending :
       /\ Ends(o)
       /\ vectorAt' = IF o \in Took THEN Written(vectorAt, Head(rebuild.page)) ELSE vectorAt
       /\ IF o = "ok" THEN rebuild' = [rebuild EXCEPT !.at = "steps"] /\ UNCHANGED service
          ELSE EndRebuild(FALSE)
  /\ UNCHANGED <<now, born, stepsAt, pipeline, pruning, lastPrune>>

\* What was told to have been replaced is counted.
EmbedStepsAgain ==
  LET r == Head(rebuild.page) IN
  /\ rebuild.at = "steps"
  /\ \E x \in Replacings(r) :
       /\ Ends(x.ends)
       /\ stepsAt' = [stepsAt EXCEPT ![r] = x.at]
       /\ IF x.told = "ok"
          THEN /\ rebuild' = IF x.ends = "ok" THEN [NextOfPage EXCEPT !.remade = @ \cup {r}]
                             ELSE [NextOfPage EXCEPT !.believed = @ \cup {r}]
               /\ UNCHANGED service
          ELSE EndRebuild(FALSE)
  /\ UNCHANGED <<now, born, vectorAt, pipeline, pruning, lastPrune>>

\* The process of the service ends, and with it what its scheduler remembers.
CrashService ==
  /\ service # "down"
  /\ Ends("failed")
  /\ pruning' = NoPruning /\ lastPrune' = 0
  /\ rebuild' = IF service = "rebuilding" THEN NoRebuild ELSE rebuild
  /\ service' = "down"
  /\ UNCHANGED <<now, episodes, pipeline>>

-----------------------------------------------------------------------------
RebuildStep == ListPage \/ LoadEpisode \/ EmbedSummaryAgain \/ EmbedStepsAgain

MemoryNext ==
  \/ Tock
  \/ \E r \in Runs : SaveEpisode(r) \/ EmbedSummary(r) \/ EmbedSteps(r)
  \/ Tick \/ PruneEpisodesBefore \/ PruneRunEmbeddings \/ PrunePlanStepEmbeddings
  \/ \E rebuilds \in BOOLEAN : StartService(rebuilds)
  \/ RunRebuild
  \/ RebuildStep
  \/ CrashService

MemorySpec == MemoryInit /\ [][MemoryNext]_mvars

-----------------------------------------------------------------------------
(* Properties.                                                              *)

\* What the scheduler remembers as pruned has been pruned: nothing is left
\* that had expired then, whichever of the three statements failed on the way
\* and whatever runs and rebuilds have written since: runPrune.
PrunedAsRecorded ==
  lastPrune # 0 =>
    \A r \in Runs : \A t \in {born[r], vectorAt[r], stepsAt[r]} :
      t # 0 => t + Retention >= lastPrune

\* The rebuild has been through every episode that is newer than its cursor and
\* has been there from the start, though pages are cut between episodes of the
\* same time: it has embedded it again, or was told so of a transaction whose
\* COMMIT failed, which it takes a failure to be told.  It goes on from no other
\* failure: rebuildSemanticEmbeddings.
RebuildSkipsNone ==
  /\ rebuild.at = "page" /\ rebuild.cursor # 0 =>
       \A r \in rebuild.begun :
         born[r] > rebuild.cursor => r \in rebuild.remade \cup rebuild.believed
  /\ mishaps = 0 => rebuild.believed = {}

\* Nothing expired is kept of what is recorded as pruned, and a rebuild passes
\* over nothing, though the statements of both are apart and may fail.
MemoryKept == PrunedAsRecorded /\ RebuildSkipsNone
=============================================================================
