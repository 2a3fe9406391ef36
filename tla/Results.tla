------------------------------- MODULE Results -------------------------------
(***************************************************************************)
(* What the runs of one topic leave behind (processRun and the manifests   *)
(* of internal/server/runs.go, internal/manifest, and their tables in      *)
(* internal/store/store.go): the episode a run saves, its result and       *)
(* report, its status at the end, and the manifests that users have        *)
(* signed.  An action is one statement, or one transaction, of Postgres.   *)
(* A run is processed by one pipeline at a time (OneWorker in              *)
(* RunLifecycle); one that waited for approval begins again.               *)
(***************************************************************************)
EXTENDS Calls

CONSTANTS
  TopicRuns,   \* bound: the runs of the topic
  Writers,     \* clients that write an episode through the memory service
  Signers      \* requests for a manifest

ASSUME ResultsAssumption ==
  /\ TopicRuns \cap Writers = {}
  /\ Nil \notin TopicRuns \cup Writers

VARIABLES
  step,       \* what is next in the pipeline of a run
  status,     \* runs.status
  stored,     \* runs with a row of processing_results
  graph,      \* the run of the newest row of knowledge_graphs
  filed,      \* runs with a report on disk
  head,       \* run_episodes: who wrote the row of a run
  trace,      \* run_episode_steps: who wrote them
  evidence,   \* run_evidence: who wrote the claims
  manifest,   \* run_manifests
  signing,    \* what a request for a manifest is at
  wrote,      \* writers that have had their turn
  hurt        \* runs whose claims, report or last update a mishap has struck

outcome == <<status, stored, graph, filed, hurt>>
episode == <<head, trace, evidence>>
rvars == <<step, outcome, episode, manifest, signing, wrote, mishaps>>

-----------------------------------------------------------------------------
Authors == TopicRuns \cup Writers

\* A manifest is made of the row and of the steps of an episode; torn: the
\* episode was saved between the two reads.
Manifest == [head : Authors, steps : Authors \cup {Nil}, torn : BOOLEAN]

ASSUME ManifestAssumption == Nil \notin Manifest

NotSigning == [at |-> "rest", run |-> Nil, head |-> Nil, steps |-> Nil, torn |-> FALSE]

Maybe(S) == S \cup {Nil}

ResultsTypeOK ==
  /\ step \in [TopicRuns -> {"none", "context", "think", "episode", "result", "claims", "graph",
                             "ready", "report", "file", "succeed", "fail", "parked", "over"}]
  /\ status \in [TopicRuns -> {"none", "running", "pending_approval", "succeeded", "failed", "rejected"}]
  /\ stored \subseteq TopicRuns
  /\ graph \in Maybe(TopicRuns)
  /\ filed \subseteq TopicRuns
  /\ head \in [TopicRuns -> Maybe(Authors)]
  /\ trace \in [TopicRuns -> Maybe(Authors)]
  /\ evidence \in [TopicRuns -> Maybe(Authors)]
  /\ manifest \in [TopicRuns -> Maybe(Manifest)]
  /\ signing \in [Signers ->
       [at : {"rest", "head", "steps", "insert", "existing", "told"}, run : Maybe(TopicRuns),
        head : Maybe(Authors), steps : Maybe(Authors), torn : BOOLEAN]]
  /\ wrote \subseteq Writers
  /\ hurt \subseteq TopicRuns
  /\ mishaps \in Nat

ResultsInit ==
  /\ step = [r \in TopicRuns |-> "none"]
  /\ status = [r \in TopicRuns |-> "none"]
  /\ stored = {} /\ graph = Nil /\ filed = {}
  /\ head = [r \in TopicRuns |-> Nil]
  /\ trace = [r \in TopicRuns |-> Nil]
  /\ evidence = [r \in TopicRuns |-> Nil]
  /\ manifest = [r \in TopicRuns |-> Nil]
  /\ signing = [s \in Signers |-> NotSigning]
  /\ wrote = {} /\ hurt = {}
  /\ mishaps = 0

Go(r, s) == step' = [step EXCEPT ![r] = s]

-----------------------------------------------------------------------------
(* processRun.                                                              *)

CreateRun(r) ==
  /\ step[r] = "none"
  /\ status' = [status EXCEPT ![r] = "running"]
  /\ Go(r, "context")
  /\ UNCHANGED <<stored, graph, filed, hurt, episode, manifest, signing,
                 wrote, mishaps>>

\* The errors of the reads of the latest run, which is this one unless another
\* has been created since, are dropped; those of the policy, the topic and the
\* budget that follow end the run.
BuildContext(r) ==
  /\ step[r] = "context"
  /\ \/ Go(r, "think") /\ UNCHANGED mishaps
     \/ Ends("failed") /\ Go(r, "fail")
  /\ UNCHANGED <<outcome, episode, manifest, signing, wrote>>

\* ProcessThought: a result, an error, or a plan that wants approval.  What is
\* noted of an overrun of the budget is not in the model.
Think(r) ==
  /\ step[r] = "think"
  /\ \/ \E next \in {"episode", "fail"} : Go(r, next) /\ UNCHANGED status
     \/ Go(r, "parked") /\ status' = [status EXCEPT ![r] = "pending_approval"]
  /\ UNCHANGED <<stored, graph, filed, hurt, episode, manifest,
                 signing, wrote, mishaps>>

\* budgetDecision: an approved run is processed from the beginning.
Decide(r, approved) ==
  /\ step[r] = "parked"
  /\ status' = [status EXCEPT ![r] = IF approved THEN "running" ELSE "rejected"]
  /\ Go(r, IF approved THEN "context" ELSE "over")
  /\ UNCHANGED <<stored, graph, filed, hurt, episode, manifest,
                 signing, wrote, mishaps>>

HeadAfter(r, x, o) == IF o \in Took THEN [head EXCEPT ![r] = x] ELSE head

EvidenceAfter(r, x, o) == IF o \in Took THEN [evidence EXCEPT ![r] = x] ELSE evidence

\* SaveEpisode: the row, its steps and its claims, in one transaction.
SaveEpisodeOf(r, x, o) ==
  /\ Ends(o)
  /\ head' = HeadAfter(r, x, o)
  /\ trace' = IF o \in Took THEN [trace EXCEPT ![r] = x] ELSE trace
  /\ evidence' = EvidenceAfter(r, x, o)
  /\ signing' = [s \in Signers |->
       IF signing[s].at = "steps" /\ signing[s].run = r /\ o \in Took
       THEN [signing[s] EXCEPT !.torn = TRUE] ELSE signing[s]]

\* The orchestrator logs the error, and goes on.
PersistEpisode(r) ==
  /\ step[r] = "episode"
  /\ \E o \in Ending : SaveEpisodeOf(r, r, o)
  /\ Go(r, "result")
  /\ UNCHANGED <<outcome, manifest, wrote>>

\* UpsertProcessingResult: the row, and if that succeeded its claims, in
\* another transaction.  An error is dropped.
StoreResult(r) ==
  /\ step[r] = "result"
  /\ \E o \in Ending :
       /\ Ends(o)
       /\ stored' = IF o \in Took THEN stored \cup {r} ELSE stored
       /\ hurt' = IF o = "ok" THEN hurt ELSE hurt \cup {r}
       /\ Go(r, IF o = "ok" THEN "claims" ELSE "graph")
  /\ UNCHANGED <<status, graph, filed, episode, manifest, signing, wrote>>

\* ReplaceRunEvidence, whoever wrote the claims before.
StoreClaims(r) ==
  /\ step[r] = "claims"
  /\ \E o \in Ending :
       /\ Ends(o)
       /\ evidence' = EvidenceAfter(r, r, o)
       /\ hurt' = IF o = "failed" THEN hurt \cup {r} ELSE hurt
  /\ Go(r, "graph")
  /\ UNCHANGED <<status, stored, graph, filed, head, trace, manifest, signing, wrote>>

\* SaveKnowledgeGraphFromMetadata, if the result holds one; its error is dropped.
StoreGraph(r) ==
  /\ step[r] = "graph"
  /\ \E o \in Ending :
       /\ Ends(o)
       /\ graph' \in IF o \in Took THEN {r, graph} ELSE {graph}
  /\ Go(r, "ready")
  /\ UNCHANGED <<status, stored, filed, hurt, episode, manifest, signing, wrote>>

\* Mutant: a result that cannot be read back is not needed for the report.
CanReportAnyway(r, o) == TRUE
CanReport(r, o) == o = "ok" /\ r \in stored

\* GetProcessingResultByID.
ReadBack(r) ==
  /\ step[r] = "ready"
  /\ \E o \in {"ok", "failed"} :
       /\ Ends(o)
       /\ Go(r, IF CanReport(r, o) THEN "report" ELSE "fail")
  /\ UNCHANGED <<outcome, episode, manifest, signing, wrote>>

\* generateFullReport.
WriteReport(r) ==
  /\ step[r] = "report"
  /\ \E o \in {"ok", "failed"} :
       /\ Ends(o)
       /\ Go(r, IF o = "ok" THEN "file" ELSE "fail")
  /\ UNCHANGED <<outcome, episode, manifest, signing, wrote>>

\* writeRunMarkdown; its error is dropped.
FileReport(r) ==
  /\ step[r] = "file"
  /\ \E o \in {"ok", "failed"} :
       /\ Ends(o)
       /\ filed' = IF o = "ok" THEN filed \cup {r} ELSE filed
       /\ hurt' = IF o = "ok" THEN hurt ELSE hurt \cup {r}
  /\ Go(r, "succeed")
  /\ UNCHANGED <<status, stored, graph, episode, manifest, signing, wrote>>

\* FinishRun, of processRun or of its caller; its error is dropped.
FinishRun(r) ==
  /\ step[r] \in {"succeed", "fail"}
  /\ \E o \in Ending :
       /\ Ends(o)
       /\ status' = IF o \in Took
                    THEN [status EXCEPT ![r] = IF step[r] = "succeed" THEN "succeeded" ELSE "failed"]
                    ELSE status
       /\ hurt' = IF o = "failed" THEN hurt \cup {r} ELSE hurt
  /\ Go(r, "over")
  /\ UNCHANGED <<stored, graph, filed, episode, manifest, signing, wrote>>

-----------------------------------------------------------------------------
(* The memory service writes the episode of a client: WriteEpisode.         *)

WriteEpisode(w, r) ==
  /\ w \notin wrote /\ step[r] # "none"
  /\ \E o \in Ending : SaveEpisodeOf(r, w, o)
  /\ wrote' = wrote \cup {w}
  /\ UNCHANGED <<step, outcome, manifest>>

-----------------------------------------------------------------------------
(* Manifests: createManifest.                                               *)

Sign(s, d) == signing' = [signing EXCEPT ![s] = d]

\* What the request is answered with: a manifest, or an error.
Tell(s, m) ==
  Sign(s, IF m = Nil THEN NotSigning
          ELSE [at |-> "told", run |-> signing[s].run, head |-> m.head, steps |-> m.steps,
                torn |-> m.torn])

Asked(s, r) == [NotSigning EXCEPT !.at = "head", !.run = r]

AskManifest(s, r) ==
  /\ signing[s] = NotSigning /\ step[r] # "none"
  /\ \/ /\ manifest[r] = Nil
        /\ Sign(s, Asked(s, r))
     \/ /\ manifest[r] # Nil
        /\ Sign(s, [Asked(s, r) EXCEPT !.at = "existing"])
  /\ UNCHANGED <<step, outcome, episode, manifest, wrote, mishaps>>

\* GetEpisodeByRunID reads the row, then the steps; when it fails the request
\* ends, as it does without an episode.
ReadHead(s) ==
  /\ signing[s].at = "head"
  /\ LET h == head[signing[s].run] IN
     Sign(s, IF h = Nil THEN NotSigning ELSE [signing[s] EXCEPT !.at = "steps", !.head = h])
  /\ UNCHANGED <<step, outcome, episode, manifest, wrote, mishaps>>

ReadSteps(s) ==
  /\ signing[s].at = "steps"
  /\ Sign(s, [signing[s] EXCEPT !.at = "insert", !.steps = trace[signing[s].run]])
  /\ UNCHANGED <<step, outcome, episode, manifest, wrote, mishaps>>

Draft(s) == [head |-> signing[s].head, steps |-> signing[s].steps, torn |-> signing[s].torn]

\* The checksum and the signature are those of the payload alone.
SameSignature(m, n) == m.head = n.head /\ m.steps = n.steps

\* Mutant: ON CONFLICT DO UPDATE.
InsertedOver(s) == Draft(s)
Inserted(s) == IF manifest[signing[s].run] = Nil THEN Draft(s) ELSE manifest[signing[s].run]

\* InsertRunManifest: ON CONFLICT DO NOTHING; the same manifest again is no
\* conflict.
InsertManifest(s) ==
  LET r == signing[s].run IN
  /\ signing[s].at = "insert"
  /\ \E o \in Ending :
       /\ Ends(o)
       /\ manifest' = IF o \in Took THEN [manifest EXCEPT ![r] = Inserted(s)] ELSE manifest
       /\ CASE o # "ok" -> Sign(s, NotSigning)
            [] o = "ok" /\ SameSignature(manifest'[r], Draft(s)) -> Tell(s, Draft(s))
            [] OTHER -> Sign(s, [signing[s] EXCEPT !.at = "existing"])
  /\ UNCHANGED <<step, outcome, episode, wrote>>

\* GetRunManifest, when there is one already.
ReadManifest(s) ==
  /\ signing[s].at = "existing"
  /\ \E o \in {"ok", "failed"} :
       /\ Ends(o)
       /\ Tell(s, IF o = "ok" THEN manifest[signing[s].run] ELSE Nil)
  /\ UNCHANGED <<step, outcome, episode, manifest, wrote>>

-----------------------------------------------------------------------------
ResultsNext ==
  \/ \E r \in TopicRuns :
       \/ CreateRun(r) \/ BuildContext(r) \/ Think(r) \/ PersistEpisode(r) \/ StoreResult(r)
       \/ StoreClaims(r) \/ StoreGraph(r) \/ ReadBack(r) \/ WriteReport(r) \/ FileReport(r) \/ FinishRun(r)
       \/ \E approved \in BOOLEAN : Decide(r, approved)
       \/ \E w \in Writers : WriteEpisode(w, r)
       \/ \E s \in Signers : AskManifest(s, r)
  \/ \E s \in Signers : ReadHead(s) \/ ReadSteps(s) \/ InsertManifest(s) \/ ReadManifest(s)

ResultsSpec == ResultsInit /\ [][ResultsNext]_rvars

-----------------------------------------------------------------------------
(* Properties.                                                              *)

\* A run that has succeeded has a result that can be shown, its claims and a
\* report, though the errors of all these writes are dropped: processRun.
SucceededHasResult ==
  \A r \in TopicRuns : status[r] = "succeeded" =>
    /\ r \in stored
    /\ r \in hurt \/ (r \in filed /\ evidence[r] # Nil)

\* Whatever requests for the manifest of a run come together, all are shown
\* the manifest that is kept; and it is of one save of the episode, unless
\* the episode was saved again while it was read: createManifest.
ManifestsAgree ==
  /\ \A s \in Signers : signing[s].at = "told" =>
       /\ manifest[signing[s].run] # Nil
       /\ SameSignature(Draft(s), manifest[signing[s].run])
  /\ \A r \in TopicRuns :
       manifest[r] # Nil /\ ~manifest[r].torn => manifest[r].head = manifest[r].steps
=============================================================================
