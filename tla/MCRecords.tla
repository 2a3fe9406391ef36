------------------------------ MODULE MCRecords ------------------------------
(***************************************************************************)
(* The tables and registries beside the pipeline, which share no state:    *)
(* each behaviour is one of one of these modules, the others at rest.      *)
(***************************************************************************)
EXTENDS Templates, Memory, Recall, Summaries, Results, Topics, Agents, Startup, TLC

VARIABLE focus   \* what moves

CONSTANTS x1, x2, y1, y2, k1, k2, u1, u2, u3, u4

\* Model values of different modules are the same, and so are their symmetries.
Symmetry == Permutations({x1, x2}) \cup Permutations({y1, y2})

\* One page of a host in two spellings, another that is known, and one of a
\* host that is blocked.
UrlHosts == [u \in {u1, u2, u3, u4} |-> IF u = u4 THEN "mill" ELSE "press"]
UrlPages == [u \in {u1, u2, u3, u4} |-> IF u = u2 THEN u1 ELSE u]

\* Another research found the page in one of the spellings.
FoundByOthers == {[url |-> u1, credibility |-> 6]}

\* A host that is trusted less than fairness allows.
HostBiases == [u \in {u1, u2, u3, u4} |-> IF u = u4 THEN 0 ELSE -10]
Sliders == {-3, 9}

\* A claim that mixes what was found with what was not, an item that states
\* nothing, and one whose sources nobody may have found.
DigestsOfModel ==
  {<<>>,
   <<[stated |-> TRUE, cited |-> {u1, u2, u4}], [stated |-> FALSE, cited |-> {u3}],
     [stated |-> TRUE, cited |-> {u3}]>>}

\* A batch with one item twice and one without a key, and one with an item the
\* provider has no vector for and one without a text.
ItemBatches ==
  {<<[key |-> "k", text |-> 0], [key |-> "k", text |-> 0], [key |-> Nil, text |-> 0]>>,
   <<[key |-> "k", text |-> 2], [key |-> "l", text |-> Vectorless],
     [key |-> "m", text |-> Textless]>>}
KnownKeys == {{}, {"k"}}
SemanticThresholds == ("search" :> 2 @@ "delta" :> 4)

BudgetAmounts == {-1, 0, 1, 2}

Amount(n, u) == [amount |-> n, unit |-> u]
Limited(image, cpu, maxCpu, memory, maxMemory, timeout, maxTimeout) ==
  [image |-> image, cpu |-> cpu, max_cpu |-> maxCpu, memory |-> memory, max_memory |-> maxMemory,
   timeout |-> timeout, max_timeout |-> maxTimeout]

\* Policies that fit, that do not, and that leave out what the defaults give.
PolicyFiles ==
  {Limited("listed", 1, 1, Amount(1, "clear"), Amount(2, "clear"), 2, Unset),
   Limited("none", 0, 2, Amount(2, "ends_in_b"), Amount(1, "ends_in_b"), Unset, 1),
   Limited("none", 0, 2, Amount(0, "unset"), Amount(1, "ends_in_b"), 2, 1),
   Limited("unlisted", 2, 0, Amount(2, "clear"), Amount(0, "unset"), Unset, Unset)}
SecurityDefaults == [cpu |-> 1, memory |-> Amount(1, "clear"), timeout |-> 0]

-----------------------------------------------------------------------------
recallrest == <<day, runVectors, stepVectors, deltas, deltaEvents, searches>>
memoryrest == <<now, episodes, pipeline, service, pruning, lastPrune, rebuild>>
summaryrest == <<hour, jobs, work, lastSummary, orphaned>>
templaterest == <<tables, doing, crossed, struck>>
resultrest == <<step, outcome, episode, manifest, signing, wrote>>
topicrest == <<chatvars, budgetvars, schemavars>>
startuprest == <<policy, secret, schemas, cards, published, at, nth, own, granted, loaded, tools>>

allrest ==
  <<templaterest, memoryrest, recallrest, summaryrest, resultrest, topicrest, avars, startuprest>>

\* What does not move starts in one of the states it may start in.
Init ==
  /\ focus \in {"templates", "memory", "deltas", "searches", "summaries", "results",
                "manifests", "chats", "budgets", "schemas", "agents", "startup"}
  /\ TemplatesInit /\ MemoryInit /\ RecallInit /\ SummariesInit /\ ResultsInit
  /\ TopicsInit /\ AgentsInit /\ StartupInit
  /\ focus # "memory" => \A r \in Runs : born[r] = 0
  /\ focus # "chats" => topic = [prefs |-> "wide", cron |-> "@daily"]
  /\ focus # "agents" => provider = "none"
  /\ focus # "startup" => policy.image = "listed" /\ secret = k1

TemplatesMove ==
  /\ focus = "templates" /\ TemplatesNext
  /\ UNCHANGED <<focus, memoryrest, recallrest, summaryrest, resultrest, topicrest, avars, startuprest>>

MemoryMoves ==
  /\ focus = "memory" /\ MemoryNext
  /\ UNCHANGED <<focus, templaterest, recallrest, summaryrest, resultrest, topicrest, avars, startuprest>>

DeltasMove ==
  /\ focus = "deltas" /\ DeltasNext
  /\ UNCHANGED <<focus, templaterest, memoryrest, summaryrest, resultrest, topicrest, avars, startuprest>>

SearchesMove ==
  /\ focus = "searches" /\ SearchesNext
  /\ UNCHANGED <<focus, templaterest, memoryrest, summaryrest, resultrest, topicrest, avars, startuprest>>

SummariesMove ==
  /\ focus = "summaries" /\ SummariesNext
  /\ UNCHANGED <<focus, templaterest, memoryrest, recallrest, resultrest, topicrest, avars, startuprest>>

\* Two runs of which nobody asks for a manifest.
ResultsMove ==
  /\ focus = "results" /\ ResultsNext /\ UNCHANGED <<manifest, signing>>
  /\ UNCHANGED <<focus, templaterest, memoryrest, recallrest, summaryrest, topicrest, avars, startuprest>>

\* Requests for the manifest of one run.
ManifestsMove ==
  /\ focus = "manifests" /\ ResultsNext /\ Cardinality({r \in TopicRuns : step'[r] # "none"}) <= 1
  /\ UNCHANGED <<focus, templaterest, memoryrest, recallrest, summaryrest, topicrest, avars, startuprest>>

ChatsMove ==
  /\ focus = "chats" /\ ChatsNext
  /\ UNCHANGED <<focus, templaterest, memoryrest, recallrest, summaryrest, resultrest, avars, startuprest,
                 budgetvars, schemavars>>

BudgetsMove ==
  /\ focus = "budgets" /\ BudgetsNext
  /\ UNCHANGED <<focus, templaterest, memoryrest, recallrest, summaryrest, resultrest, avars, startuprest,
                 chatvars, schemavars>>

SchemasMove ==
  /\ focus = "schemas" /\ SchemasNext
  /\ UNCHANGED <<focus, templaterest, memoryrest, recallrest, summaryrest, resultrest, avars, startuprest,
                 chatvars, budgetvars>>

AgentsMove ==
  /\ focus = "agents" /\ AgentsNext
  /\ UNCHANGED <<focus, templaterest, memoryrest, recallrest, summaryrest, resultrest, topicrest, startuprest, mishaps>>

StartupMoves ==
  /\ focus = "startup" /\ StartupNext
  /\ UNCHANGED <<focus, templaterest, memoryrest, recallrest, summaryrest, resultrest, topicrest, avars>>

Next ==
  \/ TemplatesMove \/ MemoryMoves \/ DeltasMove \/ SearchesMove \/ SummariesMove
  \/ ResultsMove \/ ManifestsMove \/ ChatsMove \/ BudgetsMove \/ SchemasMove \/ AgentsMove \/ StartupMoves

Spec == Init /\ [][Next]_<<allrest, mishaps, focus>>

-----------------------------------------------------------------------------
\* Every variable has its type.
RecordsTypeOK ==
  CASE focus = "templates" -> TemplatesTypeOK
    [] focus = "memory" -> MemoryTypeOK
    [] focus \in {"deltas", "searches"} -> RecallTypeOK
    [] focus = "summaries" -> SummariesTypeOK
    [] focus \in {"results", "manifests"} -> ResultsTypeOK
    [] focus \in {"chats", "budgets", "schemas"} -> TopicsTypeOK
    [] focus = "agents" -> AgentsTypeOK
    [] focus = "startup" -> StartupTypeOK
=============================================================================
