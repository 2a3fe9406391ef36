---------------------------- MODULE RecordsProofs ----------------------------
(***************************************************************************)
(* What Summaries promises of jobs, Topics of the requests of a topic,     *)
(* Memory of prunings and rebuilds and Results of results and manifests,   *)
(* for every number of requests, versions, episodes, runs and mishaps; and *)
(* the types of all modules that MCRecords puts side by side.              *)
(***************************************************************************)
EXTENDS MCRecords, TemplatesProofs, ServicesProofs, FiniteSetTheorems, SequenceTheorems, TLAPS

-----------------------------------------------------------------------------
(* The jobs of summaries.                                                   *)

JobShapes ==
  /\ jobs \in Seq({"running", "success", "failed"})
  /\ work \in [Summarizers -> [at : {"rest", "create", "read", "close"},
                               job : Nat, err : BOOLEAN, time : Nat]]
  /\ hour \in Nat

\* A job is made once, by who has none.
JobsInv ==
  /\ JobShapes
  /\ \A x \in Summarizers : work[x].at \in {"rest", "create"} => work[x].job = 0
  /\ JobsClosed

LEMMA IdleType ==
  /\ Idle \in [at : {"rest", "create", "read", "close"}, job : Nat, err : BOOLEAN, time : Nat]
  /\ Idle.at = "rest" /\ Idle.job = 0
  BY DEF Idle

\* A summary that begins, or goes on with the job it has.
LEMMA JobsAlone ==
  ASSUME JobsInv, JobShapes', UNCHANGED <<jobs, orphaned>>,
         \A x \in Summarizers : work'[x].job = work[x].job,
         \A x \in Summarizers : work'[x].at \in {"rest", "create"} => work[x].at \in {"rest", "create"}
  PROVE  JobsInv'
  BY DEF JobsInv, JobsClosed

LEMMA CreateJobKeeps ==
  ASSUME JobsInv, NEW x \in Summarizers, CreateJob(x)
  PROVE  JobsInv'
<1>1. PICK o \in Ending :
        /\ jobs' = IF o \in Took THEN Append(jobs, "running") ELSE jobs
        /\ orphaned' = IF o = "lost" THEN orphaned \cup {Len(jobs')} ELSE orphaned
        /\ work' = [work EXCEPT ![x].at = "read", ![x].job = IF o = "ok" THEN Len(jobs') ELSE 0]
  BY DEF CreateJob
<1>2. work[x].job = 0 /\ hour' = hour
  BY DEF CreateJob, JobsInv
<1>3. jobs' \in Seq({"running", "success", "failed"}) /\ Len(jobs') \in Nat
  BY <1>1 DEF JobsInv, JobShapes
<1> DEFINE n == IF o = "ok" THEN Len(jobs') ELSE 0
<1>4. n \in Nat /\ work' = [work EXCEPT ![x].at = "read", ![x].job = n]
  BY <1>1, <1>3
<1> HIDE DEF n
<1>5. /\ work'[x].at = "read" /\ work'[x].job = n
      /\ \A y \in Summarizers : y # x => work'[y] = work[y]
  BY <1>4 DEF JobsInv, JobShapes
<1>6. JobShapes'
  BY <1>2, <1>3, <1>4 DEF JobsInv, JobShapes
<1>7. JobsClosed'
  <2> SUFFICES ASSUME NEW j \in 1..Len(jobs'), jobs'[j] = "running"
               PROVE  j \in orphaned' \/ \E y \in Summarizers : work'[y].job = j
    BY DEF JobsClosed
  <2>1. CASE j \in 1..Len(jobs)
    <3>1. jobs[j] = "running"
      BY <1>1, <2>1 DEF JobsInv, JobShapes
    <3>2. CASE j \in orphaned
      BY <1>1, <3>2
    <3>3. ASSUME NEW y \in Summarizers, work[y].job = j
          PROVE  work'[y].job = j
      BY <1>2, <1>5, <2>1, <3>3
    <3> QED BY <2>1, <3>1, <3>2, <3>3 DEF JobsInv, JobsClosed
  <2>2. CASE j \notin 1..Len(jobs)
    <3>1. o \in Took /\ j = Len(jobs')
      BY <1>1, <2>2 DEF JobsInv, JobShapes
    <3>2. CASE o = "ok"
      BY <1>5, <3>1, <3>2 DEF n
    <3>3. CASE o = "lost"
      BY <1>1, <3>1, <3>3
    <3> QED BY <3>1, <3>2, <3>3 DEF Took
  <2> QED BY <2>1, <2>2
<1>8. \A y \in Summarizers : work'[y].at \in {"rest", "create"} => work'[y].job = 0
  BY <1>5 DEF JobsInv
<1> QED BY <1>6, <1>7, <1>8 DEF JobsInv

LEMMA CloseJobKeeps ==
  ASSUME JobsInv, NEW x \in Summarizers, CloseJob(x)
  PROVE  JobsInv'
<1> SUFFICES ASSUME NEW i, i = work[x].job PROVE JobsInv'
  OBVIOUS
<1>1. work' = [work EXCEPT ![x] = Idle] /\ hour' = hour
  BY DEF CloseJob
<1>2. /\ work'[x] = Idle /\ \A y \in Summarizers : y # x => work'[y] = work[y]
  BY <1>1 DEF JobsInv, JobShapes
<1>3. \/ UNCHANGED <<jobs, orphaned>> /\ i = 0
      \/ jobs' = jobs /\ orphaned' = orphaned \cup {i}
      \/ /\ orphaned' = orphaned
         /\ \E s \in {"failed", "success"} : jobs' = [jobs EXCEPT ![i] = s]
  BY DEF CloseJob, ToComplete, Ending, Took
<1>4. /\ jobs' \in Seq({"running", "success", "failed"}) /\ Len(jobs') = Len(jobs)
      /\ \A j \in 1..Len(jobs) : j # i => jobs'[j] = jobs[j]
      /\ i \in 1..Len(jobs) => jobs'[i] # "running" \/ i \in orphaned'
  BY <1>3 DEF JobsInv, JobShapes
<1>5. JobShapes'
  BY <1>1, <1>4, IdleType DEF JobsInv, JobShapes
<1>6. JobsClosed'
  <2> SUFFICES ASSUME NEW j \in 1..Len(jobs'), jobs'[j] = "running", j \notin orphaned'
               PROVE  \E y \in Summarizers : work'[y].job = j
    BY DEF JobsClosed
  <2>1. j \in 1..Len(jobs) /\ j # i /\ jobs[j] = "running" /\ j \notin orphaned
    BY <1>3, <1>4
  <2>2. PICK y \in Summarizers : work[y].job = j
    BY <2>1 DEF JobsInv, JobsClosed
  <2> QED BY <1>2, <2>1, <2>2
<1>7. \A y \in Summarizers : work'[y].at \in {"rest", "create"} => work'[y].job = 0
  BY <1>2, IdleType DEF JobsInv
<1> QED BY <1>5, <1>6, <1>7 DEF JobsInv

LEMMA RestartKeeps ==
  ASSUME JobsInv, RestartMemory
  PROVE  JobsInv'
<1>1. /\ orphaned' = orphaned \cup ({work[x].job : x \in Summarizers} \ {0})
      /\ work' = [x \in Summarizers |-> Idle] /\ UNCHANGED <<hour, jobs>>
  BY DEF RestartMemory
<1>2. JobShapes'
  BY <1>1, IdleType DEF JobsInv, JobShapes
<1>3. JobsClosed'
  BY <1>1 DEF JobsInv, JobsClosed
<1> QED BY <1>1, <1>2, <1>3, IdleType DEF JobsInv

LEMMA JobsStep ==
  ASSUME JobsInv, [SummariesNext]_svars
  PROVE  JobsInv'
<1>1. CASE PassHour
  <2>1. JobShapes' /\ UNCHANGED <<jobs, orphaned, work>>
    BY <1>1 DEF PassHour, JobsInv, JobShapes
  <2> QED BY <2>1, JobsAlone
<1>2. ASSUME NEW q \in Requests, Ask(q) PROVE JobsInv'
  <2>1. JobShapes' /\ UNCHANGED <<jobs, orphaned>>
    BY <1>2 DEF Ask, JobsInv, JobShapes, Summarizers
  <2>2. /\ \A x \in Summarizers : work'[x].job = work[x].job
        /\ \A x \in Summarizers : x # q => work'[x] = work[x]
        /\ work[q].at = "rest"
    BY <1>2, IdleType DEF Ask, JobsInv, JobShapes, Summarizers
  <2> QED BY <2>1, <2>2, JobsAlone
<1>3. CASE TickSummary
  <2>1. JobShapes' /\ UNCHANGED <<jobs, orphaned>>
    BY <1>3 DEF TickSummary, JobsInv, JobShapes, Summarizers
  <2>2. /\ \A x \in Summarizers : work'[x].job = work[x].job
        /\ \A x \in Summarizers : x # Scheduler => work'[x] = work[x]
        /\ work[Scheduler].at = "rest"
    BY <1>3, IdleType DEF TickSummary, JobsInv, JobShapes, Summarizers
  <2> QED BY <2>1, <2>2, JobsAlone
<1>4. ASSUME NEW x \in Summarizers, ReadRuns(x) PROVE JobsInv'
  <2>1. PICK o \in {"ok", "failed"} :
          work' = [work EXCEPT ![x].at = "close", ![x].err = (o = "failed")]
    BY <1>4 DEF ReadRuns
  <2> DEFINE b == (o = "failed")
  <2>2. b \in BOOLEAN
    OBVIOUS
  <2> HIDE DEF b
  <2>3. work' = [work EXCEPT ![x].at = "close", ![x].err = b]
    BY <2>1 DEF b
  <2>4. JobShapes' /\ UNCHANGED <<jobs, orphaned>>
    BY <1>4, <2>2, <2>3 DEF ReadRuns, JobsInv, JobShapes
  <2>5. /\ \A y \in Summarizers : work'[y].job = work[y].job
        /\ \A y \in Summarizers : y # x => work'[y] = work[y]
        /\ work'[x].at = "close"
    BY <2>3 DEF JobsInv, JobShapes
  <2> QED BY <2>4, <2>5, JobsAlone
<1>5. ASSUME NEW x \in Summarizers, CreateJob(x) \/ CloseJob(x) PROVE JobsInv'
  BY <1>5, CreateJobKeeps, CloseJobKeeps
<1>6. CASE RestartMemory
  BY <1>6, RestartKeeps
<1>7. CASE UNCHANGED svars
  <2>1. JobShapes' /\ UNCHANGED <<jobs, orphaned, work>>
    BY <1>7 DEF svars, JobsInv, JobShapes
  <2> QED BY <2>1, JobsAlone
<1> QED BY <1>1, <1>2, <1>3, <1>4, <1>5, <1>6, <1>7 DEF SummariesNext

\* However many summaries are made at once, a job that is running is worked
\* on, unless its completion failed or its process ended (Summarize).
THEOREM JobsAreClosed == SummariesSpec => []JobsClosed
<1>1. SummariesInit => JobsInv
  BY IdleType DEF SummariesInit, JobsInv, JobShapes, JobsClosed
<1>2. JobsInv => JobsClosed
  BY DEF JobsInv
<1> QED BY <1>1, <1>2, JobsStep, PTL DEF SummariesSpec

-----------------------------------------------------------------------------
(* Chats.                                                                   *)

\* What a chat has on record at each step.
ChatsInv ==
  /\ topic \in Topic
  /\ chat \in [Chats -> [at : {"idle", "message", "refine", "update", "reply", "done"}, topic : Topic]]
  /\ \A c \in Chats :
       /\ chat[c].at \in {"refine", "update"} => <<c, "user">> \in messages
       /\ chat[c].at = "reply" => c \in refined
  /\ ChatsTraced

LEMMA ChatsStep ==
  ASSUME ChatsInv, ChatsNext
  PROVE  ChatsInv'
<1>1. ASSUME NEW c \in Chats, NEW to \in {"refine", "done", "reply"}, ChatGoes(c, to)
      PROVE  /\ chat' \in [Chats -> [at : {"idle", "message", "refine", "update", "reply", "done"}, topic : Topic]]
             /\ chat'[c].at = to /\ \A d \in Chats : d # c => chat'[d] = chat[d]
  BY <1>1 DEF ChatGoes, ChatsInv
<1>2. ASSUME NEW c \in Chats, ReadTopic(c) PROVE ChatsInv'
  BY <1>2 DEF ReadTopic, ChatsInv, ChatsTraced
<1>3. ASSUME NEW c \in Chats, LogMessage(c) PROVE ChatsInv'
  <2>1. PICK o \in Ending :
          /\ messages' = IF o \in Took THEN messages \cup {<<c, "user">>} ELSE messages
          /\ ChatGoes(c, AfterMessage(o))
    BY <1>3 DEF LogMessage
  <2>2. /\ UNCHANGED <<topic, refined>> /\ messages \subseteq messages'
        /\ \A d \in Chats : <<d, "assistant">> \in messages' => <<d, "assistant">> \in messages
        /\ AfterMessage(o) = "refine" => <<c, "user">> \in messages'
    BY <1>3, <2>1 DEF LogMessage, AfterMessage, Took
  <2>3. AfterMessage(o) \in {"refine", "done"}
    BY DEF AfterMessage
  <2>4. /\ chat' \in [Chats -> [at : {"idle", "message", "refine", "update", "reply", "done"}, topic : Topic]]
        /\ chat'[c].at = AfterMessage(o) /\ \A d \in Chats : d # c => chat'[d] = chat[d]
    BY <1>1, <2>1, <2>3
  <2> QED BY <2>2, <2>3, <2>4 DEF ChatsInv, ChatsTraced
<1>4. ASSUME NEW c \in Chats, Refine(c) PROVE ChatsInv'
  <2>1. chat[c].at = "refine" /\ UNCHANGED <<topic, messages, refined>>
    BY <1>4 DEF Refine
  <2>2. ASSUME NEW new \in Topic, chat' = [chat EXCEPT ![c] = [at |-> "update", topic |-> new]]
        PROVE  ChatsInv'
    BY <2>1, <2>2 DEF ChatsInv, ChatsTraced
  <2>3. CASE ChatGoes(c, "done")
    BY <1>1, <2>1, <2>3 DEF ChatsInv, ChatsTraced
  <2> QED BY <1>4, <2>2, <2>3 DEF Refine
<1>5. ASSUME NEW c \in Chats, UpdateTopic(c) PROVE ChatsInv'
  <2>1. PICK o \in Ending :
          /\ IF o \in Took THEN topic' = chat[c].topic /\ refined' = refined \cup {c}
                           ELSE UNCHANGED <<topic, refined>>
          /\ ChatGoes(c, IF o = "ok" THEN "reply" ELSE "done")
    BY <1>5 DEF UpdateTopic
  <2>2. messages' = messages /\ <<c, "user">> \in messages
    BY <1>5 DEF UpdateTopic, ChatsInv
  <2>3. /\ topic' \in Topic /\ refined \subseteq refined' /\ refined' \subseteq refined \cup {c}
        /\ o = "ok" => c \in refined'
    BY <2>1 DEF ChatsInv, Took
  <2>4. /\ chat' \in [Chats -> [at : {"idle", "message", "refine", "update", "reply", "done"}, topic : Topic]]
        /\ chat'[c].at = (IF o = "ok" THEN "reply" ELSE "done")
        /\ \A d \in Chats : d # c => chat'[d] = chat[d]
    BY <1>1, <2>1
  <2> QED BY <2>2, <2>3, <2>4 DEF ChatsInv, ChatsTraced
<1>6. ASSUME NEW c \in Chats, LogReply(c) PROVE ChatsInv'
  <2>1. /\ chat[c].at = "reply" /\ UNCHANGED <<topic, refined>> /\ ChatGoes(c, "done")
        /\ messages \subseteq messages'
        /\ messages' \subseteq messages \cup {<<c, "assistant">>}
    BY <1>6 DEF LogReply
  <2>2. \A d \in Chats : <<d, "assistant">> \in messages' => <<d, "assistant">> \in messages \/ d = c
    BY <2>1
  <2> QED BY <1>1, <2>1, <2>2 DEF ChatsInv, ChatsTraced
<1>7. ASSUME NEW e \in Edits, NEW prefs \in Preferences, NEW cron \in Crons \cup {Nil},
             EditPreferences(e, prefs, cron)
      PROVE  ChatsInv'
  <2>1. topic' \in Topic
    BY <1>7 DEF EditPreferences, ChatsInv, Topic
  <2>2. UNCHANGED <<messages, chat, refined>>
    BY <1>7 DEF EditPreferences
  <2> QED BY <2>1, <2>2 DEF ChatsInv, ChatsTraced
<1> QED BY <1>2, <1>3, <1>4, <1>5, <1>6, <1>7 DEF ChatsNext

-----------------------------------------------------------------------------
(* Budgets.                                                                 *)

\* What will be written has been found valid as a whole.
BudgetsInv ==
  /\ limits \in Limits
  /\ amendment \in [Amendments -> [at : {"idle", "write", "done"}, limits : Limits]]
  /\ \A b \in Amendments : amendment[b].at = "write" => ValidLimits(amendment[b].limits)
  /\ LimitsAgree

LEMMA BudgetsStep ==
  ASSUME BudgetsInv, BudgetsNext
  PROVE  BudgetsInv'
<1>1. ASSUME NEW b \in Amendments, WriteBudget(b) PROVE BudgetsInv'
  <2>1. /\ amendment[b].at = "write" /\ amendment' = [amendment EXCEPT ![b].at = "done"]
        /\ limits' = limits \/ limits' = amendment[b].limits
    BY <1>1 DEF WriteBudget
  <2>2. limits' \in Limits /\ LimitsAgree'
    BY <2>1 DEF BudgetsInv, LimitsAgree
  <2>3. /\ amendment' \in [Amendments -> [at : {"idle", "write", "done"}, limits : Limits]]
        /\ amendment'[b].at = "done" /\ \A a \in Amendments : a # b => amendment'[a] = amendment[a]
    BY <2>1 DEF BudgetsInv
  <2> QED BY <2>2, <2>3 DEF BudgetsInv
<1>2. ASSUME NEW b \in Amendments, NEW request \in Limits, AmendBudget(b, request) PROVE BudgetsInv'
  <2> DEFINE m == Merged(request, limits)
             a == IF ValidLimits(m) THEN "write" ELSE "done"
  <2>1. m \in Limits
    BY DEF BudgetsInv, Limits, Merged, Given
  <2>2. a \in {"write", "done"} /\ (a = "write" => ValidLimits(m))
    OBVIOUS
  <2>3. limits' = limits /\ amendment' = [amendment EXCEPT ![b] = [at |-> a, limits |-> m]]
    BY <1>2 DEF AmendBudget
  <2> HIDE DEF m, a
  <2>4. /\ amendment' \in [Amendments -> [at : {"idle", "write", "done"}, limits : Limits]]
        /\ amendment'[b].at = a /\ amendment'[b].limits = m
        /\ \A d \in Amendments : d # b => amendment'[d] = amendment[d]
    BY <2>1, <2>2, <2>3 DEF BudgetsInv
  <2>5. LimitsAgree'
    BY <2>3 DEF BudgetsInv, LimitsAgree
  <2>6. \A d \in Amendments : amendment'[d].at = "write" => ValidLimits(amendment'[d].limits)
    BY <2>2, <2>4 DEF BudgetsInv
  <2> QED BY <2>3, <2>4, <2>5, <2>6 DEF BudgetsInv
<1> QED BY <1>1, <1>2 DEF BudgetsNext

-----------------------------------------------------------------------------
(* Versions of builder schemas.                                             *)

Saving == [at : {"idle", "number", "insert", "done"}, content : Contents \cup {Nil},
           of : Nat, version : Nat]

\* Versions are only added: a number that is not the next is taken.
Found(x) ==
  /\ saving[x].at \in {"number", "insert"} => saving[x].content \in Contents
  /\ saving[x].at = "insert" => saving[x].version \in 1..(Len(builderSchemas) + 1)
  /\ saving[x].at \in {"number", "insert", "done"} /\ saving[x].of # 0 =>
       saving[x].of \in Versions /\ builderSchemas[saving[x].of] = saving[x].content
  /\ saving[x].at = "done" /\ saving[x].version # 0 =>
       saving[x].version \in Versions /\ builderSchemas[saving[x].version] = saving[x].content

SchemasInv ==
  /\ builderSchemas \in Seq(Contents)
  /\ saving \in [Saves -> Saving]
  /\ \A x \in Saves : Found(x)

LEMMA SavingMoves ==
  ASSUME SchemasInv, NEW x \in Saves, NEW d \in Saving, saving' = [saving EXCEPT ![x] = d],
         builderSchemas' = builderSchemas,
         d.at \in {"number", "insert"} => d.content \in Contents,
         d.at = "insert" => d.version \in 1..(Len(builderSchemas) + 1),
         d.of # 0 => d.of \in Versions /\ builderSchemas[d.of] = d.content,
         d.at = "done" => d.version = 0
  PROVE  SchemasInv'
<1>1. /\ saving' \in [Saves -> Saving] /\ saving'[x] = d
      /\ \A y \in Saves : y # x => saving'[y] = saving[y]
  BY DEF SchemasInv
<1>2. Found(x)'
  BY <1>1 DEF Found, Versions
<1>3. \A y \in Saves : y # x => Found(y)'
  BY <1>1 DEF SchemasInv, Found, Versions
<1> QED BY <1>1, <1>2, <1>3 DEF SchemasInv

LEMMA InsertSchemaKeeps ==
  ASSUME SchemasInv, NEW x \in Saves, InsertSchema(x)
  PROVE  SchemasInv'
<1> SUFFICES ASSUME NEW v, NEW k, NEW n, v = saving[x].version, k = saving[x].content,
                    n = Len(builderSchemas)
             PROVE  SchemasInv'
  OBVIOUS
<1>1. PICK o \in Ending \cup {"refused"} :
        /\ o # "refused" => Untaken(v)
        /\ builderSchemas' = IF o \in Took
                      THEN [i \in Versions \cup {v} |-> IF i = v THEN k ELSE builderSchemas[i]]
                      ELSE builderSchemas
        /\ saving' = [saving EXCEPT ![x].at = "done", ![x].version = IF o = "ok" THEN v ELSE 0]
  BY DEF InsertSchema
<1>2. /\ saving[x] \in Saving /\ n \in Nat /\ v \in 1..(n + 1) /\ k \in Contents
      /\ saving[x].of # 0 => saving[x].of \in Versions /\ builderSchemas[saving[x].of] = k
  BY DEF InsertSchema, SchemasInv, Found, Saving
<1> DEFINE d == [saving[x] EXCEPT !.at = "done", !.version = IF o = "ok" THEN v ELSE 0]
<1>3. /\ d \in Saving /\ d.at = "done" /\ d.content = k /\ d.of = saving[x].of
      /\ d.version = IF o = "ok" THEN v ELSE 0
  BY <1>2 DEF Saving
<1>4. saving' = [saving EXCEPT ![x] = d]
  BY <1>1
<1> SUFFICES ASSUME NEW e, e = d PROVE SchemasInv'
  OBVIOUS
<1> HIDE DEF d
<1>5. CASE o \notin Took
  <2>1. builderSchemas' = builderSchemas /\ e.version = 0
    BY <1>1, <1>3, <1>5 DEF Took
  <2> QED BY <1>2, <1>3, <1>4, <2>1, SavingMoves
<1>6. CASE o \in Took
  <2>1. v = n + 1
    BY <1>1, <1>2, <1>6 DEF Untaken, Versions, Took
  <2>2. Versions \cup {v} = 1..(n + 1)
    BY <1>2, <2>1 DEF Versions
  <2>3. builderSchemas' = [i \in 1..(n + 1) |-> IF i = v THEN k ELSE builderSchemas[i]]
    BY <1>1, <1>6, <2>2
  <2>4. \A i \in 1..(n + 1) : builderSchemas'[i] \in Contents
    BY <1>2, <2>1, <2>3 DEF SchemasInv
  <2>5. builderSchemas' \in Seq(Contents) /\ Len(builderSchemas') = n + 1
    BY <1>2, <2>3, <2>4, IsASeq
  <2>6. /\ builderSchemas'[v] = k /\ \A i \in 1..n : builderSchemas'[i] = builderSchemas[i]
    BY <1>2, <2>1, <2>3
  <2>7. /\ saving' \in [Saves -> Saving] /\ saving'[x] = e
        /\ \A y \in Saves : y # x => saving'[y] = saving[y]
    BY <1>3, <1>4 DEF SchemasInv
  <2>8. Found(x)'
    BY <1>2, <1>3, <2>1, <2>5, <2>6, <2>7 DEF Found, Versions
  <2>9. ASSUME NEW y \in Saves, y # x PROVE Found(y)'
    BY <1>2, <2>5, <2>6, <2>7, <2>9 DEF SchemasInv, Found, Versions
  <2> QED BY <2>5, <2>7, <2>8, <2>9 DEF SchemasInv
<1> QED BY <1>5, <1>6

LEMMA SchemasStep ==
  ASSUME SchemasInv, SchemasNext
  PROVE  SchemasInv'
<1>1. ASSUME NEW x \in Saves, NumberSchema(x) PROVE SchemasInv'
  <2> SUFFICES ASSUME NEW v, v = Len(builderSchemas) + 1 PROVE SchemasInv'
    OBVIOUS
  <2> DEFINE d == [saving[x] EXCEPT !.at = "insert", !.version = v]
  <2>1. /\ saving[x] \in Saving /\ v \in Nat /\ v \in 1..(Len(builderSchemas) + 1)
        /\ saving[x].at = "number"
    BY <1>1 DEF NumberSchema, SchemasInv
  <2>2. /\ d \in Saving /\ d.at = "insert" /\ d.content = saving[x].content /\ d.of = saving[x].of
        /\ d.version = v
    BY <2>1 DEF Saving
  <2>3. saving' = [saving EXCEPT ![x] = d] /\ builderSchemas' = builderSchemas
    BY <1>1 DEF NumberSchema
  <2> HIDE DEF d
  <2> QED BY <2>1, <2>2, <2>3, SavingMoves DEF SchemasInv, Found
<1>2. ASSUME NEW x \in Saves, NEW content \in Contents, SaveSchema(x, content) PROVE SchemasInv'
  <2> DEFINE d == [Unsaved EXCEPT !.at = "number", !.content = content]
  <2>1. d \in Saving /\ d.at = "number" /\ d.content = content /\ d.of = 0
    BY DEF Saving, Unsaved
  <2>2. saving' = [saving EXCEPT ![x] = d] /\ builderSchemas' = builderSchemas
    BY <1>2 DEF SaveSchema
  <2> HIDE DEF d
  <2> QED BY <2>1, <2>2, SavingMoves
<1>3. ASSUME NEW x \in Saves, NEW v \in Versions, RollBack(x, v) PROVE SchemasInv'
  <2> DEFINE d == [Unsaved EXCEPT !.at = "number", !.content = builderSchemas[v], !.of = v]
  <2>1. v \in Nat /\ builderSchemas[v] \in Contents
    BY DEF Versions, SchemasInv
  <2>2. d \in Saving /\ d.at = "number" /\ d.content = builderSchemas[v] /\ d.of = v
    BY <2>1 DEF Saving, Unsaved
  <2>3. saving' = [saving EXCEPT ![x] = d] /\ builderSchemas' = builderSchemas
    BY <1>3 DEF RollBack
  <2> HIDE DEF d
  <2> QED BY <2>1, <2>2, <2>3, SavingMoves
<1> QED BY <1>1, <1>2, <1>3, InsertSchemaKeeps DEF SchemasNext

-----------------------------------------------------------------------------
TopicsInv == ChatsInv /\ BudgetsInv /\ SchemasInv

LEMMA TopicsStart == TopicsInit => TopicsInv
<1> SUFFICES ASSUME TopicsInit PROVE TopicsInv
  OBVIOUS
<1>1. ChatsInv
  BY DEF TopicsInit, ChatsInv, ChatsTraced
<1>2. NoLimits \in Limits /\ ValidLimits(NoLimits)
  BY DEF NoLimits, Limits, ValidLimits
<1>3. BudgetsInv
  BY <1>2 DEF TopicsInit, BudgetsInv, LimitsAgree
<1>4. Unsaved \in Saving /\ Unsaved.at = "idle"
  BY DEF Unsaved, Saving
<1>5. SchemasInv
  BY <1>4 DEF TopicsInit, SchemasInv, Found
<1> QED BY <1>1, <1>3, <1>5 DEF TopicsInv

LEMMA TopicsStep ==
  ASSUME TopicsInv, [TopicsNext]_topicvars
  PROVE  TopicsInv'
<1>1. UNCHANGED chatvars => ChatsInv'
  BY DEF chatvars, TopicsInv, ChatsInv, ChatsTraced
<1>2. UNCHANGED budgetvars => BudgetsInv'
  BY DEF budgetvars, TopicsInv, BudgetsInv, LimitsAgree
<1>3. UNCHANGED schemavars => SchemasInv'
  BY DEF schemavars, TopicsInv, SchemasInv, Found, Versions
<1>4. ASSUME ChatsNext, UNCHANGED <<budgetvars, schemavars>> PROVE TopicsInv'
  BY <1>2, <1>3, <1>4, ChatsStep DEF TopicsInv
<1>5. ASSUME BudgetsNext, UNCHANGED <<chatvars, schemavars>> PROVE TopicsInv'
  BY <1>1, <1>3, <1>5, BudgetsStep DEF TopicsInv
<1>6. ASSUME SchemasNext, UNCHANGED <<chatvars, budgetvars>> PROVE TopicsInv'
  BY <1>1, <1>2, <1>6, SchemasStep DEF TopicsInv
<1>7. CASE UNCHANGED topicvars
  BY <1>1, <1>2, <1>3, <1>7 DEF TopicsInv, topicvars
<1> QED BY <1>4, <1>5, <1>6, <1>7 DEF TopicsNext

\* Whatever chats, edits, budget requests and saves cross and whichever of
\* their calls fail, changes can be traced, limits agree, and what was saved
\* is found (chat, updateBudget, SaveBuilderSchema).
THEOREM TopicsAreKept == TopicsSpec => []TopicsKept
<1>1. TopicsInv => TopicsKept
  BY DEF TopicsInv, ChatsInv, BudgetsInv, SchemasInv, Found, TopicsKept, SchemasFound
<1> QED BY <1>1, TopicsStart, TopicsStep, PTL DEF TopicsSpec

-----------------------------------------------------------------------------
(* Prunings and rebuilds of memory.                                         *)

Tables == [Runs -> Nat]

Rebuilds == [at : {"off", "page", "load", "vector", "steps"}, page : Seq(Runs),
             oldest : Nat, cursor : Nat, remade : SUBSET Runs, believed : SUBSET Runs, begun : SUBSET Runs]

MemoryShapes ==
  /\ now \in Nat \ {0}
  /\ born \in Tables /\ vectorAt \in Tables /\ stepsAt \in Tables
  /\ pruning \in [at : {"rest", "episodes", "vectors", "steps"}, time : Nat]
  /\ lastPrune \in Nat
  /\ rebuild \in Rebuilds

\* Nothing in the table had expired at that time.
Clear(table, time) == \A r \in Runs : table[r] # 0 => table[r] + Retention >= time

\* What a pruning has gone through is clear, as of its time.
PruneInv ==
  /\ pruning.time <= now /\ lastPrune <= now
  /\ Clear(born, lastPrune) /\ Clear(vectorAt, lastPrune) /\ Clear(stepsAt, lastPrune)
  /\ pruning.at \in {"vectors", "steps"} => Clear(born, pruning.time)
  /\ pruning.at = "steps" => Clear(vectorAt, pruning.time)

\* Whom a rebuild takes to be embedded again.
Through == rebuild.remade \cup rebuild.believed

\* Whoever is newer than the oldest of the page has been embedded, or is taken
\* to be, or is among the rest of the page.
RebuildInv ==
  /\ \A r \in rebuild.begun : born[r] # 0
  /\ rebuild.at = "page" /\ rebuild.cursor # 0 =>
       \A r \in rebuild.begun : born[r] > rebuild.cursor => r \in Through
  /\ rebuild.at \in {"load", "vector", "steps"} =>
       /\ rebuild.page # <<>>
       /\ \A r \in rebuild.begun : born[r] > rebuild.oldest =>
            r \in Through \/ \E i \in 1..Len(rebuild.page) : rebuild.page[i] = r

MemoryInv == MemoryShapes /\ PruneInv /\ RebuildInv

\* Time passes, rows are written or deleted, a pruning begins, ends or is cut off.
LEMMA PruneQuiet ==
  ASSUME MemoryShapes, PruneInv, now' \in {now, now + 1},
         \A r \in Runs : born'[r] \in {born[r], 0, now},
         \A r \in Runs : vectorAt'[r] \in {vectorAt[r], 0, now},
         \A r \in Runs : stepsAt'[r] \in {stepsAt[r], 0, now},
         lastPrune' \in {lastPrune, 0},
         pruning' \in {pruning, NoPruning, [at |-> "episodes", time |-> now]}
  PROVE  PruneInv'
<1>0. Retention \in Nat
  BY MemoryAssumption
<1>1. pruning.time \in Nat /\ lastPrune \in Nat /\ now \in Nat
  BY DEF MemoryShapes
<1>2. ASSUME NEW time \in Nat, time <= now, NEW table \in Tables, NEW next,
             \A r \in Runs : next[r] \in {table[r], 0, now}, Clear(table, time)
      PROVE  Clear(next, time)
  BY <1>0, <1>1, <1>2 DEF Clear, Tables
<1>3. ASSUME NEW table \in Tables PROVE Clear(table, 0)
  BY <1>0, <1>3 DEF Clear, Tables
<1>4. /\ Clear(born', lastPrune) /\ Clear(vectorAt', lastPrune) /\ Clear(stepsAt', lastPrune)
      /\ Clear(born', 0) /\ Clear(vectorAt', 0) /\ Clear(stepsAt', 0)
  BY <1>1, <1>2, <1>3 DEF MemoryShapes, PruneInv
<1>5. /\ pruning.at \in {"vectors", "steps"} => Clear(born', pruning.time)
      /\ pruning.at = "steps" => Clear(vectorAt', pruning.time)
  BY <1>1, <1>2 DEF MemoryShapes, PruneInv
<1>6. pruning'.time <= now' /\ lastPrune' <= now'
  BY <1>1 DEF PruneInv, NoPruning
<1>7. pruning' = pruning \/ pruning'.at \notin {"vectors", "steps"}
  BY DEF NoPruning
<1> QED BY <1>4, <1>5, <1>6, <1>7 DEF PruneInv

\* What a statement of a pruning leaves.
LEMMA PrunedClear ==
  ASSUME MemoryShapes, NEW table \in Tables
  PROVE  /\ Pruned(table) \in Tables /\ Clear(Pruned(table), pruning.time)
         /\ \A r \in Runs : Pruned(table)[r] \in {table[r], 0}
<1>1. Retention \in Nat /\ pruning.time \in Nat
  BY MemoryAssumption DEF MemoryShapes
<1>2. \A r \in Runs : Pruned(table)[r] = IF Expired(table[r]) THEN 0 ELSE table[r]
  BY DEF Pruned
<1>3. Pruned(table) \in Tables
  BY DEF Pruned, Tables
<1> QED BY <1>1, <1>2, <1>3 DEF Clear, Expired, Tables

\* A statement of a pruning, on a table.
LEMMA PruneStatement ==
  ASSUME MemoryInv, NEW table \in Tables, NEW next, NEW stage \in {"vectors", "steps"},
         NEW o \in Ending, next = IF o \in Took THEN Pruned(table) ELSE table, AfterPrune(stage, o)
  PROVE  /\ next \in Tables
         /\ \A r \in Runs : next[r] \in {table[r], 0}
         /\ \/ pruning' = NoPruning
            \/ pruning' = [pruning EXCEPT !.at = stage] /\ Clear(next, pruning.time)
  BY PrunedClear DEF AfterPrune, Ending, Took, MemoryInv

LEMMA PruneEpisodesKeeps == ASSUME MemoryInv, PruneEpisodesBefore PROVE MemoryInv'
<1>1. PICK o \in Ending :
        /\ born' = IF o \in Took THEN Pruned(born) ELSE born
        /\ rebuild' = [rebuild EXCEPT !.begun = {r \in @ : born'[r] # 0}]
        /\ AfterPrune("vectors", o)
  BY DEF PruneEpisodesBefore
<1>2. /\ now' = now /\ vectorAt' = vectorAt /\ stepsAt' = stepsAt /\ lastPrune' = lastPrune
  BY DEF PruneEpisodesBefore
<1>3. /\ born' \in Tables
      /\ \A r \in Runs : born'[r] \in {born[r], 0}
      /\ \/ pruning' = NoPruning
         \/ pruning' = [pruning EXCEPT !.at = "vectors"] /\ Clear(born', pruning.time)
  BY <1>1, PruneStatement DEF MemoryInv, MemoryShapes
<1>4. MemoryShapes'
  BY <1>1, <1>2, <1>3 DEF MemoryInv, MemoryShapes, Rebuilds, NoPruning
<1>5. PruneInv'
  <2>1. CASE pruning' = NoPruning
    BY <1>2, <1>3, <2>1, PruneQuiet DEF MemoryInv
  <2>2. CASE pruning' = [pruning EXCEPT !.at = "vectors"] /\ Clear(born', pruning.time)
    <3>1. pruning'.at = "vectors" /\ pruning'.time = pruning.time
      BY <2>2 DEF MemoryInv, MemoryShapes
    <3>2. Clear(born', lastPrune)
      BY <1>3 DEF MemoryInv, PruneInv, Clear
    <3> QED BY <1>2, <2>2, <3>1, <3>2 DEF MemoryInv, PruneInv
  <2> QED BY <1>3, <2>1, <2>2
<1>6. RebuildInv'
  <2>1. /\ rebuild'.at = rebuild.at /\ rebuild'.cursor = rebuild.cursor
        /\ rebuild'.oldest = rebuild.oldest /\ rebuild'.page = rebuild.page
        /\ Through' = Through
        /\ rebuild'.begun = {r \in rebuild.begun : born'[r] # 0}
    BY <1>1 DEF MemoryInv, MemoryShapes, Rebuilds, Through
  <2>2. \A r \in rebuild'.begun : r \in rebuild.begun /\ born'[r] # 0 /\ born'[r] = born[r]
    BY <1>3, <2>1 DEF MemoryInv, MemoryShapes, Rebuilds
  <2> QED BY <2>1, <2>2 DEF MemoryInv, RebuildInv
<1> QED BY <1>4, <1>5, <1>6 DEF MemoryInv

\* The episodes of the rebuild are as they were.
LEMMA RebuildQuiet ==
  ASSUME MemoryShapes, RebuildInv, rebuild' = rebuild, \A r \in Runs : born[r] # 0 => born'[r] = born[r]
  PROVE  RebuildInv'
<1>1. \A r \in rebuild.begun : born'[r] = born[r] /\ born'[r] # 0
  BY DEF MemoryShapes, Rebuilds, RebuildInv
<1>2. Through' = Through
  BY DEF Through
<1> QED BY <1>1, <1>2 DEF RebuildInv

LEMMA PruneVectorsKeeps == ASSUME MemoryInv, PruneRunEmbeddings PROVE MemoryInv'
<1>1. PICK o \in Ending :
        /\ vectorAt' = IF o \in Took THEN Pruned(vectorAt) ELSE vectorAt
        /\ AfterPrune("steps", o)
  BY DEF PruneRunEmbeddings
<1>2. /\ now' = now /\ born' = born /\ stepsAt' = stepsAt /\ lastPrune' = lastPrune
      /\ rebuild' = rebuild /\ pruning.at = "vectors"
  BY DEF PruneRunEmbeddings
<1>3. /\ vectorAt' \in Tables
      /\ \A r \in Runs : vectorAt'[r] \in {vectorAt[r], 0}
      /\ \/ pruning' = NoPruning
         \/ pruning' = [pruning EXCEPT !.at = "steps"] /\ Clear(vectorAt', pruning.time)
  BY <1>1, PruneStatement DEF MemoryInv, MemoryShapes
<1>4. MemoryShapes'
  BY <1>1, <1>2, <1>3 DEF MemoryInv, MemoryShapes, NoPruning
<1>5. PruneInv'
  <2>1. CASE pruning' = NoPruning
    BY <1>2, <1>3, <2>1, PruneQuiet DEF MemoryInv
  <2>2. CASE pruning' = [pruning EXCEPT !.at = "steps"] /\ Clear(vectorAt', pruning.time)
    <3>1. pruning'.at = "steps" /\ pruning'.time = pruning.time
      BY <2>2 DEF MemoryInv, MemoryShapes
    <3>2. Clear(vectorAt', lastPrune)
      BY <1>3 DEF MemoryInv, PruneInv, Clear
    <3> QED BY <1>2, <2>2, <3>1, <3>2 DEF MemoryInv, PruneInv
  <2> QED BY <1>3, <2>1, <2>2
<1> QED BY <1>2, <1>4, <1>5, RebuildQuiet DEF MemoryInv

LEMMA PruneStepsKeeps == ASSUME MemoryInv, PrunePlanStepEmbeddings PROVE MemoryInv'
<1>1. PICK o \in Ending :
        /\ stepsAt' = IF o \in Took THEN Pruned(stepsAt) ELSE stepsAt
        /\ lastPrune' = PrunedAt(o)
  BY DEF PrunePlanStepEmbeddings
<1>2. /\ now' = now /\ born' = born /\ vectorAt' = vectorAt /\ pruning' = NoPruning
      /\ rebuild' = rebuild /\ pruning.at = "steps"
  BY DEF PrunePlanStepEmbeddings
<1>3. /\ stepsAt' \in Tables
      /\ \A r \in Runs : stepsAt'[r] \in {stepsAt[r], 0}
      /\ o = "ok" => Clear(stepsAt', pruning.time)
  BY <1>1, PrunedClear DEF MemoryInv, MemoryShapes, Ending, Took
<1>4. MemoryShapes'
  BY <1>1, <1>2, <1>3 DEF MemoryInv, MemoryShapes, NoPruning, PrunedAt
<1>5. PruneInv'
  <2>1. CASE o # "ok"
    <3>1. lastPrune' = lastPrune
      BY <1>1, <2>1 DEF PrunedAt
    <3> QED BY <1>2, <1>3, <3>1, PruneQuiet DEF MemoryInv
  <2>2. CASE o = "ok"
    <3>1. lastPrune' = pruning.time /\ Clear(stepsAt', pruning.time)
      BY <1>1, <1>3, <2>2 DEF PrunedAt
    <3>2. pruning'.at = "rest" /\ pruning'.time = 0 /\ now \in Nat
      BY <1>2 DEF NoPruning, MemoryInv, MemoryShapes
    <3> QED BY <1>2, <3>1, <3>2 DEF MemoryInv, PruneInv
  <2> QED BY <2>1, <2>2
<1> QED BY <1>2, <1>4, <1>5, RebuildQuiet DEF MemoryInv

\* What a step of the rebuild does to tables and pruning.
RebuildOnly ==
  /\ now' = now /\ born' = born /\ pruning' = pruning /\ lastPrune' = lastPrune
  /\ vectorAt' \in Tables /\ \A r \in Runs : vectorAt'[r] \in {vectorAt[r], now}
  /\ stepsAt' \in Tables /\ \A r \in Runs : stepsAt'[r] \in {stepsAt[r], 0, now}

LEMMA RebuildMoves ==
  ASSUME MemoryInv, RebuildOnly,
         rebuild' \in Rebuilds,
         RebuildInv'
  PROVE  MemoryInv'
<1>1. MemoryShapes'
  BY DEF RebuildOnly, MemoryInv, MemoryShapes
<1>2. PruneInv'
  BY PruneQuiet DEF RebuildOnly, MemoryInv, MemoryShapes
<1> QED BY <1>1, <1>2 DEF MemoryInv

LEMMA NoRebuildType == NoRebuild \in Rebuilds /\ NoRebuild.at = "off" /\ NoRebuild.begun = {}
<1>1. <<>> \in Seq(Runs)
  BY EmptySeq
<1> QED BY <1>1 DEF NoRebuild, Rebuilds

LEMMA RebuildEnds ==
  ASSUME MemoryInv, RebuildOnly, rebuild' = NoRebuild
  PROVE  MemoryInv'
<1>1. RebuildInv'
  BY NoRebuildType DEF RebuildInv
<1> QED BY <1>1, NoRebuildType, RebuildMoves DEF Rebuilds

LEMMA RebuildBegins ==
  ASSUME MemoryInv, RebuildOnly, BeginRebuild
  PROVE  MemoryInv'
<1>1. rebuild' = [NoRebuild EXCEPT !.at = "page", !.begun = {r \in Runs : born[r] # 0}]
  BY DEF BeginRebuild
<1>2. /\ rebuild' \in Rebuilds /\ rebuild'.at = "page" /\ rebuild'.cursor = 0
      /\ \A r \in rebuild'.begun : born[r] # 0
  BY <1>1, EmptySeq DEF NoRebuild, Rebuilds
<1>3. RebuildInv'
  BY <1>2 DEF RebuildInv, RebuildOnly
<1> QED BY <1>2, <1>3, RebuildMoves DEF Rebuilds

\* The rest of the page, when what is at its head is embedded or gone.
LEMMA PageMoves ==
  ASSUME MemoryInv, RebuildOnly, rebuild.at \in {"load", "vector", "steps"},
         NEW more \in SUBSET Runs, rebuild.remade \subseteq more,
         NEW told \in SUBSET Runs, rebuild.believed \subseteq told,
         rebuild' = [NextOfPage EXCEPT !.remade = more, !.believed = told],
         Head(rebuild.page) \in rebuild.begun => Head(rebuild.page) \in more \cup told
  PROVE  MemoryInv'
<1> DEFINE p == rebuild.page
           rest == Tail(p)
<1>1. /\ p \in Seq(Runs) /\ p # <<>> /\ rebuild \in Rebuilds
      /\ rebuild.oldest \in Nat /\ rebuild.begun \subseteq Runs
  BY DEF MemoryInv, MemoryShapes, RebuildInv, Rebuilds
<1>2. /\ Head(p) \in Runs /\ rest \in Seq(Runs) /\ Len(rest) = Len(p) - 1
      /\ \A i \in 1..Len(rest) : rest[i] = p[i + 1]
      /\ Head(p) = p[1] /\ Len(p) \in Nat \ {0}
  BY <1>1, HeadTailProperties, EmptySeq
<1>3. rebuild' = [rebuild EXCEPT !.page = rest,
                                 !.at = IF rest = <<>> THEN "page" ELSE "load",
                                 !.cursor = IF rest = <<>> THEN rebuild.oldest ELSE rebuild.cursor,
                                 !.remade = more, !.believed = told]
  BY DEF NextOfPage, CursorAfter
<1>4. /\ rebuild' \in Rebuilds
      /\ rebuild'.page = rest /\ rebuild'.at = (IF rest = <<>> THEN "page" ELSE "load")
      /\ rest = <<>> => rebuild'.cursor = rebuild.oldest
      /\ rebuild'.oldest = rebuild.oldest /\ rebuild'.begun = rebuild.begun /\ Through' = more \cup told
  BY <1>1, <1>2, <1>3 DEF Rebuilds, Through
<1>5. ASSUME NEW r \in rebuild.begun, born[r] > rebuild.oldest
      PROVE  r \in more \cup told \/ \E i \in 1..Len(rest) : rest[i] = r
  <2>1. r \in Through \/ \E i \in 1..Len(p) : p[i] = r
    BY <1>5 DEF MemoryInv, RebuildInv
  <2>2. ASSUME NEW i \in 1..Len(p), p[i] = r, i # 1 PROVE \E j \in 1..Len(rest) : rest[j] = r
    <3>1. i - 1 \in 1..Len(rest) /\ rest[i - 1] = p[i]
      BY <1>2, <2>2
    <3> QED BY <2>2, <3>1
  <2> QED BY <1>2, <2>1, <2>2 DEF Through
<1>6. rest = <<>> => Len(rest) = 0
  BY EmptySeq
<1>7. \A r \in rebuild.begun : born[r] # 0
  BY DEF MemoryInv, RebuildInv
<1> HIDE DEF rest
<1>8. RebuildInv'
  BY <1>2, <1>4, <1>5, <1>6, <1>7 DEF RebuildInv, RebuildOnly
<1> QED BY <1>4, <1>8, RebuildMoves DEF Rebuilds

\* A page holds all that are newer than its oldest.
LEMMA PageWhole ==
  ASSUME MemoryShapes, NEW c \in Nat, UpTo(c) # {}, NEW p \in Pages(c)
  PROVE  /\ p \in Seq(Runs) /\ p # <<>> /\ born[p[Len(p)]] \in Nat
         /\ \A r \in UpTo(c) : born[r] > born[p[Len(p)]] => \E i \in 1..Len(p) : p[i] = r
<1> DEFINE k == Cardinality(UpTo(c))
           n == IF k < Batch THEN k ELSE Batch
<1>1. IsFiniteSet(UpTo(c)) /\ UpTo(c) \subseteq Runs
  BY MemoryAssumption, FS_Subset DEF UpTo
<1>2. k \in Nat /\ k # 0
  BY <1>1, FS_CardinalityType, FS_EmptySet
<1>3. n \in Nat \ {0}
  BY <1>2, MemoryAssumption
<1>4. /\ p \in [1..n -> UpTo(c)]
      /\ \A r \in UpTo(c) : (\A i \in 1..n : p[i] # r) => born[r] <= born[p[n]]
  BY DEF Pages
<1> HIDE DEF n
<1>5. p \in Seq(Runs) /\ Len(p) = n
  BY <1>1, <1>3, <1>4
<1>6. p # <<>>
  BY <1>3, <1>5, EmptySeq
<1>7. p[n] \in Runs /\ born[p[n]] \in Nat /\ \A r \in UpTo(c) : born[r] \in Nat
  BY <1>1, <1>3, <1>4 DEF MemoryShapes, Tables
<1> QED BY <1>4, <1>5, <1>6, <1>7

LEMMA ListPageKeeps == ASSUME MemoryInv, ListPage PROVE MemoryInv'
<1>1. RebuildOnly
  BY DEF ListPage, RebuildOnly, episodes, MemoryInv, MemoryShapes, Tables
<1>2. CASE rebuild' = NoRebuild
  BY <1>1, <1>2, RebuildEnds
<1>3. ASSUME UpTo(rebuild.cursor) # {}, NEW p \in Pages(rebuild.cursor), rebuild.at = "page",
             rebuild' = [rebuild EXCEPT !.at = "load", !.page = p, !.oldest = born[p[Len(p)]]]
      PROVE  MemoryInv'
  <2>1. rebuild.cursor \in Nat /\ rebuild \in Rebuilds
    BY DEF MemoryInv, MemoryShapes, Rebuilds
  <2>2. /\ p \in Seq(Runs) /\ p # <<>> /\ born[p[Len(p)]] \in Nat
        /\ \A r \in UpTo(rebuild.cursor) : born[r] > born[p[Len(p)]] => \E i \in 1..Len(p) : p[i] = r
    BY <1>3, <2>1, PageWhole DEF MemoryInv
  <2>3. /\ rebuild' \in Rebuilds /\ rebuild'.at = "load" /\ rebuild'.page = p
        /\ rebuild'.oldest = born[p[Len(p)]]
        /\ rebuild'.begun = rebuild.begun /\ Through' = Through
    BY <1>3, <2>1, <2>2 DEF Rebuilds, Through
  <2>4. \A r \in rebuild.begun : r \in Runs /\ born[r] # 0 /\ born[r] \in Nat
    BY DEF MemoryInv, MemoryShapes, Rebuilds, RebuildInv, Tables
  <2>5. \A r \in rebuild.begun : r \in Through \/ r \in UpTo(rebuild.cursor)
    BY <1>3, <2>1, <2>4 DEF MemoryInv, RebuildInv, UpTo
  <2>6. RebuildInv'
    BY <1>1, <2>2, <2>3, <2>4, <2>5 DEF RebuildInv, RebuildOnly
  <2> QED BY <1>1, <2>3, <2>6, RebuildMoves DEF Rebuilds
<1> QED BY <1>2, <1>3 DEF ListPage, EndRebuild

LEMMA LoadEpisodeKeeps == ASSUME MemoryInv, LoadEpisode PROVE MemoryInv'
<1>1. RebuildOnly
  BY DEF LoadEpisode, RebuildOnly, episodes, MemoryInv, MemoryShapes, Tables
<1>2. /\ rebuild.at = "load" /\ rebuild \in Rebuilds
      /\ rebuild.remade \subseteq Runs /\ rebuild.believed \subseteq Runs
  BY DEF LoadEpisode, MemoryInv, MemoryShapes, Rebuilds
<1>3. CASE rebuild' = NoRebuild
  BY <1>1, <1>3, RebuildEnds
<1>4. CASE born[Head(rebuild.page)] = 0 /\ rebuild' = NextOfPage
  <2>1. Head(rebuild.page) \notin rebuild.begun
    BY <1>4 DEF MemoryInv, RebuildInv
  <2>2. rebuild.page # <<>> /\ rebuild.page \in Seq(Runs) /\ Tail(rebuild.page) \in Seq(Runs)
    BY <1>2, HeadTailProperties DEF MemoryInv, RebuildInv, Rebuilds
  <2>3. /\ NextOfPage \in Rebuilds
        /\ NextOfPage.remade = rebuild.remade /\ NextOfPage.believed = rebuild.believed
    BY <1>2, <2>2 DEF NextOfPage, CursorAfter, Rebuilds
  <2>4. ASSUME NEW d \in Rebuilds
        PROVE  d = [d EXCEPT !.remade = d.remade, !.believed = d.believed]
    BY <2>4 DEF Rebuilds
  <2>5. NextOfPage = [NextOfPage EXCEPT !.remade = rebuild.remade, !.believed = rebuild.believed]
    BY <2>3, <2>4
  <2> QED BY <1>1, <1>2, <1>4, <2>1, <2>5, PageMoves
<1>5. CASE rebuild' = [rebuild EXCEPT !.at = "vector"]
  <2>1. /\ rebuild' \in Rebuilds /\ rebuild'.at = "vector"
        /\ rebuild'.page = rebuild.page /\ rebuild'.oldest = rebuild.oldest
        /\ rebuild'.begun = rebuild.begun /\ Through' = Through
    BY <1>2, <1>5 DEF Rebuilds, Through
  <2>2. RebuildInv'
    BY <1>1, <1>2, <2>1 DEF MemoryInv, RebuildInv, RebuildOnly
  <2> QED BY <1>1, <2>1, <2>2, RebuildMoves DEF Rebuilds
<1> QED BY <1>3, <1>4, <1>5 DEF LoadEpisode, EndRebuild

LEMMA EmbedSummaryAgainKeeps == ASSUME MemoryInv, EmbedSummaryAgain PROVE MemoryInv'
<1>1. RebuildOnly
  BY DEF EmbedSummaryAgain, RebuildOnly, Written, MemoryInv, MemoryShapes, Tables
<1>2. rebuild.at = "vector" /\ rebuild \in Rebuilds
  BY DEF EmbedSummaryAgain, MemoryInv, MemoryShapes, Rebuilds
<1>3. CASE rebuild' = NoRebuild
  BY <1>1, <1>3, RebuildEnds
<1>4. CASE rebuild' = [rebuild EXCEPT !.at = "steps"]
  <2>1. /\ rebuild' \in Rebuilds /\ rebuild'.at = "steps"
        /\ rebuild'.page = rebuild.page /\ rebuild'.oldest = rebuild.oldest
        /\ rebuild'.begun = rebuild.begun /\ Through' = Through
    BY <1>2, <1>4 DEF Rebuilds, Through
  <2>2. RebuildInv'
    BY <1>1, <1>2, <2>1 DEF MemoryInv, RebuildInv, RebuildOnly
  <2> QED BY <1>1, <2>1, <2>2, RebuildMoves DEF Rebuilds
<1> QED BY <1>3, <1>4 DEF EmbedSummaryAgain, EndRebuild

\* What becomes of a run's step embeddings when they are replaced.
LEMMA ReplacedAt ==
  ASSUME MemoryShapes, NEW r \in Runs, NEW x \in Replacings(r),
         stepsAt' = [stepsAt EXCEPT ![r] = x.at]
  PROVE  stepsAt' \in Tables /\ \A s \in Runs : stepsAt'[s] \in {stepsAt[s], 0, now}
<1>1. x.at \in {stepsAt[r], 0, now}
  BY DEF Replacings
<1> QED BY <1>1 DEF MemoryShapes, Tables

LEMMA EmbedStepsAgainKeeps == ASSUME MemoryInv, EmbedStepsAgain PROVE MemoryInv'
<1> DEFINE r == Head(rebuild.page)
<1>1. /\ rebuild.at = "steps" /\ rebuild \in Rebuilds
      /\ rebuild.page \in Seq(Runs) /\ rebuild.page # <<>>
      /\ rebuild.remade \subseteq Runs /\ rebuild.believed \subseteq Runs
  BY DEF EmbedStepsAgain, MemoryInv, MemoryShapes, RebuildInv, Rebuilds
<1>2. r \in Runs
  BY <1>1, HeadTailProperties
<1>3. PICK x \in Replacings(r) :
        /\ stepsAt' = [stepsAt EXCEPT ![r] = x.at]
        /\ \/ rebuild' = [NextOfPage EXCEPT !.remade = @ \cup {r}]
           \/ rebuild' = [NextOfPage EXCEPT !.believed = @ \cup {r}]
           \/ rebuild' = NoRebuild
  BY DEF EmbedStepsAgain, EndRebuild
<1>4. RebuildOnly
  <2>1. stepsAt' \in Tables /\ \A s \in Runs : stepsAt'[s] \in {stepsAt[s], 0, now}
    BY <1>2, <1>3, ReplacedAt DEF MemoryInv
  <2> QED BY <2>1 DEF EmbedStepsAgain, RebuildOnly, MemoryInv, MemoryShapes, Tables
<1>5. CASE rebuild' = NoRebuild
  BY <1>4, <1>5, RebuildEnds
<1>6. /\ NextOfPage.remade = rebuild.remade /\ NextOfPage.believed = rebuild.believed
      /\ NextOfPage \in Rebuilds
  <2>1. Tail(rebuild.page) \in Seq(Runs)
    BY <1>1, HeadTailProperties
  <2> QED BY <1>1, <2>1 DEF NextOfPage, CursorAfter, Rebuilds
<1>7. ASSUME NEW more \in SUBSET Runs, rebuild.remade \subseteq more,
             NEW told \in SUBSET Runs, rebuild.believed \subseteq told, r \in more \cup told,
             rebuild' = [NextOfPage EXCEPT !.remade = more, !.believed = told]
      PROVE  MemoryInv'
  BY <1>1, <1>4, <1>7, PageMoves
<1>8. CASE rebuild' = [NextOfPage EXCEPT !.remade = @ \cup {r}]
  <2> DEFINE more == rebuild.remade \cup {r}
             told == rebuild.believed
  <2>1. rebuild' = [NextOfPage EXCEPT !.remade = more, !.believed = told]
    BY <1>6, <1>8 DEF Rebuilds
  <2>2. /\ more \in SUBSET Runs /\ told \in SUBSET Runs
        /\ rebuild.remade \subseteq more /\ rebuild.believed \subseteq told /\ r \in more \cup told
    BY <1>1, <1>2
  <2> HIDE DEF more, told
  <2> QED BY <1>7, <2>1, <2>2
<1>9. CASE rebuild' = [NextOfPage EXCEPT !.believed = @ \cup {r}]
  <2> DEFINE more == rebuild.remade
             told == rebuild.believed \cup {r}
  <2>1. rebuild' = [NextOfPage EXCEPT !.remade = more, !.believed = told]
    BY <1>6, <1>9 DEF Rebuilds
  <2>2. /\ more \in SUBSET Runs /\ told \in SUBSET Runs
        /\ rebuild.remade \subseteq more /\ rebuild.believed \subseteq told /\ r \in more \cup told
    BY <1>1, <1>2
  <2> HIDE DEF more, told
  <2> QED BY <1>7, <2>1, <2>2
<1> QED BY <1>3, <1>5, <1>8, <1>9

\* A run that has been processed, the clock and the start of a pruning.
LEMMA WritesKeep ==
  ASSUME MemoryInv,
         Tock \/ Tick \/ \E r \in Runs : SaveEpisode(r) \/ EmbedSummary(r) \/ EmbedSteps(r)
  PROVE  MemoryInv'
<1>1. /\ now' \in {now, now + 1} /\ lastPrune' = lastPrune /\ rebuild' = rebuild
      /\ pruning' \in {pruning, [at |-> "episodes", time |-> now]}
  BY DEF Tock, Tick, SaveEpisode, EmbedSummary, EmbedSteps
<1>2. ASSUME NEW table \in Tables, NEW r \in Runs
      PROVE  /\ Written(table, r) \in Tables
             /\ \A s \in Runs : Written(table, r)[s] \in {table[s], now}
             /\ \A s \in Runs : s # r => Written(table, r)[s] = table[s]
  BY DEF Written, Tables, MemoryInv, MemoryShapes
<1>3. /\ born' \in Tables /\ \A r \in Runs : born'[r] \in {born[r], now}
      /\ \A r \in Runs : born[r] # 0 => born'[r] = born[r]
  BY <1>2 DEF Tock, Tick, SaveEpisode, EmbedSummary, EmbedSteps, episodes, MemoryInv, MemoryShapes
<1>4. vectorAt' \in Tables /\ \A r \in Runs : vectorAt'[r] \in {vectorAt[r], now}
  BY <1>2 DEF Tock, Tick, SaveEpisode, EmbedSummary, EmbedSteps, episodes, MemoryInv, MemoryShapes
<1>5. stepsAt' \in Tables /\ \A r \in Runs : stepsAt'[r] \in {stepsAt[r], 0, now}
  <2>1. ASSUME NEW r \in Runs, EmbedSteps(r) PROVE \E x \in Replacings(r) : stepsAt' = [stepsAt EXCEPT ![r] = x.at]
    BY <2>1 DEF EmbedSteps
  <2>2. CASE stepsAt' = stepsAt
    BY <2>2 DEF MemoryInv, MemoryShapes
  <2> QED BY <2>1, <2>2, ReplacedAt DEF Tock, Tick, SaveEpisode, EmbedSummary, episodes, MemoryInv
<1>6. MemoryShapes'
  BY <1>1, <1>3, <1>4, <1>5 DEF MemoryInv, MemoryShapes
<1>7. PruneInv'
  BY <1>1, <1>3, <1>4, <1>5, PruneQuiet DEF MemoryInv
<1> QED BY <1>1, <1>3, <1>6, <1>7, RebuildQuiet DEF MemoryInv

LEMMA ServiceKeeps ==
  ASSUME MemoryInv, RunRebuild \/ CrashService \/ \E rebuilds \in BOOLEAN : StartService(rebuilds)
  PROVE  MemoryInv'
<1>1. ASSUME UNCHANGED <<now, episodes>> PROVE born' = born /\ vectorAt' = vectorAt /\ stepsAt' = stepsAt
  BY <1>1 DEF episodes
<1>2. ASSUME UNCHANGED <<now, episodes, pruning, lastPrune>> PROVE RebuildOnly
  BY <1>2 DEF episodes, RebuildOnly, MemoryInv, MemoryShapes
<1>3. CASE RunRebuild
  BY <1>2, <1>3, RebuildBegins DEF RunRebuild
<1>4. ASSUME NEW rebuilds \in BOOLEAN, StartService(rebuilds) PROVE MemoryInv'
  <2>1. RebuildOnly
    BY <1>2, <1>4 DEF StartService
  <2>2. BeginRebuild \/ rebuild' = rebuild
    BY <1>4 DEF StartService
  <2>3. CASE rebuild' = rebuild
    <3>1. RebuildInv'
      BY <2>1, <2>3 DEF MemoryInv, RebuildInv, RebuildOnly, Through
    <3> QED BY <2>1, <2>3, <3>1, RebuildMoves DEF MemoryInv, MemoryShapes
  <2> QED BY <2>1, <2>2, <2>3, RebuildBegins
<1>5. CASE CrashService
  <2>1. /\ now' = now /\ born' = born /\ vectorAt' = vectorAt /\ stepsAt' = stepsAt
        /\ pruning' = NoPruning /\ lastPrune' = 0
        /\ rebuild' = rebuild \/ rebuild' = NoRebuild
    BY <1>1, <1>5 DEF CrashService
  <2>2. PruneInv'
    BY <2>1, PruneQuiet DEF MemoryInv
  <2>3. RebuildInv'
    BY <2>1, NoRebuildType DEF MemoryInv, RebuildInv, Through
  <2>4. MemoryShapes'
    BY <2>1, NoRebuildType DEF MemoryInv, MemoryShapes, NoPruning, Rebuilds
  <2> QED BY <2>2, <2>3, <2>4 DEF MemoryInv
<1> QED BY <1>3, <1>4, <1>5

LEMMA MemoryStart == MemoryInit => MemoryInv
<1> SUFFICES ASSUME MemoryInit PROVE MemoryInv
  OBVIOUS
<1>1. Retention \in Nat
  BY MemoryAssumption
<1>2. MemoryShapes
  BY NoRebuildType DEF MemoryInit, MemoryShapes, Tables, NoPruning, Rebuilds
<1>3. PruneInv
  BY <1>1, <1>2 DEF MemoryInit, PruneInv, Clear, NoPruning, MemoryShapes, Tables
<1>4. RebuildInv
  BY NoRebuildType DEF MemoryInit, RebuildInv
<1> QED BY <1>2, <1>3, <1>4 DEF MemoryInv

\* It takes a mishap for the rebuild to be told of what is not there.
Believing == mishaps \in Nat /\ (mishaps = 0 => rebuild.believed = {})

LEMMA EndsCount == ASSUME mishaps \in Nat, NEW o, Ends(o)
                   PROVE  mishaps' \in Nat /\ (mishaps' = 0 => mishaps = 0 /\ o = "ok")
  BY DEF Ends

LEMMA BelievingStep ==
  ASSUME MemoryInv, Believing, [MemoryNext]_mvars
  PROVE  Believing'
<1>1. rebuild \in Rebuilds /\ NoRebuild.believed = {}
  BY DEF MemoryInv, MemoryShapes, NoRebuild
<1>2. NextOfPage.believed = rebuild.believed
  BY <1>1 DEF NextOfPage, Rebuilds
<1>3. ASSUME NEW o, Ends(o), o = "ok" => rebuild'.believed \in {rebuild.believed, {}}
      PROVE  Believing'
  BY <1>3, EndsCount DEF Believing
<1>4. ASSUME UNCHANGED mishaps, rebuild'.believed \in {rebuild.believed, {}} PROVE Believing'
  BY <1>4 DEF Believing
<1>5. CASE UNCHANGED mvars
  BY <1>4, <1>5 DEF mvars
<1>6. CASE Tock \/ Tick
  BY <1>4, <1>6 DEF Tock, Tick
<1>7. ASSUME NEW r \in Runs, SaveEpisode(r) \/ EmbedSummary(r) \/ EmbedSteps(r) PROVE Believing'
  BY <1>3, <1>7 DEF SaveEpisode, EmbedSummary, EmbedSteps
<1>8. CASE PruneEpisodesBefore
  <2>1. rebuild'.believed = rebuild.believed
    BY <1>1, <1>8 DEF PruneEpisodesBefore, Rebuilds
  <2> QED BY <1>3, <1>8, <2>1 DEF PruneEpisodesBefore
<1>9. CASE PruneRunEmbeddings \/ PrunePlanStepEmbeddings
  BY <1>3, <1>9 DEF PruneRunEmbeddings, PrunePlanStepEmbeddings
<1>10. ASSUME BeginRebuild PROVE rebuild'.believed = {}
  BY <1>10 DEF BeginRebuild, NoRebuild
<1>11. CASE RunRebuild \/ \E rebuilds \in BOOLEAN : StartService(rebuilds)
  BY <1>4, <1>10, <1>11 DEF RunRebuild, StartService
<1>12. CASE CrashService
  BY <1>1, <1>3, <1>12 DEF CrashService
<1>13. CASE ListPage
  <2>1. \A p \in Pages(rebuild.cursor) :
          [rebuild EXCEPT !.at = "load", !.page = p, !.oldest = born[p[Len(p)]]].believed = rebuild.believed
    BY <1>1 DEF Rebuilds
  <2>2. rebuild'.believed \in {rebuild.believed, {}}
    BY <1>1, <1>13, <2>1 DEF ListPage, EndRebuild
  <2> QED BY <1>3, <1>4, <1>13, <2>2 DEF ListPage
<1>14. CASE LoadEpisode
  <2>1. [rebuild EXCEPT !.at = "vector"].believed = rebuild.believed
    BY <1>1 DEF Rebuilds
  <2>2. rebuild'.believed \in {rebuild.believed, {}}
    BY <1>1, <1>2, <1>14, <2>1 DEF LoadEpisode, EndRebuild
  <2> QED BY <1>3, <1>4, <1>14, <2>2 DEF LoadEpisode
<1>15. CASE EmbedSummaryAgain
  <2>1. [rebuild EXCEPT !.at = "steps"].believed = rebuild.believed
    BY <1>1 DEF Rebuilds
  <2>2. rebuild'.believed \in {rebuild.believed, {}}
    BY <1>1, <1>15, <2>1 DEF EmbedSummaryAgain, EndRebuild
  <2> QED BY <1>3, <1>15, <2>2 DEF EmbedSummaryAgain
<1>16. CASE EmbedStepsAgain
  <2>1. PICK x \in Replacings(Head(rebuild.page)) :
          /\ Ends(x.ends)
          /\ IF x.told = "ok"
             THEN rebuild' = IF x.ends = "ok" THEN [NextOfPage EXCEPT !.remade = @ \cup {Head(rebuild.page)}]
                             ELSE [NextOfPage EXCEPT !.believed = @ \cup {Head(rebuild.page)}]
             ELSE rebuild' = NoRebuild
    BY <1>16 DEF EmbedStepsAgain, EndRebuild
  <2>2. [NextOfPage EXCEPT !.remade = @ \cup {Head(rebuild.page)}].believed = rebuild.believed
    BY <1>1, <1>2 DEF NextOfPage, Rebuilds
  <2>3. x.ends = "ok" => rebuild'.believed \in {rebuild.believed, {}}
    BY <1>1, <2>1, <2>2
  <2> QED BY <1>3, <2>1, <2>3
<1> QED BY <1>5, <1>6, <1>7, <1>8, <1>9, <1>11, <1>12, <1>13, <1>14, <1>15, <1>16
        DEF MemoryNext, RebuildStep

LEMMA MemoryStep ==
  ASSUME MemoryInv, [MemoryNext]_mvars
  PROVE  MemoryInv'
<1>1. CASE UNCHANGED mvars
  BY <1>1 DEF mvars, episodes, MemoryInv, MemoryShapes, PruneInv, RebuildInv, Clear, Through
<1>2. CASE RebuildStep
  BY <1>2, ListPageKeeps, LoadEpisodeKeeps, EmbedSummaryAgainKeeps, EmbedStepsAgainKeeps DEF RebuildStep
<1> QED BY <1>1, <1>2, WritesKeep, ServiceKeeps, PruneEpisodesKeeps, PruneVectorsKeeps, PruneStepsKeeps
        DEF MemoryNext

\* Nothing expired is kept of what is recorded as pruned, and a rebuild passes
\* over no episode that is there from its start, wherever pages are cut,
\* whatever runs write meanwhile and whichever statements fail, other than one
\* it is told of as embedded while the COMMIT has failed (runPrune,
\* rebuildSemanticEmbeddings, ReplacePlanStepEmbeddings).
THEOREM MemoryIsKept == MemorySpec => []MemoryKept
<1>1. MemoryInv => PrunedAsRecorded
  <2> SUFFICES ASSUME MemoryInv, lastPrune # 0, NEW r \in Runs,
                      NEW t \in {born[r], vectorAt[r], stepsAt[r]}, t # 0
               PROVE  t + Retention >= lastPrune
    BY DEF PrunedAsRecorded
  <2> QED BY DEF MemoryInv, PruneInv, Clear
<1>2. MemoryInv /\ Believing => RebuildSkipsNone
  BY DEF MemoryInv, Believing, RebuildInv, RebuildSkipsNone, Through
<1>3. MemoryInv /\ Believing => MemoryKept
  BY <1>1, <1>2 DEF MemoryKept
<1>4. MemoryInit => Believing
  BY DEF MemoryInit, Believing, NoRebuild
<1> QED BY <1>3, <1>4, MemoryStart, MemoryStep, BelievingStep, PTL DEF MemorySpec

-----------------------------------------------------------------------------
(* Results.                                                                 *)

Steps == {"none", "context", "think", "episode", "result", "claims", "graph", "ready", "report",
          "file", "succeed", "fail", "parked", "over"}

\* After the writes of the result and of its claims.
AfterResult == {"graph", "ready", "report", "file", "succeed"}

\* What a pipeline has behind it, at every step.
Produced ==
  \A r \in TopicRuns :
    /\ step[r] \in {"report", "file", "succeed"} => r \in stored
    /\ step[r] \in AfterResult => r \in hurt \/ evidence[r] # Nil
    /\ step[r] = "succeed" => r \in hurt \/ r \in filed
    /\ status[r] = "succeeded" =>
         step[r] = "over" /\ r \in stored /\ (r \in hurt \/ (r \in filed /\ evidence[r] # Nil))

ResultShapes ==
  /\ step \in [TopicRuns -> Steps]
  /\ status \in [TopicRuns -> {"none", "running", "pending_approval", "succeeded", "failed", "rejected"}]
  /\ evidence \in [TopicRuns -> Maybe(Authors)]

LEMMA NoNil == Nil \notin TopicRuns /\ Nil \notin Writers
  BY ResultsAssumption

LEMMA ShapesStep == ResultShapes /\ [ResultsNext]_rvars => ResultShapes'
<1> SUFFICES ASSUME ResultShapes, [ResultsNext]_rvars PROVE ResultShapes'
  OBVIOUS
<1> USE DEF ResultShapes, Steps, Maybe, Authors
<1>1. ASSUME UNCHANGED <<step, status, evidence>> PROVE ResultShapes'
  BY <1>1
<1>2. ASSUME NEW r \in TopicRuns, CreateRun(r) PROVE ResultShapes'
  BY <1>2 DEF CreateRun, Go, episode
<1>3. ASSUME NEW r \in TopicRuns, BuildContext(r) PROVE ResultShapes'
  BY <1>3 DEF BuildContext, Go, episode, outcome
<1>4. ASSUME NEW r \in TopicRuns, Think(r) PROVE ResultShapes'
  BY <1>4 DEF Think, Go, episode
<1>5. ASSUME NEW r \in TopicRuns, PersistEpisode(r) PROVE ResultShapes'
  BY <1>5 DEF PersistEpisode, Go, SaveEpisodeOf, EvidenceAfter, outcome
<1>6. ASSUME NEW r \in TopicRuns, StoreResult(r) PROVE ResultShapes'
  BY <1>6 DEF StoreResult, Go, episode
<1>7. ASSUME NEW r \in TopicRuns, StoreClaims(r) PROVE ResultShapes'
  BY <1>7 DEF StoreClaims, Go, EvidenceAfter
<1>8. ASSUME NEW r \in TopicRuns, StoreGraph(r) PROVE ResultShapes'
  BY <1>8 DEF StoreGraph, Go, episode
<1>9. ASSUME NEW r \in TopicRuns, ReadBack(r) PROVE ResultShapes'
  BY <1>9 DEF ReadBack, Go, episode, outcome
<1>10. ASSUME NEW r \in TopicRuns, WriteReport(r) PROVE ResultShapes'
  BY <1>10 DEF WriteReport, Go, episode, outcome
<1>11. ASSUME NEW r \in TopicRuns, FileReport(r) PROVE ResultShapes'
  BY <1>11 DEF FileReport, Go, episode
<1>12. ASSUME NEW r \in TopicRuns, FinishRun(r) PROVE ResultShapes'
  BY <1>12 DEF FinishRun, Go, episode
<1>13. ASSUME NEW r \in TopicRuns, NEW approved \in BOOLEAN, Decide(r, approved) PROVE ResultShapes'
  BY <1>13 DEF Decide, Go, episode
<1>14. ASSUME NEW r \in TopicRuns, NEW w \in Writers, WriteEpisode(w, r) PROVE ResultShapes'
  BY <1>14 DEF WriteEpisode, SaveEpisodeOf, EvidenceAfter, outcome
<1>15. ASSUME NEW s \in Signers,
             (\E r \in TopicRuns : AskManifest(s, r)) \/ ReadHead(s) \/ ReadSteps(s)
               \/ InsertManifest(s) \/ ReadManifest(s)
      PROVE  ResultShapes'
  BY <1>1, <1>15 DEF AskManifest, ReadHead, ReadSteps, InsertManifest, ReadManifest, outcome, episode
<1>16. CASE UNCHANGED rvars
  BY <1>1, <1>16 DEF rvars, outcome, episode
<1> QED
  BY <1>2, <1>3, <1>4, <1>5, <1>6, <1>7, <1>8, <1>9, <1>10, <1>11, <1>12, <1>13, <1>14, <1>15, <1>16
  DEF ResultsNext

LEMMA ProducedStep == ResultShapes /\ Produced /\ [ResultsNext]_rvars => Produced'
<1> SUFFICES ASSUME ResultShapes, Produced, [ResultsNext]_rvars PROVE Produced'
  OBVIOUS
<1> USE NoNil DEF ResultShapes, Produced, AfterResult
<1>1. ASSUME UNCHANGED <<step, status, evidence, stored, filed, hurt>> PROVE Produced'
  BY <1>1
<1>2. ASSUME NEW r \in TopicRuns, CreateRun(r) PROVE Produced'
  BY <1>2 DEF CreateRun, Go, episode
<1>3. ASSUME NEW r \in TopicRuns, BuildContext(r) PROVE Produced'
  BY <1>3 DEF BuildContext, Go, episode, outcome
<1>4. ASSUME NEW r \in TopicRuns, Think(r) PROVE Produced'
  BY <1>4 DEF Think, Go, episode
<1>5. ASSUME NEW r \in TopicRuns, PersistEpisode(r) PROVE Produced'
  BY <1>5 DEF PersistEpisode, Go, SaveEpisodeOf, EvidenceAfter, outcome
<1>6. ASSUME NEW r \in TopicRuns, StoreResult(r) PROVE Produced'
  BY <1>6 DEF StoreResult, Go, episode
<1>7. ASSUME NEW r \in TopicRuns, StoreClaims(r) PROVE Produced'
  BY <1>7 DEF StoreClaims, Go, EvidenceAfter, Ending, Took
<1>8. ASSUME NEW r \in TopicRuns, StoreGraph(r) PROVE Produced'
  BY <1>8 DEF StoreGraph, Go, episode
<1>9. ASSUME NEW r \in TopicRuns, ReadBack(r) PROVE Produced'
  BY <1>9 DEF ReadBack, CanReport, Go, episode, outcome
<1>10. ASSUME NEW r \in TopicRuns, WriteReport(r) PROVE Produced'
  BY <1>10 DEF WriteReport, Go, episode, outcome
<1>11. ASSUME NEW r \in TopicRuns, FileReport(r) PROVE Produced'
  BY <1>11 DEF FileReport, Go, episode
<1>12. ASSUME NEW r \in TopicRuns, FinishRun(r) PROVE Produced'
  BY <1>12 DEF FinishRun, Go, episode
<1>13. ASSUME NEW r \in TopicRuns, NEW approved \in BOOLEAN, Decide(r, approved) PROVE Produced'
  BY <1>13 DEF Decide, Go, episode
<1>14. ASSUME NEW r \in TopicRuns, NEW w \in Writers, WriteEpisode(w, r) PROVE Produced'
  BY <1>14 DEF WriteEpisode, SaveEpisodeOf, EvidenceAfter, outcome
<1>15. ASSUME NEW s \in Signers,
             (\E r \in TopicRuns : AskManifest(s, r)) \/ ReadHead(s) \/ ReadSteps(s)
               \/ InsertManifest(s) \/ ReadManifest(s)
      PROVE  Produced'
  BY <1>1, <1>15 DEF AskManifest, ReadHead, ReadSteps, InsertManifest, ReadManifest, outcome, episode
<1>16. CASE UNCHANGED rvars
  BY <1>1, <1>16 DEF rvars, outcome, episode
<1> QED
  BY <1>2, <1>3, <1>4, <1>5, <1>6, <1>7, <1>8, <1>9, <1>10, <1>11, <1>12, <1>13, <1>14, <1>15, <1>16
  DEF ResultsNext

LEMMA ResultsHold == ResultsSpec => [](ResultShapes /\ Produced)
<1>1. ResultsInit => ResultShapes /\ Produced
  BY DEF ResultsInit, ResultShapes, Produced, Steps, AfterResult, Maybe
<1> QED BY <1>1, ShapesStep, ProducedStep, PTL DEF ResultsSpec

\* A run that has succeeded has a result that can be shown, its claims and a
\* report, whatever writes fail, are lost or are made by others (processRun).
THEOREM SucceededRunsHaveResults == ResultsSpec => []SucceededHasResult
<1>1. Produced => SucceededHasResult
  BY DEF Produced, SucceededHasResult
<1> QED BY <1>1, ResultsHold, PTL

-----------------------------------------------------------------------------
(* Manifests.                                                               *)

Request ==
  [at : {"rest", "head", "steps", "insert", "existing", "told"}, run : Maybe(TopicRuns),
   head : Maybe(Authors), steps : Maybe(Authors), torn : BOOLEAN]

ManifestShapes ==
  /\ head \in [TopicRuns -> Maybe(Authors)]
  /\ trace \in [TopicRuns -> Maybe(Authors)]
  /\ manifest \in [TopicRuns -> Maybe(Manifest)]
  /\ signing \in [Signers -> Request]
  /\ \A s \in Signers : signing[s].at # "rest" => signing[s].run \in TopicRuns
  /\ \A s \in Signers : signing[s].at \in {"steps", "insert"} => signing[s].head \in Authors

\* A request that was not torn has read one save of the episode, and what is
\* told or about to be told is in the table.
Signed ==
  /\ \A r \in TopicRuns : head[r] = trace[r]
  /\ \A s \in Signers :
       LET r == signing[s].run IN
       /\ signing[s].at = "steps" /\ ~signing[s].torn => signing[s].head = head[r]
       /\ signing[s].at = "insert" /\ ~signing[s].torn => signing[s].head = signing[s].steps
       /\ signing[s].at \in {"existing", "told"} => manifest[r] # Nil
       /\ signing[s].at = "told" =>
            signing[s].head = manifest[r].head /\ signing[s].steps = manifest[r].steps
  /\ \A r \in TopicRuns :
       manifest[r] # Nil /\ ~manifest[r].torn => manifest[r].head = manifest[r].steps

ManifestInv == ManifestShapes /\ Signed

LEMMA QuietKeeps ==
  ASSUME ManifestInv, UNCHANGED <<head, trace, manifest, signing>>
  PROVE  ManifestInv'
  BY DEF ManifestInv, ManifestShapes, Signed, Request

\* A save that takes effect tears what is read of the episode.
LEMMA SaveKeeps ==
  ASSUME ManifestInv, NEW r \in TopicRuns, NEW x \in Authors, NEW o, SaveEpisodeOf(r, x, o),
         UNCHANGED manifest
  PROVE  ManifestInv'
<1>1. CASE o \notin Took
  <2>1. UNCHANGED <<head, trace>>
    BY <1>1 DEF SaveEpisodeOf, HeadAfter
  <2>2. signing' = signing
    <3>1. \A s \in Signers : signing'[s] = signing[s]
      BY <1>1 DEF SaveEpisodeOf
    <3>2. signing' = [s \in Signers |-> signing'[s]]
      BY DEF SaveEpisodeOf
    <3>3. signing = [s \in Signers |-> signing[s]]
      BY DEF ManifestInv, ManifestShapes
    <3> QED BY <3>1, <3>2, <3>3
  <2> QED BY <2>1, <2>2, QuietKeeps
<1>2. CASE o \in Took
  <2>1. /\ head' = [head EXCEPT ![r] = x] /\ trace' = [trace EXCEPT ![r] = x]
        /\ head' \in [TopicRuns -> Maybe(Authors)] /\ trace' \in [TopicRuns -> Maybe(Authors)]
    BY <1>2 DEF SaveEpisodeOf, HeadAfter, ManifestInv, ManifestShapes, Maybe
  <2>2. \A s \in Signers : signing[s] \in Request
    BY DEF ManifestInv, ManifestShapes
  <2>3. \A s \in Signers :
          /\ signing'[s] \in Request /\ signing'[s].at = signing[s].at
          /\ signing'[s].run = signing[s].run /\ signing'[s].head = signing[s].head
          /\ signing'[s].steps = signing[s].steps
          /\ ~signing'[s].torn => ~signing[s].torn /\ ~(signing[s].at = "steps" /\ signing[s].run = r)
    <3> SUFFICES ASSUME NEW s \in Signers
                 PROVE  /\ signing'[s] \in Request /\ signing'[s].at = signing[s].at
                        /\ signing'[s].run = signing[s].run /\ signing'[s].head = signing[s].head
                        /\ signing'[s].steps = signing[s].steps
                        /\ ~signing'[s].torn => ~signing[s].torn /\ ~(signing[s].at = "steps" /\ signing[s].run = r)
      OBVIOUS
    <3>1. CASE signing[s].at = "steps" /\ signing[s].run = r
      <4>1. signing'[s] = [signing[s] EXCEPT !.torn = TRUE]
        BY <1>2, <3>1 DEF SaveEpisodeOf
      <4> QED BY <2>2, <3>1, <4>1 DEF Request
    <3>2. CASE ~(signing[s].at = "steps" /\ signing[s].run = r)
      <4>1. signing'[s] = signing[s]
        BY <1>2, <3>2 DEF SaveEpisodeOf
      <4> QED BY <2>2, <3>2, <4>1
    <3> QED BY <3>1, <3>2
  <2>4. signing' \in [Signers -> Request]
    BY <2>3 DEF SaveEpisodeOf
  <2>5. ManifestShapes'
    BY <2>1, <2>3, <2>4 DEF ManifestInv, ManifestShapes
  <2>6. Signed'
    <3>1. \A q \in TopicRuns : head'[q] = trace'[q] /\ (q # r => head'[q] = head[q])
      BY <2>1 DEF ManifestInv, ManifestShapes, Signed
    <3>2. ASSUME NEW s \in Signers, signing[s].at # "rest"
          PROVE  /\ signing[s].run \in TopicRuns
                 /\ signing'[s].at = "steps" /\ ~signing'[s].torn
                      => signing'[s].head = head'[signing'[s].run]
      BY <2>3, <3>1, <3>2 DEF ManifestInv, ManifestShapes, Signed
    <3> QED BY <2>3, <3>1, <3>2 DEF ManifestInv, Signed
  <2> QED BY <2>5, <2>6 DEF ManifestInv
<1> QED BY <1>1, <1>2

\* A request goes on; its manifest, if it has one, is in the table.
LEMMA SignKeeps ==
  ASSUME ManifestInv, NEW s \in Signers, NEW d \in Request, Sign(s, d), UNCHANGED <<head, trace>>,
         manifest' \in [TopicRuns -> Maybe(Manifest)],
         \A r \in TopicRuns : manifest[r] # Nil => manifest'[r] = manifest[r],
         \A r \in TopicRuns : manifest'[r] # Nil /\ ~manifest'[r].torn => manifest'[r].head = manifest'[r].steps,
         d.at # "rest" => d.run \in TopicRuns,
         d.at \in {"steps", "insert"} => d.head \in Authors,
         d.at = "steps" /\ ~d.torn => d.head = head[d.run],
         d.at = "insert" /\ ~d.torn => d.head = d.steps,
         d.at \in {"existing", "told"} => manifest'[d.run] # Nil,
         d.at = "told" => d.head = manifest'[d.run].head /\ d.steps = manifest'[d.run].steps
  PROVE  ManifestInv'
<1>1. \A u \in Signers : signing'[u] = IF u = s THEN d ELSE signing[u]
  BY DEF Sign, ManifestInv, ManifestShapes
<1>2. ManifestShapes'
  BY <1>1 DEF Sign, ManifestInv, ManifestShapes
<1>3. Signed'
  BY <1>1 DEF ManifestInv, ManifestShapes, Signed
<1> QED BY <1>2, <1>3 DEF ManifestInv

\* What a request can be after a step.
LEMMA RequestShapes ==
  ASSUME ManifestInv, NEW s \in Signers
  PROVE  /\ NotSigning \in Request /\ NotSigning.at = "rest"
         /\ signing[s] \in Request
         /\ Draft(s).head = signing[s].head /\ Draft(s).steps = signing[s].steps
         /\ Draft(s).torn = signing[s].torn
  BY DEF ManifestInv, ManifestShapes, NotSigning, Request, Draft, Maybe

LEMMA AskKeeps ==
  ASSUME ManifestInv, NEW s \in Signers, NEW r \in TopicRuns, AskManifest(s, r)
  PROVE  ManifestInv'
<1>1. /\ UNCHANGED <<head, trace, manifest>>
      /\ manifest \in [TopicRuns -> Maybe(Manifest)]
      /\ \A q \in TopicRuns : manifest[q] # Nil /\ ~manifest[q].torn => manifest[q].head = manifest[q].steps
  BY DEF AskManifest, episode, ManifestInv, ManifestShapes, Signed
<1>2. CASE manifest[r] = Nil /\ Sign(s, Asked(s, r))
  <2>1. Asked(s, r) \in Request /\ Asked(s, r).at = "head" /\ Asked(s, r).run = r
    BY DEF Asked, NotSigning, Request, Maybe
  <2> QED BY <1>1, <1>2, <2>1, SignKeeps
<1>3. CASE manifest[r] # Nil /\ Sign(s, [Asked(s, r) EXCEPT !.at = "existing"])
  <2> DEFINE d == [Asked(s, r) EXCEPT !.at = "existing"]
  <2>1. d \in Request /\ d.at = "existing" /\ d.run = r
    BY DEF Asked, NotSigning, Request, Maybe
  <2> HIDE DEF d
  <2> QED BY <1>1, <1>3, <2>1, SignKeeps DEF d
<1> QED BY <1>2, <1>3 DEF AskManifest

LEMMA ReadHeadKeeps ==
  ASSUME ManifestInv, NEW s \in Signers, ReadHead(s)
  PROVE  ManifestInv'
<1> DEFINE h == head[signing[s].run]
           d == [signing[s] EXCEPT !.at = "steps", !.head = h]
<1>1. /\ UNCHANGED <<head, trace, manifest>>
      /\ manifest \in [TopicRuns -> Maybe(Manifest)]
      /\ \A q \in TopicRuns : manifest[q] # Nil /\ ~manifest[q].torn => manifest[q].head = manifest[q].steps
      /\ signing[s].at = "head" /\ signing[s].run \in TopicRuns /\ h \in Maybe(Authors)
  BY DEF ReadHead, episode, ManifestInv, ManifestShapes, Signed
<1>2. CASE h = Nil
  <2>1. Sign(s, NotSigning)
    BY <1>2 DEF ReadHead
  <2> QED BY <1>1, <2>1, SignKeeps, RequestShapes
<1>3. CASE h # Nil
  <2>1. Sign(s, d)
    BY <1>3 DEF ReadHead
  <2>2. d \in Request /\ d.at = "steps" /\ d.run = signing[s].run /\ d.head = h /\ h \in Authors
    BY <1>1, <1>3, RequestShapes DEF Request, Maybe
  <2> HIDE DEF d
  <2> QED BY <1>1, <2>1, <2>2, SignKeeps
<1> QED BY <1>2, <1>3

LEMMA ReadStepsKeeps ==
  ASSUME ManifestInv, NEW s \in Signers, ReadSteps(s)
  PROVE  ManifestInv'
<1> DEFINE d == [signing[s] EXCEPT !.at = "insert", !.steps = trace[signing[s].run]]
<1>1. /\ UNCHANGED <<head, trace, manifest>>
      /\ manifest \in [TopicRuns -> Maybe(Manifest)]
      /\ \A q \in TopicRuns : manifest[q] # Nil /\ ~manifest[q].torn => manifest[q].head = manifest[q].steps
      /\ signing[s].at = "steps" /\ signing[s].run \in TopicRuns /\ signing[s].head \in Authors
      /\ trace[signing[s].run] \in Maybe(Authors) /\ head[signing[s].run] = trace[signing[s].run]
      /\ ~signing[s].torn => signing[s].head = head[signing[s].run]
  BY DEF ReadSteps, episode, ManifestInv, ManifestShapes, Signed
<1>2. Sign(s, d)
  BY DEF ReadSteps
<1>3. /\ d \in Request /\ d.at = "insert" /\ d.run = signing[s].run
      /\ d.head = signing[s].head /\ d.steps = trace[signing[s].run] /\ d.torn = signing[s].torn
  BY <1>1, RequestShapes DEF Request
<1> HIDE DEF d
<1> QED BY <1>1, <1>2, <1>3, SignKeeps

LEMMA InsertKeeps ==
  ASSUME ManifestInv, NEW s \in Signers, InsertManifest(s)
  PROVE  ManifestInv'
<1> DEFINE r == signing[s].run
           told == [at |-> "told", run |-> r, head |-> Draft(s).head, steps |-> Draft(s).steps,
                    torn |-> Draft(s).torn]
           existing == [signing[s] EXCEPT !.at = "existing"]
<1>1. /\ UNCHANGED <<head, trace>> /\ r \in TopicRuns
      /\ signing[s].at = "insert" /\ signing[s].head \in Authors
      /\ ~signing[s].torn => signing[s].head = signing[s].steps
      /\ manifest \in [TopicRuns -> Maybe(Manifest)]
      /\ \A q \in TopicRuns : manifest[q] # Nil /\ ~manifest[q].torn => manifest[q].head = manifest[q].steps
  BY DEF InsertManifest, episode, ManifestInv, ManifestShapes, Signed
<1>2. Draft(s) \in Manifest /\ Draft(s) # Nil
  BY <1>1, RequestShapes, ManifestAssumption DEF Draft, Manifest, Request, Maybe
<1>3. /\ manifest' \in [TopicRuns -> Maybe(Manifest)]
      /\ \A q \in TopicRuns : manifest[q] # Nil => manifest'[q] = manifest[q]
      /\ \A q \in TopicRuns : manifest'[q] # Nil /\ ~manifest'[q].torn => manifest'[q].head = manifest'[q].steps
  <2>1. \A q \in TopicRuns :
          \/ manifest'[q] = manifest[q]
          \/ q = r /\ manifest[q] = Nil /\ manifest'[q] = Draft(s)
    BY <1>1 DEF InsertManifest, Inserted
  <2>2. manifest' \in [TopicRuns -> Maybe(Manifest)]
    BY <1>1, <1>2 DEF InsertManifest, Inserted, Maybe
  <2> QED BY <1>1, <2>1, <2>2, RequestShapes
<1>4. CASE Sign(s, NotSigning)
  BY <1>1, <1>3, <1>4, SignKeeps, RequestShapes
<1>5. ASSUME NEW o \in Ending, o = "ok", manifest' = IF o \in Took THEN [manifest EXCEPT ![r] = Inserted(s)] ELSE manifest
      PROVE  manifest'[r] # Nil
  BY <1>1, <1>2, <1>5 DEF Took, Inserted
<1>6. CASE manifest'[r] # Nil /\ SameSignature(manifest'[r], Draft(s)) /\ Tell(s, Draft(s))
  <2>1. Sign(s, told)
    BY <1>2, <1>6 DEF Tell
  <2>2. told \in Request /\ told.at = "told" /\ told.run = r /\ told.head = signing[s].head /\ told.steps = signing[s].steps
    BY <1>1, <1>2, RequestShapes DEF Request, Manifest, Maybe
  <2> HIDE DEF told
  <2> QED BY <1>1, <1>3, <1>6, <2>1, <2>2, SignKeeps, RequestShapes DEF SameSignature
<1>7. CASE manifest'[r] # Nil /\ Sign(s, existing)
  <2>1. existing \in Request /\ existing.at = "existing" /\ existing.run = r
    BY <1>1, RequestShapes DEF Request
  <2> HIDE DEF existing
  <2> QED BY <1>1, <1>3, <1>7, <2>1, SignKeeps
<1> QED BY <1>4, <1>5, <1>6, <1>7 DEF InsertManifest

LEMMA ReadManifestKeeps ==
  ASSUME ManifestInv, NEW s \in Signers, ReadManifest(s)
  PROVE  ManifestInv'
<1> DEFINE r == signing[s].run
           m == manifest[r]
           told == [at |-> "told", run |-> r, head |-> m.head, steps |-> m.steps, torn |-> m.torn]
<1>1. /\ UNCHANGED <<head, trace, manifest>> /\ r \in TopicRuns
      /\ signing[s].at = "existing" /\ m # Nil /\ m \in Manifest
      /\ manifest \in [TopicRuns -> Maybe(Manifest)]
      /\ \A q \in TopicRuns : manifest[q] # Nil /\ ~manifest[q].torn => manifest[q].head = manifest[q].steps
  BY DEF ReadManifest, episode, ManifestInv, ManifestShapes, Signed, Maybe
<1>2. Sign(s, NotSigning) \/ Sign(s, told)
  BY DEF ReadManifest, Tell
<1>3. told \in Request /\ told.at = "told" /\ told.run = r /\ told.head = m.head /\ told.steps = m.steps
  BY <1>1 DEF Request, Manifest, Maybe
<1> HIDE DEF told
<1> QED BY <1>1, <1>2, <1>3, SignKeeps, RequestShapes

LEMMA ManifestStep == ManifestInv /\ [ResultsNext]_rvars => ManifestInv'
<1> SUFFICES ASSUME ManifestInv, [ResultsNext]_rvars PROVE ManifestInv'
  OBVIOUS
<1>1. ASSUME NEW r \in TopicRuns,
             CreateRun(r) \/ BuildContext(r) \/ Think(r) \/ StoreResult(r) \/ StoreGraph(r)
               \/ ReadBack(r) \/ WriteReport(r) \/ FileReport(r) \/ FinishRun(r) \/ StoreClaims(r)
               \/ \E approved \in BOOLEAN : Decide(r, approved)
      PROVE  ManifestInv'
  <2>1. UNCHANGED <<head, trace, manifest, signing>>
    BY <1>1 DEF CreateRun, BuildContext, Think, StoreResult, StoreClaims, StoreGraph, ReadBack,
                WriteReport, FileReport, FinishRun, Decide, episode
  <2> QED BY <2>1, QuietKeeps
<1>2. ASSUME NEW r \in TopicRuns, PersistEpisode(r) PROVE ManifestInv'
  BY <1>2, SaveKeeps DEF PersistEpisode, Authors
<1>3. ASSUME NEW r \in TopicRuns, NEW w \in Writers, WriteEpisode(w, r) PROVE ManifestInv'
  BY <1>3, SaveKeeps DEF WriteEpisode, Authors
<1>4. CASE UNCHANGED rvars
  BY <1>4, QuietKeeps DEF rvars, episode
<1> QED
  BY <1>1, <1>2, <1>3, <1>4, AskKeeps, ReadHeadKeeps, ReadStepsKeeps, InsertKeeps, ReadManifestKeeps
  DEF ResultsNext

\* However many requests for the manifest of a run come together, and however
\* often its episode is written meanwhile, all are shown the manifest that is
\* kept, and what is not torn is of one save (createManifest).
THEOREM ManifestsAlwaysAgree == ResultsSpec => []ManifestsAgree
<1>1. ResultsInit => ManifestInv
  BY DEF ResultsInit, ManifestInv, ManifestShapes, Signed, NotSigning, Request, Maybe
<1>2. ManifestInv => ManifestsAgree
  BY RequestShapes DEF ManifestInv, ManifestShapes, Signed, ManifestsAgree, SameSignature
<1> QED BY <1>1, <1>2, ManifestStep, PTL DEF ResultsSpec

-----------------------------------------------------------------------------
(* The types of the records.                                                *)

LEMMA EndsCounted ==
  ASSUME mishaps \in Nat, NEW o, Ends(o) PROVE mishaps' \in Nat
  BY DEF Ends

\* What a mishap strikes is what a thread is at work on.
LEMMA MishapTyped ==
  ASSUME TemplatesTypeOK, NEW x \in Threads, NEW o, Mishap(x, o)
  PROVE  mishaps' \in Nat /\ struck' \subseteq Fingerprints \cup Templates \cup {Nil}
<1>1. doing[x].fp \in Fingerprints \cup {Nil} /\ doing[x].tpl \in Templates \cup {Nil}
  BY DEF TemplatesTypeOK, Doing
<1>2. Ends(o) /\ struck' \in {struck, struck \cup {doing[x].fp, doing[x].tpl}}
  BY DEF Mishap
<1> QED BY <1>1, <1>2, EndsCounted DEF TemplatesTypeOK

LEMMA TablesStay == UNCHANGED tables => seen' = seen
  BY DEF tables

\* The steps that touch neither the counts nor what has crossed.
LEMMA TransactionSteps ==
  ASSUME NEW x, CreateTemplate(x) \/ NumberVersion(x) \/ InsertVersion(x) \/ CutOff(x)
  PROVE  UNCHANGED <<seen, crossed>> /\ (UNCHANGED <<mishaps, struck>> \/ \E o : Mishap(x, o))
<1>1. CASE CreateTemplate(x)
  BY <1>1 DEF CreateTemplate
<1>2. CASE NumberVersion(x)
  BY <1>2, TablesStay DEF NumberVersion
<1>3. CASE InsertVersion(x)
  BY <1>3, TablesStay DEF InsertVersion
<1>4. CASE CutOff(x)
  BY <1>4, TablesStay DEF CutOff
<1> QED BY <1>1, <1>2, <1>3, <1>4

LEMMA StatementSteps ==
  ASSUME NEW x, InsertUsage(x) \/ CountUsage(x) \/ LinkFingerprint(x) \/ CommitVersion(x)
  PROVE  UNCHANGED <<seen, crossed>> /\ \E o : Mishap(x, o)
  BY DEF InsertUsage, CountUsage, LinkFingerprint, CommitVersion

LEMMA PlainSteps ==
  ASSUME (\E p \in Planners : SuggestTemplate(p)) \/ (\E e \in Editors, t \in Templates : Approve(e, t))
           \/ UNCHANGED tvars
  PROVE  UNCHANGED <<seen, crossed, struck, mishaps>>
<1>1. CASE \E p \in Planners : SuggestTemplate(p)
  BY <1>1, TablesStay DEF SuggestTemplate
<1>2. CASE \E e \in Editors, t \in Templates : Approve(e, t)
  BY <1>2, TablesStay DEF Approve
<1>3. CASE UNCHANGED tvars
  BY <1>3, TablesStay DEF tvars
<1> QED BY <1>1, <1>2, <1>3

LEMMA TemplatesTyped ==
  ASSUME Numbers, TemplatesTypeOK, [TemplatesNext]_tvars
  PROVE  TemplatesTypeOK'
<1>1. Shapes'
  BY NumbersStep DEF Numbers
<1> SUFFICES /\ seen' \in [Fingerprints -> Nat] /\ crossed' \subseteq Fingerprints
             /\ struck' \subseteq Fingerprints \cup Templates \cup {Nil} /\ mishaps' \in Nat
  BY <1>1 DEF TemplatesTypeOK, Shapes
<1>2. ASSUME NEW p \in Planners, NEW f \in Fingerprints, CountFingerprint(p, f)
      PROVE  seen' \in [Fingerprints -> Nat] /\ mishaps' \in Nat /\ UNCHANGED <<crossed, struck>>
  BY <1>2, EndsCounted DEF CountFingerprint, TemplatesTypeOK
<1>3. ASSUME NEW x \in Threads, InsertUsage(x) \/ CountUsage(x) \/ LinkFingerprint(x) \/ CommitVersion(x)
      PROVE  UNCHANGED <<seen, crossed>> /\ \E o : Mishap(x, o)
  BY <1>3, StatementSteps
<1>4. ASSUME NEW x \in Threads,
             CreateTemplate(x) \/ NumberVersion(x) \/ InsertVersion(x) \/ CutOff(x)
      PROVE  UNCHANGED <<seen, crossed>> /\ (UNCHANGED <<mishaps, struck>> \/ \E o : Mishap(x, o))
  BY <1>4, TransactionSteps
<1>5. ASSUME NEW e \in Editors, NEW f \in Fingerprints, NEW n \in Names, Promote(e, f, n)
      PROVE  UNCHANGED <<seen, struck, mishaps>> /\ crossed' \in {crossed, crossed \cup {f}}
  BY <1>5, TablesStay DEF Promote
<1>6. ASSUME (\E p \in Planners : SuggestTemplate(p)) \/ (\E e \in Editors, t \in Templates : Approve(e, t))
               \/ UNCHANGED tvars
      PROVE  UNCHANGED <<seen, crossed, struck, mishaps>>
  BY <1>6, PlainSteps
<1> QED
  BY <1>2, <1>3, <1>4, <1>5, <1>6, MishapTyped, ThreadsOf DEF TemplatesNext, TemplatesTypeOK

LEMMA SummariesTyped ==
  ASSUME SummariesTypeOK, [SummariesNext]_svars
  PROVE  SummariesTypeOK'
<1> DEFINE Works(n) == [at : {"rest", "create", "read", "close"}, job : 0..n, err : BOOLEAN,
                        time : 0..MaxHour]
<1>1. Len(jobs) \in Nat /\ work \in [Summarizers -> Works(Len(jobs))] /\ MaxHour \in Nat /\ hour \in 1..MaxHour
  BY SummariesAssumption DEF SummariesTypeOK
<1>2. CASE PassHour
  BY <1>1, <1>2 DEF PassHour, SummariesTypeOK
<1>3. ASSUME NEW q \in Requests, Ask(q) PROVE SummariesTypeOK'
  BY <1>1, <1>3 DEF Ask, SummariesTypeOK, Summarizers
<1>4. CASE TickSummary
  <2> DEFINE d == [work[Scheduler] EXCEPT !.at = "create", !.time = hour]
  <2>1. Scheduler \in Summarizers
    BY DEF Summarizers
  <2>2. d \in Works(Len(jobs))
    <3>1. work[Scheduler] \in Works(Len(jobs)) /\ hour \in 0..MaxHour
      BY <1>1, <2>1
    <3> QED BY <3>1
  <2>3. work' = [work EXCEPT ![Scheduler] = d]
    <3>1. work' = [work EXCEPT ![Scheduler].at = "create", ![Scheduler].time = hour]
      BY <1>4 DEF TickSummary
    <3> QED BY <1>1, <2>1, <3>1
  <2>4. UNCHANGED <<hour, jobs, lastSummary, orphaned, mishaps>>
    BY <1>4 DEF TickSummary
  <2> HIDE DEF d
  <2> QED BY <2>2, <2>3, <2>4 DEF SummariesTypeOK
<1>5. ASSUME NEW x \in Summarizers, CreateJob(x) PROVE SummariesTypeOK'
  <2>1. PICK o \in Ending :
          /\ Ends(o)
          /\ jobs' = IF o \in Took THEN Append(jobs, "running") ELSE jobs
          /\ orphaned' = IF o = "lost" THEN orphaned \cup {Len(jobs')} ELSE orphaned
          /\ work' = [work EXCEPT ![x].at = "read", ![x].job = IF o = "ok" THEN Len(jobs') ELSE 0]
    BY <1>5 DEF CreateJob
  <2> DEFINE n == IF o = "ok" THEN Len(jobs') ELSE 0
  <2>2. /\ jobs' \in Seq({"running", "success", "failed"}) /\ Len(jobs') \in Nat /\ Len(jobs) <= Len(jobs')
        /\ o = "lost" => Len(jobs') \in 1..Len(jobs')
    BY <1>1, <2>1 DEF SummariesTypeOK, Took
  <2>3. n \in 0..Len(jobs') /\ work' = [work EXCEPT ![x].at = "read", ![x].job = n]
    BY <2>1, <2>2
  <2> HIDE DEF n
  <2>4. work' \in [Summarizers -> Works(Len(jobs'))]
    <3>1. \A w \in Works(Len(jobs)) : w \in Works(Len(jobs'))
      BY <1>1, <2>2
    <3>2. [work[x] EXCEPT !.at = "read", !.job = n] \in Works(Len(jobs'))
      BY <1>1, <2>3, <3>1
    <3>3. work' = [work EXCEPT ![x] = [work[x] EXCEPT !.at = "read", !.job = n]]
      BY <2>3
    <3> HIDE DEF Works
    <3> QED BY <1>1, <3>1, <3>2, <3>3
  <2>5. orphaned' \subseteq 1..Len(jobs')
    BY <1>1, <2>1, <2>2 DEF SummariesTypeOK
  <2>6. UNCHANGED <<hour, lastSummary>> /\ mishaps' \in Nat
    BY <1>5, <2>1, EndsCounted DEF CreateJob, SummariesTypeOK
  <2> QED BY <2>2, <2>4, <2>5, <2>6 DEF SummariesTypeOK
<1>6. ASSUME NEW x \in Summarizers, ReadRuns(x) PROVE SummariesTypeOK'
  <2>1. PICK o \in {"ok", "failed"} :
          Ends(o) /\ work' = [work EXCEPT ![x].at = "close", ![x].err = (o = "failed")]
    BY <1>6 DEF ReadRuns
  <2> DEFINE b == (o = "failed")
  <2>2. b \in BOOLEAN /\ work' = [work EXCEPT ![x].at = "close", ![x].err = b]
    BY <2>1
  <2> HIDE DEF b
  <2>3. UNCHANGED <<hour, jobs, lastSummary, orphaned>> /\ mishaps' \in Nat
    BY <1>6, <2>1, EndsCounted DEF ReadRuns, SummariesTypeOK
  <2> QED BY <2>2, <2>3 DEF SummariesTypeOK
<1>7. ASSUME NEW x \in Summarizers, CloseJob(x) PROVE SummariesTypeOK'
  <2> DEFINE i == work[x].job
  <2>1. i \in 0..Len(jobs) /\ work[x].time \in 0..MaxHour
    BY <1>1
  <2>2. /\ work' = [work EXCEPT ![x] = Idle] /\ hour' = hour
        /\ lastSummary' \in {work[x].time, lastSummary}
    BY <1>7 DEF CloseJob
  <2>3. \/ UNCHANGED <<jobs, orphaned, mishaps>>
        \/ /\ i # 0 /\ (\E o : Ends(o)) /\ orphaned' \in {orphaned, orphaned \cup {i}}
           /\ jobs' \in {jobs, [jobs EXCEPT ![i] = "failed"], [jobs EXCEPT ![i] = "success"]}
    BY <1>7 DEF CloseJob, ToComplete
  <2> HIDE DEF i
  <2>4. /\ jobs' \in Seq({"running", "success", "failed"}) /\ Len(jobs') = Len(jobs)
        /\ orphaned' \subseteq 1..Len(jobs)
    <3>1. jobs \in Seq({"running", "success", "failed"}) /\ orphaned \subseteq 1..Len(jobs)
      BY DEF SummariesTypeOK
    <3>2. i # 0 => i \in 1..Len(jobs)
      BY <1>1, <2>1
    <3>3. orphaned' \subseteq 1..Len(jobs)
      <4>1. orphaned' = orphaned \/ (i # 0 /\ orphaned' = orphaned \cup {i})
        BY <2>3
      <4> QED BY <3>1, <3>2, <4>1
    <3>4. jobs' \in Seq({"running", "success", "failed"}) /\ Len(jobs') = Len(jobs)
      <4>1. jobs' = jobs \/ (i # 0 /\ \E s \in {"failed", "success"} : jobs' = [jobs EXCEPT ![i] = s])
        BY <2>3
      <4>2. CASE jobs' = jobs
        BY <3>1, <4>2
      <4>3. ASSUME i # 0, NEW s \in {"failed", "success"}, jobs' = [jobs EXCEPT ![i] = s]
            PROVE  jobs' \in Seq({"running", "success", "failed"}) /\ Len(jobs') = Len(jobs)
        <5>1. i \in 1..Len(jobs)
          BY <3>2, <4>3
        <5> QED BY <3>1, <4>3, <5>1
      <4> QED BY <4>1, <4>2, <4>3
    <3> QED BY <3>3, <3>4
  <2>5. mishaps' \in Nat
    BY <2>3, EndsCounted DEF SummariesTypeOK
  <2>6. Idle \in Works(Len(jobs))
    BY <1>1 DEF Idle
  <2> QED BY <1>1, <2>1, <2>2, <2>4, <2>5, <2>6 DEF SummariesTypeOK
<1>8. CASE RestartMemory
  <2>1. /\ orphaned' = orphaned \cup ({work[x].job : x \in Summarizers} \ {0})
        /\ work' = [x \in Summarizers |-> Idle] /\ lastSummary' = 0 /\ UNCHANGED <<hour, jobs>>
    BY <1>8 DEF RestartMemory
  <2>2. mishaps' \in Nat
    BY <1>8, EndsCounted DEF RestartMemory, SummariesTypeOK
  <2>3. orphaned' \subseteq 1..Len(jobs)
    <3>1. \A x \in Summarizers : work[x].job # 0 => work[x].job \in 1..Len(jobs)
      BY <1>1
    <3>2. orphaned \subseteq 1..Len(jobs)
      BY DEF SummariesTypeOK
    <3> QED BY <2>1, <3>1, <3>2
  <2> QED BY <1>1, <2>1, <2>2, <2>3 DEF SummariesTypeOK, Idle
<1>9. CASE UNCHANGED svars
  BY <1>9 DEF svars, SummariesTypeOK
<1> QED BY <1>2, <1>3, <1>4, <1>5, <1>6, <1>7, <1>8, <1>9 DEF SummariesNext
LEMMA TopicsTyped ==
  ASSUME TopicsInv, TopicsTypeOK, [TopicsNext]_topicvars
  PROVE  TopicsTypeOK'
<1>1. TopicsInv'
  BY TopicsStep
<1> DEFINE Sets == /\ messages' \subseteq Chats \X {"user", "assistant"}
                   /\ edited' \subseteq Edits /\ refined' \subseteq Chats /\ mishaps' \in Nat
<1> SUFFICES Sets
  BY <1>1 DEF TopicsTypeOK, TopicsInv, ChatsInv, BudgetsInv, SchemasInv, Saving
<1>2. /\ messages \subseteq Chats \X {"user", "assistant"}
      /\ edited \subseteq Edits /\ refined \subseteq Chats /\ mishaps \in Nat
  BY DEF TopicsTypeOK
<1>3. ASSUME NEW c \in Chats, ReadTopic(c) \/ LogMessage(c) \/ Refine(c) \/ UpdateTopic(c) \/ LogReply(c)
      PROVE  Sets
  BY <1>2, <1>3, EndsCounted DEF ReadTopic, LogMessage, Refine, UpdateTopic, LogReply
<1>4. ASSUME NEW e \in Edits, NEW prefs, NEW cron, EditPreferences(e, prefs, cron) PROVE Sets
  BY <1>2, <1>4 DEF EditPreferences
<1>5. CASE ChatsNext
  BY <1>3, <1>4, <1>5 DEF ChatsNext
<1>6. ASSUME BudgetsNext \/ SchemasNext PROVE mishaps' \in Nat
  BY <1>2, <1>6, EndsCounted
     DEF BudgetsNext, WriteBudget, AmendBudget, SchemasNext, NumberSchema, InsertSchema, SaveSchema, RollBack
<1>7. UNCHANGED chatvars => UNCHANGED <<messages, edited, refined>>
  BY DEF chatvars
<1>8. CASE UNCHANGED topicvars
  BY <1>2, <1>7, <1>8 DEF topicvars
<1>9. ASSUME BudgetsNext \/ SchemasNext, UNCHANGED chatvars PROVE Sets
  BY <1>2, <1>6, <1>7, <1>9
<1> QED BY <1>5, <1>8, <1>9 DEF TopicsNext
-----------------------------------------------------------------------------
\* Times are of the clock, or none.
LEMMA MemoryBounded ==
  ASSUME MemoryInv', now' <= MaxTime,
         \A r \in Runs : born'[r] <= MaxTime /\ vectorAt'[r] <= MaxTime /\ stepsAt'[r] <= MaxTime,
         rebuild'.oldest <= MaxTime, rebuild'.cursor <= MaxTime,
         pipeline' \in [Runs -> {"running", "vector", "steps", "over"}],
         service' \in {"down", "rebuilding", "up"}, mishaps' \in Nat
  PROVE  MemoryTypeOK'
<1>1. MaxTime \in Nat
  BY MemoryAssumption
<1>2. /\ now' \in Nat \ {0} /\ pruning'.time \in Nat /\ lastPrune' \in Nat
      /\ rebuild'.oldest \in Nat /\ rebuild'.cursor \in Nat
      /\ pruning'.time <= now' /\ lastPrune' <= now'
  BY DEF MemoryInv, MemoryShapes, PruneInv, Rebuilds
<1>3. /\ pruning'.time \in 0..MaxTime /\ lastPrune' \in 0..MaxTime /\ now' \in 1..MaxTime
      /\ rebuild'.oldest \in 0..MaxTime /\ rebuild'.cursor \in 0..MaxTime
  BY <1>1, <1>2
<1>4. ASSUME NEW table \in Tables, \A r \in Runs : table[r] <= MaxTime
      PROVE  table \in [Runs -> 0..MaxTime]
  BY <1>1, <1>4 DEF Tables
<1>5. /\ born' \in [Runs -> 0..MaxTime] /\ vectorAt' \in [Runs -> 0..MaxTime]
      /\ stepsAt' \in [Runs -> 0..MaxTime]
  BY <1>4 DEF MemoryInv, MemoryShapes
<1>6. pruning' \in [at : {"rest", "episodes", "vectors", "steps"}, time : 0..MaxTime]
  BY <1>3 DEF MemoryInv, MemoryShapes
<1>7. rebuild' \in [at : {"off", "page", "load", "vector", "steps"}, page : Seq(Runs),
                    oldest : 0..MaxTime, cursor : 0..MaxTime,
                    remade : SUBSET Runs, believed : SUBSET Runs, begun : SUBSET Runs]
  BY <1>3 DEF MemoryInv, MemoryShapes, Rebuilds
<1> QED BY <1>3, <1>5, <1>6, <1>7 DEF MemoryTypeOK

LEMMA ClockBounded == ASSUME MemoryTypeOK, [MemoryNext]_mvars PROVE now' <= MaxTime /\ mishaps' \in Nat
<1>1. now \in 1..MaxTime /\ mishaps \in Nat /\ MaxTime \in Nat
  BY MemoryAssumption DEF MemoryTypeOK
<1>2. CASE Tock
  BY <1>1, <1>2 DEF Tock
<1>3. CASE \E r \in Runs : SaveEpisode(r) \/ EmbedSummary(r) \/ EmbedSteps(r)
  <2>1. UNCHANGED now /\ \E o : Ends(o)
    BY <1>3 DEF SaveEpisode, EmbedSummary, EmbedSteps
  <2> QED BY <1>1, <2>1, EndsCounted
<1>4. CASE Tick \/ PruneEpisodesBefore \/ PruneRunEmbeddings \/ PrunePlanStepEmbeddings
  BY <1>1, <1>4, EndsCounted DEF Tick, PruneEpisodesBefore, PruneRunEmbeddings, PrunePlanStepEmbeddings
<1>5. CASE \E rebuilds \in BOOLEAN : StartService(rebuilds)
  BY <1>1, <1>5 DEF StartService
<1>6. CASE RunRebuild \/ CrashService
  BY <1>1, <1>6, EndsCounted DEF RunRebuild, CrashService
<1>7. CASE RebuildStep
  <2>1. ListPage \/ LoadEpisode => UNCHANGED now /\ (UNCHANGED mishaps \/ Ends("failed"))
    BY DEF ListPage, LoadEpisode
  <2>2. EmbedSummaryAgain \/ EmbedStepsAgain => UNCHANGED now /\ \E o : Ends(o)
    BY DEF EmbedSummaryAgain, EmbedStepsAgain
  <2> QED BY <1>1, <1>7, <2>1, <2>2, EndsCounted DEF RebuildStep
<1>8. CASE UNCHANGED mvars
  BY <1>1, <1>8 DEF mvars
<1> QED BY <1>2, <1>3, <1>4, <1>5, <1>6, <1>7, <1>8 DEF MemoryNext

LEMMA ServiceTyped ==
  ASSUME MemoryTypeOK, [MemoryNext]_mvars
  PROVE  /\ pipeline' \in [Runs -> {"running", "vector", "steps", "over"}]
         /\ service' \in {"down", "rebuilding", "up"}
<1>1. /\ pipeline \in [Runs -> {"running", "vector", "steps", "over"}]
      /\ service \in {"down", "rebuilding", "up"}
  BY DEF MemoryTypeOK
<1>2. CASE \E r \in Runs : SaveEpisode(r) \/ EmbedSummary(r) \/ EmbedSteps(r)
  BY <1>1, <1>2 DEF SaveEpisode, EmbedSummary, EmbedSteps
<1>3. CASE Tock \/ Tick \/ PruneEpisodesBefore \/ PruneRunEmbeddings \/ PrunePlanStepEmbeddings
  BY <1>1, <1>3 DEF Tock, Tick, PruneEpisodesBefore, PruneRunEmbeddings, PrunePlanStepEmbeddings
<1>4. CASE RunRebuild \/ CrashService \/ \E rebuilds \in BOOLEAN : StartService(rebuilds)
  BY <1>1, <1>4 DEF RunRebuild, CrashService, StartService
<1>5. CASE RebuildStep
  BY <1>1, <1>5 DEF RebuildStep, ListPage, LoadEpisode, EmbedSummaryAgain, EmbedStepsAgain, EndRebuild
<1>6. CASE UNCHANGED mvars
  BY <1>1, <1>6 DEF mvars
<1> QED BY <1>2, <1>3, <1>4, <1>5, <1>6 DEF MemoryNext

\* What a statement writes is the time, and what it deletes is gone.
LEMMA TableBounded ==
  ASSUME now \in 0..MaxTime, NEW table \in [Runs -> 0..MaxTime],
         NEW after, \/ after \in {table, Pruned(table)} \/ \E r : after = Written(table, r)
                    \/ \E r \in Runs : after = [table EXCEPT ![r] = 0]
  PROVE  \A r \in Runs : after[r] <= MaxTime
<1>1. MaxTime \in Nat
  BY MemoryAssumption
<1>2. CASE after = table
  BY <1>1, <1>2
<1>3. CASE after = Pruned(table)
  BY <1>1, <1>3 DEF Pruned
<1>4. ASSUME NEW r, after = Written(table, r) PROVE \A s \in Runs : after[s] <= MaxTime
  BY <1>1, <1>4 DEF Written
<1>5. ASSUME NEW r \in Runs, after = [table EXCEPT ![r] = 0] PROVE \A s \in Runs : after[s] <= MaxTime
  BY <1>1, <1>5
<1> QED BY <1>2, <1>3, <1>4, <1>5

LEMMA TablesBounded ==
  ASSUME MemoryInv, MemoryTypeOK, [MemoryNext]_mvars
  PROVE  \A r \in Runs : born'[r] <= MaxTime /\ vectorAt'[r] <= MaxTime /\ stepsAt'[r] <= MaxTime
<1> DEFINE Altered(table, after) ==
             \/ after \in {table, Pruned(table)} \/ \E r : after = Written(table, r)
             \/ \E r \in Runs : after = [table EXCEPT ![r] = 0]
<1> SUFFICES Altered(born, born') /\ Altered(vectorAt, vectorAt') /\ Altered(stepsAt, stepsAt')
  <2>1. now \in 0..MaxTime
    BY MemoryAssumption DEF MemoryTypeOK
  <2>2. /\ born \in [Runs -> 0..MaxTime] /\ vectorAt \in [Runs -> 0..MaxTime]
        /\ stepsAt \in [Runs -> 0..MaxTime]
    BY DEF MemoryTypeOK
  <2> QED BY <2>1, <2>2, TableBounded
<1>1. ASSUME UNCHANGED episodes PROVE UNCHANGED <<born, vectorAt, stepsAt>>
  BY <1>1 DEF episodes
<1> DEFINE Replaced(r) == \E x \in Replacings(r) : stepsAt' = [stepsAt EXCEPT ![r] = x.at]
<1>0. ASSUME NEW r \in Runs, Replaced(r) PROVE Altered(stepsAt, stepsAt')
  <2>1. PICK x \in Replacings(r) : stepsAt' = [stepsAt EXCEPT ![r] = x.at]
    BY <1>0
  <2>2. x.at \in {stepsAt[r], now, 0}
    BY DEF Replacings
  <2>3. x.at = stepsAt[r] => stepsAt' = stepsAt
    BY <2>1 DEF MemoryTypeOK
  <2> QED BY <2>1, <2>2, <2>3 DEF Written
<1>2. CASE \E r \in Runs : SaveEpisode(r) \/ EmbedSummary(r) \/ EmbedSteps(r)
  <2>1. ASSUME NEW r \in Runs, SaveEpisode(r) \/ EmbedSummary(r)
        PROVE  Altered(born, born') /\ Altered(vectorAt, vectorAt') /\ Altered(stepsAt, stepsAt')
    BY <2>1 DEF SaveEpisode, EmbedSummary
  <2>2. ASSUME NEW r \in Runs, EmbedSteps(r)
        PROVE  born' = born /\ vectorAt' = vectorAt /\ Replaced(r)
    BY <2>2 DEF EmbedSteps
  <2> QED BY <1>0, <1>2, <2>1, <2>2
<1>3. CASE PruneEpisodesBefore \/ PruneRunEmbeddings \/ PrunePlanStepEmbeddings
  BY <1>3 DEF PruneEpisodesBefore, PruneRunEmbeddings, PrunePlanStepEmbeddings
<1>4. CASE Tock \/ Tick \/ RunRebuild \/ CrashService \/ \E rebuilds \in BOOLEAN : StartService(rebuilds)
  BY <1>1, <1>4 DEF Tock, Tick, RunRebuild, CrashService, StartService
<1>5. CASE ListPage \/ LoadEpisode
  BY <1>1, <1>5 DEF ListPage, LoadEpisode
<1>6. CASE EmbedSummaryAgain
  BY <1>6 DEF EmbedSummaryAgain
<1>8. CASE EmbedStepsAgain
  <2>1. Head(rebuild.page) \in Runs
    BY <1>8, HeadTailProperties DEF EmbedStepsAgain, MemoryInv, MemoryShapes, RebuildInv, Rebuilds
  <2>2. born' = born /\ vectorAt' = vectorAt /\ Replaced(Head(rebuild.page))
    BY <1>8 DEF EmbedStepsAgain
  <2> QED BY <1>0, <2>1, <2>2
<1>7. CASE UNCHANGED mvars
  BY <1>1, <1>7 DEF mvars
<1> QED BY <1>2, <1>3, <1>4, <1>5, <1>6, <1>7, <1>8 DEF MemoryNext, RebuildStep

LEMMA RebuildBounded ==
  ASSUME MemoryInv, MemoryTypeOK, [MemoryNext]_mvars
  PROVE  rebuild'.oldest <= MaxTime /\ rebuild'.cursor <= MaxTime
<1>1. /\ rebuild \in Rebuilds /\ rebuild.oldest \in 0..MaxTime /\ rebuild.cursor \in 0..MaxTime
      /\ MaxTime \in Nat /\ born \in [Runs -> 0..MaxTime]
  BY MemoryAssumption DEF MemoryInv, MemoryShapes, MemoryTypeOK
<1> DEFINE Timely(d) == d.oldest <= MaxTime /\ d.cursor <= MaxTime
<1>2. Timely(NoRebuild) /\ Timely(rebuild)
  BY <1>1 DEF NoRebuild
<1>3. /\ Timely(NextOfPage)
      /\ \A s : Timely([NextOfPage EXCEPT !.remade = s]) /\ Timely([NextOfPage EXCEPT !.believed = s])
  BY <1>1 DEF NextOfPage, CursorAfter, Rebuilds
<1>4. \A a : Timely([rebuild EXCEPT !.at = a])
  BY <1>1 DEF Rebuilds
<1>5. ASSUME BeginRebuild PROVE Timely(rebuild')
  BY <1>1, <1>5 DEF BeginRebuild, NoRebuild
<1>6. CASE ListPage
  <2>1. ASSUME UpTo(rebuild.cursor) # {}, NEW p \in Pages(rebuild.cursor),
               rebuild' = [rebuild EXCEPT !.at = "load", !.page = p, !.oldest = born[p[Len(p)]]]
        PROVE  Timely(rebuild')
    <3>1. p \in Seq(Runs) /\ p # <<>>
      BY <1>1, <2>1, PageWhole DEF MemoryInv
    <3>2. p[Len(p)] \in Runs
      BY <3>1, EmptySeq
    <3> QED BY <1>1, <2>1, <3>2 DEF Rebuilds
  <2> QED BY <1>2, <1>6, <2>1 DEF ListPage, EndRebuild
<1>7. CASE LoadEpisode
  BY <1>2, <1>3, <1>4, <1>7 DEF LoadEpisode, EndRebuild
<1>8. CASE EmbedSummaryAgain
  BY <1>2, <1>4, <1>8 DEF EmbedSummaryAgain, EndRebuild
<1>9. CASE EmbedStepsAgain
  <2>1. \/ rebuild' = NoRebuild
        \/ rebuild' = [NextOfPage EXCEPT !.remade = @ \cup {Head(rebuild.page)}]
        \/ rebuild' = [NextOfPage EXCEPT !.believed = @ \cup {Head(rebuild.page)}]
    BY <1>9 DEF EmbedStepsAgain, EndRebuild
  <2> QED BY <1>2, <1>3, <2>1
<1>10. CASE PruneEpisodesBefore
  BY <1>1, <1>10 DEF PruneEpisodesBefore, Rebuilds
<1>11. CASE \/ Tock \/ Tick \/ PruneRunEmbeddings \/ PrunePlanStepEmbeddings
            \/ \E r \in Runs : SaveEpisode(r) \/ EmbedSummary(r) \/ EmbedSteps(r)
  BY <1>2, <1>11 DEF Tock, Tick, PruneRunEmbeddings, PrunePlanStepEmbeddings, SaveEpisode, EmbedSummary, EmbedSteps
<1>12. CASE RunRebuild \/ CrashService \/ \E rebuilds \in BOOLEAN : StartService(rebuilds)
  <2>1. BeginRebuild \/ rebuild' \in {rebuild, NoRebuild}
    BY <1>12 DEF RunRebuild, CrashService, StartService
  <2> QED BY <1>2, <1>5, <2>1
<1>13. CASE UNCHANGED mvars
  BY <1>2, <1>13 DEF mvars
<1> QED BY <1>6, <1>7, <1>8, <1>9, <1>10, <1>11, <1>12, <1>13 DEF MemoryNext, RebuildStep

LEMMA MemoryTyped ==
  ASSUME MemoryInv, MemoryTypeOK, [MemoryNext]_mvars
  PROVE  MemoryTypeOK'
<1>1. MemoryInv'
  BY MemoryStep
<1> QED BY <1>1, MemoryBounded, ClockBounded, ServiceTyped, TablesBounded, RebuildBounded
-----------------------------------------------------------------------------
LEMMA ResultsTyped ==
  ASSUME ResultShapes, ManifestInv, ResultsTypeOK, [ResultsNext]_rvars
  PROVE  ResultsTypeOK'
<1>1. ResultShapes' /\ ManifestInv'
  BY ShapesStep, ManifestStep
<1> DEFINE Sets == /\ stored' \subseteq TopicRuns /\ graph' \in Maybe(TopicRuns) /\ filed' \subseteq TopicRuns
                   /\ wrote' \subseteq Writers /\ hurt' \subseteq TopicRuns /\ mishaps' \in Nat
<1> SUFFICES Sets
  BY <1>1 DEF ResultsTypeOK, ResultShapes, Steps, ManifestInv, ManifestShapes, Request
<1>2. /\ stored \subseteq TopicRuns /\ graph \in Maybe(TopicRuns) /\ filed \subseteq TopicRuns
      /\ wrote \subseteq Writers /\ hurt \subseteq TopicRuns /\ mishaps \in Nat
  BY DEF ResultsTypeOK
<1>3. ASSUME UNCHANGED outcome PROVE UNCHANGED <<stored, graph, filed, hurt>>
  BY <1>3 DEF outcome
<1>4. ASSUME NEW r \in TopicRuns, CreateRun(r) \/ Think(r) \/ \E approved \in BOOLEAN : Decide(r, approved)
      PROVE  Sets
  BY <1>2, <1>4 DEF CreateRun, Think, Decide
<1>5. ASSUME NEW r \in TopicRuns,
             BuildContext(r) \/ PersistEpisode(r) \/ ReadBack(r) \/ WriteReport(r)
               \/ \E w \in Writers : WriteEpisode(w, r)
      PROVE  Sets
  BY <1>2, <1>3, <1>5, EndsCounted
     DEF BuildContext, PersistEpisode, ReadBack, WriteReport, WriteEpisode, SaveEpisodeOf
<1>6. ASSUME NEW r \in TopicRuns,
             StoreResult(r) \/ StoreClaims(r) \/ StoreGraph(r) \/ FileReport(r) \/ FinishRun(r)
      PROVE  Sets
  BY <1>2, <1>6, EndsCounted DEF StoreResult, StoreClaims, StoreGraph, FileReport, FinishRun, Maybe
<1>7. ASSUME NEW s \in Signers,
             (\E r \in TopicRuns : AskManifest(s, r)) \/ ReadHead(s) \/ ReadSteps(s)
               \/ InsertManifest(s) \/ ReadManifest(s)
      PROVE  Sets
  BY <1>2, <1>3, <1>7, EndsCounted DEF AskManifest, ReadHead, ReadSteps, InsertManifest, ReadManifest
<1>8. CASE UNCHANGED rvars
  BY <1>2, <1>3, <1>8 DEF rvars
<1> QED BY <1>4, <1>5, <1>6, <1>7, <1>8 DEF ResultsNext
-----------------------------------------------------------------------------
LEMMA FoundFinite ==
  ASSUME NEW by, Allowed(by)
  PROVE  IsFiniteSet(Deduplicated(by))
<1> DEFINE S == {u \in Urls : by[u] # {}}
           f == [u \in S |-> [url |-> u, credibility |-> Max(by[u])]]
           R == {f[u] : u \in S}
<1>1. IsFiniteSet(S)
  BY DEF Allowed
<1>2. Deduplicated(by) \subseteq R
  <2> SUFFICES ASSUME NEW s \in Deduplicated(by) PROVE s \in R
    OBVIOUS
  <2>1. s \in Source /\ s.url \in S /\ s.credibility = Max(by[s.url])
    BY DEF Deduplicated, Source
  <2>2. s = [url |-> s.url, credibility |-> s.credibility]
    BY <2>1 DEF Source
  <2>3. s = f[s.url]
    BY <2>1, <2>2
  <2> QED BY <2>1, <2>3
<1>3. f \in Surjection(S, R)
  BY DEF Surjection
<1> HIDE DEF f, R, S
<1>4. IsFiniteSet(R)
  BY <1>1, <1>3, FS_Surjection
<1> QED BY <1>2, <1>4, FS_Subset

\* Another page is asked for only while there is one.
PagesLeft == provider \in {"news", "brave"} => page < MaxPages

LEMMA CountersTyped ==
  ASSUME AgentsTypeOK, PagesLeft, [AgentsNext]_avars
  PROVE  /\ provider' \in {"news", "brave", "none", "done"} /\ page' \in 0..MaxPages
         /\ tried' \in 0..Retries /\ expired' \in BOOLEAN
         /\ PagesLeft'
<1> DEFINE Goal == /\ provider' \in {"news", "brave", "none", "done"} /\ page' \in 0..MaxPages
                   /\ tried' \in 0..Retries /\ expired' \in BOOLEAN
                   /\ provider' \in {"news", "brave"} => page' < MaxPages
<1>1. /\ provider \in {"news", "brave", "none", "done"} /\ page \in 0..MaxPages
      /\ tried \in 0..Retries /\ expired \in BOOLEAN
      /\ MaxPages \in Nat /\ Retries \in Nat
      /\ provider \in {"news", "brave"} => page < MaxPages
  BY AgentsAssumption DEF AgentsTypeOK, PagesLeft
<1> SUFFICES Goal
  BY DEF PagesLeft
<1>2. CASE NewsAnswers
  BY <1>1, <1>2 DEF NewsAnswers
<1>3. CASE BraveAnswers
  <2>1. PICK res : provider' = IF LastPage(res, Gathered(res, Credibility.brave)) THEN "none" ELSE "brave"
    BY <1>3 DEF BraveAnswers
  <2>2. provider' = "brave" => page + 1 < MaxPages
    BY <1>1, <2>1 DEF LastPage
  <2>3. provider = "brave" /\ page' = page + 1 /\ tried' = 0 /\ expired' = expired
    BY <1>3 DEF BraveAnswers
  <2> QED BY <1>1, <2>1, <2>2, <2>3
<1>4. CASE RequestFails
  BY <1>1, <1>4 DEF RequestFails, GivesUp
<1>5. CASE Expire
  BY <1>1, <1>5 DEF Expire
<1>6. CASE ReturnSources
  <2>1. provider' = "done" /\ page' = 0 /\ tried' = tried
    BY <1>6 DEF ReturnSources
  <2>2. expired' \in BOOLEAN
    BY <1>6 DEF ReturnSources
  <2> QED BY <1>1, <2>1, <2>2
<1>7. ASSUME NEW reply \in Replies,
             Analyse(reply) \/ Synthesise(reply) \/ DetectConflicts(reply)
               \/ ManageHighlights(reply) \/ BuildGraph(reply)
      PROVE  Goal
  <2>1. UNCHANGED <<provider, page, tried, expired>>
    BY <1>7 DEF Analyse, Synthesise, DetectConflicts, ManageHighlights, BuildGraph, Answered
  <2> QED BY <1>1, <2>1
<1>8. ASSUME NEW bias \in Biases, Compile(bias) PROVE Goal
  BY <1>1, <1>8 DEF Compile
<1>9. CASE UNCHANGED avars
  BY <1>1, <1>9 DEF avars
<1> QED BY <1>2, <1>3, <1>4, <1>5, <1>6, <1>7, <1>8, <1>9 DEF AgentsNext

LEMMA ResultTyped ==
  ASSUME AgentsTypeOK, NEW m \in Models, NEW reply \in Replies, NEW misfit \in {"fallback", "parsed"},
         NEW sources \in {{}, Returned}, NEW size \in Nat, Answered(m, reply, misfit, sources, size)
  PROVE  AgentsTypeOK'
<1> DEFINE Types == [data : {"none", "error", "fallback", "parsed"}, sources : SUBSET Source, size : Nat]
           result == IF Told(reply, misfit) = "error" THEN [NoResult EXCEPT !.data = "error"]
                     ELSE [data |-> Told(reply, misfit), sources |-> sources, size |-> size]
<1>1. Told(reply, misfit) \in {"error", "fallback", "parsed"}
  BY DEF Told, Replies
<1>2. Returned \subseteq Source /\ results \in [Models -> Types]
  BY AgentsAssumption DEF AgentsTypeOK, Returned, Source
<1>3. result \in Types
  BY <1>1, <1>2 DEF NoResult
<1>4. results' = [results EXCEPT ![m] = result]
  BY DEF Answered
<1>5. results' \in [Models -> Types]
  <2> HIDE DEF Types, result
  <2> QED BY <1>2, <1>3, <1>4
<1> HIDE DEF result
<1> QED BY <1>5 DEF AgentsTypeOK, Answered

LEMMA AnswersTyped ==
  ASSUME AgentsInv, AgentsTypeOK, NEW reply \in Replies,
         Analyse(reply) \/ Synthesise(reply) \/ DetectConflicts(reply)
           \/ ManageHighlights(reply) \/ BuildGraph(reply)
  PROVE  AgentsTypeOK'
<1>1. {} \in {{}, Returned} /\ Returned \in {{}, Returned}
  OBVIOUS
<1>2. IsFiniteSet(Returned)
  <2>1. IsFiniteSet(found) /\ IsFiniteSet(Others)
    BY FoundFinite, FS_EmptySet, AgentsAssumption DEF AgentsInv
  <2> QED BY <2>1, FS_Union DEF Returned
<1>3. CASE Analyse(reply)
  <2> DEFINE credible == {s \in Returned : s.credibility >= MinCredibility}
             considered == IF Limit > 0 THEN Min({Limit, Cardinality(credible)}) ELSE Cardinality(credible)
  <2>1. Cardinality(credible) \in Nat /\ Limit \in Int
    BY <1>2, FS_Subset, FS_CardinalityType, AgentsAssumption
  <2>2. considered \in Nat
    <3> HIDE DEF credible
    <3> QED BY <2>1, LeastOfTwo
  <2>3. Answered("analysis", reply, "fallback", {}, considered)
    BY <1>3 DEF Analyse
  <2> HIDE DEF considered
  <2> QED BY <1>1, <2>2, <2>3, ResultTyped DEF Models
<1>4. CASE Synthesise(reply)
  <2>1. Inputs \subseteq {"analysis", "conflict_detection"}
    BY DEF Inputs
  <2>2. IsFiniteSet({"analysis", "conflict_detection"})
    <3>1. IsFiniteSet({"analysis"} \cup {"conflict_detection"})
      BY FS_Singleton, FS_AddElement
    <3>2. {"analysis"} \cup {"conflict_detection"} = {"analysis", "conflict_detection"}
      OBVIOUS
    <3> QED BY <3>1, <3>2
  <2>3. 1 + Cardinality(Inputs) \in Nat
    <3>1. Cardinality(Inputs) \in Nat
      BY <2>1, <2>2, FS_Subset, FS_CardinalityType
    <3> QED BY <3>1
  <2> QED BY <1>1, <1>4, <2>3, ResultTyped DEF Synthesise, Models
<1>5. CASE DetectConflicts(reply) \/ ManageHighlights(reply)
  BY <1>1, <1>5, ResultTyped DEF DetectConflicts, ManageHighlights, Models
<1>6. CASE BuildGraph(reply)
  <2>1. PICK n \in 0..(MaxNodes + 1) : \E confidences \in [1..n -> {MinConfidence - 1, MinConfidence}] :
          Answered("knowledge_graph", reply, "parsed", Returned,
                   IF reply = "fits" THEN Confident(confidences) ELSE 0)
    BY <1>6 DEF BuildGraph
  <2>2. PICK confidences \in [1..n -> {MinConfidence - 1, MinConfidence}] :
          Answered("knowledge_graph", reply, "parsed", Returned,
                   IF reply = "fits" THEN Confident(confidences) ELSE 0)
    BY <2>1
  <2> DEFINE sure == {i \in DOMAIN confidences : confidences[i] >= MinConfidence}
  <2>3. MaxNodes \in Nat /\ n \in Nat
    BY AgentsAssumption
  <2>4. Cardinality(sure) \in Nat
    <3>1. sure \subseteq 1..n /\ IsFiniteSet(1..n)
      BY <2>3, FS_Interval
    <3> HIDE DEF sure
    <3> QED BY <3>1, FS_Subset, FS_CardinalityType
  <2>5. Confident(confidences) = Min({Cardinality(sure), MaxNodes})
    BY DEF Confident
  <2>6. Confident(confidences) \in Nat
    <3> HIDE DEF sure
    <3> QED BY <2>3, <2>4, <2>5, LeastOfTwo
  <2> QED BY <1>1, <2>2, <2>6, ResultTyped DEF Models
<1> QED BY <1>3, <1>4, <1>5, <1>6

\* Fairness leaves a credibility between none and all.
LEMMA AdjustedTyped ==
  ASSUME NEW s \in Source, NEW bias \in Int
  PROVE  Adjusted(s, bias) \in 0..100
<1> DEFINE host == DomainBias[s.url]
           user == Clamp(bias, -BiasRange, BiasRange)
           delta == Clamp(host + user, -10, 10)
           c == s.credibility
           raised == Clamp(10 * c + delta * (10 - c), 0, 100)
<1>1. c \in {6, 8} /\ s.url \in Urls
  BY DEF Source
<1>2. host \in Int /\ BiasRange \in 0..10 /\ MinFair \in 0..10
  <2>1. DomainBias \in [Urls -> -10..10] /\ (-10..10) \subseteq Int
    BY AgentsAssumption
  <2> QED BY <1>1, <2>1, AgentsAssumption
<1>3. user \in Int
  BY <1>2, ClampValue
<1> HIDE DEF host, user
<1>4. delta \in -10..10
  BY <1>2, <1>3, ClampValue
<1>5. Adjusted(s, bias) = IF Fair THEN Max({10 * MinFair, raised}) ELSE 10 * c
  BY DEF Adjusted, host, user
<1> HIDE DEF delta, c
<1>6. 10 * c + delta * (10 - c) \in Int
  BY <1>1, <1>4
<1>7. raised \in 0..100
  <2> DEFINE moved == 10 * c + delta * (10 - c)
  <2>1. moved \in Int
    BY <1>6
  <2> HIDE DEF moved
  <2>2. Clamp(moved, 0, 100) = IF moved < 0 THEN 0 ELSE IF moved > 100 THEN 100 ELSE moved
    BY <2>1, ClampValue
  <2>3. Clamp(moved, 0, 100) \in 0..100
    BY <2>1, <2>2
  <2> QED BY <2>3 DEF moved
<1> HIDE DEF raised
<1>8. Max({10 * MinFair, raised}) \in {10 * MinFair, raised}
  <2>1. 10 * MinFair \in Int /\ raised \in Int
    BY <1>2, <1>7
  <2> HIDE DEF raised
  <2> QED BY <2>1, GreaterOfTwo
<1> QED BY <1>1, <1>2, <1>5, <1>7, <1>8

LEMMA ReportTyped == ASSUME AgentsInv, AgentsTypeOK, NEW bias \in Biases, Compile(bias) PROVE AgentsTypeOK'
<1>1. PICK digest \in (IF results["synthesis"].data = "error" THEN {<<>>} ELSE Digests), lookup \in Lookups :
        LET kept == {i \in DOMAIN digest : Verified(digest[i], lookup, bias) # {}}
            stated == {i \in kept : digest[i].stated}
        IN report' = [made |-> TRUE, items |-> Cardinality(kept),
                      claims |-> [i \in stated |-> Verified(digest[i], lookup, bias)]]
  BY DEF Compile
<1> DEFINE kept == {i \in DOMAIN digest : Verified(digest[i], lookup, bias) # {}}
           stated == {i \in kept : digest[i].stated}
<1>2. /\ report'.made = TRUE /\ report'.items = Cardinality(kept) /\ DOMAIN report'.claims = stated
      /\ \A i \in stated : report'.claims[i] = Verified(digest[i], lookup, bias)
  BY <1>1
<1>3. \E n \in Nat : DOMAIN digest = 1..n
  <2>1. digest = <<>> \/ digest \in Seq([stated : BOOLEAN, cited : SUBSET Urls])
    BY AgentsAssumption
  <2> QED BY <2>1
<1>4. kept \subseteq DOMAIN digest /\ stated \subseteq kept
  OBVIOUS
<1> HIDE DEF kept, stated
<1>5. Cardinality(kept) \in Nat /\ stated \subseteq Nat
  <2>1. PICK n \in Nat : DOMAIN digest = 1..n
    BY <1>3
  <2>2. IsFiniteSet(DOMAIN digest)
    BY <2>1, FS_Interval
  <2>3. DOMAIN digest \subseteq Nat
    BY <2>1
  <2> QED BY <1>4, <2>2, <2>3, FS_Subset, FS_CardinalityType
<1>6. ASSUME NEW i \in stated PROVE Verified(digest[i], lookup, bias) \subseteq Cited
  <2>1. Sources \subseteq Source /\ bias \in Int
    BY AgentsAssumption DEF Sources, AgentsInv, AgentsTypeOK, Returned, Source
  <2>2. \A u \in DOMAIN lookup : u \in Urls /\ lookup[u] \in Sources
    BY DEF Lookups
  <2>3. \A u \in DOMAIN lookup : u \in Urls /\ Adjusted(lookup[u], bias) \in 0..100
    BY <2>1, <2>2, AdjustedTyped
  <2> QED BY <2>3 DEF Verified, Cited
<1>7. report'.made \in BOOLEAN /\ report'.items \in Nat
      /\ \A i \in DOMAIN report'.claims : i \in Nat /\ report'.claims[i] \subseteq Cited
  BY <1>2, <1>5, <1>6
<1>8. UNCHANGED <<provider, page, tried, expired, gathered, amount, perHost, found, results>>
  BY DEF Compile
<1> QED BY <1>7, <1>8 DEF AgentsTypeOK

LEMMA AgentsTyped ==
  ASSUME AgentsInv, AgentsTypeOK, PagesLeft, [AgentsNext]_avars
  PROVE  AgentsTypeOK' /\ PagesLeft'
<1>1. PagesLeft'
  BY CountersTyped
<1>2. /\ provider' \in {"news", "brave", "none", "done"} /\ page' \in 0..MaxPages
      /\ tried' \in 0..Retries /\ expired' \in BOOLEAN
  BY CountersTyped
<1>3. AgentsInv'
  BY AgentsStep
<1>4. gathered' \in [Urls -> SUBSET {6, 8}]
  BY <1>3 DEF AgentsInv, Allowed
<1>5. DomainCap \in Nat
  BY AgentsAssumption
<1>6. ASSUME NewsAnswers \/ BraveAnswers \/ RequestFails \/ Expire PROVE AgentsTypeOK'
  <2>1. provider' # "done" /\ UNCHANGED <<found, results, report>>
    BY <1>6 DEF NewsAnswers, BraveAnswers, RequestFails, GivesUp, Expire
  <2>2. Counted(Gathering)'
    BY <1>3, <2>1 DEF AgentsInv
  <2>3. amount' \in Nat /\ perHost' \in [Hosts -> 0..DomainCap]
    BY <2>2 DEF Counted, Gathering
  <2>4. perHost' \in [Hosts -> Nat]
    BY <1>5, <2>3
  <2> QED BY <1>1, <1>2, <1>4, <2>1, <2>3, <2>4 DEF AgentsTypeOK
<1>7. ASSUME ReturnSources PROVE AgentsTypeOK'
  <2>1. found' = Deduplicated(gathered) /\ amount' = 0 /\ perHost' = [h \in Hosts |-> 0]
        /\ UNCHANGED <<results, report>>
    BY <1>7 DEF ReturnSources
  <2>2. found' \subseteq Source
    BY <2>1 DEF Deduplicated
  <2> QED BY <1>1, <1>2, <1>4, <2>1, <2>2 DEF AgentsTypeOK
<1>8. ASSUME NEW reply \in Replies,
             Analyse(reply) \/ Synthesise(reply) \/ DetectConflicts(reply)
               \/ ManageHighlights(reply) \/ BuildGraph(reply)
      PROVE  AgentsTypeOK'
  BY <1>8, AnswersTyped
<1>9. ASSUME NEW bias \in Biases, Compile(bias) PROVE AgentsTypeOK'
  BY <1>9, ReportTyped
<1>10. ASSUME UNCHANGED avars PROVE AgentsTypeOK'
  <2>1. UNCHANGED <<provider, page, tried, expired, gathered, amount, perHost, found, results, report>>
    BY <1>10 DEF avars
  <2>2. /\ report'.made \in BOOLEAN /\ report'.items \in Nat
        /\ \A i \in DOMAIN report'.claims : i \in Nat /\ report'.claims[i] \subseteq Cited
    BY <2>1 DEF AgentsTypeOK
  <2>3. /\ gathered' \in [Urls -> SUBSET {6, 8}] /\ amount' \in Nat /\ perHost' \in [Hosts -> Nat]
        /\ found' \subseteq Source
        /\ results' \in [Models -> [data : {"none", "error", "fallback", "parsed"},
                                    sources : SUBSET Source, size : Nat]]
    BY <2>1 DEF AgentsTypeOK
  <2> QED BY <1>2, <2>2, <2>3 DEF AgentsTypeOK
<1>11. AgentsTypeOK'
  BY <1>6, <1>7, <1>8, <1>9, <1>10, Zenon DEF AgentsNext
<1> QED BY <1>1, <1>11

-----------------------------------------------------------------------------
(* Semantic memory.                                                         *)

RowTyped(row) == row.at \in 0..MaxDay /\ row.point \in Points \cup {0}

DeltaTyped(d) == d.at \in {"rest", "embed", "runs", "steps", "log", "over"}

SearchTyped(q) == q.at \in {"rest", "embed", "runs", "steps", "over"}

RecallTypeParts ==
  /\ day \in 1..MaxDay
  /\ \A r \in PastRuns : RowTyped(runVectors[r]) /\ RowTyped(stepVectors[r])
  /\ \A c \in Askers : DeltaTyped(deltas[c])
  /\ \A s \in Searchers : SearchTyped(searches[s])
  /\ mishaps \in Nat

LEMMA RecallParts == (RecallTypeOK <=> RecallTypeParts) /\ (RecallTypeOK' <=> RecallTypeParts')
  BY DEF RecallTypeOK, RecallTypeParts, RowTyped, DeltaTyped, SearchTyped

\* One table gets a row of today.
LEMMA RowSet ==
  ASSUME NEW table, table \in VectorTables, NEW r \in PastRuns, NEW p \in Points, day \in 1..MaxDay,
         \A s \in PastRuns : RowTyped(table[s]),
         NEW table2, table2 = [table EXCEPT ![r] = [point |-> p, at |-> day]]
  PROVE  \A s \in PastRuns : RowTyped(table2[s])
<1>1. MaxDay \in Nat
  BY RecallAssumption
<1> SUFFICES ASSUME NEW s \in PastRuns PROVE RowTyped(table2[s])
  OBVIOUS
<1>2. table2[s] = IF s = r THEN [point |-> p, at |-> day] ELSE table[s]
  BY DEF VectorTables
<1>3. CASE s = r
  BY <1>1, <1>2, <1>3 DEF RowTyped
<1>4. CASE s # r
  BY <1>2, <1>4
<1> QED BY <1>3, <1>4

\* The others are as they were.
LEMMA DeltaSet ==
  ASSUME DOMAIN deltas = Askers, \A c \in Askers : DeltaTyped(deltas[c]),
         NEW c \in Askers, NEW e, DeltaTyped(e), deltas' = [deltas EXCEPT ![c] = e]
  PROVE  \A a \in Askers : DeltaTyped(deltas'[a])
  OBVIOUS

LEMMA SearchSet ==
  ASSUME DOMAIN searches = Searchers, \A s \in Searchers : SearchTyped(searches[s]),
         NEW s \in Searchers, NEW q, SearchTyped(q), searches' = [searches EXCEPT ![s] = q]
  PROVE  \A a \in Searchers : SearchTyped(searches'[a])
  OBVIOUS

LEMMA EmbedTyped ==
  ASSUME RecallInv, RecallTypeParts, NEW r \in PastRuns, EmbedRun(r) \/ EmbedPlan(r)
  PROVE  RecallTypeParts'
<1>1. /\ DOMAIN deltas = Askers /\ runVectors \in VectorTables /\ stepVectors \in VectorTables
      /\ \A c \in Askers : DOMAIN deltas[c] = DeltaFields
  BY DEF RecallInv, DeltaSound, DeltaCounts
<1>2. UNCHANGED <<day, searches, mishaps>>
  BY DEF EmbedRun, EmbedPlan
<1>3. \A c \in Askers : deltas'[c].at = deltas[c].at
  <2> SUFFICES ASSUME NEW c \in Askers PROVE deltas'[c].at = deltas[c].at
    OBVIOUS
  <2>1. \/ deltas'[c] = [deltas[c] EXCEPT !.held = @ \ {r}]
        \/ deltas'[c] = [deltas[c] EXCEPT !.heldSteps = @ \ {r}]
    BY DEF EmbedRun, EmbedPlan
  <2> QED BY <1>1, <2>1 DEF DeltaFields
<1>4. PICK p \in Points :
        \/ runVectors' = [runVectors EXCEPT ![r] = [point |-> p, at |-> day]] /\ UNCHANGED stepVectors
        \/ stepVectors' = [stepVectors EXCEPT ![r] = [point |-> p, at |-> day]] /\ UNCHANGED runVectors
  BY DEF EmbedRun, EmbedPlan
<1>5. day \in 1..MaxDay /\ \A s \in PastRuns : RowTyped(runVectors[s]) /\ RowTyped(stepVectors[s])
  BY DEF RecallTypeParts
<1>6. \A s \in PastRuns : RowTyped(runVectors'[s]) /\ RowTyped(stepVectors'[s])
  BY <1>1, <1>4, <1>5, RowSet
<1> QED BY <1>2, <1>3, <1>6 DEF RecallTypeParts, DeltaTyped

LEMMA DeltaStepTyped ==
  ASSUME RecallInv, RecallTypeParts, NEW c \in Askers,
         AskDelta(c) \/ EmbedItems(c) \/ MatchRuns(c) \/ MatchSteps(c) \/ LogDelta(c)
  PROVE  RecallTypeParts'
<1>1. DOMAIN deltas = Askers /\ DOMAIN deltas[c] = DeltaFields /\ DeltaTyped(deltas[c])
  BY DEF RecallInv, DeltaSound, DeltaCounts, RecallTypeParts
<1>2. UNCHANGED <<day, runVectors, stepVectors, searches>>
  BY DEF AskDelta, EmbedItems, MatchRuns, MatchSteps, LogDelta
<1>3. mishaps' \in Nat
  <2>1. UNCHANGED mishaps \/ \E o : Ends(o)
    BY DEF AskDelta, EmbedItems, MatchRuns, MatchSteps, LogDelta
  <2>2. mishaps \in Nat
    BY DEF RecallTypeParts
  <2> QED BY <2>1, <2>2, EndsCounted
<1>4. DeltaTyped(NoDelta) /\ \A new \in BOOLEAN : DeltaTyped(CountedAs(deltas[c], new))
  BY <1>1 DEF DeltaTyped, NoDelta, CountedAs, DeltaFields
<1>5. \E e : DeltaTyped(e) /\ deltas' = [deltas EXCEPT ![c] = e]
  <2>1. CASE AskDelta(c)
    <3>1. PICK batch \in Batches, known \in KnownIDs :
            deltas' = [deltas EXCEPT ![c] =
              [NoDelta EXCEPT !.at = IF Judged(batch, known).left = <<>> THEN "log" ELSE "embed",
                              !.total = Len(batch), !.novel = Judged(batch, known).novel,
                              !.left = Judged(batch, known).left,
                              !.duplicates = Judged(batch, known).duplicates]]
      BY <2>1 DEF AskDelta
    <3> DEFINE j == Judged(batch, known)
               e == [NoDelta EXCEPT !.at = IF j.left = <<>> THEN "log" ELSE "embed",
                              !.total = Len(batch), !.novel = j.novel,
                              !.left = j.left, !.duplicates = j.duplicates]
    <3>2. DeltaTyped(e)
      <4> HIDE DEF j
      <4> QED BY DEF DeltaTyped, NoDelta
    <3> QED BY <3>1, <3>2
  <2>2. CASE EmbedItems(c)
    <3> DEFINE e == [deltas[c] EXCEPT !.at = "runs", !.held = Held(runVectors),
                                      !.heldSteps = Held(stepVectors)]
    <3>1. DeltaTyped(e)
      BY <1>1 DEF DeltaTyped, DeltaFields
    <3>2. deltas' = [deltas EXCEPT ![c] = e] \/ deltas' = [deltas EXCEPT ![c] = NoDelta]
      BY <2>2 DEF EmbedItems
    <3> QED BY <1>4, <3>1, <3>2
  <2>3. CASE MatchRuns(c)
    <3> DEFINE d == deltas[c]
               similar == Similar(runVectors, Head(d.left).text)
    <3>2. DeltaTyped(AfterRuns(d, similar))
      <4>1. AfterRuns(d, similar) = [d EXCEPT !.at = "steps"] \/ AfterRuns(d, similar) = CountedAs(d, ~similar)
        <5> HIDE DEF similar
        <5> QED BY DEF AfterRuns
      <4>2. DeltaTyped([d EXCEPT !.at = "steps"])
        BY <1>1 DEF DeltaTyped, DeltaFields
      <4>3. (~similar) \in BOOLEAN
        OBVIOUS
      <4> HIDE DEF similar
      <4> QED BY <1>4, <4>1, <4>2, <4>3
    <3>3. \/ deltas' = [deltas EXCEPT ![c] = CountedAs(d, TRUE)]
          \/ deltas' = [deltas EXCEPT ![c] = NoDelta]
          \/ deltas' = [deltas EXCEPT ![c] = AfterRuns(d, similar)]
      BY <2>3 DEF MatchRuns
    <3> HIDE DEF similar
    <3> QED BY <1>4, <3>2, <3>3
  <2>4. CASE MatchSteps(c)
    <3> DEFINE d == deltas[c]
               new == ~Similar(stepVectors, Head(d.left).text)
    <3>1. new \in BOOLEAN
      OBVIOUS
    <3>2. deltas' = [deltas EXCEPT ![c] = NoDelta] \/ deltas' = [deltas EXCEPT ![c] = CountedAs(d, new)]
      BY <2>4 DEF MatchSteps
    <3> HIDE DEF new
    <3> QED BY <1>4, <3>1, <3>2
  <2>5. CASE LogDelta(c)
    <3> DEFINE e == [deltas[c] EXCEPT !.at = "over"]
    <3>1. DeltaTyped(e)
      BY <1>1 DEF DeltaTyped, DeltaFields
    <3>2. deltas' = [deltas EXCEPT ![c] = e]
      BY <2>5 DEF LogDelta
    <3> QED BY <3>1, <3>2
  <2> QED BY <2>1, <2>2, <2>3, <2>4, <2>5
<1>6. \A a \in Askers : DeltaTyped(deltas'[a])
  <2>1. PICK e : DeltaTyped(e) /\ deltas' = [deltas EXCEPT ![c] = e]
    BY <1>5
  <2>2. \A a \in Askers : DeltaTyped(deltas[a])
    BY DEF RecallTypeParts
  <2> QED BY <1>1, <2>1, <2>2, DeltaSet
<1> QED BY <1>2, <1>3, <1>6 DEF RecallTypeParts

LEMMA SearchStepTyped ==
  ASSUME RecallInv, RecallTypeParts, NEW s \in Searchers,
         BeginSearch(s) \/ EmbedQuery(s) \/ FindRuns(s) \/ FindSteps(s)
  PROVE  RecallTypeParts'
<1> DEFINE q == searches[s]
<1>1. DOMAIN searches = Searchers /\ DOMAIN q = SearchFields /\ SearchTyped(q)
  BY DEF RecallInv, SearchSound, RecallTypeParts
<1>2. UNCHANGED <<day, runVectors, stepVectors, deltas>>
  BY DEF BeginSearch, EmbedQuery, FindRuns, FindSteps
<1>3. mishaps' \in Nat
  <2>1. UNCHANGED mishaps \/ \E o : Ends(o)
    BY DEF BeginSearch, EmbedQuery, FindRuns, FindSteps
  <2>2. mishaps \in Nat
    BY DEF RecallTypeParts
  <2> QED BY <2>1, <2>2, EndsCounted
<1>4. SearchTyped(Unanswered(q))
  BY <1>1 DEF SearchTyped, Unanswered, SearchFields
<1>5. \E e : SearchTyped(e) /\ searches' = [searches EXCEPT ![s] = e]
  <2>1. CASE BeginSearch(s)
    <3>1. PICK kind \in {"planner", "context", "hits", "api"}, mine \in PastRuns, p \in Points :
            searches' = [searches EXCEPT ![s] =
              [NoSearch EXCEPT !.at = "embed", !.kind = kind, !.own = mine, !.point = p,
                               !.direct = (kind = "api")]]
      BY <2>1 DEF BeginSearch
    <3> DEFINE e == [NoSearch EXCEPT !.at = "embed", !.kind = kind, !.own = mine, !.point = p,
                                     !.direct = (kind = "api")]
    <3>2. SearchTyped(e)
      BY DEF SearchTyped, NoSearch
    <3> QED BY <3>1, <3>2
  <2>2. CASE EmbedQuery(s)
    <3> DEFINE e == [q EXCEPT !.at = "runs"]
    <3>1. SearchTyped(e)
      BY <1>1 DEF SearchTyped, SearchFields
    <3>2. searches' = [searches EXCEPT ![s] = e] \/ searches' = [searches EXCEPT ![s] = Unanswered(q)]
      BY <2>2 DEF EmbedQuery
    <3> QED BY <1>4, <3>1, <3>2
  <2>3. CASE FindRuns(s)
    <3>1. \/ searches' = [searches EXCEPT ![s] = Unanswered(q)]
          \/ \E h : \E next \in {"steps", "over"} :
               searches' = [searches EXCEPT ![s] =
                 [q EXCEPT !.at = next, !.hits = Shown(q, h)]]
      <4>1. \/ searches' = [searches EXCEPT ![s] = Unanswered(q)]
            \/ \E h \in Nearest(Rows(runVectors, q.point)), next \in {"steps", "over"} :
                 searches' = [searches EXCEPT ![s] =
                   IF q.kind = "context" /\ ~q.direct /\ Shown(q, h) = {} THEN Unanswered(q)
                   ELSE [q EXCEPT !.at = next, !.hits = Shown(q, h)]]
        BY <2>3, Zenon DEF FindRuns
      <4>2. ASSUME NEW h, NEW next,
              searches' = [searches EXCEPT ![s] =
                IF q.kind = "context" /\ ~q.direct /\ Shown(q, h) = {} THEN Unanswered(q)
                ELSE [q EXCEPT !.at = next, !.hits = Shown(q, h)]]
            PROVE  \/ searches' = [searches EXCEPT ![s] = Unanswered(q)]
                   \/ searches' = [searches EXCEPT ![s] =
                        [q EXCEPT !.at = next, !.hits = Shown(q, h)]]
        <5>1. CASE q.kind = "context" /\ ~q.direct /\ Shown(q, h) = {}
          BY <4>2, <5>1, Zenon
        <5>2. CASE ~(q.kind = "context" /\ ~q.direct /\ Shown(q, h) = {})
          BY <4>2, <5>2, Zenon
        <5> QED BY <5>1, <5>2
      <4> HIDE DEF q
      <4> QED BY <4>1, <4>2, Zenon
    <3>2. ASSUME NEW h, NEW next \in {"steps", "over"},
                 searches' = [searches EXCEPT ![s] =
                   [q EXCEPT !.at = next, !.hits = Shown(q, h)]]
          PROVE  \E e : SearchTyped(e) /\ searches' = [searches EXCEPT ![s] = e]
      <4> DEFINE e == [q EXCEPT !.at = next, !.hits = Shown(q, h)]
      <4>1. SearchTyped(e)
        BY <1>1 DEF SearchTyped, SearchFields
      <4> QED BY <3>2, <4>1
    <3> QED BY <1>4, <3>1, <3>2
  <2>4. CASE FindSteps(s)
    <3>1. \/ searches' = [searches EXCEPT ![s] = Unanswered(q)]
          \/ searches' = [searches EXCEPT ![s] = [q EXCEPT !.at = "over"]]
          \/ \E h : searches' = [searches EXCEPT ![s] =
                                   [q EXCEPT !.at = "over", !.stepHits = {x \in h : Near(q, x)}]]
      <4>1. ASSUME NEW h,
              searches' = [searches EXCEPT ![s].at = "over", ![s].stepHits = {x \in h : Near(q, x)}]
            PROVE  searches' = [searches EXCEPT ![s] =
                                   [q EXCEPT !.at = "over", !.stepHits = {x \in h : Near(q, x)}]]
        BY <1>1, <4>1
      <4> QED BY <2>4, <4>1 DEF FindSteps
    <3>2. ASSUME NEW h,
                 searches' = [searches EXCEPT ![s] =
                                [q EXCEPT !.at = "over", !.stepHits = {x \in h : Near(q, x)}]]
          PROVE  \E e : SearchTyped(e) /\ searches' = [searches EXCEPT ![s] = e]
      <4> DEFINE e == [q EXCEPT !.at = "over", !.stepHits = {x \in h : Near(q, x)}]
      <4>1. SearchTyped(e)
        BY <1>1 DEF SearchTyped, SearchFields
      <4> QED BY <3>2, <4>1
    <3>3. SearchTyped([q EXCEPT !.at = "over"])
      BY <1>1 DEF SearchTyped, SearchFields
    <3> QED BY <1>4, <3>1, <3>2, <3>3
  <2> QED BY <2>1, <2>2, <2>3, <2>4
<1>6. \A a \in Searchers : SearchTyped(searches'[a])
  <2>1. PICK e : SearchTyped(e) /\ searches' = [searches EXCEPT ![s] = e]
    BY <1>5
  <2>2. \A a \in Searchers : SearchTyped(searches[a])
    BY DEF RecallTypeParts
  <2> QED BY <1>1, <2>1, <2>2, SearchSet
<1> QED BY <1>2, <1>3, <1>6 DEF RecallTypeParts

LEMMA RecallTyped ==
  ASSUME RecallInv, RecallTypeOK, [RecallNext]_recallvars
  PROVE  RecallTypeOK'
<1> SUFFICES RecallTypeParts'
  BY RecallParts
<1>1. RecallTypeParts
  BY RecallParts
<1>2. CASE PassDay
  <2>1. day' \in 1..MaxDay
    BY <1>1, <1>2, RecallAssumption DEF RecallTypeParts, PassDay
  <2> QED BY <1>1, <1>2, <2>1 DEF RecallTypeParts, PassDay
<1>3. CASE EmbedAny
  BY <1>1, <1>3, EmbedTyped DEF EmbedAny
<1>4. CASE \E c \in Askers : AskDelta(c) \/ EmbedItems(c) \/ MatchRuns(c) \/ MatchSteps(c) \/ LogDelta(c)
  BY <1>1, <1>4, DeltaStepTyped
<1>5. CASE \E s \in Searchers : BeginSearch(s) \/ EmbedQuery(s) \/ FindRuns(s) \/ FindSteps(s)
  BY <1>1, <1>5, SearchStepTyped
<1>6. CASE UNCHANGED recallvars
  BY <1>1, <1>6 DEF recallvars, RecallTypeParts
<1> QED BY <1>2, <1>3, <1>4, <1>5, <1>6 DEF RecallNext, DeltasNext, SearchesNext

-----------------------------------------------------------------------------
(* All records: what moves has its type and its invariant.                  *)

Settled ==
  /\ focus = "templates" => Numbers /\ TemplatesTypeOK
  /\ focus = "memory" => MemoryInv /\ MemoryTypeOK
  /\ focus \in {"deltas", "searches"} => RecallInv /\ RecallTypeOK
  /\ focus = "summaries" => SummariesTypeOK
  /\ focus \in {"results", "manifests"} => ResultShapes /\ ManifestInv /\ ResultsTypeOK
  /\ focus \in {"chats", "budgets", "schemas"} => TopicsInv /\ TopicsTypeOK
  /\ focus = "agents" => AgentsInv /\ AgentsTypeOK /\ PagesLeft
  /\ focus = "startup" => StartInv

LEMMA ResultsStart == ResultsInit => ResultShapes /\ ManifestInv
<1>1. ResultsInit => ResultShapes
  BY DEF ResultsInit, ResultShapes, Steps, Maybe
<1>2. ResultsInit => ManifestInv
  BY DEF ResultsInit, ManifestInv, ManifestShapes, Signed, NotSigning, Request, Maybe
<1> QED BY <1>1, <1>2

\* Each module starts with the types it says.
LEMMA TypesAtFirst ==
  /\ TemplatesInit => TemplatesTypeOK
  /\ MemoryInit => MemoryTypeOK
  /\ RecallInit => RecallTypeOK
  /\ SummariesInit => SummariesTypeOK
  /\ ResultsInit => ResultsTypeOK
  /\ TopicsInit => TopicsTypeOK
  /\ AgentsInit => AgentsTypeOK /\ PagesLeft
<1>1. TemplatesInit => TemplatesTypeOK
  BY RestType DEF TemplatesInit, TemplatesTypeOK
<1>2. ASSUME MemoryInit PROVE MemoryTypeOK
  <2>1. MaxTime \in Nat \ {0}
    BY MemoryAssumption
  <2>2. /\ now \in 1..MaxTime /\ born \in [Runs -> 0..MaxTime] /\ vectorAt \in [Runs -> 0..MaxTime]
        /\ stepsAt \in [Runs -> 0..MaxTime] /\ lastPrune \in 0..MaxTime
    BY <1>2, <2>1 DEF MemoryInit
  <2>3. rebuild \in [at : {"off", "page", "load", "vector", "steps"}, page : Seq(Runs),
                     oldest : 0..MaxTime, cursor : 0..MaxTime,
                     remade : SUBSET Runs, believed : SUBSET Runs, begun : SUBSET Runs]
    <3>1. 0 \in 0..MaxTime /\ <<>> \in Seq(Runs)
      BY <2>1
    <3> QED BY <1>2, <3>1 DEF MemoryInit, NoRebuild
  <2>4. pruning \in [at : {"rest", "episodes", "vectors", "steps"}, time : 0..MaxTime]
    BY <1>2, <2>1 DEF MemoryInit, NoPruning
  <2>5. pipeline \in [Runs -> {"running", "vector", "steps", "over"}] /\ service = "down" /\ mishaps = 0
    BY <1>2 DEF MemoryInit
  <2> QED BY <2>2, <2>3, <2>4, <2>5 DEF MemoryTypeOK
<1>3. ASSUME RecallInit PROVE RecallTypeOK
  <2>1. MaxDay \in Nat \ {0} /\ day = 1 /\ mishaps = 0
    BY <1>3, RecallAssumption DEF RecallInit
  <2>2. RowTyped(NoVector) /\ DeltaTyped(NoDelta) /\ SearchTyped(NoSearch)
    BY <2>1 DEF RowTyped, NoVector, DeltaTyped, NoDelta, SearchTyped, NoSearch
  <2>3. \A r \in PastRuns : runVectors[r] = NoVector /\ stepVectors[r] = NoVector
    BY <1>3 DEF RecallInit
  <2>4. (\A c \in Askers : deltas[c] = NoDelta) /\ (\A s \in Searchers : searches[s] = NoSearch)
    BY <1>3 DEF RecallInit
  <2>5. day \in 1..MaxDay /\ mishaps \in Nat
    BY <2>1
  <2>6. RecallTypeParts
    BY <2>2, <2>3, <2>4, <2>5 DEF RecallTypeParts
  <2> QED BY <2>6, RecallParts
<1>4. ASSUME SummariesInit PROVE SummariesTypeOK
  <2>1. MaxHour \in Nat \ {0}
    BY SummariesAssumption
  <2>2. /\ hour \in 1..MaxHour /\ lastSummary \in 0..MaxHour /\ mishaps \in Nat
        /\ jobs \in Seq({"running", "success", "failed"}) /\ orphaned \subseteq 1..Len(jobs)
        /\ Len(jobs) = 0
    BY <1>4, <2>1 DEF SummariesInit
  <2>3. Idle \in [at : {"rest", "create", "read", "close"}, job : 0..Len(jobs), err : BOOLEAN,
                  time : 0..MaxHour]
    <3>1. 0 \in 0..Len(jobs) /\ 0 \in 0..MaxHour /\ FALSE \in BOOLEAN
      BY <2>1, <2>2
    <3> QED BY <3>1 DEF Idle
  <2>4. work = [x \in Summarizers |-> Idle]
    BY <1>4 DEF SummariesInit
  <2> QED BY <2>2, <2>3, <2>4 DEF SummariesTypeOK
<1>5. ResultsInit => ResultsTypeOK
  BY DEF ResultsInit, ResultsTypeOK, NotSigning, Maybe
<1>6. TopicsInit => TopicsTypeOK
  BY DEF TopicsInit, TopicsTypeOK, NoLimits, Limits, Unsaved
<1>7. ASSUME AgentsInit PROVE AgentsTypeOK /\ PagesLeft
  <2>1. MaxPages \in Nat /\ MaxPages # 0 /\ Retries \in Nat
    BY AgentsAssumption
  <2>2. /\ provider \in {"news", "brave", "none", "done"} /\ page \in 0..MaxPages
        /\ tried \in 0..Retries /\ expired \in BOOLEAN /\ amount \in Nat
        /\ page < MaxPages
    <3>1. provider \in {"news", "brave", "none"} /\ page = 0 /\ tried = 0 /\ amount = 0
      BY <1>7 DEF AgentsInit
    <3>2. expired \in BOOLEAN
      BY <1>7, Zenon DEF AgentsInit
    <3> QED BY <2>1, <3>1, <3>2
  <2>3. /\ gathered \in [Urls -> SUBSET {6, 8}] /\ perHost \in [Hosts -> Nat] /\ found \subseteq Source
    BY <1>7 DEF AgentsInit
  <2>4. results \in [Models -> [data : {"none", "error", "fallback", "parsed"},
                             sources : SUBSET Source, size : Nat]]
    BY <1>7 DEF AgentsInit, NoResult
  <2>5. /\ report.made \in BOOLEAN /\ report.items \in Nat
        /\ \A i \in DOMAIN report.claims : i \in Nat /\ report.claims[i] \subseteq Cited
    <3>1. report = NoReport
      BY <1>7 DEF AgentsInit
    <3>2. DOMAIN report.claims = {}
      BY <3>1, NoClaims
    <3>3. report.items \in Nat
      BY <3>1 DEF NoReport
    <3>4. report.made \in BOOLEAN
      BY <3>1, Zenon DEF NoReport
    <3> QED BY <3>2, <3>3, <3>4
  <2> QED BY <2>2, <2>3, <2>4, <2>5 DEF AgentsTypeOK, PagesLeft
<1> QED BY <1>1, <1>2, <1>3, <1>4, <1>5, <1>6, <1>7

LEMMA SettledAtFirst == Init => Settled
<1>1. Init => /\ TemplatesInit /\ MemoryInit /\ RecallInit /\ SummariesInit
              /\ ResultsInit /\ TopicsInit /\ AgentsInit /\ StartupInit
  BY DEF Init
<1> QED
  BY <1>1, TypesAtFirst, NumbersInit, MemoryStart, RecallStart, ResultsStart, TopicsStart,
     AgentsStart, StartupStart DEF Settled

LEMMA NothingMoves ==
  ASSUME UNCHANGED <<allrest, mishaps, focus>>
  PROVE  /\ focus' = focus
         /\ UNCHANGED tvars /\ UNCHANGED mvars /\ UNCHANGED recallvars /\ UNCHANGED svars
         /\ UNCHANGED rvars /\ UNCHANGED topicvars /\ UNCHANGED avars /\ UNCHANGED uvars
<1>1. /\ focus' = focus /\ mishaps' = mishaps
      /\ templaterest' = templaterest /\ memoryrest' = memoryrest /\ recallrest' = recallrest
      /\ summaryrest' = summaryrest /\ resultrest' = resultrest /\ topicrest' = topicrest
      /\ avars' = avars /\ startuprest' = startuprest
  BY DEF allrest
<1>2. UNCHANGED tvars
  BY <1>1 DEF templaterest, tvars
<1>3. UNCHANGED mvars
  BY <1>1 DEF memoryrest, mvars
<1>4. UNCHANGED recallvars
  BY <1>1 DEF recallrest, recallvars
<1>5. UNCHANGED svars
  BY <1>1 DEF summaryrest, svars
<1>6. UNCHANGED rvars
  BY <1>1 DEF resultrest, rvars
<1>7. UNCHANGED topicvars
  BY <1>1 DEF topicrest, topicvars
<1>8. UNCHANGED uvars
  BY <1>1 DEF startuprest, uvars
<1> QED BY <1>1, <1>2, <1>3, <1>4, <1>5, <1>6, <1>7, <1>8

\* What moves goes on to move, by its own steps.
LEMMA FocusMoves ==
  ASSUME [Next]_<<allrest, mishaps, focus>>
  PROVE  /\ focus' = focus
         /\ focus = "templates" => [TemplatesNext]_tvars
         /\ focus = "memory" => [MemoryNext]_mvars
         /\ focus \in {"deltas", "searches"} => [RecallNext]_recallvars
         /\ focus = "summaries" => [SummariesNext]_svars
         /\ focus \in {"results", "manifests"} => [ResultsNext]_rvars
         /\ focus \in {"chats", "budgets", "schemas"} => [TopicsNext]_topicvars
         /\ focus = "agents" => [AgentsNext]_avars
         /\ focus = "startup" => [StartupNext]_uvars
<1>1. CASE UNCHANGED <<allrest, mishaps, focus>>
  BY <1>1, NothingMoves
<1>2. CASE TemplatesMove
  BY <1>2 DEF TemplatesMove
<1>3. CASE MemoryMoves
  BY <1>3 DEF MemoryMoves
<1>4. CASE DeltasMove
  BY <1>4 DEF DeltasMove, RecallNext
<1>5. CASE SearchesMove
  BY <1>5 DEF SearchesMove, RecallNext
<1>6. CASE SummariesMove
  BY <1>6 DEF SummariesMove
<1>7. CASE ResultsMove
  BY <1>7 DEF ResultsMove
<1>8. CASE ManifestsMove
  BY <1>8 DEF ManifestsMove
<1>9. CASE ChatsMove
  BY <1>9 DEF ChatsMove, TopicsNext
<1>10. CASE BudgetsMove
  BY <1>10 DEF BudgetsMove, TopicsNext
<1>11. CASE SchemasMove
  BY <1>11 DEF SchemasMove, TopicsNext
<1>12. CASE AgentsMove
  BY <1>12 DEF AgentsMove
<1>13. CASE StartupMoves
  BY <1>13 DEF StartupMoves
<1> QED
  BY <1>1, <1>2, <1>3, <1>4, <1>5, <1>6, <1>7, <1>8, <1>9, <1>10, <1>11, <1>12, <1>13 DEF Next

LEMMA SettledStep == Settled /\ [Next]_<<allrest, mishaps, focus>> => Settled'
<1> SUFFICES ASSUME Settled, [Next]_<<allrest, mishaps, focus>> PROVE Settled'
  OBVIOUS
<1>1. focus' = focus
  BY FocusMoves
<1>2. ASSUME focus = "templates" PROVE Numbers' /\ TemplatesTypeOK'
  BY <1>2, FocusMoves, NumbersStep, TemplatesTyped DEF Settled
<1>3. ASSUME focus = "memory" PROVE MemoryInv' /\ MemoryTypeOK'
  BY <1>3, FocusMoves, MemoryStep, MemoryTyped DEF Settled
<1>4. ASSUME focus \in {"deltas", "searches"} PROVE RecallInv' /\ RecallTypeOK'
  BY <1>4, FocusMoves, RecallStep, RecallTyped DEF Settled
<1>5. ASSUME focus = "summaries" PROVE SummariesTypeOK'
  BY <1>5, FocusMoves, SummariesTyped DEF Settled
<1>6. ASSUME focus \in {"results", "manifests"} PROVE ResultShapes' /\ ManifestInv' /\ ResultsTypeOK'
  BY <1>6, FocusMoves, ShapesStep, ManifestStep, ResultsTyped DEF Settled
<1>7. ASSUME focus \in {"chats", "budgets", "schemas"} PROVE TopicsInv' /\ TopicsTypeOK'
  BY <1>7, FocusMoves, TopicsStep, TopicsTyped DEF Settled
<1>8. ASSUME focus = "agents" PROVE AgentsInv' /\ AgentsTypeOK' /\ PagesLeft'
  BY <1>8, FocusMoves, AgentsStep, AgentsTyped DEF Settled
<1>9. ASSUME focus = "startup" PROVE StartInv'
  BY <1>9, FocusMoves, StartupStep DEF Settled
<1> QED BY <1>1, <1>2, <1>3, <1>4, <1>5, <1>6, <1>7, <1>8, <1>9 DEF Settled

Focuses == {"templates", "memory", "deltas", "searches", "summaries", "results", "manifests",
            "chats", "budgets", "schemas", "agents", "startup"}

LEMMA SettledTyped == focus \in Focuses /\ Settled => RecordsTypeOK
<1> SUFFICES ASSUME focus \in Focuses, Settled PROVE RecordsTypeOK
  OBVIOUS
<1>1. focus = "startup" => StartupTypeOK
  BY DEF Settled, StartInv
<1> QED BY <1>1 DEF Settled, Focuses, RecordsTypeOK

\* Every variable of every record keeps its type, for any tables, requests,
\* clocks and mishaps: what a row, a request or a job that is at work can hold
\* in templates, memory, recall, summaries, results, topics, agents and startup.
THEOREM RecordsAreTyped == Spec => []RecordsTypeOK
<1>1. Init => focus \in Focuses
  BY DEF Init, Focuses
<1>2. focus \in Focuses /\ [Next]_<<allrest, mishaps, focus>> => (focus \in Focuses)'
  BY FocusMoves
<1> QED BY <1>1, <1>2, SettledAtFirst, SettledStep, SettledTyped, PTL DEF Spec
=============================================================================
