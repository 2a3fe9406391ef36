------------------------------- MODULE Topics -------------------------------
(***************************************************************************)
(* What the users of a topic change in it while other requests are under   *)
(* way: its preferences and schedule, by hand and through the assistant    *)
(* (internal/server/topics.go), its budget, and the versions of a builder  *)
(* schema (internal/server/builder.go), with their statements in           *)
(* internal/store/store.go.  Every request happens once.                   *)
(***************************************************************************)
EXTENDS Calls, Integers, Sequences

CONSTANTS
  Chats, Edits, Amendments, Saves,   \* requests of each kind
  Preferences, Crons, Contents,
  Amounts                            \* values of the limits of a budget

ASSUME TopicsAssumption ==
  /\ Chats \cap Edits = {}
  /\ Nil \notin Preferences \cup Crons \cup Contents
  /\ Amounts \subseteq Int

VARIABLES
  topic,      \* the row of topics: preferences and schedule_cron
  messages,   \* rows of chat_messages, as pairs of a chat and a role
  chat,       \* where a chat is, and the preferences and schedule it holds
  edited,     \* edits that are done
  refined,    \* history: chats that changed the topic
  limits,     \* the row of topic_budget_configs
  amendment,  \* where a budget request is, and the limits it will write
  builderSchemas,    \* contents of builder_schemas of one kind, by version
  saving      \* where a builder request is: what it asks for and is told

chatvars == <<topic, messages, chat, edited, refined>>
budgetvars == <<limits, amendment>>
schemavars == <<builderSchemas, saving>>
topicvars == <<chatvars, budgetvars, schemavars, mishaps>>

-----------------------------------------------------------------------------
Topic == [prefs : Preferences, cron : Crons]
Limits == [cost : Amounts \cup {Nil}, threshold : Amounts \cup {Nil}]
NoLimits == [cost |-> Nil, threshold |-> Nil]
Unsaved == [at |-> "idle", content |-> Nil, of |-> 0, version |-> 0]

TopicsTypeOK ==
  /\ topic \in Topic
  /\ messages \subseteq Chats \X {"user", "assistant"}
  /\ chat \in [Chats -> [at : {"idle", "message", "refine", "update", "reply", "done"},
                         topic : Topic]]
  /\ edited \subseteq Edits
  /\ refined \subseteq Chats
  /\ limits \in Limits
  /\ amendment \in [Amendments -> [at : {"idle", "write", "done"}, limits : Limits]]
  /\ builderSchemas \in Seq(Contents)
  /\ saving \in [Saves -> [at : {"idle", "number", "insert", "done"},
                           content : Contents \cup {Nil}, of : Nat, version : Nat]]
  /\ mishaps \in Nat

TopicsInit ==
  /\ topic \in Topic
  /\ messages = {}
  /\ chat = [c \in Chats |-> [at |-> "idle", topic |-> topic]]
  /\ edited = {}
  /\ refined = {}
  /\ limits = NoLimits
  /\ amendment = [b \in Amendments |-> [at |-> "idle", limits |-> NoLimits]]
  /\ builderSchemas = <<>>
  /\ saving = [x \in Saves |-> Unsaved]
  /\ mishaps = 0

-----------------------------------------------------------------------------
(* The assistant, and the form.                                             *)

ChatGoes(c, to) == chat' = [chat EXCEPT ![c].at = to]

ReadTopic(c) ==
  /\ chat[c].at = "idle"
  /\ chat' = [chat EXCEPT ![c] = [at |-> "message", topic |-> topic]]
  /\ UNCHANGED <<topic, messages, edited, refined, mishaps>>

\* Mutant: an error of the message is dropped, as that of the reply is.
AfterMessageAnyway(o) == "refine"
AfterMessage(o) == IF o = "ok" THEN "refine" ELSE "done"

LogMessage(c) ==
  /\ chat[c].at = "message"
  /\ \E o \in Ending :
       /\ Ends(o)
       /\ messages' = IF o \in Took THEN messages \cup {<<c, "user">>} ELSE messages
       /\ ChatGoes(c, AfterMessage(o))
  /\ UNCHANGED <<topic, edited, refined>>

\* llmRefineTopic; what the model leaves out is as it was read.
Refine(c) ==
  /\ chat[c].at = "refine"
  /\ \/ /\ \E new \in Topic : chat' = [chat EXCEPT ![c] = [at |-> "update", topic |-> new]]
        /\ UNCHANGED mishaps
     \/ ChatGoes(c, "done") /\ Ends("failed")
  /\ UNCHANGED <<topic, messages, edited, refined>>

\* UpdateTopicPrefsAndCron, with the schedule as well, whatever was changed in
\* the meantime.
UpdateTopic(c) ==
  /\ chat[c].at = "update"
  /\ \E o \in Ending :
       /\ Ends(o)
       /\ IF o \in Took THEN topic' = chat[c].topic /\ refined' = refined \cup {c}
                        ELSE UNCHANGED <<topic, refined>>
       /\ ChatGoes(c, IF o = "ok" THEN "reply" ELSE "done")
  /\ UNCHANGED <<messages, edited>>

LogReply(c) ==
  /\ chat[c].at = "reply"
  /\ \E o \in Ending :
       /\ Ends(o)
       /\ messages' = IF o \in Took THEN messages \cup {<<c, "assistant">>} ELSE messages
  /\ ChatGoes(c, "done")
  /\ UNCHANGED <<topic, edited, refined>>

\* updatePreferences: all preferences, and a schedule if one is given.
EditPreferences(e, prefs, cron) ==
  /\ e \notin edited
  /\ topic' = [prefs |-> prefs, cron |-> IF cron = Nil THEN topic.cron ELSE cron]
  /\ edited' = edited \cup {e}
  /\ UNCHANGED <<messages, chat, refined, mishaps>>

ChatsNext ==
  \/ \E c \in Chats : ReadTopic(c) \/ LogMessage(c) \/ Refine(c) \/ UpdateTopic(c) \/ LogReply(c)
  \/ \E e \in Edits, prefs \in Preferences, cron \in Crons \cup {Nil} :
       EditPreferences(e, prefs, cron)

-----------------------------------------------------------------------------
(* The budget.                                                              *)

Given(value, before) == IF value = Nil THEN before ELSE value
Merged(request, before) == [cost |-> Given(request.cost, before.cost),
                            threshold |-> Given(request.threshold, before.threshold)]

\* Config.Validate.
ValidLimits(l) ==
  /\ l.cost # Nil => l.cost >= 0
  /\ l.threshold # Nil => l.threshold >= 0 /\ (l.cost # Nil => l.threshold <= l.cost)

\* updateBudget reads the whole configuration and puts the given fields in.
AmendBudget(b, request) ==
  LET merged == Merged(request, limits) IN
  /\ amendment[b].at = "idle"
  /\ amendment' = [amendment EXCEPT ![b] = [at |-> IF ValidLimits(merged) THEN "write" ELSE "done",
                                            limits |-> merged]]
  /\ UNCHANGED <<limits, mishaps>>

\* UpsertTopicBudgetConfig writes the whole configuration.
WriteBudget(b) ==
  /\ amendment[b].at = "write"
  /\ \E o \in Ending :
       /\ Ends(o)
       /\ limits' = IF o \in Took THEN amendment[b].limits ELSE limits
  /\ amendment' = [amendment EXCEPT ![b].at = "done"]

BudgetsNext ==
  \E b \in Amendments : WriteBudget(b) \/ \E request \in Limits : AmendBudget(b, request)

-----------------------------------------------------------------------------
(* The builder.                                                             *)

Versions == 1..Len(builderSchemas)

SaveSchema(x, content) ==
  /\ saving[x].at = "idle"
  /\ saving' = [saving EXCEPT ![x] = [Unsaved EXCEPT !.at = "number", !.content = content]]
  /\ UNCHANGED <<builderSchemas, mishaps>>

\* rollback reads the version it is asked for and saves its content anew.
RollBack(x, v) ==
  /\ saving[x].at = "idle"
  /\ saving' = [saving EXCEPT ![x] = [Unsaved EXCEPT !.at = "number", !.content = builderSchemas[v],
                                                     !.of = v]]
  /\ UNCHANGED <<builderSchemas, mishaps>>

\* SaveBuilderSchema: the snapshot its next_version is computed from.
NumberSchema(x) ==
  /\ saving[x].at = "number"
  /\ saving' = [saving EXCEPT ![x].at = "insert", ![x].version = Len(builderSchemas) + 1]
  /\ UNCHANGED <<builderSchemas, mishaps>>

\* UNIQUE (topic_id, kind, version).
Untaken(v) == v \notin Versions

\* The insert: the second of one number fails, and so does its request.
InsertSchema(x) ==
  LET v == saving[x].version IN
  /\ saving[x].at = "insert"
  /\ \E o \in IF Untaken(v) THEN Ending ELSE {"refused"} :
       /\ IF o = "refused" THEN UNCHANGED mishaps ELSE Ends(o)
       /\ builderSchemas' = IF o \in Took
                     THEN [i \in Versions \cup {v} |-> IF i = v THEN saving[x].content ELSE builderSchemas[i]]
                     ELSE builderSchemas
       /\ saving' = [saving EXCEPT ![x].at = "done", ![x].version = IF o = "ok" THEN v ELSE 0]

SchemasNext ==
  \E x \in Saves :
    \/ NumberSchema(x) \/ InsertSchema(x)
    \/ \E content \in Contents : SaveSchema(x, content)
    \/ \E v \in Versions : RollBack(x, v)

-----------------------------------------------------------------------------
TopicsNext ==
  \/ ChatsNext /\ UNCHANGED <<budgetvars, schemavars>>
  \/ BudgetsNext /\ UNCHANGED <<chatvars, schemavars>>
  \/ SchemasNext /\ UNCHANGED <<chatvars, budgetvars>>

TopicsSpec == TopicsInit /\ [][TopicsNext]_topicvars

-----------------------------------------------------------------------------
(* Properties.                                                              *)

\* What the assistant changed can be traced to what the user asked: the
\* message is on record before the topic changes, and a reply is on record
\* only after it, whichever call fails: chat.
ChatsTraced ==
  \A c \in Chats :
    /\ c \in refined => <<c, "user">> \in messages
    /\ <<c, "assistant">> \in messages => c \in refined

\* Partial updates of the budget that cross leave limits that agree with each
\* other, the approval threshold within the maximum: updateBudget.
LimitsAgree == ValidLimits(limits)

\* A save that was acknowledged is found for ever under the version its user
\* was told, and a rollback has the content of the version rolled back to,
\* whichever saves cross: SaveBuilderSchema.
SchemasFound ==
  \A x \in Saves : saving[x].at = "done" /\ saving[x].version # 0 =>
    /\ saving[x].version \in Versions
    /\ builderSchemas[saving[x].version] = saving[x].content
    /\ saving[x].of # 0 => builderSchemas[saving[x].of] = saving[x].content

\* Requests about one topic that cross leave it whole.
TopicsKept == ChatsTraced /\ LimitsAgree /\ SchemasFound
=============================================================================
