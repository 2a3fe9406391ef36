------------------------------- MODULE Recall -------------------------------
(***************************************************************************)
(* What semantic memory answers about one topic (Manager.Delta in          *)
(* internal/memory/manager/manager.go, Ingestor.SearchSimilar in           *)
(* internal/memory/semantic/ingestor.go, and their callers in              *)
(* internal/server): which items of a request are news, and which runs are *)
(* like a text, while runs are embedded.  An action is one statement of    *)
(* Postgres or one call to the provider.  Embeddings are points of a line, *)
(* and distances and thresholds are fifths.  The four statements that look *)
(* at embeddings compare topic_id with $2 after $2 = '', which makes $2 a  *)
(* text: Postgres refuses them where topic_id is a UUID, as the migrations *)
(* have it.  So they may fail at any time, which is no mishap.             *)
(***************************************************************************)
EXTENDS Calls, Integers, SequencesExt

CONSTANTS
  PastRuns,
  Points,           \* embeddings
  Thresholds,       \* memory.semantic: those of the search and of the delta, 0 if not set
  TopK,
  DeltaWindow,      \* 0: no window
  DeltaWithSteps,
  Askers, Batches,  \* clients, and the items they may send
  KnownIDs,         \* the ids that clients say they know
  Searchers,
  MaxDay            \* bound: the clock

ASSUME RecallAssumption ==
  /\ Points \subseteq Nat
  /\ Thresholds \in [{"search", "delta"} -> 0..5]
  /\ TopK \in Nat \ {0} /\ DeltaWindow \in Nat /\ MaxDay \in Nat \ {0}
  /\ DeltaWithSteps \in BOOLEAN

VARIABLES
  day,
  runVectors,    \* run_embeddings
  stepVectors,   \* plan_step_embeddings, one for each run
  deltas,        \* requests for what is new
  deltaEvents,   \* memory_delta_events
  searches

recallvars == <<day, runVectors, stepVectors, deltas, deltaEvents, searches, mishaps>>

-----------------------------------------------------------------------------
NoVector == [point |-> 0, at |-> 0]
Held(table) == {r \in PastRuns : table[r] # NoVector}
Distance(p, q) == IF p < q THEN q - p ELSE p - q

\* The text of an item: none, one that the provider has no vector for, or a point.
Textless == -1
Vectorless == -2

ASSUME BatchesAssumption ==
  \A batch \in Batches :
    /\ batch \in Seq(Range(batch))
    /\ \A item \in Range(batch) : item.text \in Nat \cup {Textless, Vectorless}

\* `held` is for the properties: what has been embedded, in one table and the
\* other, since the items were, and has not been embedded anew.
NoDelta == [at |-> "rest", total |-> 0, left |-> <<>>, novel |-> <<>>, duplicates |-> 0,
            held |-> {}, heldSteps |-> {}]

NoSearch == [at |-> "rest", kind |-> "api", own |-> Nil, point |-> 0, direct |-> TRUE,
             hits |-> {}, stepHits |-> {}]

RecallTypeOK ==
  /\ day \in 1..MaxDay
  /\ \A table \in {runVectors, stepVectors} :
       \A r \in PastRuns : table[r].at \in 0..MaxDay /\ table[r].point \in Points \cup {0}
  /\ \A c \in Askers : deltas[c].at \in {"rest", "embed", "runs", "steps", "log", "over"}
  /\ \A s \in Searchers : searches[s].at \in {"rest", "embed", "runs", "steps", "over"}
  /\ mishaps \in Nat

RecallInit ==
  /\ day = 1
  /\ runVectors = [r \in PastRuns |-> NoVector]
  /\ stepVectors = [r \in PastRuns |-> NoVector]
  /\ deltas = [c \in Askers |-> NoDelta]
  /\ deltaEvents = {}
  /\ searches = [s \in Searchers |-> NoSearch]
  /\ mishaps = 0

PassDay ==
  /\ day < MaxDay
  /\ day' = day + 1
  /\ UNCHANGED <<runVectors, stepVectors, deltas, deltaEvents, searches, mishaps>>

\* UpsertRunEmbedding and ReplacePlanStepEmbeddings of a run that is processed.
EmbedRun(r) ==
  \E p \in Points :
    /\ runVectors' = [runVectors EXCEPT ![r] = [point |-> p, at |-> day]]
    /\ deltas' = [c \in Askers |-> [deltas[c] EXCEPT !.held = @ \ {r}]]
    /\ UNCHANGED <<day, stepVectors, deltaEvents, searches, mishaps>>

EmbedPlan(r) ==
  \E p \in Points :
    /\ stepVectors' = [stepVectors EXCEPT ![r] = [point |-> p, at |-> day]]
    /\ deltas' = [c \in Askers |-> [deltas[c] EXCEPT !.heldSteps = @ \ {r}]]
    /\ UNCHANGED <<day, runVectors, deltaEvents, searches, mishaps>>

-----------------------------------------------------------------------------
(* What is new: Manager.Delta.                                              *)

Keyed(item) == item.key # Nil

\* One item of a batch: it repeats a key the client knows or one of an item
\* before it, or is new at once if it needs no vector, or else a candidate.
WithItem(j, item) ==
  LET old == Keyed(item) /\ item.key \in j.seen
      candidate == Keyed(item) /\ item.text # Textless
  IN [seen |-> IF Keyed(item) THEN j.seen \cup {item.key} ELSE j.seen,
      novel |-> IF ~old /\ ~candidate THEN Append(j.novel, item) ELSE j.novel,
      left |-> IF ~old /\ candidate THEN Append(j.left, item) ELSE j.left,
      duplicates |-> IF old THEN j.duplicates + 1 ELSE j.duplicates]

Unjudged(known) == [seen |-> known, novel |-> <<>>, left |-> <<>>, duplicates |-> 0]

Judged(batch, known) == FoldLeft(WithItem, Unjudged(known), batch)

AskDelta(c) ==
  /\ deltas[c].at = "rest"
  /\ \E batch \in Batches, known \in KnownIDs :
       LET j == Judged(batch, known) IN
       deltas' = [deltas EXCEPT ![c] =
         [NoDelta EXCEPT !.at = IF j.left = <<>> THEN "log" ELSE "embed", !.total = Len(batch),
                         !.novel = j.novel, !.left = j.left, !.duplicates = j.duplicates]]
  /\ UNCHANGED <<day, runVectors, stepVectors, deltaEvents, searches, mishaps>>

\* All candidates at once.  An error ends the request, here and below.
EmbedItems(c) ==
  /\ deltas[c].at = "embed"
  /\ \E o \in {"ok", "failed"} :
       /\ Ends(o)
       /\ deltas' = [deltas EXCEPT ![c] = IF o = "ok"
            THEN [@ EXCEPT !.at = "runs", !.held = Held(runVectors), !.heldSteps = Held(stepVectors)]
            ELSE NoDelta]
  /\ UNCHANGED <<day, runVectors, stepVectors, deltaEvents, searches>>

\* delta_threshold, or search_threshold, or 0.8, as a similarity.
DeltaDistance ==
  5 - (IF Thresholds["delta"] # 0 THEN Thresholds["delta"]
       ELSE IF Thresholds["search"] # 0 THEN Thresholds["search"] ELSE 4)

InWindow(row) == DeltaWindow = 0 \/ row.at >= day - DeltaWindow

\* HasSimilarRunEmbedding and HasSimilarPlanStepEmbedding, if not refused; they
\* order nothing, so that no approximate index is used.
Similar(table, p) ==
  \E r \in Held(table) : InWindow(table[r]) /\ Distance(table[r].point, p) <= DeltaDistance

\* The head of what is left is counted: the next one, or the log.
CountedAs(d, new) ==
  [d EXCEPT !.left = Tail(@),
            !.novel = IF new THEN Append(@, Head(d.left)) ELSE @,
            !.duplicates = IF new THEN @ ELSE @ + 1,
            !.at = IF Len(d.left) = 1 THEN "log" ELSE "runs"]

\* Mutant: who does not match runs is new; the steps are not looked at.
AfterRunsOnly(d, similar) == CountedAs(d, ~similar)
AfterRuns(d, similar) ==
  IF ~similar /\ DeltaWithSteps THEN [d EXCEPT !.at = "steps"] ELSE CountedAs(d, ~similar)

MatchRuns(c) ==
  LET d == deltas[c]  p == Head(d.left).text IN
  /\ d.at = "runs"
  /\ \E next \in IF p = Vectorless THEN {CountedAs(d, TRUE)}
                ELSE {NoDelta, AfterRuns(d, Similar(runVectors, p))} :
       deltas' = [deltas EXCEPT ![c] = next]
  /\ UNCHANGED <<day, runVectors, stepVectors, deltaEvents, searches, mishaps>>

MatchSteps(c) ==
  LET d == deltas[c] IN
  /\ d.at = "steps"
  /\ \E next \in {NoDelta, CountedAs(d, ~Similar(stepVectors, Head(d.left).text))} :
       deltas' = [deltas EXCEPT ![c] = next]
  /\ UNCHANGED <<day, runVectors, stepVectors, deltaEvents, searches, mishaps>>

\* persistDelta, whose error is only logged.
LogDelta(c) ==
  /\ deltas[c].at = "log"
  /\ \E o \in Ending :
       /\ Ends(o)
       /\ deltaEvents' = IF o \in Took
            THEN deltaEvents \cup {[from |-> c, total |-> deltas[c].total,
                                    novel |-> Len(deltas[c].novel), duplicates |-> deltas[c].duplicates]}
            ELSE deltaEvents
  /\ deltas' = [deltas EXCEPT ![c].at = "over"]
  /\ UNCHANGED <<day, runVectors, stepVectors, searches>>

-----------------------------------------------------------------------------
(* Which runs are like a text: the planner, the context of a run, the hits  *)
(* of a run and the search of the API.                                      *)

BeginSearch(s) ==
  /\ searches[s].at = "rest"
  /\ \E kind \in {"planner", "context", "hits", "api"}, own \in PastRuns, p \in Points :
       searches' = [searches EXCEPT ![s] =
         [NoSearch EXCEPT !.at = "embed", !.kind = kind, !.own = own, !.point = p,
                          !.direct = (kind = "api")]]
  /\ UNCHANGED <<day, runVectors, stepVectors, deltas, deltaEvents, mishaps>>

\* A search through SearchSimilar that fails, or that gives a context nothing,
\* is made again, embedding and all, without it; that of the planner is not.
Unanswered(q) ==
  IF ~q.direct /\ q.kind # "planner"
  THEN [q EXCEPT !.at = "embed", !.direct = TRUE, !.hits = {}]
  ELSE [q EXCEPT !.at = "over", !.hits = {}]

EmbedQuery(s) ==
  /\ searches[s].at = "embed"
  /\ \E o \in {"ok", "failed"} :
       /\ Ends(o)
       /\ searches' = [searches EXCEPT ![s] =
            IF o = "ok" THEN [@ EXCEPT !.at = "runs"] ELSE Unanswered(@)]
  /\ UNCHANGED <<day, runVectors, stepVectors, deltas, deltaEvents>>

\* The same search_threshold, here as a distance; SearchSimilar has a default.
Threshold(q) == IF q.direct \/ Thresholds["search"] # 0 THEN Thresholds["search"] ELSE 4

Rows(table, p) == {[run |-> r, distance |-> Distance(table[r].point, p)] : r \in Held(table)}

Near(q, row) == Threshold(q) = 0 \/ row.distance <= Threshold(q)

\* What ORDER BY distance and LIMIT give: the indexes are approximate, and the
\* topic is compared after them, so that any rows of the topic may be missing.
Nearest(rows) == {h \in SUBSET rows : Cardinality(h) <= TopK}

\* The run whose hits are asked for is left out of the runs, after the LIMIT.
Shown(q, h) == {x \in h : Near(q, x) /\ (q.kind = "hits" => x.run # q.own)}

\* A context has no steps; hits may have them or not.
FindRuns(s) ==
  LET q == searches[s] IN
  /\ q.at = "runs"
  /\ \/ \E h \in Nearest(Rows(runVectors, q.point)), step \in {"steps", "over"} :
          /\ q.kind = "planner" => step = "steps"
          /\ q.kind = "context" => step = "over"
          /\ searches' = [searches EXCEPT ![s] =
               IF q.kind = "context" /\ ~q.direct /\ Shown(q, h) = {} THEN Unanswered(q)
               ELSE [q EXCEPT !.at = step, !.hits = Shown(q, h)]]
     \/ searches' = [searches EXCEPT ![s] = Unanswered(q)]
  /\ UNCHANGED <<day, runVectors, stepVectors, deltas, deltaEvents, mishaps>>

\* Without SearchSimilar the runs are shown though the steps failed.
FindSteps(s) ==
  LET q == searches[s] IN
  /\ q.at = "steps"
  /\ \/ \E h \in Nearest(Rows(stepVectors, q.point)) :
          searches' = [searches EXCEPT ![s].at = "over", ![s].stepHits = {x \in h : Near(q, x)}]
     \/ searches' = [searches EXCEPT ![s] = IF q.direct THEN [q EXCEPT !.at = "over"] ELSE Unanswered(q)]
  /\ UNCHANGED <<day, runVectors, stepVectors, deltas, deltaEvents, mishaps>>

-----------------------------------------------------------------------------
EmbedAny == \E r \in PastRuns : EmbedRun(r) \/ EmbedPlan(r)

DeltasNext ==
  \/ PassDay
  \/ EmbedAny
  \/ \E c \in Askers : AskDelta(c) \/ EmbedItems(c) \/ MatchRuns(c) \/ MatchSteps(c) \/ LogDelta(c)

SearchesNext ==
  \/ EmbedAny
  \/ \E s \in Searchers : BeginSearch(s) \/ EmbedQuery(s) \/ FindRuns(s) \/ FindSteps(s)

RecallNext == DeltasNext \/ SearchesNext

RecallSpec == RecallInit /\ [][RecallNext]_recallvars

-----------------------------------------------------------------------------
(* Properties.                                                              *)

\* An answer has every item once, as new or as a duplicate, and no new one
\* has the key of another, however requests and embeddings interleave.
CountedOnce ==
  \A c \in Askers : LET d == deltas[c] IN
    /\ d.total = Len(d.novel) + Len(d.left) + d.duplicates
    /\ \A i, j \in DOMAIN d.novel :
         i # j => ~Keyed(d.novel[i]) \/ d.novel[i].key # d.novel[j].key

\* What is told to be new is like nothing that is embedded, in the window, and
\* was when the items were.
NewsIsNew ==
  \A c \in Askers : LET d == deltas[c] IN
    \A i \in DOMAIN d.novel :
      Keyed(d.novel[i]) /\ d.novel[i].text >= 0 =>
        /\ \A r \in d.held :
             InWindow(runVectors[r]) => Distance(runVectors[r].point, d.novel[i].text) > DeltaDistance
        /\ DeltaWithSteps =>
             \A r \in d.heldSteps :
               InWindow(stepVectors[r]) => Distance(stepVectors[r].point, d.novel[i].text) > DeltaDistance

\* What a search shows is near by the threshold of the attempt that found it,
\* though one with another threshold found runs and failed before; it is no more
\* than the limit, and never the run that asks.
SearchesSound ==
  \A s \in Searchers : LET q == searches[s] IN
    /\ q.at \in {"embed", "runs"} => q.hits = {} /\ q.stepHits = {}
    /\ Cardinality(q.hits) <= TopK /\ Cardinality(q.stepHits) <= TopK
    /\ \A x \in q.hits \cup q.stepHits : Near(q, x)
    /\ \A x \in q.hits : q.kind = "hits" => x.run # q.own

\* Manager.Delta and the searches of semantic memory.
RecallSound == CountedOnce /\ NewsIsNew /\ SearchesSound
=============================================================================
