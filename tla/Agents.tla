------------------------------- MODULE Agents -------------------------------
(***************************************************************************)
(* The agents of one run (internal/agent/core/factories.go): a research    *)
(* asks the search providers, NewsAPI and then Brave page by page          *)
(* (sources_http.go, httpclient.go), under one deadline; other agents put  *)
(* what was found to a model, in any order; the orchestrator makes the     *)
(* report of their results (synthesizeResults of orchestrator.go,          *)
(* evidence.go, the fairness policy of internal/policy).  URLs are as they *)
(* are spelled, and several may spell one page: only the report looks      *)
(* pages up.  Ranking and the texts of the prompts are left out, and so    *)
(* are sources without a URL.                                              *)
(***************************************************************************)
EXTENDS Integers, SequencesExt

CONSTANTS
  Hosts, Urls, HostOf,            \* HostOf[u] is domainOnly of u, in lower case
  PageOf,                         \* normalizeSourceURL
  Known,                          \* URLs of the last run
  Others,                         \* what other researches of the run returned
  Preferred, Blocked, Strict,     \* hosts of the preferences, strict_domains
  DomainCap, MaxPages, Target,    \* 3, 3 and 30 in the code
  FewSources, FewHosts,           \* 3 and 2: below both a page is the last
  Retries,                        \* 2: of a request that failed
  PageSize,                       \* bound: 20 in the code
  MinCredibility, Limit,          \* of the analysis
  MinConfidence, MaxNodes,        \* of the graph; as many edges
  Fair,                           \* whether the fairness policy is enabled
  DomainBias, BiasRange, MinFair, \* of the policy, in tenths; of the host of a URL
  Biases,                         \* bias_slider of the preferences, in tenths
  Digests                         \* bound: the items that a synthesis may hold

ASSUME AgentsAssumption ==
  /\ HostOf \in [Urls -> Hosts] /\ DOMAIN PageOf = Urls
  /\ Others \subseteq [url : Urls, credibility : {6, 8}] /\ IsFiniteSet(Others)
  /\ Known \subseteq Urls /\ Preferred \subseteq Hosts /\ Blocked \subseteq Hosts
  /\ Strict \in BOOLEAN
  /\ {DomainCap, MaxPages, Target, FewSources, FewHosts, Retries, PageSize} \subseteq Nat
  /\ MaxPages # 0 /\ Limit \in Int /\ MaxNodes \in Nat \ {0}
  /\ Fair \in BOOLEAN /\ DomainBias \in [Urls -> -10..10]
  /\ BiasRange \in 0..10 /\ MinFair \in 0..10 /\ Biases \subseteq Int
  /\ Digests \subseteq Seq([stated : BOOLEAN, cited : SUBSET Urls])

VARIABLES
  provider,   \* the one that is asked, then "none", and "done" after ranking
  page,       \* of Brave
  tried,      \* attempts of the request that failed
  expired,    \* the deadline of the research
  gathered,   \* sourcesList, as the credibilities a URL was gathered with
  amount,     \* its length, duplicates included
  perHost,    \* domainCount
  found,      \* the sources of the result of the research
  results,    \* of the other agents
  report      \* the digest and the evidence of the result of the run

avars == <<provider, page, tried, expired, gathered, amount, perHost, found, results, report>>

-----------------------------------------------------------------------------
Models == {"analysis", "synthesis", "conflict_detection", "highlight_management", "knowledge_graph"}

\* Credibility, in tenths: of NewsAPI and of Brave.
Credibility == [news |-> 8, brave |-> 6]

Source == [url : Urls, credibility : {6, 8}]

NoResult == [data |-> "none", sources |-> {}, size |-> 0]

\* A claim is known by the place of its item.
NoReport == [made |-> FALSE, items |-> 0, claims |-> <<>>]

\* A source of a claim; its credibility is in hundredths.
Cited == [url : Urls, credibility : 0..100]

AgentsTypeOK ==
  /\ provider \in {"news", "brave", "none", "done"}
  /\ page \in 0..MaxPages
  /\ tried \in 0..Retries
  /\ expired \in BOOLEAN
  /\ gathered \in [Urls -> SUBSET {6, 8}]
  /\ amount \in Nat
  /\ perHost \in [Hosts -> Nat]
  /\ found \subseteq Source
  /\ results \in [Models -> [data : {"none", "error", "fallback", "parsed"},
                             sources : SUBSET Source, size : Nat]]
  /\ report.made \in BOOLEAN /\ report.items \in Nat
  /\ \A i \in DOMAIN report.claims : i \in Nat /\ report.claims[i] \subseteq Cited

AgentsInit ==
  /\ provider \in {"news", "brave", "none"}
  /\ page = 0
  /\ tried = 0
  /\ expired = FALSE
  /\ gathered = [u \in Urls |-> {}]
  /\ amount = 0
  /\ perHost = [h \in Hosts |-> 0]
  /\ found = {}
  /\ results = [m \in Models |-> NoResult]
  /\ report = NoReport

-----------------------------------------------------------------------------
(* Research.                                                                *)

Acceptable(h) == h \notin Blocked /\ (Strict /\ Preferred # {} => h \in Preferred)

\* Mutant: the cap is kept for a page, not for the research.
UncappedSoFar(h, n) == n - perHost[h] < DomainCap
Uncapped(h, n) == n < DomainCap

\* The results of one answer, in their order, added to what there is.
Gathering == [by |-> gathered, amount |-> amount, perHost |-> perHost]

WithResult(g, u, credibility) ==
  LET h == HostOf[u] IN
  IF Acceptable(h) /\ Uncapped(h, g.perHost[h])
  THEN [by |-> [g.by EXCEPT ![u] = @ \cup {credibility}], amount |-> g.amount + 1,
        perHost |-> [g.perHost EXCEPT ![h] = @ + 1]]
  ELSE g

Gathered(res, credibility) == FoldLeft(LAMBDA g, u : WithResult(g, u, credibility), Gathering, res)

Gather(g) == gathered' = g.by /\ amount' = g.amount /\ perHost' = g.perHost

HostsOf(count) == Cardinality({h \in Hosts : count[h] > 0})

Answers(known) == UNION {[1..n -> Urls \ known] : n \in 0..PageSize}

\* NewsAPI is asked once, without the URLs that are known as they are spelled;
\* Brave comes next if it has a key.
NewsAnswers ==
  /\ provider = "news" /\ ~expired
  /\ \E res \in Answers(Known) : Gather(Gathered(res, Credibility.news))
  /\ provider' \in {"brave", "none"}
  /\ tried' = 0
  /\ UNCHANGED <<page, expired, found, results, report>>

\* Mutant: the number of pages is compared before the page is counted.
LastPageLate(res, g) ==
  \/ page >= MaxPages \/ g.amount >= Target
  \/ res = <<>>
  \/ g.amount - amount < FewSources /\ HostsOf(g.perHost) - HostsOf(perHost) < FewHosts

\* Whether a page is the last: out of pages or wants, or of little use.
LastPage(res, g) ==
  \/ page + 1 >= MaxPages \/ g.amount >= Target
  \/ res = <<>>
  \/ g.amount - amount < FewSources /\ HostsOf(g.perHost) - HostsOf(perHost) < FewHosts

BraveAnswers ==
  /\ provider = "brave" /\ ~expired
  /\ \E res \in Answers({}) :
       LET g == Gathered(res, Credibility.brave) IN
       /\ Gather(g)
       /\ provider' = IF LastPage(res, g) THEN "none" ELSE "brave"
  /\ page' = page + 1
  /\ tried' = 0
  /\ UNCHANGED <<expired, found, results, report>>

\* The provider gives up: the next one is asked with what there is.
GivesUp ==
  /\ provider' \in IF provider = "news" THEN {"brave", "none"} ELSE {"none"}
  /\ tried' = 0

\* DoJSON: a status or the connection is tried again after a pause that the
\* deadline ends; an answer that does not decode is not tried again.
RequestFails ==
  /\ provider \in {"news", "brave"}
  /\ \/ tried < Retries /\ ~expired /\ tried' = tried + 1 /\ UNCHANGED provider
     \/ GivesUp
  /\ UNCHANGED <<page, expired, gathered, amount, perHost, found, results, report>>

Expire ==
  /\ provider \in {"news", "brave"} /\ ~expired
  /\ expired' = TRUE
  /\ UNCHANGED <<provider, page, tried, gathered, amount, perHost, found, results, report>>

\* DeduplicateSources keeps the most credible copy of what is spelled alike.
Deduplicated(by) ==
  {s \in Source : by[s.url] # {} /\ s.credibility = Max(by[s.url])}

\* The research ends, its locals with it.
ReturnSources ==
  /\ provider = "none"
  /\ provider' = "done"
  /\ found' = Deduplicated(gathered)
  /\ page' = 0 /\ expired' = FALSE /\ amount' = 0 /\ perHost' = [h \in Hosts |-> 0]
  /\ UNCHANGED <<tried, gathered, results, report>>

-----------------------------------------------------------------------------
(* The agents that ask a model.  Execute sets Success whatever came of it.  *)

\* What came back: nothing, no JSON, JSON of another shape, an answer.
Replies == {"failed", "no_json", "misfit", "fits"}

Told(reply, misfit) ==
  CASE reply \in {"failed", "no_json"} -> "error"
    [] reply = "misfit" -> misfit
    [] reply = "fits" -> "parsed"

Answered(m, reply, misfit, sources, size) ==
  /\ provider = "done" /\ results[m] = NoResult /\ ~report.made
  /\ results' = [results EXCEPT
       ![m] = IF Told(reply, misfit) = "error" THEN [NoResult EXCEPT !.data = "error"]
              ELSE [data |-> Told(reply, misfit), sources |-> sources, size |-> size]]
  /\ UNCHANGED <<provider, page, tried, expired, gathered, amount, perHost, found, report>>

\* What the researches that a task depends on have returned.
Returned == found \cup Others

\* It considers the sources that are credible, up to the limit, and returns none.
Analyse(reply) ==
  LET credible == {s \in Returned : s.credibility >= MinCredibility}
      considered == IF Limit > 0 THEN Min({Limit, Cardinality(credible)}) ELSE Cardinality(credible)
  IN Answered("analysis", reply, "fallback", {}, considered)

\* The signals are averaged over all inputs that have data, the research
\* among them: their number is the size.
Inputs == {m \in {"analysis", "conflict_detection"} : results[m] # NoResult}
Synthesise(reply) ==
  Answered("synthesis", reply, "fallback", Returned, 1 + Cardinality(Inputs))

DetectConflicts(reply) == Answered("conflict_detection", reply, "fallback", Returned, 0)

\* An answer of another shape is one without highlights.
ManageHighlights(reply) == Answered("highlight_management", reply, "parsed", Returned, 0)

\* How many are confident enough, up to the most there may be.
Confident(confidences) ==
  Min({Cardinality({i \in DOMAIN confidences : confidences[i] >= MinConfidence}), MaxNodes})

BuildGraph(reply) ==
  \E n \in 0..(MaxNodes + 1) : \E confidences \in [1..n -> {MinConfidence - 1, MinConfidence}] :
    Answered("knowledge_graph", reply, "parsed", Returned,
             IF reply = "fits" THEN Confident(confidences) ELSE 0)

-----------------------------------------------------------------------------
(* The report: synthesizeResults.                                           *)

Clamp(n, low, high) == Max({low, Min({n, high})})

\* FairnessPolicy.Adjust: towards 1 by the bias of the host and of the user,
\* or away from it.
Adjusted(s, bias) ==
  LET delta == Clamp(DomainBias[s.url] + Clamp(bias, -BiasRange, BiasRange), -10, 10)
  IN IF Fair THEN Max({10 * MinFair, Clamp(10 * s.credibility + delta * (10 - s.credibility), 0, 100)})
     ELSE 10 * s.credibility

\* The sources of all results, which are what the report may cite.
Sources == Returned \cup UNION {results[m].sources : m \in Models}

SamePage(u, v) == PageOf[u] = PageOf[v]

\* A source for every URL whose page has one: the last of the list that spells
\* the page, of a list that came out of a map.
Lookups ==
  {lookup \in [{u \in Urls : \E s \in Sources : SamePage(s.url, u)} -> Sources] :
     \A u \in DOMAIN lookup : SamePage(lookup[u].url, u)}

\* What an item cites and is found, as it spells it, with the credibility found.
Verified(item, lookup, bias) ==
  {[url |-> u, credibility |-> Adjusted(lookup[u], bias)] : u \in item.cited \cap DOMAIN lookup}

\* An item without a verified source is dropped, and one that states nothing
\* is no claim.  An answer of another shape keeps the items that fit.
Compile(bias) ==
  /\ results["synthesis"] # NoResult /\ ~report.made
  /\ \E digest \in IF results["synthesis"].data = "error" THEN {<<>>} ELSE Digests, lookup \in Lookups :
       LET kept == {i \in DOMAIN digest : Verified(digest[i], lookup, bias) # {}}
           stated == {i \in kept : digest[i].stated}
       IN report' = [made |-> TRUE, items |-> Cardinality(kept),
                     claims |-> [i \in stated |-> Verified(digest[i], lookup, bias)]]
  /\ UNCHANGED <<provider, page, tried, expired, gathered, amount, perHost, found, results>>

AgentsNext ==
  \/ NewsAnswers \/ BraveAnswers \/ RequestFails \/ Expire \/ ReturnSources
  \/ \E reply \in Replies :
       \/ Analyse(reply) \/ Synthesise(reply) \/ DetectConflicts(reply)
       \/ ManageHighlights(reply) \/ BuildGraph(reply)
  \/ \E bias \in Biases : Compile(bias)

AgentsSpec == AgentsInit /\ [][AgentsNext]_avars

-----------------------------------------------------------------------------
(* Properties.                                                              *)

\* A claim rests on pages that were found, of which fairness raises what is
\* below the least credibility; where every spelling that was found of one is at
\* most as credible as every one of another, and their hosts are treated alike,
\* it keeps that order, whichever spelling the report looked up.
Supported(claim, by) ==
  /\ claim # {}
  /\ \A c \in claim :
       /\ \E s \in by : SamePage(s.url, c.url)
       /\ Fair => c.credibility >= 10 * MinFair
  /\ \A c, d \in claim :
       (\A s, t \in by :
          SamePage(s.url, c.url) /\ SamePage(t.url, d.url) =>
            DomainBias[s.url] = DomainBias[t.url] /\ s.credibility <= t.credibility)
         => c.credibility <= d.credibility

\* What one research is told of the web is within the preferences of its topic,
\* over both providers and all pages, whichever request fails or is tried
\* again: no blocked host, only preferred ones if that is strict, and no host
\* with more URLs than the cap; every spelling once, with the best credibility
\* it was gathered with: executeResearch.  And the report of the run claims
\* nothing without a page that one of its researches found, whatever the model
\* cites: synthesizeResults.
SourcesWithinPolicy ==
  /\ \A u \in Urls : gathered[u] # {} => Acceptable(HostOf[u])
  /\ \A h \in Hosts : Cardinality({u \in Urls : HostOf[u] = h /\ gathered[u] # {}}) <= DomainCap
  /\ \A s \in found : /\ s.credibility \in gathered[s.url]
                      /\ \A c \in gathered[s.url] : c <= s.credibility
  /\ provider = "done" => {s.url : s \in found} = {u \in Urls : gathered[u] # {}}
  /\ \A m \in Models : results[m].sources \subseteq Returned
  /\ Cardinality(DOMAIN report.claims) <= report.items
  /\ \A i \in DOMAIN report.claims : Supported(report.claims[i], Returned)
=============================================================================
