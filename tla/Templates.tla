------------------------------ MODULE Templates ------------------------------
(***************************************************************************)
(* Procedural templates of one topic (internal/agent/core/                 *)
(* planner_templates.go, internal/memory/templates/manager.go,             *)
(* internal/server/template_repo.go and their tables in                    *)
(* internal/store/store.go).  Planners count the fingerprint of every      *)
(* stage they plan and record the use of a template that is linked to it;  *)
(* users promote fingerprints to templates and approve new versions of     *)
(* them.  An action is one statement, or one transaction, of Postgres.     *)
(***************************************************************************)
EXTENDS Calls, Sequences, FiniteSets

CONSTANTS
  Fingerprints,  \* fewer than the 100 that a promotion looks at
  Names,
  Templates,     \* bound: as many as there can be
  Planners,      \* pipelines that annotate a plan
  Editors,       \* requests that promote or approve
  MaxSeen,       \* bound: occurrences of a fingerprint
  MaxVersions    \* bound: versions of a template

ASSUME TemplatesAssumption ==
  /\ Planners \cap Editors = {}
  /\ Nil \notin Fingerprints \cup Names \cup Templates
  /\ IsFiniteSet(Planners)
  /\ MaxSeen \in Nat /\ MaxVersions \in Nat

VARIABLES
  seen,        \* procedural_template_fingerprints.occurrences, 0 without a row
  link,        \* procedural_template_fingerprints.template_id
  name,        \* procedural_templates.name, Nil without a row
  current,     \* procedural_templates.current_version
  versions,    \* procedural_template_versions: status, and the fingerprint it
               \* was promoted from (metadata)
  used,        \* rows of procedural_template_usage
  counted,     \* procedural_template_metrics.usage_count
  doing,       \* what a thread does
  crossed,     \* fingerprints two promotions were in flight for at once
  struck       \* fingerprints and templates a mishap has struck

tables == <<seen, link, name, current, versions, used, counted>>
tvars == <<tables, doing, crossed, struck, mishaps>>

-----------------------------------------------------------------------------
Threads == Planners \cup Editors

AtRest == [at |-> "rest", fp |-> Nil, name |-> Nil, tpl |-> Nil, ver |-> 0, status |-> "none"]

Doing == [at : {"rest", "suggest", "use", "count", "create", "max", "insert", "commit", "link"},
          fp : Fingerprints \cup {Nil}, name : Names \cup {Nil}, tpl : Templates \cup {Nil},
          ver : Nat, status : {"none", "pending_approval", "approved"}]

Version == [status : {"pending_approval", "approved"}, from : Fingerprints \cup {Nil}]

TemplatesTypeOK ==
  /\ seen \in [Fingerprints -> Nat]
  /\ link \in [Fingerprints -> Templates \cup {Nil}]
  /\ name \in [Templates -> Names \cup {Nil}]
  /\ current \in [Templates -> Nat]
  /\ versions \in [Templates -> Seq(Version)]
  /\ used \in [Templates -> Nat]
  /\ counted \in [Templates -> Nat]
  /\ doing \in [Threads -> Doing]
  /\ crossed \subseteq Fingerprints
  /\ struck \subseteq Fingerprints \cup Templates \cup {Nil}
  /\ mishaps \in Nat

TemplatesInit ==
  /\ seen = [f \in Fingerprints |-> 0]
  /\ link = [f \in Fingerprints |-> Nil]
  /\ name = [t \in Templates |-> Nil]
  /\ current = [t \in Templates |-> 0]
  /\ versions = [t \in Templates |-> <<>>]
  /\ used = [t \in Templates |-> 0]
  /\ counted = [t \in Templates |-> 0]
  /\ doing = [x \in Threads |-> AtRest]
  /\ crossed = {}
  /\ struck = {}
  /\ mishaps = 0

-----------------------------------------------------------------------------
\* A call of thread x; what x is at work on may no longer be complete.
Mishap(x, o) ==
  /\ Ends(o)
  /\ struck' = IF o = "ok" THEN struck ELSE struck \cup {doing[x].fp, doing[x].tpl}

Set(x, d) == doing' = [doing EXCEPT ![x] = d]
At(x, step) == Set(x, [doing[x] EXCEPT !.at = step])
Rest(x) == Set(x, AtRest)

-----------------------------------------------------------------------------
(* Planners: annotateProceduralTemplates, for one stage of the plan.        *)

SuggestionThreshold == 3

\* What comes after the row that the upsert returned.
AfterCount(f, n) ==
  IF link[f] # Nil THEN "use" ELSE IF n >= SuggestionThreshold THEN "suggest" ELSE "rest"

\* UpsertFingerprint; when it fails the stage is skipped.
CountFingerprint(p, f) ==
  /\ doing[p] = AtRest /\ seen[f] < MaxSeen
  /\ \E o \in Ending :
       /\ Ends(o)
       /\ seen' = IF o \in Took THEN [seen EXCEPT ![f] = @ + 1] ELSE seen
       /\ IF o = "ok" /\ AfterCount(f, seen'[f]) # "rest"
          THEN Set(p, [AtRest EXCEPT !.at = AfterCount(f, seen'[f]), !.fp = f, !.tpl = link[f]])
          ELSE Rest(p)
  /\ UNCHANGED <<link, name, current, versions, used, counted, crossed, struck>>

\* CreateTemplate with CreatedBy "system", which created_by, a UUID, does not
\* take: the insert fails, a warning is logged and the stage is a candidate.
SuggestTemplate(p) ==
  /\ doing[p].at = "suggest"
  /\ Rest(p)
  /\ UNCHANGED <<tables, crossed, struck, mishaps>>

\* RecordUsage: the row first, the metrics only if that succeeded.
InsertUsage(p) ==
  /\ doing[p].at = "use"
  /\ \E o \in Ending :
       /\ Mishap(p, o)
       /\ used' = IF o \in Took THEN [used EXCEPT ![doing[p].tpl] = @ + 1] ELSE used
       /\ IF o = "ok" THEN At(p, "count") ELSE Rest(p)
  /\ UNCHANGED <<seen, link, name, current, versions, counted, crossed>>

CountUsage(p) ==
  /\ doing[p].at = "count"
  /\ \E o \in Ending :
       /\ Mishap(p, o)
       /\ counted' = IF o \in Took THEN [counted EXCEPT ![doing[p].tpl] = @ + 1] ELSE counted
  /\ Rest(p)
  /\ UNCHANGED <<seen, link, name, current, versions, used, crossed>>

-----------------------------------------------------------------------------
(* Users: PromoteFingerprint and ApproveTemplate.                           *)

\* Mutant: a fingerprint that has its template is promoted again.
PromotableAgain(f) == seen[f] > 0

\* A template with a version is returned as it is; with none it is not listed,
\* and another is made.
Promotable(f) == seen[f] > 0 /\ (link[f] # Nil => versions[link[f]] = <<>>)

Promote(e, f, n) ==
  /\ doing[e] = AtRest /\ Promotable(f)
  /\ Set(e, [AtRest EXCEPT !.at = "create", !.fp = f, !.name = n, !.status = "pending_approval"])
  /\ crossed' = IF \E x \in Editors : doing[x].fp = f /\ doing[x].status = "pending_approval"
                THEN crossed \cup {f} ELSE crossed
  /\ UNCHANGED <<tables, struck, mishaps>>

\* A name is taken once in a topic.
Free(n) == \A t \in Templates : name[t] # n

\* CreateProceduralTemplate; current_version has the default 1.
CreateTemplate(e) ==
  LET n == doing[e].name IN
  /\ doing[e].at = "create"
  /\ \/ /\ Free(n)
        /\ \E t \in Templates, o \in Took :
             /\ name[t] = Nil
             /\ Mishap(e, o)
             /\ name' = [name EXCEPT ![t] = n] /\ current' = [current EXCEPT ![t] = 1]
             /\ IF o = "ok" THEN Set(e, [doing[e] EXCEPT !.at = "max", !.tpl = t]) ELSE Rest(e)
     \/ /\ IF Free(n) THEN Mishap(e, "failed") ELSE UNCHANGED <<mishaps, struck>>
        /\ Rest(e)
        /\ UNCHANGED <<name, current>>
  /\ UNCHANGED <<seen, link, versions, used, counted, crossed>>

\* ListProceduralTemplateVersions; the newest is the base of the approved one.
Approve(e, t) ==
  /\ doing[e] = AtRest /\ versions[t] # <<>>
  /\ Len(versions[t]) < MaxVersions
  /\ \E f \in {versions[t][Len(versions[t])].from, Nil} :
       Set(e, [AtRest EXCEPT !.at = "max", !.tpl = t, !.fp = f, !.status = "approved"])
  /\ UNCHANGED <<tables, crossed, struck, mishaps>>

\* SELECT MAX(version) + 1, in the transaction of the insert.
NumberVersion(e) ==
  LET t == doing[e].tpl IN
  /\ doing[e].at = "max"
  /\ \/ Set(e, [doing[e] EXCEPT !.at = "insert", !.ver = Len(versions[t]) + 1])
        /\ UNCHANGED <<mishaps, struck>>
     \/ Rest(e) /\ Mishap(e, "failed")
  /\ UNCHANGED <<tables, crossed>>

\* The unique index on (template_id, version).
NotTaken(t, v) == v > Len(versions[t])

\* The insert waits for one of the same number that is not committed, and
\* fails if there is one that is.
InsertVersion(e) ==
  LET t == doing[e].tpl IN
  /\ doing[e].at = "insert"
  /\ ~\E x \in Editors : doing[x].at = "commit" /\ doing[x].tpl = t /\ doing[x].ver = doing[e].ver
  /\ \/ NotTaken(t, doing[e].ver) /\ At(e, "commit") /\ UNCHANGED <<mishaps, struck>>
     \/ /\ IF NotTaken(t, doing[e].ver) THEN Mishap(e, "failed") ELSE UNCHANGED <<mishaps, struck>>
        /\ Rest(e)
  /\ UNCHANGED <<tables, crossed>>

\* The versions of t with number v in place.
WithVersion(t, v, version) ==
  [i \in 1..(IF v > Len(versions[t]) THEN v ELSE Len(versions[t])) |->
     IF i = v THEN version ELSE versions[t][i]]

\* Mutant: current_version follows the version that was the base.
CurrentOfBase(t, v) == v - 1
CurrentAfter(t, v) == v

\* The update of the template and the commit.  After a failure the
\* transaction ends with the request.
CommitVersion(e) ==
  LET t == doing[e].tpl
      v == doing[e].ver IN
  /\ doing[e].at = "commit"
  /\ \E o \in Ending :
       /\ Mishap(e, o)
       /\ IF o \in Took
          THEN /\ versions' = [versions EXCEPT
                    ![t] = WithVersion(t, v, [status |-> doing[e].status, from |-> doing[e].fp])]
               /\ current' = IF doing[e].status = "approved"
                             THEN [current EXCEPT ![t] = CurrentAfter(t, v)] ELSE current
          ELSE UNCHANGED <<versions, current>>
       /\ IF o = "ok" /\ doing[e].status = "pending_approval" THEN At(e, "link") ELSE Rest(e)
  /\ UNCHANGED <<seen, link, name, used, counted, crossed>>

\* Its error is only logged.
LinkFingerprint(e) ==
  /\ doing[e].at = "link"
  /\ \E o \in Ending :
       /\ Mishap(e, o)
       /\ link' = IF o \in Took THEN [link EXCEPT ![doing[e].fp] = doing[e].tpl] ELSE link
  /\ Rest(e)
  /\ UNCHANGED <<seen, name, current, versions, used, counted, crossed>>

\* The process of a thread ends.
CutOff(x) ==
  /\ doing[x] # AtRest
  /\ Mishap(x, "failed")
  /\ Rest(x)
  /\ UNCHANGED <<tables, crossed>>

-----------------------------------------------------------------------------
TemplatesNext ==
  \/ \E p \in Planners :
       \/ \E f \in Fingerprints : CountFingerprint(p, f)
       \/ SuggestTemplate(p) \/ InsertUsage(p) \/ CountUsage(p)
  \/ \E e \in Editors :
       \/ \E f \in Fingerprints, n \in Names : Promote(e, f, n)
       \/ \E t \in Templates : Approve(e, t)
       \/ CreateTemplate(e) \/ NumberVersion(e) \/ InsertVersion(e)
       \/ CommitVersion(e) \/ LinkFingerprint(e)
  \/ \E x \in Threads : CutOff(x)

TemplatesSpec == TemplatesInit /\ [][TemplatesNext]_tvars

-----------------------------------------------------------------------------
(* Properties.                                                              *)

Approved(t) == {i \in 1..Len(versions[t]) : versions[t][i].status = "approved"}

\* current_version is the newest approved version, whatever approvals and
\* promotions run at the same time or fail half-way, or 1 before the first:
\* CreateProceduralTemplateVersion.
CurrentIsNewestApproved ==
  \A t \in Templates : name[t] # Nil =>
    /\ current[t] \in Approved(t) \cup {1}
    /\ \A i \in Approved(t) : i <= current[t]

\* A promoted template is the one its fingerprint is linked to, so that
\* planners count its uses and no second one is made; only promotions at the
\* same time, or a call that failed in between, leave another:
\* PromoteFingerprint.
PromotionsLinked ==
  \A t \in Templates \ struck : \A i \in 1..Len(versions[t]) :
    LET f == versions[t][i].from IN
    \/ f = Nil \/ f \in crossed \cup struck \/ link[f] = t
    \/ \E e \in Editors : doing[e].at = "link" /\ doing[e].fp = f /\ doing[e].tpl = t

\* The metrics of a template count every recorded use once, and none that is
\* not recorded: RecordProceduralTemplateUsage.
UsageCounted ==
  \A t \in Templates :
    LET between == Cardinality({p \in Planners : doing[p].at = "count" /\ doing[p].tpl = t}) IN
    /\ counted[t] + between <= used[t]
    /\ t \notin struck => counted[t] + between = used[t]

\* A template and its numbers can be followed from the fingerprint it is for.
TemplatesFollowed == PromotionsLinked /\ UsageCounted
=============================================================================
