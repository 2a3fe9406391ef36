-------------------------- MODULE TemplatesProofs ---------------------------
(***************************************************************************)
(* What Templates promises of versions, promotions and uses, for every     *)
(* number of planners, editors, fingerprints, versions and mishaps.        *)
(***************************************************************************)
EXTENDS Templates, FiniteSetTheorems, SequenceTheorems, TLAPS

-----------------------------------------------------------------------------
(* Types.                                                                   *)

Shapes ==
  /\ link \in [Fingerprints -> Templates \cup {Nil}]
  /\ name \in [Templates -> Names \cup {Nil}]
  /\ current \in [Templates -> Nat]
  /\ versions \in [Templates -> Seq(Version)]
  /\ used \in [Templates -> Nat]
  /\ counted \in [Templates -> Nat]
  /\ doing \in [Threads -> Doing]

\* What an editor is at: a template it has found, a number that may be free.
Edited(e) ==
  /\ doing[e].at # "rest" => doing[e].status # "none"
  /\ doing[e].at = "create" => doing[e].name \in Names
  /\ doing[e].at \in {"max", "insert", "commit", "link"} =>
       doing[e].tpl \in Templates /\ name[doing[e].tpl] # Nil
  /\ doing[e].at = "insert" => doing[e].ver \in 1..(Len(versions[doing[e].tpl]) + 1)
  /\ doing[e].at = "commit" => doing[e].ver = Len(versions[doing[e].tpl]) + 1

Editing == \A e \in Editors : Edited(e)

\* One transaction at most can commit a version of a template.
Alone ==
  \A e, x \in Editors :
    doing[e].at = "commit" /\ doing[x].at = "commit" /\ doing[e].tpl = doing[x].tpl => e = x

Named == \A t \in Templates : versions[t] # <<>> => name[t] # Nil

Numbers == Shapes /\ Editing /\ Alone /\ Named /\ CurrentIsNewestApproved

LEMMA ThreadsOf == (\A e \in Editors : e \in Threads /\ e \notin Planners) /\ (\A p \in Planners : p \in Threads /\ p \notin Editors)
  BY TemplatesAssumption DEF Threads

LEMMA RestType == AtRest \in Doing /\ AtRest.at = "rest" /\ AtRest.fp = Nil /\ AtRest.tpl = Nil
  BY DEF AtRest, Doing

LEMMA SetRight ==
  ASSUME doing \in [Threads -> Doing], NEW x \in Threads, NEW d \in Doing, Set(x, d)
  PROVE  /\ doing' \in [Threads -> Doing] /\ doing'[x] = d
         /\ \A y \in Threads : y # x => doing'[y] = doing[y]
  BY DEF Set

LEMMA AtRight ==
  ASSUME doing \in [Threads -> Doing], NEW x \in Threads,
         NEW s \in {"use", "count", "create", "max", "insert", "commit", "link"}, At(x, s)
  PROVE  /\ doing' \in [Threads -> Doing]
         /\ doing'[x].at = s /\ doing'[x].fp = doing[x].fp /\ doing'[x].name = doing[x].name
         /\ doing'[x].tpl = doing[x].tpl /\ doing'[x].ver = doing[x].ver
         /\ doing'[x].status = doing[x].status
         /\ \A y \in Threads : y # x => doing'[y] = doing[y]
<1> DEFINE d == [doing[x] EXCEPT !.at = s]
<1>1. /\ d \in Doing /\ d.at = s /\ d.fp = doing[x].fp /\ d.name = doing[x].name
      /\ d.tpl = doing[x].tpl /\ d.ver = doing[x].ver /\ d.status = doing[x].status
  BY DEF Doing
<1>2. Set(x, d)
  BY DEF At
<1> HIDE DEF d
<1> QED BY <1>1, <1>2, SetRight

\* The versions of a template with the next one in place.
LEMMA NextVersion ==
  ASSUME Shapes, NEW t \in Templates, NEW w \in Version
  PROVE  LET v == Len(versions[t]) + 1
             s == WithVersion(t, v, w) IN
         /\ s \in Seq(Version) /\ Len(s) = v /\ s[v] = w
         /\ \A i \in 1..Len(versions[t]) : s[i] = versions[t][i]
<1> DEFINE n == Len(versions[t])
           s == WithVersion(t, n + 1, w)
<1>1. n \in Nat /\ versions[t] \in Seq(Version)
  BY DEF Shapes
<1>2. s = [i \in 1..(n + 1) |-> IF i = n + 1 THEN w ELSE versions[t][i]]
  BY <1>1 DEF WithVersion
<1>3. \A i \in 1..(n + 1) : s[i] \in Version
  BY <1>1, <1>2
<1> HIDE DEF s, n
<1>4. s \in Seq(Version) /\ Len(s) = n + 1
  BY <1>1, <1>2, <1>3, IsASeq
<1> QED BY <1>1, <1>2, <1>4 DEF n, s

-----------------------------------------------------------------------------
(* Versions and their numbers.                                              *)

\* What editors hold to when the versions stay as they are.
LEMMA VersionsQuiet ==
  ASSUME Numbers, Shapes', UNCHANGED <<name, current, versions>>,
         \A e \in Editors : doing'[e] = doing[e] \/ doing'[e].at \in {"rest", "create", "link"},
         \A e \in Editors : doing'[e] # doing[e] =>
           /\ doing'[e].at # "rest" => doing'[e].status # "none"
           /\ doing'[e].at = "create" => doing'[e].name \in Names
           /\ doing'[e].at = "link" => doing'[e].tpl \in Templates /\ name[doing'[e].tpl] # Nil
  PROVE  Numbers'
<1>1. Editing'
  BY DEF Numbers, Editing, Edited
<1>2. Alone'
  BY DEF Numbers, Alone
<1>3. Named' /\ CurrentIsNewestApproved'
  BY DEF Numbers, Named, CurrentIsNewestApproved, Approved
<1> QED BY <1>1, <1>2, <1>3 DEF Numbers

\* The steps of planners, and those of editors that end.
LEMMA PlannerShapes ==
  ASSUME Shapes, NEW p \in Planners,
         (\E f \in Fingerprints : CountFingerprint(p, f)) \/ SuggestTemplate(p) \/ InsertUsage(p) \/ CountUsage(p)
  PROVE  /\ Shapes' /\ UNCHANGED <<link, name, current, versions, crossed>>
         /\ struck \subseteq struck'
         /\ \A x \in Threads : x # p => doing'[x] = doing[x]
         /\ doing'[p].status = "none" \/ doing'[p].status = doing[p].status
<1>1. ASSUME NEW f \in Fingerprints, CountFingerprint(p, f)
      PROVE  /\ Shapes' /\ UNCHANGED <<link, name, current, versions, crossed>>
             /\ struck \subseteq struck'
             /\ \A x \in Threads : x # p => doing'[x] = doing[x]
             /\ doing'[p].status = "none" \/ doing'[p].status = doing[p].status
  <2>1. UNCHANGED <<link, name, current, versions, used, counted, crossed, struck>>
    BY <1>1 DEF CountFingerprint
  <2> DEFINE s == AfterCount(f, seen'[f])
             d == [AtRest EXCEPT !.at = s, !.fp = f, !.tpl = link[f]]
  <2>2. s \in {"use", "suggest", "rest"} /\ link[f] \in Templates \cup {Nil}
    BY DEF AfterCount, Shapes
  <2> HIDE DEF s
  <2>3. d \in Doing /\ d.status = "none" /\ AtRest.status = "none"
    BY <2>2 DEF AtRest, Doing
  <2>4. Set(p, d) \/ Set(p, AtRest)
    BY <1>1 DEF CountFingerprint, Rest, s
  <2> HIDE DEF d
  <2> QED BY <2>1, <2>3, <2>4, RestType, SetRight, ThreadsOf DEF Shapes
<1>2. CASE SuggestTemplate(p)
  <2>1. Set(p, AtRest) /\ AtRest.status = "none"
    BY <1>2 DEF SuggestTemplate, Rest, AtRest
  <2>2. UNCHANGED <<tables, crossed, struck>>
    BY <1>2 DEF SuggestTemplate
  <2> QED BY <2>1, <2>2, RestType, SetRight, ThreadsOf DEF Shapes, tables
<1>3. CASE InsertUsage(p)
  <2>1. PICK o \in Ending :
          /\ Mishap(p, o)
          /\ used' = IF o \in Took THEN [used EXCEPT ![doing[p].tpl] = @ + 1] ELSE used
          /\ IF o = "ok" THEN At(p, "count") ELSE Rest(p)
    BY <1>3 DEF InsertUsage
  <2>2. used' \in [Templates -> Nat] /\ struck \subseteq struck'
    <3>1. CASE o \in Took
      <4>1. used' = [used EXCEPT ![doing[p].tpl] = @ + 1]
        BY <2>1, <3>1
      <4>2. ASSUME NEW t \in Templates PROVE used'[t] \in Nat
        BY <4>1 DEF Shapes
      <4>3. used' \in [Templates -> Nat]
        BY <4>1, <4>2 DEF Shapes
      <4>4. struck \subseteq struck'
        BY <2>1 DEF Mishap
      <4> QED BY <4>3, <4>4
    <3>2. CASE o \notin Took
      BY <2>1, <3>2 DEF Shapes, Mishap
    <3> QED BY <3>1, <3>2
  <2>3. At(p, "count") \/ Set(p, AtRest)
    BY <2>1 DEF Rest
  <2>4. AtRest.status = "none"
    BY DEF AtRest
  <2>5. UNCHANGED <<link, name, current, versions, counted, crossed>>
    BY <1>3 DEF InsertUsage
  <2> QED BY <2>2, <2>3, <2>4, <2>5, RestType, SetRight, AtRight, ThreadsOf DEF Shapes
<1>4. CASE CountUsage(p)
  <2>1. PICK o \in Ending :
          /\ Mishap(p, o)
          /\ counted' = IF o \in Took THEN [counted EXCEPT ![doing[p].tpl] = @ + 1] ELSE counted
    BY <1>4 DEF CountUsage
  <2>2. counted' \in [Templates -> Nat] /\ struck \subseteq struck'
    <3>1. CASE o \in Took
      <4>1. counted' = [counted EXCEPT ![doing[p].tpl] = @ + 1]
        BY <2>1, <3>1
      <4>2. ASSUME NEW t \in Templates PROVE counted'[t] \in Nat
        BY <4>1 DEF Shapes
      <4>3. counted' \in [Templates -> Nat]
        BY <4>1, <4>2 DEF Shapes
      <4>4. struck \subseteq struck'
        BY <2>1 DEF Mishap
      <4> QED BY <4>3, <4>4
    <3>2. CASE o \notin Took
      BY <2>1, <3>2 DEF Shapes, Mishap
    <3> QED BY <3>1, <3>2
  <2>3. Set(p, AtRest) /\ AtRest.status = "none"
    BY <1>4 DEF CountUsage, Rest, AtRest
  <2>4. UNCHANGED <<link, name, current, versions, used, crossed>>
    BY <1>4 DEF CountUsage
  <2> QED BY <2>2, <2>3, <2>4, RestType, SetRight, ThreadsOf DEF Shapes
<1> QED BY <1>1, <1>2, <1>3, <1>4

\* A thread that ends its work.
LEMMA RestKeeps ==
  ASSUME Numbers, NEW x \in Threads, Rest(x), UNCHANGED <<name, current, versions, used, counted>>,
         link' \in [Fingerprints -> Templates \cup {Nil}]
  PROVE  Numbers'
<1>1. /\ doing' \in [Threads -> Doing] /\ doing'[x] = AtRest
      /\ \A y \in Threads : y # x => doing'[y] = doing[y]
  BY RestType, SetRight DEF Rest, Numbers, Shapes
<1> QED BY <1>1, RestType, VersionsQuiet, ThreadsOf DEF Numbers, Shapes

LEMMA CreateKeeps ==
  ASSUME Numbers, NEW e \in Editors, CreateTemplate(e)
  PROVE  Numbers'
<1>1. doing[e].at = "create" /\ UNCHANGED <<seen, link, versions, used, counted, crossed>>
  BY DEF CreateTemplate
<1>2. CASE Rest(e) /\ UNCHANGED <<name, current>>
  BY <1>1, <1>2, RestKeeps, ThreadsOf DEF Numbers, Shapes
<1>3. ASSUME NEW t \in Templates, NEW o \in Took, Free(doing[e].name), name[t] = Nil,
             name' = [name EXCEPT ![t] = doing[e].name], current' = [current EXCEPT ![t] = 1],
             IF o = "ok" THEN Set(e, [doing[e] EXCEPT !.at = "max", !.tpl = t]) ELSE Rest(e)
      PROVE  Numbers'
  <2> DEFINE d == [doing[e] EXCEPT !.at = "max", !.tpl = t]
  <2>1. doing[e] \in Doing /\ doing[e].name \in Names \cup {Nil}
    BY ThreadsOf DEF Numbers, Shapes, Doing
  <2>2. d \in Doing /\ d.at = "max" /\ d.tpl = t /\ d.status = doing[e].status
    BY <2>1 DEF Doing
  <2> HIDE DEF d
  <2>3. Set(e, d) \/ Set(e, AtRest)
    BY <1>3 DEF d, Rest
  <2>4. /\ doing' \in [Threads -> Doing] /\ (doing'[e] = d \/ doing'[e] = AtRest)
        /\ \A y \in Threads : y # e => doing'[y] = doing[y]
    BY <2>2, <2>3, SetRight, RestType, ThreadsOf DEF Numbers, Shapes
  <2>5. Shapes'
    BY <1>1, <1>3, <2>1, <2>4 DEF Numbers, Shapes
  <2>6. doing[e].name \in Names /\ name'[t] # Nil /\ doing[e].status # "none"
    BY <1>1, <1>3, TemplatesAssumption DEF Numbers, Editing, Edited, Shapes
  <2>7. /\ \A u \in Templates : u # t => name'[u] = name[u] /\ current'[u] = current[u]
        /\ current'[t] = 1 /\ versions[t] = <<>>
    BY <1>3 DEF Numbers, Shapes, Named
  <2>8. Editing'
    BY <1>1, <2>2, <2>4, <2>6, <2>7, RestType, ThreadsOf DEF Numbers, Editing, Edited
  <2>9. Alone'
    BY <2>2, <2>4, RestType, ThreadsOf DEF Numbers, Alone
  <2>10. Named'
    BY <1>1, <2>6, <2>7 DEF Numbers, Named
  <2>11. CurrentIsNewestApproved'
    <3> SUFFICES ASSUME NEW u \in Templates, name'[u] # Nil
                 PROVE  /\ current'[u] \in Approved(u)' \cup {1}
                        /\ \A i \in Approved(u)' : i <= current'[u]
      BY DEF CurrentIsNewestApproved
    <3>1. Approved(u)' = Approved(u)
      BY <1>1 DEF Approved
    <3>2. CASE u = t
      <4>1. Approved(t) = {}
        BY <2>7 DEF Approved
      <4> QED BY <3>1, <3>2, <4>1, <2>7
    <3>3. CASE u # t
      BY <3>1, <3>3, <2>7 DEF Numbers, CurrentIsNewestApproved
    <3> QED BY <3>2, <3>3
  <2> QED BY <2>5, <2>8, <2>9, <2>10, <2>11 DEF Numbers
<1> QED BY <1>2, <1>3 DEF CreateTemplate

\* An editor that moves on without a commit.
LEMMA MoveKeeps ==
  ASSUME Numbers, NEW e \in Editors, NEW d \in Doing, Set(e, d),
         UNCHANGED <<link, name, current, versions, used, counted>>,
         d.at # "commit", d.at # "insert",
         d.status # "none",
         d.at = "create" => d.name \in Names,
         d.at \in {"max", "link"} => d.tpl \in Templates /\ name[d.tpl] # Nil
  PROVE  Numbers'
<1>1. /\ doing' \in [Threads -> Doing] /\ doing'[e] = d
      /\ \A y \in Threads : y # e => doing'[y] = doing[y]
  BY SetRight, ThreadsOf DEF Numbers, Shapes
<1>2. Shapes'
  BY <1>1 DEF Numbers, Shapes
<1>3. Editing'
  BY <1>1, ThreadsOf DEF Numbers, Editing, Edited
<1>4. Alone'
  BY <1>1, ThreadsOf DEF Numbers, Alone
<1>5. Named' /\ CurrentIsNewestApproved'
  BY DEF Numbers, Named, CurrentIsNewestApproved, Approved
<1> QED BY <1>2, <1>3, <1>4, <1>5 DEF Numbers

LEMMA PromoteKeeps ==
  ASSUME Numbers, NEW e \in Editors, NEW f \in Fingerprints, NEW n \in Names, Promote(e, f, n)
  PROVE  Numbers'
<1> DEFINE d == [AtRest EXCEPT !.at = "create", !.fp = f, !.name = n, !.status = "pending_approval"]
<1>1. d \in Doing /\ d.at = "create" /\ d.name = n /\ d.status = "pending_approval"
  BY DEF AtRest, Doing
<1>2. Set(e, d) /\ UNCHANGED <<link, name, current, versions, used, counted>>
  BY DEF Promote, tables
<1> HIDE DEF d
<1> QED BY <1>1, <1>2, MoveKeeps

LEMMA ApproveKeeps ==
  ASSUME Numbers, NEW e \in Editors, NEW t \in Templates, Approve(e, t)
  PROVE  Numbers'
<1>1. PICK f \in {versions[t][Len(versions[t])].from, Nil} :
        Set(e, [AtRest EXCEPT !.at = "max", !.tpl = t, !.fp = f, !.status = "approved"])
  BY DEF Approve
<1> DEFINE d == [AtRest EXCEPT !.at = "max", !.tpl = t, !.fp = f, !.status = "approved"]
<1>2. versions[t] # <<>> /\ UNCHANGED <<link, name, current, versions, used, counted>>
  BY DEF Approve, tables
<1>3. versions[t] \in Seq(Version) /\ Len(versions[t]) \in 1..Len(versions[t])
  BY <1>2 DEF Numbers, Shapes
<1>4. f \in Fingerprints \cup {Nil}
  <2>1. versions[t][Len(versions[t])] \in Version
    BY <1>3
  <2> QED BY <1>1, <2>1 DEF Version
<1>5. d \in Doing /\ d.at = "max" /\ d.tpl = t /\ d.status = "approved"
  BY <1>4 DEF AtRest, Doing
<1>6. name[t] # Nil
  BY <1>2 DEF Numbers, Named
<1>7. Set(e, d)
  BY <1>1
<1> HIDE DEF d
<1> QED BY <1>2, <1>5, <1>6, <1>7, MoveKeeps

LEMMA NumberKeeps ==
  ASSUME Numbers, NEW e \in Editors, NumberVersion(e)
  PROVE  Numbers'
<1>1. doing[e].at = "max" /\ UNCHANGED <<link, name, current, versions, used, counted>>
  BY DEF NumberVersion, tables
<1>2. CASE Rest(e)
  BY <1>1, <1>2, RestKeeps, ThreadsOf DEF Numbers, Shapes
<1>3. ASSUME Set(e, [doing[e] EXCEPT !.at = "insert", !.ver = Len(versions[doing[e].tpl]) + 1])
      PROVE  Numbers'
  <2> DEFINE v == Len(versions[doing[e].tpl]) + 1
             d == [doing[e] EXCEPT !.at = "insert", !.ver = v]
  <2>1. doing[e] \in Doing /\ doing[e].tpl \in Templates /\ name[doing[e].tpl] # Nil
        /\ doing[e].status # "none"
    BY <1>1, ThreadsOf DEF Numbers, Shapes, Editing, Edited
  <2>2. v \in Nat /\ v \in 1..v
    BY <2>1 DEF Numbers, Shapes
  <2>3. d \in Doing /\ d.at = "insert" /\ d.ver = v /\ d.tpl = doing[e].tpl /\ d.status = doing[e].status
    BY <2>1, <2>2 DEF Doing
  <2>4. Set(e, d)
    BY <1>3
  <2>5. v = Len(versions[doing[e].tpl]) + 1
    OBVIOUS
  <2> HIDE DEF d, v
  <2>6. /\ doing' \in [Threads -> Doing] /\ doing'[e] = d
        /\ \A y \in Threads : y # e => doing'[y] = doing[y]
    BY <2>3, <2>4, SetRight, ThreadsOf DEF Numbers, Shapes
  <2>7. Shapes'
    BY <1>1, <2>6 DEF Numbers, Shapes
  <2>8. Edited(e)'
    BY <1>1, <2>1, <2>2, <2>3, <2>5, <2>6 DEF Edited
  <2>9. Editing'
    BY <1>1, <2>6, <2>8, ThreadsOf DEF Numbers, Editing, Edited
  <2>10. Alone'
    BY <2>3, <2>6, ThreadsOf DEF Numbers, Alone
  <2>11. Named' /\ CurrentIsNewestApproved'
    BY <1>1 DEF Numbers, Named, CurrentIsNewestApproved, Approved
  <2> QED BY <2>7, <2>9, <2>10, <2>11 DEF Numbers
<1> QED BY <1>2, <1>3 DEF NumberVersion

\* The number is free, and none that is not committed has it.
LEMMA InsertVersionKeeps ==
  ASSUME Numbers, NEW e \in Editors, InsertVersion(e)
  PROVE  Numbers'
<1> DEFINE t == doing[e].tpl
<1>1. doing[e].at = "insert" /\ UNCHANGED <<link, name, current, versions, used, counted>>
  BY DEF InsertVersion, tables
<1>2. CASE Rest(e)
  BY <1>1, <1>2, RestKeeps, ThreadsOf DEF Numbers, Shapes
<1>3. CASE NotTaken(t, doing[e].ver) /\ At(e, "commit")
  <2>1. doing[e] \in Doing /\ t \in Templates /\ name[t] # Nil /\ doing[e].status # "none"
        /\ doing[e].ver \in 1..(Len(versions[t]) + 1)
    BY <1>1, ThreadsOf DEF Numbers, Shapes, Editing, Edited
  <2>2. doing[e].ver = Len(versions[t]) + 1
    <3>1. Len(versions[t]) \in Nat
      BY <2>1 DEF Numbers, Shapes
    <3> QED BY <1>3, <2>1, <3>1 DEF NotTaken
  <2>3. /\ doing' \in [Threads -> Doing]
        /\ doing'[e].at = "commit" /\ doing'[e].tpl = doing[e].tpl /\ doing'[e].ver = doing[e].ver
        /\ doing'[e].status = doing[e].status
        /\ \A y \in Threads : y # e => doing'[y] = doing[y]
    BY <1>3, AtRight, ThreadsOf DEF Numbers, Shapes
  <2>4. Shapes'
    BY <1>1, <2>3 DEF Numbers, Shapes
  <2>5. Edited(e)'
    BY <1>1, <2>1, <2>2, <2>3 DEF Edited
  <2>6. Editing'
    BY <1>1, <2>3, <2>5, ThreadsOf DEF Numbers, Editing, Edited
  <2>7. \A x \in Editors : ~(doing[x].at = "commit" /\ doing[x].tpl = doing[e].tpl)
    BY <2>2 DEF InsertVersion, Numbers, Editing, Edited
  <2>8. Alone'
    BY <2>3, <2>7, ThreadsOf DEF Numbers, Alone
  <2>9. Named' /\ CurrentIsNewestApproved'
    BY <1>1 DEF Numbers, Named, CurrentIsNewestApproved, Approved
  <2> QED BY <2>4, <2>6, <2>8, <2>9 DEF Numbers
<1> QED BY <1>2, <1>3 DEF InsertVersion

\* The version that is committed is the next; no other can be.
LEMMA CommitKeeps ==
  ASSUME Numbers, NEW e \in Editors, CommitVersion(e)
  PROVE  Numbers'
<1> SUFFICES ASSUME NEW t, NEW v, NEW w, NEW a,
                    t = doing[e].tpl, v = doing[e].ver, a = doing[e].status,
                    w = [status |-> a, from |-> doing[e].fp]
             PROVE  Numbers'
  OBVIOUS
<1>1. doing[e].at = "commit" /\ UNCHANGED <<seen, link, name, used, counted, crossed>>
  BY DEF CommitVersion
<1>2. /\ doing[e] \in Doing /\ t \in Templates /\ name[t] # Nil
      /\ v = Len(versions[t]) + 1 /\ w \in Version
  BY <1>1, ThreadsOf DEF Numbers, Shapes, Editing, Edited, Doing, Version
<1>3. PICK o \in Ending :
        /\ Mishap(e, o)
        /\ IF o \in Took
           THEN /\ versions' = [versions EXCEPT ![t] = WithVersion(t, v, w)]
                /\ current' = IF a = "approved"
                              THEN [current EXCEPT ![t] = CurrentAfter(t, v)] ELSE current
           ELSE UNCHANGED <<versions, current>>
        /\ IF o = "ok" /\ a = "pending_approval" THEN At(e, "link") ELSE Rest(e)
  BY DEF CommitVersion
<1>4. /\ doing' \in [Threads -> Doing] /\ doing'[e].at \in {"link", "rest"}
      /\ doing'[e].at = "link" => doing'[e].tpl = t /\ doing'[e].status # "none"
      /\ \A y \in Threads : y # e => doing'[y] = doing[y]
  <2>1. CASE At(e, "link")
    BY <1>1, <2>1, AtRight, ThreadsOf DEF Numbers, Shapes, Editing, Edited
  <2>2. CASE Rest(e)
    BY <2>2, RestType, SetRight, ThreadsOf DEF Rest, Numbers, Shapes
  <2> QED BY <1>3, <2>1, <2>2
<1>5. CASE UNCHANGED <<versions, current>>
  <2>1. Shapes'
    BY <1>1, <1>4, <1>5 DEF Numbers, Shapes
  <2>2. \A x \in Editors : doing'[x] = doing[x] \/ doing'[x].at \in {"rest", "create", "link"}
    BY <1>4, ThreadsOf
  <2>3. \A x \in Editors : doing'[x] # doing[x] =>
          /\ doing'[x].at # "rest" => doing'[x].status # "none"
          /\ doing'[x].at = "create" => doing'[x].name \in Names
          /\ doing'[x].at = "link" => doing'[x].tpl \in Templates /\ name[doing'[x].tpl] # Nil
    BY <1>2, <1>4, ThreadsOf
  <2> QED BY <1>1, <1>5, <2>1, <2>2, <2>3, VersionsQuiet
<1>6. CASE o \in Took
  <2> SUFFICES ASSUME NEW s, s = WithVersion(t, v, w) PROVE Numbers'
    OBVIOUS
  <2>1. /\ versions' = [versions EXCEPT ![t] = s]
        /\ current' = IF a = "approved" THEN [current EXCEPT ![t] = v] ELSE current
    BY <1>3, <1>6 DEF CurrentAfter
  <2>2. /\ s \in Seq(Version) /\ Len(s) = v /\ s[v] = w
        /\ \A i \in 1..(v - 1) : s[i] = versions[t][i]
    <3>1. Shapes
      BY DEF Numbers
    <3>2. Len(versions[t]) \in Nat /\ v - 1 = Len(versions[t])
      BY <1>2, <3>1 DEF Shapes
    <3> QED BY <1>2, <3>1, <3>2, NextVersion
  <2>3. v \in Nat \ {0} /\ Len(versions[t]) = v - 1
    BY <1>2 DEF Numbers, Shapes
  <2>4. /\ versions'[t] = s /\ \A u \in Templates : u # t => versions'[u] = versions[u]
    BY <1>2, <2>1 DEF Numbers, Shapes
  <2>5. Shapes'
    BY <1>1, <1>2, <1>4, <2>1, <2>2, <2>3 DEF Numbers, Shapes
  <2>6. \A x \in Editors : Edited(x)'
    <3> SUFFICES ASSUME NEW x \in Editors PROVE Edited(x)'
      OBVIOUS
    <3>1. CASE x = e
      BY <1>1, <1>2, <1>4, <3>1 DEF Edited
    <3>2. CASE x # e
      <4>1. doing'[x] = doing[x] /\ Edited(x)
        BY <1>4, <3>2, ThreadsOf DEF Numbers, Editing
      <4>2. doing[x].at = "commit" => doing[x].tpl # t
        BY <1>1, <3>2 DEF Numbers, Alone
      <4>3. CASE doing[x].tpl = t
        BY <1>1, <2>2, <2>3, <2>4, <4>1, <4>2, <4>3 DEF Edited
      <4>4. CASE doing[x].tpl # t
        BY <1>1, <2>4, <4>1, <4>4 DEF Edited
      <4> QED BY <4>3, <4>4
    <3> QED BY <3>1, <3>2
  <2>7. Alone'
    BY <1>4, ThreadsOf DEF Numbers, Alone
  <2>8. Named'
    BY <1>1, <1>2, <2>4 DEF Numbers, Named
  <2>9. CurrentIsNewestApproved'
    <3> SUFFICES ASSUME NEW u \in Templates, name'[u] # Nil
                 PROVE  /\ current'[u] \in Approved(u)' \cup {1}
                        /\ \A i \in Approved(u)' : i <= current'[u]
      BY DEF CurrentIsNewestApproved
    <3>1. /\ current[u] \in Approved(u) \cup {1}
          /\ \A i \in Approved(u) : i <= current[u]
      BY <1>1 DEF Numbers, CurrentIsNewestApproved
    <3>2. CASE u # t
      <4>1. current'[u] = current[u] /\ Approved(u)' = Approved(u)
        BY <2>1, <2>4, <3>2 DEF Approved, Numbers, Shapes
      <4> QED BY <3>1, <4>1
    <3>3. CASE u = t
      <4>1. \A i \in 1..(v - 1) : i \in Approved(t)' <=> i \in Approved(t)
        BY <2>2, <2>3, <2>4 DEF Approved
      <4>2. Approved(t) \subseteq 1..(v - 1) /\ Approved(t)' \subseteq 1..v
        BY <2>2, <2>3, <2>4 DEF Approved
      <4>3. v \in Approved(t)' <=> a = "approved"
        BY <2>2, <2>3, <2>4 DEF Approved
      <4>4. CASE a = "approved"
        <5>1. current'[t] = v
          BY <1>2, <2>1, <4>4 DEF Numbers, Shapes
        <5> QED BY <2>3, <3>3, <4>2, <4>3, <4>4, <5>1
      <4>5. CASE a # "approved"
        <5>1. current'[t] = current[t]
          BY <2>1, <4>5
        <5>2. Approved(t)' \subseteq 1..(v - 1)
          BY <2>3, <4>2, <4>3, <4>5
        <5>3. Approved(t)' = Approved(t)
          BY <4>1, <4>2, <5>2
        <5> QED BY <3>1, <3>3, <5>1, <5>3
      <4> QED BY <4>4, <4>5
    <3> QED BY <3>2, <3>3
  <2> QED BY <2>5, <2>6, <2>7, <2>8, <2>9 DEF Numbers, Editing
<1> QED BY <1>3, <1>5, <1>6

LEMMA LinkKeeps ==
  ASSUME Numbers, NEW e \in Editors, LinkFingerprint(e)
  PROVE  Numbers'
<1>1. doing[e].at = "link" /\ Rest(e) /\ UNCHANGED <<seen, name, current, versions, used, counted, crossed>>
  BY DEF LinkFingerprint
<1>2. link' = link \/ link' = [link EXCEPT ![doing[e].fp] = doing[e].tpl]
  BY DEF LinkFingerprint
<1>3. doing[e].tpl \in Templates
  BY <1>1 DEF Numbers, Editing, Edited
<1>4. link' \in [Fingerprints -> Templates \cup {Nil}]
  BY <1>2, <1>3 DEF Numbers, Shapes
<1> QED BY <1>1, <1>4, RestKeeps, ThreadsOf

LEMMA NumbersStep ==
  ASSUME Numbers, [TemplatesNext]_tvars
  PROVE  Numbers'
<1>1. ASSUME NEW p \in Planners,
             (\E f \in Fingerprints : CountFingerprint(p, f)) \/ SuggestTemplate(p) \/ InsertUsage(p) \/ CountUsage(p)
      PROVE  Numbers'
  <2>1. /\ Shapes' /\ UNCHANGED <<link, name, current, versions, crossed>>
        /\ \A x \in Threads : x # p => doing'[x] = doing[x]
    BY <1>1, PlannerShapes DEF Numbers
  <2>2. \A e \in Editors : doing'[e] = doing[e]
    BY <2>1, ThreadsOf
  <2> QED BY <2>1, <2>2, VersionsQuiet
<1>2. ASSUME NEW e \in Editors, NEW f \in Fingerprints, NEW n \in Names, Promote(e, f, n)
      PROVE  Numbers'
  BY <1>2, PromoteKeeps
<1>3. ASSUME NEW e \in Editors, NEW t \in Templates, Approve(e, t)
      PROVE  Numbers'
  BY <1>3, ApproveKeeps
<1>4. ASSUME NEW e \in Editors,
             \/ CreateTemplate(e) \/ NumberVersion(e) \/ InsertVersion(e)
             \/ CommitVersion(e) \/ LinkFingerprint(e)
      PROVE  Numbers'
  BY <1>4, CreateKeeps, NumberKeeps, InsertVersionKeeps, CommitKeeps, LinkKeeps
<1>5. ASSUME NEW x \in Threads, CutOff(x)
      PROVE  Numbers'
  <2>1. Rest(x) /\ UNCHANGED <<link, name, current, versions, used, counted>>
    BY <1>5 DEF CutOff, tables
  <2> QED BY <2>1, RestKeeps DEF Numbers, Shapes
<1>6. CASE UNCHANGED tvars
  <2>1. UNCHANGED <<link, name, current, versions, used, counted, doing>>
    BY <1>6 DEF tvars, tables
  <2>2. Shapes'
    BY <2>1 DEF Numbers, Shapes
  <2> QED BY <2>1, <2>2, VersionsQuiet
<1> QED BY <1>1, <1>2, <1>3, <1>4, <1>5, <1>6 DEF TemplatesNext

LEMMA NumbersInit == TemplatesInit => Numbers
<1> SUFFICES ASSUME TemplatesInit PROVE Numbers
  OBVIOUS
<1>1. \A x \in Threads : doing[x] = AtRest
  BY DEF TemplatesInit
<1>2. Shapes
  BY RestType DEF TemplatesInit, Shapes
<1>3. Editing /\ Alone
  BY <1>1, RestType, ThreadsOf DEF Editing, Edited, Alone
<1>4. Named /\ CurrentIsNewestApproved
  BY DEF TemplatesInit, Named, CurrentIsNewestApproved
<1> QED BY <1>2, <1>3, <1>4 DEF Numbers

\* Whatever approvals and promotions run at the same time, fail half-way or
\* are cut off, current_version is the newest approved version of a template:
\* a number is inserted once, a version is committed only as the next, and the
\* update is in the transaction of the insert.
THEOREM CurrentAlwaysNewest == TemplatesSpec => []CurrentIsNewestApproved
<1>1. Numbers => CurrentIsNewestApproved
  BY DEF Numbers
<1> QED BY <1>1, NumbersInit, NumbersStep, PTL DEF TemplatesSpec

-----------------------------------------------------------------------------
(* Uses of templates.                                                       *)

Between(t) == {p \in Planners : doing[p].at = "count" /\ doing[p].tpl = t}

TemplateFound == \A p \in Planners : doing[p].at \in {"use", "count"} => doing[p].tpl \in Templates

Uses == Numbers /\ TemplateFound /\ UsageCounted

LEMMA BetweenCounted ==
  \A t \in Templates : IsFiniteSet(Between(t)) /\ Cardinality(Between(t)) \in Nat
<1> TAKE t \in Templates
<1>1. Between(t) \in SUBSET Planners
  BY DEF Between
<1> QED BY <1>1, FS_Subset, FS_CardinalityType, TemplatesAssumption

\* What a step does to the uses of one template, from the change of its
\* between, its rows and its count.
LEMMA UseOf ==
  ASSUME Uses, Shapes', struck \subseteq struck',
         \A t \in Templates :
           LET b == Cardinality(Between(t))
               c == Cardinality(Between(t)') IN
           \/ counted'[t] + c = counted[t] + b /\ used'[t] = used[t]
           \/ counted'[t] + c = counted[t] + b + 1 /\ used'[t] = used[t] + 1
           \/ counted'[t] + c <= counted[t] + b /\ used'[t] >= used[t] /\ t \in struck'
  PROVE  UsageCounted'
<1> SUFFICES ASSUME NEW t \in Templates
             PROVE  /\ counted'[t] + Cardinality(Between(t)') <= used'[t]
                    /\ t \notin struck' => counted'[t] + Cardinality(Between(t)') = used'[t]
  BY DEF UsageCounted, Between
<1> DEFINE b == Cardinality(Between(t))
           c == Cardinality(Between(t)')
<1>1. b \in Nat
  BY BetweenCounted
<1>2. c \in Nat
  <2>1. Between(t)' \in SUBSET Planners
    BY DEF Between
  <2> QED BY <2>1, FS_Subset, FS_CardinalityType, TemplatesAssumption
<1>3. counted[t] \in Nat /\ used[t] \in Nat /\ counted'[t] \in Nat /\ used'[t] \in Nat
  BY DEF Uses, Numbers, Shapes
<1>4. counted[t] + b <= used[t] /\ (t \notin struck => counted[t] + b = used[t])
  BY DEF Uses, UsageCounted, Between
<1>5. \/ counted'[t] + c = counted[t] + b /\ used'[t] = used[t]
      \/ counted'[t] + c = counted[t] + b + 1 /\ used'[t] = used[t] + 1
      \/ counted'[t] + c <= counted[t] + b /\ used'[t] >= used[t] /\ t \in struck'
  OBVIOUS
<1>6. t \notin struck' => t \notin struck
  OBVIOUS
<1> HIDE DEF b, c
<1>7. counted'[t] + c <= used'[t] /\ (t \notin struck' => counted'[t] + c = used'[t])
  BY <1>1, <1>2, <1>3, <1>4, <1>5, <1>6
<1> QED BY <1>7 DEF c

\* Steps between which no planner counts.
LEMMA UsesQuiet ==
  ASSUME Uses, Numbers', UNCHANGED <<used, counted>>, struck \subseteq struck',
         \A p \in Planners : \/ doing'[p] = doing[p]
                             \/ /\ doing[p].at # "count" /\ doing'[p].at # "count"
                                /\ doing'[p].at = "use" => doing'[p].tpl \in Templates
  PROVE  Uses'
<1>1. TemplateFound'
  BY DEF Uses, TemplateFound
<1>2. \A t \in Templates : Between(t)' = Between(t)
  BY DEF Between
<1>3. UsageCounted'
  <2>1. \A t \in Templates : counted'[t] + Cardinality(Between(t)') = counted[t] + Cardinality(Between(t))
                             /\ used'[t] = used[t]
    BY <1>2
  <2> QED BY <2>1, UseOf DEF Numbers
<1> QED BY <1>1, <1>3 DEF Uses

LEMMA InsertUses ==
  ASSUME Uses, Numbers', NEW p \in Planners, InsertUsage(p)
  PROVE  Uses'
<1>0. PICK t \in Templates : t = doing[p].tpl /\ doing[p].at = "use"
  BY DEF InsertUsage, Uses, TemplateFound
<1>1. doing[p].tpl = t /\ doing[p].at = "use" /\ UNCHANGED counted
  BY <1>0 DEF InsertUsage
<1>2. PICK o \in Ending :
        /\ Mishap(p, o)
        /\ used' = IF o \in Took THEN [used EXCEPT ![t] = @ + 1] ELSE used
        /\ IF o = "ok" THEN At(p, "count") ELSE Rest(p)
  BY <1>1 DEF InsertUsage
<1>3. doing \in [Threads -> Doing] /\ used \in [Templates -> Nat] /\ counted \in [Templates -> Nat] /\ p \in Threads
  BY ThreadsOf DEF Uses, Numbers, Shapes
<1>4. struck \subseteq struck' /\ (o # "ok" => t \in struck')
  BY <1>1, <1>2 DEF Mishap
<1>5. \A u \in Templates : u # t => used'[u] = used[u]
  BY <1>2, <1>3
<1>6. CASE o = "ok"
  <2>1. /\ doing'[p].at = "count" /\ doing'[p].tpl = t
        /\ \A q \in Threads : q # p => doing'[q] = doing[q]
    BY <1>1, <1>2, <1>3, <1>6, AtRight
  <2>2. used'[t] = used[t] + 1
    BY <1>1, <1>2, <1>3, <1>6 DEF Took
  <2>3. TemplateFound'
    BY <1>1, <2>1, ThreadsOf DEF Uses, TemplateFound
  <2>4. \A u \in Templates : u # t => Between(u)' = Between(u)
    BY <1>1, <2>1, ThreadsOf DEF Between
  <2>5. Between(t)' = Between(t) \cup {p} /\ p \notin Between(t)
    BY <1>1, <2>1, ThreadsOf DEF Between
  <2>6. Cardinality(Between(t)') = Cardinality(Between(t)) + 1
    BY <1>1, <2>5, BetweenCounted, FS_AddElement
  <2>7. ASSUME NEW u \in Templates
        PROVE  \/ counted'[u] + Cardinality(Between(u)') = counted[u] + Cardinality(Between(u)) /\ used'[u] = used[u]
               \/ counted'[u] + Cardinality(Between(u)') = counted[u] + Cardinality(Between(u)) + 1
                  /\ used'[u] = used[u] + 1
    <3>1. CASE u # t
      BY <1>1, <1>5, <2>4, <3>1
    <3>2. CASE u = t
      <4>1. counted[u] \in Nat /\ Cardinality(Between(u)) \in Nat
        BY <1>3, BetweenCounted
      <4>2. used'[u] = used[u] + 1 /\ counted'[u] = counted[u]
        BY <1>1, <2>2, <3>2
      <4>3. Cardinality(Between(u)') = Cardinality(Between(u)) + 1
        BY <2>6, <3>2
      <4> QED BY <4>1, <4>2, <4>3
    <3> QED BY <3>1, <3>2
  <2>8. UsageCounted'
    BY <1>4, <2>7, UseOf DEF Numbers
  <2> QED BY <2>3, <2>8 DEF Uses
<1>7. CASE o # "ok"
  <2>1. /\ doing'[p] = AtRest
        /\ \A q \in Threads : q # p => doing'[q] = doing[q]
    BY <1>2, <1>3, <1>7, RestType, SetRight DEF Rest
  <2>2. used'[t] >= used[t]
    BY <1>1, <1>2, <1>3
  <2>3. TemplateFound'
    BY <2>1, RestType, ThreadsOf DEF Uses, TemplateFound
  <2>4. \A u \in Templates : Between(u)' = Between(u)
    BY <1>1, <2>1, RestType, ThreadsOf DEF Between
  <2>5. ASSUME NEW u \in Templates
        PROVE  \/ counted'[u] + Cardinality(Between(u)') = counted[u] + Cardinality(Between(u)) /\ used'[u] = used[u]
               \/ counted'[u] + Cardinality(Between(u)') <= counted[u] + Cardinality(Between(u))
                  /\ used'[u] >= used[u] /\ u \in struck'
    <3>1. CASE u # t
      BY <1>1, <1>5, <2>4, <3>1
    <3>2. CASE u = t
      <4>1. counted[t] \in Nat /\ Cardinality(Between(t)) \in Nat
        BY <1>1, <1>3, BetweenCounted
      <4> QED BY <1>1, <1>4, <1>7, <2>2, <2>4, <3>2, <4>1
    <3> QED BY <3>1, <3>2
  <2>6. UsageCounted'
    BY <1>4, <2>5, UseOf DEF Numbers
  <2> QED BY <2>3, <2>6 DEF Uses
<1> QED BY <1>6, <1>7

\* A planner stops between the row and the count, which was made, or was not
\* and the template is struck.
LEMMA StopUses ==
  ASSUME Uses, Numbers', NEW p \in Planners, doing[p].at = "count", Rest(p), UNCHANGED used,
         struck \subseteq struck',
         \/ counted' = [counted EXCEPT ![doing[p].tpl] = @ + 1]
         \/ counted' = counted /\ doing[p].tpl \in struck'
  PROVE  Uses'
<1>1. PICK t \in Templates : t = doing[p].tpl
  BY DEF Uses, TemplateFound
<1>2. doing \in [Threads -> Doing] /\ counted \in [Templates -> Nat] /\ p \in Threads
  BY ThreadsOf DEF Uses, Numbers, Shapes
<1>3. /\ doing'[p] = AtRest
      /\ \A q \in Threads : q # p => doing'[q] = doing[q]
  BY <1>2, RestType, SetRight DEF Rest
<1>4. TemplateFound'
  BY <1>3, RestType, ThreadsOf DEF Uses, TemplateFound
<1>5. \A u \in Templates : u # t => Between(u)' = Between(u) /\ counted'[u] = counted[u]
  BY <1>1, <1>2, <1>3, RestType, ThreadsOf DEF Between
<1>6. Between(t)' = Between(t) \ {p} /\ p \in Between(t)
  <2>1. p \in Between(t)
    BY <1>1 DEF Between
  <2>2. p \notin Between(t)'
    BY <1>3, RestType DEF Between
  <2>3. \A q \in Planners : q # p => (q \in Between(t)' <=> q \in Between(t))
    BY <1>3, ThreadsOf DEF Between
  <2>4. Between(t) \subseteq Planners /\ Between(t)' \subseteq Planners
    BY DEF Between
  <2> QED BY <2>1, <2>2, <2>3, <2>4
<1>7. Cardinality(Between(t)') = Cardinality(Between(t)) - 1
  BY <1>1, <1>6, BetweenCounted, FS_RemoveElement
<1>8. counted'[t] = counted[t] + 1 \/ (counted'[t] = counted[t] /\ t \in struck')
  BY <1>1, <1>2
<1>9. ASSUME NEW u \in Templates
      PROVE  \/ counted'[u] + Cardinality(Between(u)') = counted[u] + Cardinality(Between(u)) /\ used'[u] = used[u]
             \/ counted'[u] + Cardinality(Between(u)') <= counted[u] + Cardinality(Between(u))
                /\ used'[u] >= used[u] /\ u \in struck'
  <2>1. CASE u # t
    BY <1>5, <2>1
  <2>2. CASE u = t
    <3>1. counted[u] \in Nat /\ Cardinality(Between(u)) \in Nat /\ used[u] \in Nat /\ used'[u] = used[u]
      BY <1>2, BetweenCounted DEF Uses, Numbers, Shapes
    <3>2. Cardinality(Between(u)') = Cardinality(Between(u)) - 1
      BY <1>7, <2>2
    <3>3. counted'[u] = counted[u] + 1 \/ (counted'[u] = counted[u] /\ u \in struck')
      BY <1>8, <2>2
    <3> QED BY <3>1, <3>2, <3>3
  <2> QED BY <2>1, <2>2
<1>10. UsageCounted'
  BY <1>9, UseOf DEF Numbers
<1> QED BY <1>4, <1>10 DEF Uses

\* Nothing that was struck recovers.
LEMMA StruckStays ==
  ASSUME [TemplatesNext]_tvars
  PROVE  struck \subseteq struck'
<1>1. \A x \in Threads, o \in Ending : Mishap(x, o) => struck \subseteq struck'
  BY DEF Mishap
<1>2. "failed" \in Ending /\ Took \subseteq Ending
  BY DEF Ending, Took
<1>3. ASSUME NEW p \in Planners,
             (\E f \in Fingerprints : CountFingerprint(p, f)) \/ SuggestTemplate(p) \/ InsertUsage(p) \/ CountUsage(p)
      PROVE  struck \subseteq struck'
  BY <1>1, <1>3, ThreadsOf DEF CountFingerprint, SuggestTemplate, InsertUsage, CountUsage
<1>4. ASSUME NEW e \in Editors, NEW f \in Fingerprints, NEW n \in Names, Promote(e, f, n)
      PROVE  struck \subseteq struck'
  BY <1>4 DEF Promote
<1>5. ASSUME NEW e \in Editors, NEW t \in Templates, Approve(e, t)
      PROVE  struck \subseteq struck'
  BY <1>5 DEF Approve
<1>6. ASSUME NEW e \in Editors, CreateTemplate(e)
      PROVE  struck \subseteq struck'
  BY <1>1, <1>2, <1>6, ThreadsOf DEF CreateTemplate
<1>7. ASSUME NEW e \in Editors,
             NumberVersion(e) \/ InsertVersion(e) \/ CommitVersion(e) \/ LinkFingerprint(e)
      PROVE  struck \subseteq struck'
  BY <1>1, <1>2, <1>7, ThreadsOf DEF NumberVersion, InsertVersion, CommitVersion, LinkFingerprint
<1>8. ASSUME NEW x \in Threads, CutOff(x)
      PROVE  struck \subseteq struck'
  BY <1>1, <1>2, <1>8 DEF CutOff
<1>9. CASE UNCHANGED tvars
  BY <1>9 DEF tvars
<1> QED BY <1>3, <1>4, <1>5, <1>6, <1>7, <1>8, <1>9 DEF TemplatesNext

\* An editor's step is about one editor, and about no use.
LEMMA EditorOnly ==
  ASSUME Shapes, NEW e \in Editors,
         \/ \E f \in Fingerprints, n \in Names : Promote(e, f, n)
         \/ \E t \in Templates : Approve(e, t)
         \/ CreateTemplate(e) \/ NumberVersion(e) \/ InsertVersion(e)
         \/ CommitVersion(e) \/ LinkFingerprint(e)
  PROVE  /\ UNCHANGED <<used, counted>>
         /\ \A x \in Threads : x # e => doing'[x] = doing[x]
<1>1. \E d : doing' = [doing EXCEPT ![e] = d]
  BY DEF Promote, Approve, CreateTemplate, NumberVersion, InsertVersion, CommitVersion, LinkFingerprint,
         Rest, At, Set
<1>2. UNCHANGED <<used, counted>>
  BY DEF Promote, Approve, CreateTemplate, NumberVersion, InsertVersion, CommitVersion, LinkFingerprint, tables
<1> QED BY <1>1, <1>2 DEF Shapes

LEMMA UsesStep ==
  ASSUME Uses, [TemplatesNext]_tvars
  PROVE  Uses'
<1>1. Numbers' /\ struck \subseteq struck'
  BY NumbersStep, StruckStays DEF Uses
<1>2. ASSUME NEW p \in Planners, NEW f \in Fingerprints, CountFingerprint(p, f)
      PROVE  Uses'
  <2> DEFINE s == AfterCount(f, seen'[f])
             d == [AtRest EXCEPT !.at = s, !.fp = f, !.tpl = link[f]]
  <2>1. s \in {"use", "suggest", "rest"} /\ (s = "use" => link[f] \in Templates)
    BY DEF AfterCount, Uses, Numbers, Shapes
  <2>2. d \in Doing
    <3>1. link[f] \in Templates \cup {Nil}
      BY DEF Uses, Numbers, Shapes
    <3> HIDE DEF s
    <3> QED BY <2>1, <3>1 DEF AtRest, Doing
  <2>3. d.at = s /\ d.tpl = link[f]
    BY DEF AtRest
  <2>4. Set(p, d) \/ Set(p, AtRest)
    BY <1>2 DEF CountFingerprint, Rest
  <2> HIDE DEF s, d
  <2>5. /\ doing'[p] = d \/ doing'[p] = AtRest
        /\ \A x \in Threads : x # p => doing'[x] = doing[x]
    BY <2>2, <2>4, RestType, SetRight, ThreadsOf DEF Uses, Numbers, Shapes
  <2>6. doing[p].at = "rest" /\ UNCHANGED <<used, counted>>
    BY <1>2, RestType DEF CountFingerprint
  <2> QED BY <1>1, <2>1, <2>3, <2>5, <2>6, RestType, UsesQuiet, ThreadsOf
<1>3. ASSUME NEW p \in Planners, SuggestTemplate(p)
      PROVE  Uses'
  <2>1. Set(p, AtRest) /\ doing[p].at = "suggest" /\ UNCHANGED <<used, counted>>
    BY <1>3 DEF SuggestTemplate, Rest, tables
  <2>2. /\ doing'[p] = AtRest
        /\ \A x \in Threads : x # p => doing'[x] = doing[x]
    BY <2>1, RestType, SetRight, ThreadsOf DEF Uses, Numbers, Shapes
  <2> QED BY <1>1, <2>1, <2>2, RestType, UsesQuiet, ThreadsOf
<1>4. ASSUME NEW p \in Planners, InsertUsage(p)
      PROVE  Uses'
  BY <1>1, <1>4, InsertUses
<1>5. ASSUME NEW p \in Planners, CountUsage(p)
      PROVE  Uses'
  <2>1. PICK o \in Ending :
          /\ Mishap(p, o)
          /\ counted' = IF o \in Took THEN [counted EXCEPT ![doing[p].tpl] = @ + 1] ELSE counted
    BY <1>5 DEF CountUsage
  <2>2. doing[p].at = "count" /\ Rest(p) /\ UNCHANGED used
    BY <1>5 DEF CountUsage
  <2>3. o \in Took \/ doing[p].tpl \in struck'
    BY <2>1 DEF Mishap, Took
  <2> QED BY <1>1, <2>1, <2>2, <2>3, StopUses
<1>6. ASSUME NEW e \in Editors,
             \/ \E f \in Fingerprints, n \in Names : Promote(e, f, n)
             \/ \E t \in Templates : Approve(e, t)
             \/ CreateTemplate(e) \/ NumberVersion(e) \/ InsertVersion(e)
             \/ CommitVersion(e) \/ LinkFingerprint(e)
      PROVE  Uses'
  <2>1. UNCHANGED <<used, counted>> /\ \A x \in Threads : x # e => doing'[x] = doing[x]
    BY <1>6, EditorOnly DEF Uses, Numbers
  <2>2. \A p \in Planners : doing'[p] = doing[p]
    BY <2>1, ThreadsOf
  <2> QED BY <1>1, <2>1, <2>2, UsesQuiet
<1>7. ASSUME NEW x \in Threads, CutOff(x)
      PROVE  Uses'
  <2>1. Rest(x) /\ doing[x].tpl \in struck' /\ UNCHANGED <<used, counted>>
    BY <1>7 DEF CutOff, Mishap, tables
  <2>2. CASE x \in Planners /\ doing[x].at = "count"
    BY <1>1, <2>1, <2>2, StopUses
  <2>3. CASE ~(x \in Planners /\ doing[x].at = "count")
    <3>1. /\ doing'[x] = AtRest
          /\ \A y \in Threads : y # x => doing'[y] = doing[y]
      BY <2>1, RestType, SetRight DEF Rest, Uses, Numbers, Shapes
    <3> QED BY <1>1, <2>1, <2>3, <3>1, RestType, UsesQuiet, ThreadsOf
  <2> QED BY <2>2, <2>3
<1>8. CASE UNCHANGED tvars
  <2>1. UNCHANGED <<used, counted, doing>>
    BY <1>8 DEF tvars, tables
  <2> QED BY <1>1, <2>1, UsesQuiet
<1> QED BY <1>2, <1>3, <1>4, <1>5, <1>6, <1>7, <1>8 DEF TemplatesNext

LEMMA UsesInit == TemplatesInit => Uses
<1> SUFFICES ASSUME TemplatesInit PROVE Uses
  OBVIOUS
<1>1. \A x \in Threads : doing[x] = AtRest
  BY DEF TemplatesInit
<1>2. TemplateFound /\ \A t \in Templates : Between(t) = {}
  BY <1>1, RestType, ThreadsOf DEF TemplateFound, Between
<1>3. \A t \in Templates : counted[t] = 0 /\ used[t] = 0 /\ Cardinality(Between(t)) = 0
  BY <1>2, FS_EmptySet DEF TemplatesInit
<1>4. UsageCounted
  BY <1>3 DEF UsageCounted, Between
<1> QED BY <1>2, <1>4, NumbersInit DEF Uses

-----------------------------------------------------------------------------
(* Promotions and links.                                                    *)

\* The fingerprints the versions of a template were promoted from.
From(t) == {versions[t][i].from : i \in 1..Len(versions[t])}

Promotes(e, f) == doing[e].status = "pending_approval" /\ doing[e].fp = f
Links(e, f, t) == doing[e].at = "link" /\ doing[e].fp = f /\ doing[e].tpl = t

\* What an editor that promotes or approves holds to.
Follows(e) ==
  /\ doing[e].status = "pending_approval" => doing[e].fp \in Fingerprints
  /\ doing[e].at \in {"create", "link"} => doing[e].status = "pending_approval"
  /\ doing[e].at = "link" => From(doing[e].tpl) # {}
  /\ doing[e].status = "approved" => doing[e].tpl \in Templates
  /\ doing[e].status = "approved" /\ doing[e].fp # Nil => doing[e].fp \in From(doing[e].tpl)

Follow == \A e \in Editors : Follows(e)

\* Two promotions of one fingerprint in flight have crossed.
Crossed == \A f \in Fingerprints : \A e, x \in Editors : Promotes(e, f) /\ Promotes(x, f) /\ e # x => f \in crossed

Sound(f) == f \notin crossed \cup struck

\* A promotion that has met neither another nor a mishap is the first of its
\* fingerprint, until it has a version that is only to be linked.
First ==
  \A f \in Fingerprints : \A e \in Editors : \A t \in Templates \ struck :
    Sound(f) /\ Promotes(e, f) /\ f \in From(t) => Links(e, f, t)

Filled == \A f \in Fingerprints : link[f] # Nil => From(link[f]) # {}

Linked ==
  \A f \in Fingerprints : \A t \in Templates \ struck :
    Sound(f) /\ f \in From(t) => link[f] = t \/ \E e \in Editors : Links(e, f, t)

Promotions == Numbers /\ Follow /\ Crossed /\ First /\ Filled /\ Linked

LEMMA LinkedMeans == Shapes /\ Linked => PromotionsLinked
<1> SUFFICES ASSUME Shapes, Linked, NEW t \in Templates \ struck, NEW i \in 1..Len(versions[t])
             PROVE  LET f == versions[t][i].from IN
                    \/ f = Nil \/ f \in crossed \cup struck \/ link[f] = t
                    \/ \E e \in Editors : doing[e].at = "link" /\ doing[e].fp = f /\ doing[e].tpl = t
  BY DEF PromotionsLinked
<1> DEFINE f == versions[t][i].from
<1>1. f \in From(t)
  BY DEF From
<1>2. f \in Fingerprints \cup {Nil}
  <2>1. versions[t] \in Seq(Version)
    BY DEF Shapes
  <2>2. versions[t][i] \in Version
    BY <2>1
  <2> QED BY <2>2 DEF Version
<1> HIDE DEF f
<1>3. f = Nil \/ f \in crossed \cup struck \/ link[f] = t \/ \E e \in Editors : Links(e, f, t)
  BY <1>1, <1>2 DEF Linked, Sound
<1> QED BY <1>3 DEF Links, f

LEMMA FromEmpty == ASSUME Shapes, NEW t \in Templates PROVE From(t) = {} <=> versions[t] = <<>>
<1>1. versions[t] \in Seq(Version)
  BY DEF Shapes
<1>2. CASE versions[t] = <<>>
  BY <1>2 DEF From
<1>3. CASE versions[t] # <<>>
  <2>1. Len(versions[t]) \in 1..Len(versions[t])
    BY <1>1, <1>3
  <2> QED BY <1>3, <2>1 DEF From
<1> QED BY <1>2, <1>3

\* An editor of a sound fingerprint stays where it was, ends its work before
\* the link, or moves on to its next statement.
Carried(e) ==
  \/ doing'[e] = doing[e]
  \/ /\ doing'[e] = AtRest
     /\ doing[e].at = "link" => doing[e].fp \in struck'
  \/ /\ doing[e].at \in {"create", "max", "insert"} /\ doing'[e].at \in {"max", "insert", "commit"}
     /\ doing'[e].status = doing[e].status /\ doing'[e].fp = doing[e].fp
     /\ doing[e].at = "create" \/ doing'[e].tpl = doing[e].tpl

LEMMA RestStatus == AtRest.at = "rest" /\ AtRest.status = "none"
  BY DEF AtRest

LEMMA CarriedKeeps ==
  ASSUME Promotions, Numbers', UNCHANGED <<versions, link, crossed>>, struck \subseteq struck',
         \A e \in Editors : Carried(e)
  PROVE  Promotions'
<1>1. \A t \in Templates : From(t)' = From(t)
  BY DEF From
<1>2. \A f : Sound(f)' => Sound(f)
  BY DEF Sound
<1>3. ASSUME NEW e \in Editors, NEW f \in Fingerprints, Promotes(e, f)'
      PROVE  Promotes(e, f)
  BY <1>3, RestStatus DEF Promotes, Carried
<1>4. ASSUME NEW e \in Editors, NEW f \in Fingerprints, NEW t \in Templates,
             Links(e, f, t), Sound(f)'
      PROVE  Links(e, f, t)'
  BY <1>4, RestStatus DEF Links, Carried, Sound
<1>5. Follow'
  <2> SUFFICES ASSUME NEW e \in Editors PROVE Follows(e)'
    BY DEF Follow
  <2>1. Follows(e) /\ Carried(e)
    BY DEF Promotions, Follow
  <2>2. CASE doing'[e] = doing[e]
    <3>1. UNCHANGED versions
      OBVIOUS
    <3> QED BY <2>1, <2>2, <3>1 DEF Follows, From
  <2>3. CASE doing'[e] = AtRest
    BY <2>3, RestStatus DEF Follows
  <2>4. CASE /\ doing[e].at \in {"create", "max", "insert"} /\ doing'[e].at \in {"max", "insert", "commit"}
             /\ doing'[e].status = doing[e].status /\ doing'[e].fp = doing[e].fp
             /\ doing[e].at = "create" \/ doing'[e].tpl = doing[e].tpl
    BY <2>1, <2>4 DEF Follows, From
  <2> QED BY <2>1, <2>2, <2>3, <2>4 DEF Carried
<1>6. Crossed'
  BY <1>3 DEF Promotions, Crossed
<1>7. First'
  BY <1>1, <1>2, <1>3, <1>4 DEF Promotions, First
<1>8. Filled'
  <2> SUFFICES ASSUME NEW f \in Fingerprints, link'[f] # Nil PROVE From(link[f])' # {}
    BY DEF Filled
  <2>1. link[f] \in Templates /\ link'[f] = link[f]
    BY DEF Promotions, Numbers, Shapes
  <2>2. From(link[f])' = From(link[f])
    BY DEF From
  <2> QED BY <2>1, <2>2 DEF Promotions, Filled
<1>9. Linked'
  BY <1>1, <1>2, <1>4 DEF Promotions, Linked
<1> QED BY <1>5, <1>6, <1>7, <1>8, <1>9 DEF Promotions

LEMMA PromoteLinks ==
  ASSUME Promotions, Numbers', NEW e \in Editors, NEW f \in Fingerprints, NEW n \in Names, Promote(e, f, n)
  PROVE  Promotions'
<1> DEFINE d == [AtRest EXCEPT !.at = "create", !.fp = f, !.name = n, !.status = "pending_approval"]
<1>1. d \in Doing /\ d.at = "create" /\ d.fp = f /\ d.status = "pending_approval"
  BY DEF AtRest, Doing
<1>2. Set(e, d) /\ UNCHANGED <<seen, link, versions, struck>> /\ doing[e] = AtRest /\ Promotable(f)
  BY DEF Promote, tables
<1>3. crossed \subseteq crossed' /\ ((\E x \in Editors : Promotes(x, f)) => f \in crossed')
  BY DEF Promote, Promotes
<1> HIDE DEF d
<1>4. /\ doing'[e] = d
      /\ \A x \in Editors : x # e => doing'[x] = doing[x]
  BY <1>1, <1>2, SetRight, ThreadsOf DEF Promotions, Numbers, Shapes
<1>5. \A t \in Templates : From(t)' = From(t)
  BY <1>2 DEF From
<1>6. \A g : Sound(g)' => Sound(g)
  BY <1>2, <1>3 DEF Sound
<1>7. \A x \in Editors, g \in Fingerprints, t \in Templates : Links(x, g, t) => Links(x, g, t)' /\ x # e
  BY <1>2, <1>4, RestStatus DEF Links
<1>8. \A x \in Editors, g \in Fingerprints : Promotes(x, g)' => Promotes(x, g) \/ (x = e /\ g = f)
  BY <1>1, <1>4 DEF Promotes
<1>9. Follow'
  <2> SUFFICES ASSUME NEW x \in Editors PROVE Follows(x)'
    BY DEF Follow
  <2>1. CASE x = e
    BY <1>1, <1>4, <2>1 DEF Follows
  <2>2. CASE x # e
    <3>1. Follows(x) /\ doing'[x] = doing[x] /\ UNCHANGED versions
      BY <1>2, <1>4, <2>2 DEF Promotions, Follow
    <3> QED BY <3>1 DEF Follows, From
  <2> QED BY <2>1, <2>2
<1>10. Crossed'
  BY <1>3, <1>8 DEF Promotions, Crossed
<1>11. ASSUME NEW t \in Templates \ struck, Sound(f)', f \in From(t)
       PROVE  FALSE
  <2>1. link[f] = t \/ \E x \in Editors : Links(x, f, t)
    BY <1>6, <1>11 DEF Promotions, Linked
  <2>2. link[f] = Nil
    <3>1. link[f] # Nil => link[f] \in Templates /\ From(link[f]) # {}
      BY DEF Promotions, Numbers, Shapes, Filled
    <3> QED BY <1>2, <3>1, FromEmpty DEF Promotable, Promotions, Numbers
  <2>3. PICK x \in Editors : Links(x, f, t)
    BY <2>1, <2>2, TemplatesAssumption
  <2>4. Promotes(x, f)
    BY <2>3 DEF Links, Promotes, Promotions, Follow, Follows
  <2> QED BY <1>3, <1>11, <2>4 DEF Sound
<1>12. First'
  <2> SUFFICES ASSUME NEW g \in Fingerprints, NEW x \in Editors, NEW t \in Templates \ struck',
                      Sound(g)', Promotes(x, g)', g \in From(t)'
               PROVE  Links(x, g, t)'
    BY DEF First
  <2>1. t \in Templates \ struck /\ g \in From(t) /\ Sound(g)
    BY <1>2, <1>5, <1>6
  <2>2. CASE Promotes(x, g)
    BY <1>7, <2>1, <2>2 DEF Promotions, First
  <2>3. CASE x = e /\ g = f
    BY <1>11, <2>1, <2>3
  <2> QED BY <1>8, <2>2, <2>3
<1>13. Filled'
  <2> SUFFICES ASSUME NEW g \in Fingerprints, link'[g] # Nil PROVE From(link[g])' # {}
    BY DEF Filled
  <2>1. link'[g] = link[g] /\ versions' = versions
    BY <1>2
  <2> QED BY <2>1 DEF Promotions, Filled, From
<1>14. Linked'
  BY <1>2, <1>5, <1>6, <1>7 DEF Promotions, Linked
<1> QED BY <1>9, <1>10, <1>12, <1>13, <1>14 DEF Promotions

LEMMA ApproveLinks ==
  ASSUME Promotions, Numbers', NEW e \in Editors, NEW t \in Templates, Approve(e, t)
  PROVE  Promotions'
<1>1. PICK f \in {versions[t][Len(versions[t])].from, Nil} :
        Set(e, [AtRest EXCEPT !.at = "max", !.tpl = t, !.fp = f, !.status = "approved"])
  BY DEF Approve
<1> DEFINE d == [AtRest EXCEPT !.at = "max", !.tpl = t, !.fp = f, !.status = "approved"]
<1>2. versions[t] # <<>> /\ UNCHANGED <<link, versions, crossed, struck>> /\ doing[e] = AtRest
  BY DEF Approve, tables
<1>3. versions[t] \in Seq(Version)
  BY DEF Promotions, Numbers, Shapes
<1>4. Len(versions[t]) \in 1..Len(versions[t])
  BY <1>2, <1>3
<1>5. f # Nil => f \in From(t)
  BY <1>1, <1>4 DEF From
<1>6. f \in Fingerprints \cup {Nil}
  <2>1. versions[t][Len(versions[t])] \in Version
    BY <1>3, <1>4
  <2> QED BY <1>1, <2>1 DEF Version
<1>7. d \in Doing /\ d.at = "max" /\ d.tpl = t /\ d.fp = f /\ d.status = "approved"
  BY <1>6 DEF AtRest, Doing
<1>8. Set(e, d)
  BY <1>1
<1> HIDE DEF d
<1>9. /\ doing'[e] = d
      /\ \A x \in Editors : x # e => doing'[x] = doing[x]
  BY <1>7, <1>8, SetRight, ThreadsOf DEF Promotions, Numbers, Shapes
<1>10. \A u \in Templates : From(u)' = From(u)
  BY <1>2 DEF From
<1>11. \A x \in Editors, g \in Fingerprints, u \in Templates : Links(x, g, u) => Links(x, g, u)'
  BY <1>2, <1>9, RestStatus DEF Links
<1>12. \A x \in Editors, g \in Fingerprints : Promotes(x, g)' => Promotes(x, g)
  BY <1>7, <1>9 DEF Promotes
<1>13. Follow'
  <2> SUFFICES ASSUME NEW x \in Editors PROVE Follows(x)'
    BY DEF Follow
  <2>1. CASE x = e
    BY <1>5, <1>7, <1>9, <1>10, <2>1 DEF Follows
  <2>2. CASE x # e
    <3>1. Follows(x) /\ doing'[x] = doing[x] /\ UNCHANGED versions
      BY <1>2, <1>9, <2>2 DEF Promotions, Follow
    <3> QED BY <3>1 DEF Follows, From
  <2> QED BY <2>1, <2>2
<1>14. \A g : Sound(g)' <=> Sound(g)
  BY <1>2 DEF Sound
<1>15. Crossed' /\ First' /\ Linked'
  BY <1>2, <1>10, <1>11, <1>12, <1>14 DEF Promotions, Crossed, First, Linked
<1>16. Filled'
  <2> SUFFICES ASSUME NEW g \in Fingerprints, link'[g] # Nil PROVE From(link[g])' # {}
    BY DEF Filled
  <2>1. link'[g] = link[g] /\ versions' = versions
    BY <1>2
  <2> QED BY <2>1 DEF Promotions, Filled, From
<1> QED BY <1>13, <1>15, <1>16 DEF Promotions

\* A version is committed: one of the fingerprint that is promoted and that
\* only has to be linked, or of one the template is for already.
LEMMA CommitLinks ==
  ASSUME Promotions, Numbers', struck \subseteq struck', NEW e \in Editors, CommitVersion(e)
  PROVE  Promotions'
<1> SUFFICES ASSUME NEW t, NEW v, NEW g, NEW w,
                    t = doing[e].tpl, v = doing[e].ver, g = doing[e].fp,
                    w = [status |-> doing[e].status, from |-> g]
             PROVE  Promotions'
  OBVIOUS
<1>1. doing[e].at = "commit" /\ UNCHANGED <<link, crossed>>
  BY DEF CommitVersion
<1>2. /\ doing[e] \in Doing /\ t \in Templates /\ v = Len(versions[t]) + 1 /\ w \in Version /\ w.from = g
  BY <1>1, ThreadsOf DEF Promotions, Numbers, Shapes, Editing, Edited, Doing, Version
<1>3. PICK o \in Ending :
        /\ Mishap(e, o)
        /\ IF o \in Took THEN versions' = [versions EXCEPT ![t] = WithVersion(t, v, w)] ELSE UNCHANGED versions
        /\ IF o = "ok" /\ doing[e].status = "pending_approval" THEN At(e, "link") ELSE Rest(e)
  BY DEF CommitVersion
<1>4. o \in {"ok", "failed", "lost"} /\ (o = "ok" \/ g \in struck')
  BY <1>3 DEF Ending, Mishap
<1>5. /\ \/ o = "ok" /\ doing'[e].at = "link" /\ doing'[e].fp = g /\ doing'[e].tpl = t
            /\ doing[e].status = "pending_approval" /\ doing'[e].status = doing[e].status
         \/ doing'[e] = AtRest /\ ~(o = "ok" /\ doing[e].status = "pending_approval")
      /\ \A x \in Editors : x # e => doing'[x] = doing[x]
  <2>1. CASE o = "ok" /\ doing[e].status = "pending_approval"
    BY <1>3, <2>1, AtRight, ThreadsOf DEF Promotions, Numbers, Shapes
  <2>2. CASE ~(o = "ok" /\ doing[e].status = "pending_approval")
    <3>1. Set(e, AtRest)
      BY <1>3, <2>2 DEF Rest
    <3> QED BY <2>2, <3>1, RestType, SetRight, ThreadsOf DEF Promotions, Numbers, Shapes
  <2> QED BY <2>1, <2>2
<1>6. CASE o \notin Took
  <2>1. UNCHANGED versions /\ o # "ok"
    BY <1>3, <1>6 DEF Took
  <2>2. \A x \in Editors : Carried(x)
    BY <1>1, <1>5, <2>1 DEF Carried
  <2> QED BY <1>1, <2>1, <2>2, CarriedKeeps
<1>7. CASE o \in Took
  <2>1. /\ \A u \in Templates : u # t => From(u)' = From(u)
        /\ From(t)' = From(t) \cup {g}
    <3> SUFFICES ASSUME NEW s, s = WithVersion(t, v, w)
                 PROVE  /\ \A u \in Templates : u # t => From(u)' = From(u)
                        /\ From(t)' = From(t) \cup {g}
      OBVIOUS
    <3>1. versions' = [versions EXCEPT ![t] = s] /\ versions \in [Templates -> Seq(Version)]
      BY <1>3, <1>7 DEF Promotions, Numbers, Shapes
    <3>2. versions'[t] = s /\ \A u \in Templates : u # t => versions'[u] = versions[u]
      BY <1>2, <3>1
    <3>3. /\ Len(s) = v /\ s[v] = w
          /\ \A i \in 1..Len(versions[t]) : s[i] = versions[t][i]
      BY <1>2, NextVersion DEF Promotions, Numbers
    <3>4. Len(versions[t]) \in Nat
      BY <1>2, <3>1
    <3>5. From(t)' = {s[i].from : i \in 1..v}
      BY <3>2, <3>3 DEF From
    <3>6. {s[i].from : i \in 1..v} = From(t) \cup {g}
      <4>1. \A i \in 1..v : i = v \/ i \in 1..Len(versions[t])
        BY <1>2, <3>4
      <4>2. v \in 1..v /\ 1..Len(versions[t]) \subseteq 1..v
        BY <1>2, <3>4
      <4>3. \A i \in 1..v : s[i].from \in From(t) \cup {g}
        BY <1>2, <3>3, <4>1 DEF From
      <4>4. g \in {s[i].from : i \in 1..v}
        BY <1>2, <3>3, <4>2
      <4>5. From(t) \subseteq {s[i].from : i \in 1..v}
        BY <3>3, <4>2 DEF From
      <4> QED BY <4>3, <4>4, <4>5
    <3>7. \A u \in Templates : u # t => From(u)' = From(u)
      BY <3>2 DEF From
    <3> QED BY <3>5, <3>6, <3>7
  <2>2. \A u \in Templates : From(u) \subseteq From(u)'
    BY <2>1
  <2>3. Follows(e)
    BY DEF Promotions, Follow
  <2>4. ASSUME NEW f \in Fingerprints, NEW u \in Templates, f \in From(u)', f \notin From(u)
        PROVE  f = g /\ u = t /\ Promotes(e, f) /\ (Links(e, f, t)' \/ f \in struck')
    <3>1. f = g /\ u = t
      BY <2>1, <2>4
    <3>2. doing[e].status # "approved"
      BY <2>3, <2>4, <3>1, TemplatesAssumption DEF Follows
    <3>3. doing[e].status \in {"pending_approval", "approved"}
      BY <1>1, <1>2 DEF Promotions, Numbers, Editing, Edited, Doing
    <3>4. Promotes(e, f)
      BY <3>1, <3>2, <3>3 DEF Promotes
    <3>5. Links(e, f, t)' \/ f \in struck'
      BY <1>4, <1>5, <3>1, <3>2, <3>3 DEF Links
    <3> QED BY <3>1, <3>4, <3>5
  <2>5. \A x \in Editors, f \in Fingerprints, u \in Templates : Links(x, f, u) => Links(x, f, u)'
    BY <1>1, <1>5 DEF Links
  <2>6. \A x \in Editors, f \in Fingerprints : Promotes(x, f)' => Promotes(x, f)
    BY <1>5, RestStatus DEF Promotes
  <2>7. \A f : Sound(f)' => Sound(f)
    BY <1>1 DEF Sound
  <2>8. Follow'
    <3> SUFFICES ASSUME NEW x \in Editors PROVE Follows(x)'
      BY DEF Follow
    <3>1. CASE x # e
      <4>1. Follows(x) /\ doing'[x] = doing[x]
        BY <1>5, <3>1 DEF Promotions, Follow
      <4>2. CASE doing[x].tpl \in Templates
        <5>1. From(doing[x].tpl) \subseteq From(doing[x].tpl)' /\ doing'[x].tpl = doing[x].tpl
          BY <2>2, <4>1, <4>2
        <5>2. PICK u \in Templates : u = doing[x].tpl
          BY <4>2
        <5>3. From(u) \subseteq From(u)' /\ doing'[x].tpl = u
          BY <2>2, <4>1, <5>2
        <5> QED BY <4>1, <5>2, <5>3 DEF Follows
      <4>3. CASE doing[x].tpl \notin Templates
        <5>1. doing[x].at \notin {"max", "insert", "commit", "link"}
          BY <4>3 DEF Promotions, Numbers, Editing, Edited
        <5>2. doing[x].at \in {"rest", "suggest", "use", "count", "create"}
          BY <5>1, ThreadsOf DEF Promotions, Numbers, Shapes, Doing
        <5> QED BY <4>1, <4>3, <5>1, <5>2 DEF Follows
      <4> QED BY <4>2, <4>3
    <3>2. CASE x = e
      <4>1. CASE doing'[e] = AtRest
        BY <3>2, <4>1, RestStatus DEF Follows
      <4>2. CASE doing'[e].at = "link"
        <5>1. doing'[e].tpl = t /\ doing'[e].fp = g /\ doing'[e].status = "pending_approval"
          BY <1>5, <4>2, RestStatus
        <5>2. From(t)' # {}
          BY <2>1
        <5>3. g \in Fingerprints
          BY <1>5, <2>3, <4>2, RestStatus DEF Follows
        <5> QED BY <3>2, <5>1, <5>2, <5>3, <4>2 DEF Follows
      <4> QED BY <1>5, <4>1, <4>2
    <3> QED BY <3>1, <3>2
  <2>9. Crossed'
    BY <1>1, <2>6 DEF Promotions, Crossed
  <2>10. First'
    <3> SUFFICES ASSUME NEW f \in Fingerprints, NEW x \in Editors, NEW u \in Templates \ struck',
                        Sound(f)', Promotes(x, f)', f \in From(u)'
                 PROVE  Links(x, f, u)'
      BY DEF First
    <3>1. CASE f \in From(u)
      BY <2>5, <2>6, <2>7, <3>1 DEF Promotions, First
    <3>2. CASE f \notin From(u)
      <4>1. u = t /\ Promotes(e, f) /\ Links(e, f, t)'
        BY <2>4, <3>2 DEF Sound
      <4>2. x = e
        BY <2>6, <2>7, <4>1 DEF Promotions, Crossed, Sound
      <4> QED BY <4>1, <4>2
    <3> QED BY <3>1, <3>2
  <2>11. Filled'
    <3> SUFFICES ASSUME NEW f \in Fingerprints, link'[f] # Nil PROVE From(link[f])' # {}
      BY DEF Filled
    <3>1. PICK u : u = link[f]
      OBVIOUS
    <3>2. u \in Templates /\ link'[f] = u /\ From(u) # {}
      BY <1>1, <3>1 DEF Promotions, Numbers, Shapes, Filled
    <3>3. From(u)' # {}
      BY <2>2, <3>2
    <3> QED BY <3>2, <3>3
  <2>12. Linked'
    <3> SUFFICES ASSUME NEW f \in Fingerprints, NEW u \in Templates \ struck', Sound(f)', f \in From(u)'
                 PROVE  link'[f] = u \/ \E x \in Editors : Links(x, f, u)'
      BY DEF Linked
    <3>1. CASE f \in From(u)
      BY <1>1, <2>5, <2>7, <3>1 DEF Promotions, Linked
    <3>2. CASE f \notin From(u)
      BY <2>4, <3>2 DEF Sound
    <3> QED BY <3>1, <3>2
  <2> QED BY <2>8, <2>9, <2>10, <2>11, <2>12 DEF Promotions
<1> QED BY <1>6, <1>7

LEMMA LinkLinks ==
  ASSUME Promotions, Numbers', struck \subseteq struck', NEW e \in Editors, LinkFingerprint(e)
  PROVE  Promotions'
<1> SUFFICES ASSUME NEW t, NEW g, t = doing[e].tpl, g = doing[e].fp PROVE Promotions'
  OBVIOUS
<1>1. doing[e].at = "link" /\ Rest(e) /\ UNCHANGED <<versions, crossed>>
  BY DEF LinkFingerprint
<1>2. g \in Fingerprints /\ Promotes(e, g) /\ t \in Templates /\ From(t) # {}
  BY <1>1 DEF Promotions, Follow, Follows, Promotes, Numbers, Editing, Edited
<1>3. PICK o \in Ending :
        /\ Mishap(e, o)
        /\ link' = IF o \in Took THEN [link EXCEPT ![g] = t] ELSE link
  BY DEF LinkFingerprint
<1>4. g \in struck' \/ link'[g] = t
  BY <1>2, <1>3 DEF Mishap, Took, Promotions, Numbers, Shapes
<1>5. \A f \in Fingerprints : link'[f] = link[f] \/ (f = g /\ link'[f] = t)
  BY <1>2, <1>3 DEF Promotions, Numbers, Shapes
<1>6. /\ doing'[e] = AtRest
      /\ \A x \in Editors : x # e => doing'[x] = doing[x]
  BY <1>1, RestType, SetRight, ThreadsOf DEF Rest, Promotions, Numbers, Shapes
<1>7. \A u \in Templates : From(u)' = From(u)
  BY <1>1 DEF From
<1>8. \A f : Sound(f)' => Sound(f)
  BY <1>1 DEF Sound
<1>9. \A x \in Editors, f \in Fingerprints, u \in Templates : Links(x, f, u) => Links(x, f, u)' \/ (x = e /\ f = g)
  BY <1>6 DEF Links
<1>10. \A x \in Editors, f \in Fingerprints : Promotes(x, f)' => Promotes(x, f) /\ x # e
  BY <1>6, RestStatus DEF Promotes
<1>11. Follow'
  <2> SUFFICES ASSUME NEW x \in Editors PROVE Follows(x)'
    BY DEF Follow
  <2>1. CASE x = e
    BY <1>6, <2>1, RestStatus DEF Follows
  <2>2. CASE x # e
    <3>1. Follows(x) /\ doing'[x] = doing[x] /\ UNCHANGED versions
      BY <1>1, <1>6, <2>2 DEF Promotions, Follow
    <3> QED BY <3>1 DEF Follows, From
  <2> QED BY <2>1, <2>2
<1>12. Crossed'
  BY <1>1, <1>10 DEF Promotions, Crossed
<1>13. First'
  BY <1>7, <1>8, <1>9, <1>10 DEF Promotions, First
<1>14. Filled'
  <2> SUFFICES ASSUME NEW f \in Fingerprints, link'[f] # Nil PROVE From(link[f])' # {}
    BY DEF Filled
  <2>1. PICK u : u = link'[f]
    OBVIOUS
  <2>2. u \in Templates /\ From(u) # {}
    <3>1. CASE link'[f] = link[f]
      BY <2>1, <3>1 DEF Promotions, Numbers, Shapes, Filled
    <3>2. CASE f = g /\ link'[f] = t
      BY <1>2, <2>1, <3>2
    <3> QED BY <1>5, <3>1, <3>2
  <2>3. From(u)' # {}
    BY <1>7, <2>2
  <2> QED BY <2>1, <2>3
<1>15. Linked'
  <2> SUFFICES ASSUME NEW f \in Fingerprints, NEW u \in Templates \ struck', Sound(f)', f \in From(u)'
               PROVE  link'[f] = u \/ \E x \in Editors : Links(x, f, u)'
    BY DEF Linked
  <2>1. f \in From(u) /\ Sound(f) /\ u \in Templates \ struck
    BY <1>7, <1>8
  <2>2. CASE f = g
    <3>1. Links(e, g, u)
      BY <1>2, <2>1, <2>2 DEF Promotions, First
    <3>2. u = t
      BY <3>1 DEF Links
    <3> QED BY <1>4, <2>2, <3>2 DEF Sound
  <2>3. CASE f # g
    BY <1>5, <1>9, <2>1, <2>3 DEF Promotions, Linked
  <2> QED BY <2>2, <2>3
<1> QED BY <1>11, <1>12, <1>13, <1>14, <1>15 DEF Promotions

LEMMA PromotionsStep ==
  ASSUME Promotions, [TemplatesNext]_tvars
  PROVE  Promotions'
<1>1. Numbers' /\ struck \subseteq struck'
  BY NumbersStep, StruckStays DEF Promotions
<1>2. ASSUME NEW p \in Planners,
             (\E f \in Fingerprints : CountFingerprint(p, f)) \/ SuggestTemplate(p) \/ InsertUsage(p) \/ CountUsage(p)
      PROVE  Promotions'
  <2>1. UNCHANGED <<link, versions, crossed>> /\ \A x \in Threads : x # p => doing'[x] = doing[x]
    BY <1>2, PlannerShapes DEF Promotions, Numbers
  <2>2. \A e \in Editors : Carried(e)
    BY <2>1, ThreadsOf DEF Carried
  <2> QED BY <1>1, <2>1, <2>2, CarriedKeeps
<1>3. ASSUME NEW e \in Editors, NEW f \in Fingerprints, NEW n \in Names, Promote(e, f, n)
      PROVE  Promotions'
  BY <1>1, <1>3, PromoteLinks
<1>4. ASSUME NEW e \in Editors, NEW t \in Templates, Approve(e, t)
      PROVE  Promotions'
  BY <1>1, <1>4, ApproveLinks
<1>5. ASSUME NEW e \in Editors, CreateTemplate(e)
      PROVE  Promotions'
  <2>1. doing[e].at = "create" /\ UNCHANGED <<link, versions, crossed>>
    BY <1>5 DEF CreateTemplate
  <2>2. Rest(e) \/ \E t \in Templates : Set(e, [doing[e] EXCEPT !.at = "max", !.tpl = t])
    BY <1>5 DEF CreateTemplate
  <2>3. doing[e] \in Doing
    BY ThreadsOf DEF Promotions, Numbers, Shapes
  <2>4. \A x \in Editors : x # e => doing'[x] = doing[x]
    BY <1>5, EditorOnly, ThreadsOf DEF Promotions, Numbers
  <2>5. Carried(e)
    <3>1. CASE Rest(e)
      BY <2>1, <3>1, RestType, SetRight, ThreadsOf DEF Rest, Carried, Promotions, Numbers, Shapes
    <3>2. ASSUME NEW t \in Templates, Set(e, [doing[e] EXCEPT !.at = "max", !.tpl = t])
          PROVE  Carried(e)
      <4>1. doing'[e] = [doing[e] EXCEPT !.at = "max", !.tpl = t]
        BY <3>2, ThreadsOf DEF Set, Promotions, Numbers, Shapes
      <4>2. doing'[e].at = "max" /\ doing'[e].status = doing[e].status /\ doing'[e].fp = doing[e].fp
        BY <2>3, <4>1 DEF Doing
      <4> QED BY <2>1, <4>2 DEF Carried
    <3> QED BY <2>2, <3>1, <3>2
  <2>6. \A x \in Editors : Carried(x)
    BY <2>4, <2>5 DEF Carried
  <2> QED BY <1>1, <2>1, <2>6, CarriedKeeps
<1>6. ASSUME NEW e \in Editors, NumberVersion(e)
      PROVE  Promotions'
  <2>1. doing[e].at = "max" /\ UNCHANGED <<link, versions, crossed>>
    BY <1>6 DEF NumberVersion, tables
  <2>2. Rest(e) \/ Set(e, [doing[e] EXCEPT !.at = "insert", !.ver = Len(versions[doing[e].tpl]) + 1])
    BY <1>6 DEF NumberVersion
  <2>3. doing[e] \in Doing
    BY ThreadsOf DEF Promotions, Numbers, Shapes
  <2>4. \A x \in Editors : x # e => doing'[x] = doing[x]
    BY <1>6, EditorOnly, ThreadsOf DEF Promotions, Numbers
  <2>5. Carried(e)
    <3>1. CASE Rest(e)
      BY <2>1, <3>1, RestType, SetRight, ThreadsOf DEF Rest, Carried, Promotions, Numbers, Shapes
    <3>2. ASSUME NEW v, Set(e, [doing[e] EXCEPT !.at = "insert", !.ver = v])
          PROVE  Carried(e)
      <4>1. doing'[e] = [doing[e] EXCEPT !.at = "insert", !.ver = v]
        BY <3>2, ThreadsOf DEF Set, Promotions, Numbers, Shapes
      <4>2. /\ doing'[e].at = "insert" /\ doing'[e].status = doing[e].status
            /\ doing'[e].fp = doing[e].fp /\ doing'[e].tpl = doing[e].tpl
        BY <2>3, <4>1 DEF Doing
      <4> QED BY <2>1, <4>2 DEF Carried
    <3> QED BY <2>2, <3>1, <3>2
  <2>6. \A x \in Editors : Carried(x)
    BY <2>4, <2>5 DEF Carried
  <2> QED BY <1>1, <2>1, <2>6, CarriedKeeps
<1>7. ASSUME NEW e \in Editors, InsertVersion(e)
      PROVE  Promotions'
  <2>1. doing[e].at = "insert" /\ UNCHANGED <<link, versions, crossed>>
    BY <1>7 DEF InsertVersion, tables
  <2>2. Rest(e) \/ At(e, "commit")
    BY <1>7 DEF InsertVersion
  <2>3. \A x \in Editors : x # e => doing'[x] = doing[x]
    BY <1>7, EditorOnly, ThreadsOf DEF Promotions, Numbers
  <2>4. Carried(e)
    <3>1. CASE Rest(e)
      BY <2>1, <3>1, RestType, SetRight, ThreadsOf DEF Rest, Carried, Promotions, Numbers, Shapes
    <3>2. CASE At(e, "commit")
      BY <2>1, <3>2, AtRight, ThreadsOf DEF Carried, Promotions, Numbers, Shapes
    <3> QED BY <2>2, <3>1, <3>2
  <2>5. \A x \in Editors : Carried(x)
    BY <2>3, <2>4 DEF Carried
  <2> QED BY <1>1, <2>1, <2>5, CarriedKeeps
<1>8. ASSUME NEW e \in Editors, CommitVersion(e) \/ LinkFingerprint(e)
      PROVE  Promotions'
  BY <1>1, <1>8, CommitLinks, LinkLinks
<1>9. ASSUME NEW x \in Threads, CutOff(x)
      PROVE  Promotions'
  <2>1. Rest(x) /\ doing[x].fp \in struck' /\ UNCHANGED <<link, versions, crossed>>
    BY <1>9 DEF CutOff, Mishap, tables
  <2>2. /\ doing'[x] = AtRest
        /\ \A y \in Threads : y # x => doing'[y] = doing[y]
    BY <2>1, RestType, SetRight DEF Rest, Promotions, Numbers, Shapes
  <2>3. \A e \in Editors : Carried(e)
    BY <2>1, <2>2, ThreadsOf DEF Carried
  <2> QED BY <1>1, <2>1, <2>3, CarriedKeeps
<1>10. CASE UNCHANGED tvars
  <2>1. UNCHANGED <<link, versions, crossed, doing>>
    BY <1>10 DEF tvars, tables
  <2>2. \A e \in Editors : Carried(e)
    BY <2>1 DEF Carried
  <2> QED BY <1>1, <2>1, <2>2, CarriedKeeps
<1> QED BY <1>2, <1>3, <1>4, <1>5, <1>6, <1>7, <1>8, <1>9, <1>10 DEF TemplatesNext

LEMMA PromotionsInit == TemplatesInit => Promotions
<1> SUFFICES ASSUME TemplatesInit PROVE Promotions
  OBVIOUS
<1>1. (\A e \in Editors : doing[e] = AtRest) /\ (\A f \in Fingerprints : link[f] = Nil)
  BY ThreadsOf DEF TemplatesInit
<1>2. \A t \in Templates : From(t) = {}
  BY NumbersInit, FromEmpty DEF TemplatesInit, Numbers
<1>3. Follow /\ Crossed /\ First
  BY <1>1, RestStatus DEF Follow, Follows, Crossed, First, Promotes
<1>4. Filled /\ Linked
  BY <1>1, <1>2 DEF Filled, Linked
<1> QED BY <1>3, <1>4, NumbersInit DEF Promotions

\* Whatever promotions, approvals and plans run at the same time, a template
\* that was promoted can be followed from its fingerprint, and its metrics
\* count its recorded uses, unless a call on it failed half-way or two
\* promotions of it crossed: PromoteFingerprint links last, and a fingerprint
\* that is linked, or about to be, is not promoted again.
THEOREM TemplatesAlwaysFollowed == TemplatesSpec => []TemplatesFollowed
<1>1. Uses /\ Promotions => TemplatesFollowed
  BY LinkedMeans DEF Uses, Promotions, Numbers, TemplatesFollowed
<1>2. TemplatesSpec => []Uses
  BY UsesInit, UsesStep, PTL DEF TemplatesSpec
<1>3. TemplatesSpec => []Promotions
  BY PromotionsInit, PromotionsStep, PTL DEF TemplatesSpec
<1> QED BY <1>1, <1>2, <1>3, PTL
=============================================================================
