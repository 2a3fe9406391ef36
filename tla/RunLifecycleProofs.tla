------------------------- MODULE RunLifecycleProofs -------------------------
(***************************************************************************)
(* What RunLifecycle promises of the rows of runs and their approvals, for *)
(* every number of runs, pipelines, requests and faults.                   *)
(***************************************************************************)
EXTENDS RunLifecycle, SequenceTheorems, TLAPS

-----------------------------------------------------------------------------
(* The list of pending approvals.                                           *)

\* No run is asked for twice.
Unique(s) == \A i, j \in 1..Len(s) : s[i] = s[j] => i = j

Elements(s) == {s[i] : i \in 1..Len(s)}

\* A list without the place of r holds everything else once.
LEMMA WithoutPlace ==
  ASSUME NEW S, NEW s \in Seq(S), Unique(s), NEW k \in 1..Len(s)
  PROVE  LET t == SubSeq(s, 1, k - 1) \o SubSeq(s, k + 1, Len(s)) IN
         t \in Seq(S) /\ Unique(t) /\ Elements(t) = Elements(s) \ {s[k]}
<1> DEFINE a == SubSeq(s, 1, k - 1)
           b == SubSeq(s, k + 1, Len(s))
           t == a \o b
<1>1. a \in Seq(S) /\ Len(a) = k - 1 /\ \A i \in 1..(k - 1) : a[i] = s[i]
  OBVIOUS
<1>2. b \in Seq(S) /\ Len(b) = Len(s) - k /\ \A i \in 1..(Len(s) - k) : b[i] = s[k + i]
  OBVIOUS
<1>3. /\ t \in Seq(S) /\ Len(t) = Len(s) - 1
      /\ \A i \in 1..Len(t) : t[i] = IF i < k THEN s[i] ELSE s[i + 1]
  <2> HIDE DEF a, b
  <2>0. /\ a \o b \in Seq(S)
        /\ Len(a \o b) = Len(a) + Len(b)
        /\ \A i \in 1 .. Len(a) + Len(b) : (a \o b)[i] = IF i <= Len(a) THEN a[i] ELSE b[i - Len(a)]
    <3>1. a \in Seq(S) /\ b \in Seq(S)
      BY <1>1, <1>2
    <3> QED BY ONLY <3>1, ConcatProperties, Zenon
  <2>1. t \in Seq(S) /\ Len(t) = Len(a) + Len(b)
    BY <2>0
  <2>2. \A i \in 1..Len(t) : t[i] = IF i <= Len(a) THEN a[i] ELSE b[i - Len(a)]
    BY <2>0, Zenon
  <2>3. k \in Nat \ {0} /\ Len(s) \in Nat /\ k <= Len(s)
    OBVIOUS
  <2> HIDE DEF t
  <2>4. ASSUME NEW i \in 1..Len(t) PROVE t[i] = IF i < k THEN s[i] ELSE s[i + 1]
    <3>1. CASE i < k
      BY <3>1, <1>1, <2>2, <2>3
    <3>2. CASE ~(i < k)
      <4>1. t[i] = b[i - (k - 1)] /\ i - (k - 1) \in 1..(Len(s) - k)
        BY <3>2, <1>1, <1>2, <2>1, <2>2, <2>3
      <4>2. k + (i - (k - 1)) = i + 1
        BY <2>1, <2>3, <1>1, <1>2
      <4> QED BY <3>2, <4>1, <4>2, <1>2
    <3> QED BY <3>1, <3>2
  <2> QED BY <2>1, <2>3, <2>4, <1>1, <1>2
<1> HIDE DEF t
<1>4. Unique(t)
  BY <1>3 DEF Unique
<1>5. Elements(t) = Elements(s) \ {s[k]}
  <2>1. ASSUME NEW x \in Elements(t) PROVE x \in Elements(s) \ {s[k]}
    <3>1. PICK i \in 1..Len(t) : x = t[i]
      BY DEF Elements
    <3> DEFINE place == IF i < k THEN i ELSE i + 1
    <3>2. place \in 1..Len(s) /\ place # k /\ x = s[place]
      <4>1. x = IF i < k THEN s[i] ELSE s[i + 1]
        BY <3>1, <1>3
      <4>2. i <= Len(s) - 1 /\ Len(s) \in Nat
        BY <1>3
      <4> HIDE DEF t
      <4>3. CASE i < k
        BY <4>1, <4>2, <4>3
      <4>4. CASE ~(i < k)
        BY <4>1, <4>2, <4>4
      <4> QED BY <4>3, <4>4
    <3> HIDE DEF place
    <3>3. s[place] # s[k]
      BY <3>2 DEF Unique
    <3> QED BY <3>2, <3>3 DEF Elements
  <2>2. ASSUME NEW x \in Elements(s) \ {s[k]} PROVE x \in Elements(t)
    <3>1. PICK i \in 1..Len(s) : x = s[i] /\ i # k
      BY DEF Elements
    <3>2. CASE i < k
      <4>1. i \in 1..Len(t) /\ t[i] = s[i]
        BY <3>2, <1>3
      <4> QED BY <4>1, <3>1 DEF Elements
    <3>3. CASE i > k
      <4>1. (i - 1) \in 1..Len(t) /\ t[i - 1] = s[i]
        BY <3>3, <1>3
      <4> QED BY <4>1, <3>1 DEF Elements
    <3> QED BY <3>1, <3>2, <3>3
  <2> QED BY <2>1, <2>2
<1> QED BY <1>3, <1>4, <1>5 DEF t

AskedOK == asked \in Seq(Runs) /\ Unique(asked)

LEMMA OthersRight ==
  ASSUME AskedOK, NEW r \in Runs
  PROVE  Others(r) \in Seq(Runs) /\ Unique(Others(r)) /\ Elements(Others(r)) = Pending \ {r}
<1>1. CASE r \in Pending
  <2>1. PlaceOf(r) \in 1..Len(asked) /\ asked[PlaceOf(r)] = r
    BY <1>1 DEF Pending, PlaceOf
  <2>2. asked \in Seq(Runs) /\ Unique(asked) /\ Elements(asked) = Pending
    BY DEF AskedOK, Pending, Elements
  <2>3. Others(r) = SubSeq(asked, 1, PlaceOf(r) - 1) \o SubSeq(asked, PlaceOf(r) + 1, Len(asked))
    BY <1>1 DEF Others
  <2> HIDE DEF Unique, Elements
  <2> QED BY <2>1, <2>2, <2>3, WithoutPlace
<1>2. CASE r \notin Pending
  BY <1>2 DEF Others, AskedOK, Pending, Elements
<1> QED BY <1>1, <1>2

LEMMA AskedRight ==
  ASSUME AskedOK, NEW r \in Runs
  PROVE  Asked(r) \in Seq(Runs) /\ Unique(Asked(r)) /\ Elements(Asked(r)) = Pending \cup {r}
<1> DEFINE s == Others(r)
<1>1. s \in Seq(Runs) /\ Unique(s) /\ Elements(s) = Pending \ {r}
  BY OthersRight
<1>2. Asked(r) = Append(s, r)
  BY DEF Asked
<1> HIDE DEF s
<1>3. /\ Asked(r) \in Seq(Runs) /\ Len(Asked(r)) = Len(s) + 1
      /\ \A i \in 1..Len(Asked(r)) : Asked(r)[i] = IF i <= Len(s) THEN s[i] ELSE r
  BY <1>1, <1>2
<1>4. \A i \in 1..Len(s) : s[i] # r
  BY <1>1 DEF Elements
<1>5. Unique(Asked(r))
  BY <1>1, <1>3, <1>4 DEF Unique
<1>6. Elements(Asked(r)) = Elements(s) \cup {r}
  <2> DEFINE t == Asked(r)
  <2> HIDE DEF t
  <2>1. ASSUME NEW x \in Elements(t) PROVE x \in Elements(s) \cup {r}
    BY <1>3 DEF Elements, t
  <2>2. ASSUME NEW x \in Elements(s) PROVE x \in Elements(t)
    <3>1. PICK i \in 1..Len(s) : x = s[i]
      BY DEF Elements
    <3>2. i \in 1..Len(t) /\ t[i] = s[i]
      BY <1>1, <1>3 DEF t
    <3> QED BY <3>1, <3>2 DEF Elements
  <2>3. r \in Elements(t)
    <3>1. Len(s) + 1 \in 1..Len(t) /\ t[Len(s) + 1] = r
      BY <1>1, <1>3 DEF t
    <3> QED BY <3>1 DEF Elements
  <2> QED BY <2>1, <2>2, <2>3 DEF t
<1> QED BY <1>1, <1>3, <1>5, <1>6
-----------------------------------------------------------------------------
(* Types.                                                                   *)

RowsOK ==
  /\ status \in [Runs -> Status]
  /\ approval \in [Runs -> {"none", "pending", "approved", "rejected"}]
  /\ overlapped \subseteq Runs
  /\ hit \subseteq Runs
  /\ faults \in 0..MaxFaults

WorkOK ==
  /\ work = [t \in Thread |-> work[t]]
  /\ \A p \in Pipelines : work[p] \in Pipeline \cup {Idle}
  /\ \A d \in Deciders : work[d] \in Decision \cup {Idle}

\* What a thread is at, in the fields it is used by.
LEMMA AtWork ==
  ASSUME WorkOK
  PROVE  /\ \A p \in Pipelines : work[p].step # "idle" =>
              /\ work[p] \in Pipeline /\ work[p].run \in Runs
              /\ \A s \in Working \cup {"mark", "ask", "fail"} : [work[p] EXCEPT !.step = s] \in Pipeline
              /\ [work[p] EXCEPT !.late = TRUE] \in Pipeline
         /\ \A d \in Deciders : work[d].step # "idle" =>
              /\ work[d] \in Decision /\ work[d].run \in Runs
              /\ \A s \in {"resolve", "start", "reject", "finish"} : [work[d] EXCEPT !.step = s] \in Decision
         /\ \A t \in Thread : work[t].step = "idle" <=> work[t] = Idle
<1>1. ASSUME NEW p \in Pipelines, work[p].step # "idle"
      PROVE  /\ work[p] \in Pipeline /\ work[p].run \in Runs
             /\ \A s \in Working \cup {"mark", "ask", "fail"} : [work[p] EXCEPT !.step = s] \in Pipeline
             /\ [work[p] EXCEPT !.late = TRUE] \in Pipeline
  <2>1. work[p] \in Pipeline
    BY <1>1 DEF WorkOK, Idle
  <2>2. ASSUME NEW s \in Working \cup {"mark", "ask", "fail"}
        PROVE  [work[p] EXCEPT !.step = s] \in Pipeline
    BY <2>1 DEF Pipeline
  <2>3. [work[p] EXCEPT !.late = TRUE] \in Pipeline
    BY <2>1 DEF Pipeline
  <2> QED BY <2>1, <2>2, <2>3 DEF Pipeline
<1>2. ASSUME NEW d \in Deciders, work[d].step # "idle"
      PROVE  /\ work[d] \in Decision /\ work[d].run \in Runs
             /\ \A s \in {"resolve", "start", "reject", "finish"} : [work[d] EXCEPT !.step = s] \in Decision
  <2>1. work[d] \in Decision
    BY <1>2 DEF WorkOK, Idle
  <2>2. ASSUME NEW s \in {"resolve", "start", "reject", "finish"}
        PROVE  [work[d] EXCEPT !.step = s] \in Decision
    BY <2>1 DEF Decision
  <2> QED BY <2>1, <2>2 DEF Decision
<1>3. ASSUME NEW t \in Thread PROVE work[t].step = "idle" <=> work[t] = Idle
  <2>1. Idle.step = "idle"
    BY DEF Idle
  <2>2. \A w \in Pipeline : w.step # "idle"
    BY DEF Pipeline, Working
  <2>3. \A w \in Decision : w.step # "idle"
    BY DEF Decision
  <2>4. work[t] \in Pipeline \cup Decision \cup {Idle}
    BY DEF WorkOK, Thread
  <2> QED BY <2>1, <2>2, <2>3, <2>4
<1> QED BY <1>1, <1>2, <1>3

LEMMA DoesKeeps ==
  ASSUME WorkOK, NEW t \in Thread, NEW w,
         t \in Pipelines => w \in Pipeline \cup {Idle},
         t \in Deciders => w \in Decision \cup {Idle},
         Does(t, w)
  PROVE  WorkOK'
  BY DEF WorkOK, Does, Thread

LEMMA CostsKeeps ==
  ASSUME RowsOK, NEW r \in Runs, NEW o, Costs(r, o)
  PROVE  /\ hit' \subseteq Runs /\ hit \subseteq hit' /\ faults' \in 0..MaxFaults
         /\ o # "ok" => r \in hit'
  BY LifecycleAssumption DEF RowsOK, Costs

LEMMA EndsKeeps ==
  ASSUME RowsOK, NEW p \in Pipelines, work[p].run \in Runs, NEW o, Ends(p, o)
  PROVE  /\ hit' \subseteq Runs /\ hit \subseteq hit' /\ faults' \in 0..MaxFaults
         /\ o # "ok" => work[p].late \/ work[p].run \in hit'
         /\ o = "ok" => ~work[p].late
<1>1. CASE work[p].late
  BY <1>1 DEF Ends, RowsOK
<1>2. CASE ~work[p].late
  BY <1>2, CostsKeeps DEF Ends
<1> QED BY <1>1, <1>2

LEMMA SetKeeps ==
  ASSUME status \in [Runs -> Status], NEW r \in Runs, NEW o, NEW s \in Status, SetStatus(r, o, s)
  PROVE  /\ status' \in [Runs -> Status]
         /\ \A q \in Runs : q # r => status'[q] = status[q]
         /\ status'[r] = IF o \in Performed THEN s ELSE status[r]
  BY DEF SetStatus

\* Every outcome but a good one is a fault, or comes after a deadline.
LEMMA Statuses ==
  /\ {"none", "running", "pending_approval", "succeeded", "failed", "rejected"} \subseteq Status
  /\ "ok" \in Performed /\ Finished = {"succeeded", "failed"}
  BY DEF Status, Performed, Finished

LEMMA RowsStep == RowsOK /\ WorkOK /\ [Next]_vars => RowsOK'
<1> SUFFICES ASSUME RowsOK, WorkOK, [Next]_vars PROVE RowsOK'
  OBVIOUS
<1> USE DEF RowsOK
<1>1. ASSUME NEW p \in Pipelines, NEW r \in Runs, NEW who \in Origins, Create(p, r, who) PROVE RowsOK'
  <2>1. PICK o \in Outcome : Costs(r, o) /\ SetStatus(r, o, "running")
    BY <1>1 DEF Create
  <2> QED BY <1>1, <2>1, CostsKeeps, SetKeeps, Statuses DEF Create
<1>2. ASSUME NEW p \in Pipelines, Plan(p) PROVE RowsOK'
  BY <1>2 DEF Plan
<1>3. ASSUME NEW p \in Pipelines, Think(p) PROVE RowsOK'
  <2>1. work[p].run \in Runs
    BY <1>3, AtWork DEF Think
  <2>2. CASE UNCHANGED <<status, hit, faults>>
    BY <1>3, <2>2 DEF Think
  <2>3. CASE \E o \in Outcome, s \in Finished : Ends(p, o) /\ SetStatus(work[p].run, o, s)
    <3>1. PICK o \in Outcome, s \in Finished : Ends(p, o) /\ SetStatus(work[p].run, o, s)
      BY <2>3
    <3> QED BY <1>3, <2>1, <3>1, EndsKeeps, SetKeeps, Statuses DEF Think
  <2> QED BY <1>3, <2>2, <2>3 DEF Think
<1>4. ASSUME NEW p \in Pipelines, MarkRunPendingApproval(p) PROVE RowsOK'
  <2>1. work[p].run \in Runs
    BY <1>4, AtWork DEF MarkRunPendingApproval
  <2>2. PICK o \in Outcome : Ends(p, o) /\ SetStatus(work[p].run, o, "pending_approval")
    BY <1>4 DEF MarkRunPendingApproval
  <2> QED BY <1>4, <2>1, <2>2, CostsKeeps, EndsKeeps, SetKeeps, Statuses DEF MarkRunPendingApproval
<1>5. ASSUME NEW p \in Pipelines, CreateBudgetApproval(p) PROVE RowsOK'
  <2>1. work[p].run \in Runs
    BY <1>5, AtWork DEF CreateBudgetApproval
  <2>2. PICK o \in Outcome : Ends(p, o)
    BY <1>5 DEF CreateBudgetApproval
  <2> QED BY <1>5, <2>1, <2>2, CostsKeeps, EndsKeeps, SetKeeps, Statuses DEF CreateBudgetApproval
<1>6. ASSUME NEW p \in Pipelines, Fail(p) PROVE RowsOK'
  <2>1. work[p].run \in Runs
    BY <1>6, AtWork DEF Fail
  <2>2. PICK o \in Outcome : Ends(p, o) /\ SetStatus(work[p].run, o, "failed")
    BY <1>6 DEF Fail
  <2> QED BY <1>6, <2>1, <2>2, CostsKeeps, EndsKeeps, SetKeeps, Statuses DEF Fail
<1>7. ASSUME NEW p \in Pipelines, Deadline(p) PROVE RowsOK'
  <2>1. work[p] # Idle
    BY <1>7, LifecycleAssumption DEF Deadline, Idle
  <2>2. work[p].run \in Runs
    BY <2>1, AtWork DEF Thread
  <2> QED BY <1>7, <2>2, CostsKeeps DEF Deadline
<1>8. ASSUME NEW d \in Deciders, NEW r \in Runs, NEW v \in {"approved", "rejected"}, GetPendingBudgetApproval(d, r, v) PROVE RowsOK'
  BY <1>8 DEF GetPendingBudgetApproval
<1>9. ASSUME NEW d \in Deciders, ResolveBudgetApproval(d) PROVE RowsOK'
  <2>1. work[d].run \in Runs /\ work[d].as \in {"approved", "rejected"}
    BY <1>9, AtWork DEF ResolveBudgetApproval, Decision
  <2>2. PICK o \in Outcome : Costs(work[d].run, o)
    BY <1>9 DEF ResolveBudgetApproval
  <2>3. approval' \in [Runs -> {"none", "pending", "approved", "rejected"}]
    BY <1>9, <2>1 DEF ResolveBudgetApproval
  <2> QED BY <1>9, <2>1, <2>2, <2>3, CostsKeeps DEF ResolveBudgetApproval
<1>10. ASSUME NEW d \in Deciders, NEW p \in Pipelines, Start(d, p) PROVE RowsOK'
  <2>1. work[d].run \in Runs
    BY <1>10, AtWork DEF Start
  <2>2. PICK o \in Outcome : Costs(work[d].run, o) /\ SetStatus(work[d].run, o, "running")
    BY <1>10 DEF Start
  <2> QED BY <1>10, <2>1, <2>2, CostsKeeps, EndsKeeps, SetKeeps, Statuses DEF Start
<1>11. ASSUME NEW d \in Deciders, Reject(d) PROVE RowsOK'
  <2>1. work[d].run \in Runs
    BY <1>11, AtWork DEF Reject
  <2>2. PICK o \in Outcome : Costs(work[d].run, o) /\ SetStatus(work[d].run, o, "rejected")
    BY <1>11 DEF Reject
  <2> QED BY <1>11, <2>1, <2>2, CostsKeeps, EndsKeeps, SetKeeps, Statuses DEF Reject
<1>12. ASSUME NEW d \in Deciders, FinishRejected(d) PROVE RowsOK'
  <2>1. work[d].run \in Runs
    BY <1>12, AtWork DEF FinishRejected
  <2>2. PICK o \in Outcome : Costs(work[d].run, o) /\ SetStatus(work[d].run, o, "rejected")
    BY <1>12 DEF FinishRejected
  <2> QED BY <1>12, <2>1, <2>2, CostsKeeps, EndsKeeps, SetKeeps, Statuses DEF FinishRejected
<1>13. ASSUME NEW T \in SUBSET Thread, Crash(T) PROVE RowsOK'
  <2>1. \A t \in T : work[t].run \in Runs
    BY <1>13, AtWork DEF Crash, Thread
  <2> QED BY <1>13, <2>1, LifecycleAssumption DEF Crash
<1>14. CASE UNCHANGED vars
  BY <1>14 DEF vars
<1> QED
  BY <1>1, <1>2, <1>3, <1>4, <1>5, <1>6, <1>7, <1>8, <1>9, <1>10, <1>11, <1>12, <1>13, <1>14 DEF Next, Process, Decide, Answer

LEMMA WorkStep == WorkOK /\ [Next]_vars => WorkOK'
<1> SUFFICES ASSUME WorkOK, [Next]_vars PROVE WorkOK'
  OBVIOUS
<1>1. ASSUME NEW p \in Pipelines, NEW r \in Runs, NEW who \in Origins, Create(p, r, who) PROVE WorkOK'
  <2>1. Launched(r, who) \in Pipeline
    BY LifecycleAssumption DEF Launched, Pipeline, Working
  <2>2. CASE Does(p, Launched(r, who))
    BY <2>1, <2>2, DoesKeeps, LifecycleAssumption DEF Thread
  <2>3. CASE UNCHANGED work
    BY <2>3 DEF WorkOK
  <2> QED BY <1>1, <2>2, <2>3 DEF Create
<1>2. ASSUME NEW p \in Pipelines, Plan(p) PROVE WorkOK'
  <2>1. \A s \in Working \cup {"mark", "ask", "fail"} : [work[p] EXCEPT !.step = s] \in Pipeline
    BY <1>2, AtWork DEF Plan
  <2>2. GoTo(p, "fail") \/ GoTo(p, "mark") \/ GoTo(p, "think")
    BY <1>2 DEF Plan, Gated
  <2> QED BY <2>1, <2>2, DoesKeeps, LifecycleAssumption DEF GoTo, Return, Thread, Working
<1>3. ASSUME NEW p \in Pipelines, Think(p) PROVE WorkOK'
  <2>1. \A s \in Working \cup {"mark", "ask", "fail"} : [work[p] EXCEPT !.step = s] \in Pipeline
    BY <1>3, AtWork DEF Think
  <2>2. GoTo(p, "fail") \/ Return(p)
    BY <1>3 DEF Think
  <2> QED BY <2>1, <2>2, DoesKeeps, LifecycleAssumption DEF GoTo, Return, Thread, Working
<1>4. ASSUME NEW p \in Pipelines, MarkRunPendingApproval(p) PROVE WorkOK'
  <2>1. \A s \in Working \cup {"mark", "ask", "fail"} : [work[p] EXCEPT !.step = s] \in Pipeline
    BY <1>4, AtWork DEF MarkRunPendingApproval
  <2>2. GoTo(p, "ask")
    BY <1>4 DEF MarkRunPendingApproval
  <2> QED BY <2>1, <2>2, DoesKeeps, LifecycleAssumption DEF GoTo, Return, Thread, Working
<1>5. ASSUME NEW p \in Pipelines, CreateBudgetApproval(p) PROVE WorkOK'
  <2>1. \A s \in Working \cup {"mark", "ask", "fail"} : [work[p] EXCEPT !.step = s] \in Pipeline
    BY <1>5, AtWork DEF CreateBudgetApproval
  <2>2. GoTo(p, "fail") \/ Return(p)
    BY <1>5 DEF CreateBudgetApproval
  <2> QED BY <2>1, <2>2, DoesKeeps, LifecycleAssumption DEF GoTo, Return, Thread, Working
<1>6. ASSUME NEW p \in Pipelines, Fail(p) PROVE WorkOK'
  <2>1. \A s \in Working \cup {"mark", "ask", "fail"} : [work[p] EXCEPT !.step = s] \in Pipeline
    BY <1>6, AtWork DEF Fail
  <2>2. Return(p)
    BY <1>6 DEF Fail
  <2> QED BY <2>1, <2>2, DoesKeeps, LifecycleAssumption DEF GoTo, Return, Thread, Working
<1>7. ASSUME NEW p \in Pipelines, Deadline(p) PROVE WorkOK'
  <2>1. work[p] # Idle
    BY <1>7, LifecycleAssumption DEF Deadline, Idle
  <2>2. [work[p] EXCEPT !.late = TRUE] \in Pipeline
    BY <2>1, AtWork DEF Thread
  <2> QED BY <1>7, <2>2, DoesKeeps, LifecycleAssumption DEF Deadline, Thread
<1>8. ASSUME NEW d \in Deciders, NEW r \in Runs, NEW v \in {"approved", "rejected"}, GetPendingBudgetApproval(d, r, v) PROVE WorkOK'
  <2> DEFINE w == [step |-> "resolve", run |-> r, as |-> v, late |-> FALSE]
  <2>1. w \in Decision
    BY DEF Decision
  <2>2. Does(d, w)
    BY <1>8 DEF GetPendingBudgetApproval
  <2> HIDE DEF w
  <2> QED BY <2>1, <2>2, DoesKeeps, LifecycleAssumption DEF Thread
<1>9. ASSUME NEW d \in Deciders, ResolveBudgetApproval(d) PROVE WorkOK'
  <2>1. \A s \in {"resolve", "start", "reject", "finish"} : [work[d] EXCEPT !.step = s] \in Decision
    BY <1>9, AtWork DEF ResolveBudgetApproval
  <2>2. GoTo(d, "start") \/ GoTo(d, "reject") \/ Return(d)
    BY <1>9 DEF ResolveBudgetApproval
  <2> QED BY <2>1, <2>2, DoesKeeps, LifecycleAssumption DEF GoTo, Return, Thread, Working
<1>10. ASSUME NEW d \in Deciders, NEW p \in Pipelines, Start(d, p) PROVE WorkOK'
  <2>1. Launched(work[d].run, "decision") \in Pipeline
    BY <1>10, AtWork DEF Start, Launched, Pipeline, Working
  <2>2. work' = [work EXCEPT ![d] = Idle, ![p] = Launched(work[d].run, "decision")]
        \/ work' = [work EXCEPT ![d] = Idle, ![p] = Idle]
    BY <1>10 DEF Start
  <2> QED BY <2>1, <2>2, LifecycleAssumption DEF WorkOK, Thread
<1>11. ASSUME NEW d \in Deciders, Reject(d) PROVE WorkOK'
  <2>1. \A s \in {"resolve", "start", "reject", "finish"} : [work[d] EXCEPT !.step = s] \in Decision
    BY <1>11, AtWork DEF Reject
  <2>2. GoTo(d, "finish") \/ Return(d)
    BY <1>11 DEF Reject
  <2> QED BY <2>1, <2>2, DoesKeeps, LifecycleAssumption DEF GoTo, Return, Thread, Working
<1>12. ASSUME NEW d \in Deciders, FinishRejected(d) PROVE WorkOK'
  <2>1. \A s \in {"resolve", "start", "reject", "finish"} : [work[d] EXCEPT !.step = s] \in Decision
    BY <1>12, AtWork DEF FinishRejected
  <2>2. Return(d)
    BY <1>12 DEF FinishRejected
  <2> QED BY <2>1, <2>2, DoesKeeps, LifecycleAssumption DEF GoTo, Return, Thread, Working
<1>13. ASSUME NEW T \in SUBSET Thread, Crash(T) PROVE WorkOK'
  BY <1>13 DEF Crash, WorkOK, Thread
<1>14. CASE UNCHANGED vars
  BY <1>14 DEF vars, WorkOK
<1> QED
  BY <1>1, <1>2, <1>3, <1>4, <1>5, <1>6, <1>7, <1>8, <1>9, <1>10, <1>11, <1>12, <1>13, <1>14 DEF Next, Process, Decide, Answer

\* The list holds the runs with a pending request, each once.
ListOK == AskedOK /\ Pending = {r \in Runs : approval[r] = "pending"}

LEMMA ListStep == RowsOK /\ WorkOK /\ ListOK /\ [Next]_vars => ListOK'
<1> SUFFICES ASSUME RowsOK, WorkOK, ListOK, [Next]_vars PROVE ListOK'
  OBVIOUS
<1>1. ASSUME UNCHANGED <<asked, approval>> PROVE ListOK'
  BY <1>1 DEF ListOK, AskedOK, Unique, Pending
<1>2. ASSUME NEW p \in Pipelines, CreateBudgetApproval(p) PROVE ListOK'
  <2> DEFINE r == work[p].run
  <2>1. r \in Runs
    BY <1>2, AtWork DEF CreateBudgetApproval
  <2>2. CASE asked' = Asked(r) /\ approval' = [approval EXCEPT ![r] = "pending"]
    <3>1. AskedOK' /\ Pending' = Pending \cup {r}
      <4>1. /\ asked' \in Seq(Runs) /\ Unique(asked')
            /\ Elements(asked') = Pending \cup {r}
        BY <2>1, <2>2, AskedRight DEF ListOK
      <4>2. Pending' = Elements(asked')
        BY DEF Pending, Elements
      <4> QED BY <4>1, <4>2 DEF AskedOK
    <3>2. {q \in Runs : approval'[q] = "pending"} = {q \in Runs : approval[q] = "pending"} \cup {r}
      BY <2>1, <2>2 DEF RowsOK
    <3> QED BY <3>1, <3>2 DEF ListOK
  <2> QED BY <1>1, <1>2, <2>2 DEF CreateBudgetApproval
<1>3. ASSUME NEW d \in Deciders, ResolveBudgetApproval(d) PROVE ListOK'
  <2> DEFINE r == work[d].run
  <2>1. r \in Runs /\ work[d].as \in {"approved", "rejected"}
    BY <1>3, AtWork DEF ResolveBudgetApproval, Decision
  <2>2. CASE asked' = Others(r) /\ approval' = [approval EXCEPT ![r] = work[d].as]
    <3>1. AskedOK' /\ Pending' = Pending \ {r}
      <4>1. /\ asked' \in Seq(Runs) /\ Unique(asked')
            /\ Elements(asked') = Pending \ {r}
        BY <2>1, <2>2, OthersRight DEF ListOK
      <4>2. Pending' = Elements(asked')
        BY DEF Pending, Elements
      <4> QED BY <4>1, <4>2 DEF AskedOK
    <3>2. {q \in Runs : approval'[q] = "pending"} = {q \in Runs : approval[q] = "pending"} \ {r}
      BY <2>1, <2>2 DEF RowsOK
    <3> QED BY <3>1, <3>2 DEF ListOK
  <2> QED BY <1>1, <1>3, <2>2 DEF ResolveBudgetApproval
<1>4. CASE UNCHANGED vars
  BY <1>1, <1>4 DEF vars
<1> QED
  BY <1>1, <1>2, <1>3, <1>4
  DEF Next, Process, Decide, Answer, Create, Plan, Think, MarkRunPendingApproval, Fail, Deadline,
      GetPendingBudgetApproval, Start, Reject, FinishRejected, Crash

-----------------------------------------------------------------------------
(* The rows of runs.                                                        *)

\* Only a fault has calls fail.
LateHit == \A p \in Pipelines : work[p].late => work[p].run \in hit

\* Nobody is at work on a run that does not exist.
Begun ==
  \A r \in Runs : status[r] = "none" => approval[r] = "none" /\ \A t \in Thread : ~Busy(t, r)

\* A triggered pipeline that asks for approval ends without another look at
\* the status; any other writes it before it ends.
Leaves(p) == work[p].step = "ask" /\ work[p].as = "trigger"

Worked ==
  \A r \in Runs \ hit : status[r] = "running" => \E p \in Pipelines : Busy(p, r) /\ ~Leaves(p)

Parked ==
  \A r \in Runs \ hit :
    status[r] = "pending_approval" => approval[r] = "pending" \/ \E t \in Thread : Busy(t, r)

\* What a pipeline is at before it fails or asks, and what a request is at
\* before it hands over.
Active(r) == {p \in Pipelines : Busy(p, r) /\ work[p].step \in Working \cup {"mark", "ask"}}

ApprovalOf(step) ==
  CASE step = "resolve" -> "pending" [] step = "start" -> "approved" [] OTHER -> "rejected"

Sole ==
  \A r \in Runs \ overlapped :
    /\ \A p, q \in Active(r) : p = q
    /\ \A d, e \in Deciders : Busy(d, r) /\ Busy(e, r) => d = e
    /\ approval[r] \in {"pending", "rejected"} => Active(r) = {}
    /\ \A d \in Deciders : Busy(d, r) => Active(r) = {} /\ approval[r] = ApprovalOf(work[d].step)

Rows == LateHit /\ Begun /\ Worked /\ Parked /\ Sole
Types == RowsOK /\ WorkOK /\ ListOK

LEMMA DoesWork ==
  ASSUME WorkOK, NEW t \in Thread, NEW w, Does(t, w)
  PROVE  \A u \in Thread : work'[u] = IF u = t THEN w ELSE work[u]
  BY DEF WorkOK, Does

LEMMA NotBusyIdle == \A r \in Runs : Idle.run # r
  BY LifecycleAssumption DEF Idle

LEMMA GoPipeline ==
  ASSUME WorkOK, NEW p \in Pipelines, work[p].step # "idle", NEW s, GoTo(p, s)
  PROVE  /\ work'[p].step = s /\ work'[p].run = work[p].run /\ work'[p].as = work[p].as
         /\ work'[p].late = work[p].late
         /\ \A u \in Thread : u # p => work'[u] = work[u]
<1>1. work[p] \in Pipeline
  BY AtWork
<1>2. work'[p] = [work[p] EXCEPT !.step = s] /\ \A u \in Thread : u # p => work'[u] = work[u]
  BY DoesWork DEF GoTo, Thread
<1> QED BY <1>1, <1>2 DEF Pipeline

LEMMA GoDecision ==
  ASSUME WorkOK, NEW d \in Deciders, work[d].step # "idle", NEW s, GoTo(d, s)
  PROVE  /\ work'[d].step = s /\ work'[d].run = work[d].run
         /\ \A u \in Thread : u # d => work'[u] = work[u]
<1>1. work[d] \in Decision
  BY AtWork
<1>2. work'[d] = [work[d] EXCEPT !.step = s] /\ \A u \in Thread : u # d => work'[u] = work[u]
  BY DoesWork DEF GoTo, Thread
<1> QED BY <1>1, <1>2 DEF Decision

LEMMA ReturnIdle ==
  ASSUME WorkOK, NEW t \in Thread, Return(t)
  PROVE  work'[t] = Idle /\ \A u \in Thread : u # t => work'[u] = work[u]
  BY DoesWork DEF Return

-----------------------------------------------------------------------------
(* Every step keeps the rows: one lemma for each, with one leaf for each   *)
(* part of the invariant.                                                  *)

LEMMA PlanKeeps ==
  ASSUME Types, Rows, NEW p \in Pipelines, Plan(p)
  PROVE  Rows'
<1> DEFINE r == work[p].run
<1>1. /\ UNCHANGED <<status, approval, overlapped, hit>>
      /\ work[p].step = "plan"
      /\ p \in Thread /\ \A q \in Pipelines : q \in Thread /\ q \notin Deciders
      /\ \A d \in Deciders : d \in Thread /\ d # p
  BY LifecycleAssumption DEF Plan, Thread
<1>2. PICK s \in {"fail", "mark", "think"} : GoTo(p, s)
  BY DEF Plan, Gated
<1>3. /\ work'[p].step = s /\ work'[p].run = work[p].run /\ work'[p].as = work[p].as
      /\ work'[p].late = work[p].late
      /\ \A u \in Thread : u # p => work'[u] = work[u]
  BY <1>1, <1>2, GoPipeline DEF Types
<1> USE DEF Rows
<1>4. LateHit'
  BY <1>1, <1>3 DEF LateHit
<1>5. Begun'
  BY <1>1, <1>3 DEF Begun, Busy
<1>6. Worked'
  BY <1>1, <1>2, <1>3 DEF Worked, Busy, Leaves
<1>7. Parked'
  BY <1>1, <1>3 DEF Parked, Busy
<1>8. Sole'
  BY <1>1, <1>2, <1>3 DEF Sole, Busy, Active, Working
<1> QED BY <1>4, <1>5, <1>6, <1>7, <1>8

LEMMA EndsRight ==
  ASSUME Types, LateHit, NEW p \in Pipelines, work[p].run \in Runs, NEW o \in Outcome,
         NEW s \in Status, Ends(p, o), SetStatus(work[p].run, o, s)
  PROVE  /\ hit \subseteq hit'
         /\ work[p].run \in hit' \/ status'[work[p].run] = s
         /\ status'[work[p].run] \in {s, status[work[p].run]}
         /\ \A q \in Runs : q # work[p].run => status'[q] = status[q]
  BY EndsKeeps, SetKeeps, Statuses DEF Types, RowsOK, LateHit

LEMMA CostsRight ==
  ASSUME Types, NEW r \in Runs, NEW o \in Outcome,
         NEW s \in Status, Costs(r, o), SetStatus(r, o, s)
  PROVE  /\ hit \subseteq hit'
         /\ r \in hit' \/ (o = "ok" /\ status'[r] = s)
         /\ status'[r] \in {s, status[r]}
         /\ \A q \in Runs : q # r => status'[q] = status[q]
  BY CostsKeeps, SetKeeps, Statuses DEF Types, RowsOK

LEMMA ThinkKeeps ==
  ASSUME Types, Rows, NEW p \in Pipelines, Think(p)
  PROVE  Rows'
<1> DEFINE r == work[p].run
<1>1. /\ UNCHANGED <<approval, overlapped>>
      /\ work[p].step = "think" /\ r \in Runs
      /\ p \in Thread /\ \A q \in Pipelines : q \in Thread /\ q \notin Deciders
      /\ \A d \in Deciders : d \in Thread /\ d # p
  BY LifecycleAssumption, AtWork DEF Think, Thread, Types
<1>2. CASE GoTo(p, "fail") /\ UNCHANGED <<status, hit, faults>>
  <2>1. /\ work'[p].step = "fail" /\ work'[p].run = r /\ work'[p].as = work[p].as
        /\ work'[p].late = work[p].late
        /\ \A u \in Thread : u # p => work'[u] = work[u]
    BY <1>1, <1>2, GoPipeline DEF Types
  <2> USE DEF Rows
  <2>2. LateHit'
    BY <1>1, <1>2, <2>1 DEF LateHit
  <2>3. Begun'
    BY <1>1, <1>2, <2>1 DEF Begun, Busy
  <2>4. Worked'
    BY <1>1, <1>2, <2>1 DEF Worked, Busy, Leaves
  <2>5. Parked'
    BY <1>1, <1>2, <2>1 DEF Parked, Busy
  <2>6. Sole'
    BY <1>1, <1>2, <2>1 DEF Sole, Busy, Active, Working
  <2> QED BY <2>2, <2>3, <2>4, <2>5, <2>6
<1>3. CASE Return(p) /\ \E o \in Outcome, s \in Finished : Ends(p, o) /\ SetStatus(r, o, s)
  <2>1. PICK o \in Outcome, s \in Finished : Ends(p, o) /\ SetStatus(r, o, s)
    BY <1>3
  <2>2. /\ hit \subseteq hit'
        /\ r \in hit' \/ status'[r] = s
        /\ status'[r] \in {s, status[r]}
        /\ \A q \in Runs : q # r => status'[q] = status[q]
        /\ s \in {"succeeded", "failed"}
    BY <1>1, <2>1, EndsRight, Statuses DEF Rows
  <2>3. /\ work'[p] = Idle /\ Idle.late = FALSE /\ Idle.step = "idle"
        /\ \A q \in Runs : Idle.run # q
        /\ \A u \in Thread : u # p => work'[u] = work[u]
    BY <1>1, <1>3, ReturnIdle, NotBusyIdle DEF Types, Idle
  <2> USE DEF Rows
  <2>4. LateHit'
    BY <1>1, <2>2, <2>3 DEF LateHit
  <2>5. Begun'
    BY <1>1, <2>2, <2>3 DEF Begun, Busy
  <2>6. Worked'
    BY <1>1, <2>2, <2>3 DEF Worked, Busy, Leaves
  <2>7. Parked'
    BY <1>1, <2>2, <2>3 DEF Parked, Busy
  <2>8. Sole'
    BY <1>1, <2>2, <2>3 DEF Sole, Busy, Active, Working
  <2> QED BY <2>4, <2>5, <2>6, <2>7, <2>8
<1> QED BY <1>2, <1>3 DEF Think

LEMMA MarkKeeps ==
  ASSUME Types, Rows, NEW p \in Pipelines, MarkRunPendingApproval(p)
  PROVE  Rows'
<1> DEFINE r == work[p].run
<1>1. /\ UNCHANGED <<approval, overlapped>>
      /\ work[p].step = "mark" /\ r \in Runs
      /\ p \in Thread /\ \A q \in Pipelines : q \in Thread /\ q \notin Deciders
      /\ \A d \in Deciders : d \in Thread /\ d # p
  BY LifecycleAssumption, AtWork DEF MarkRunPendingApproval, Thread, Types
<1>2. PICK o \in Outcome : Ends(p, o) /\ SetStatus(r, o, "pending_approval")
  BY DEF MarkRunPendingApproval
<1>3. /\ hit \subseteq hit'
      /\ r \in hit' \/ status'[r] = "pending_approval"
      /\ status'[r] \in {"pending_approval", status[r]}
      /\ \A q \in Runs : q # r => status'[q] = status[q]
  BY <1>1, <1>2, EndsRight, Statuses DEF Rows
<1>4. /\ work'[p].step = "ask" /\ work'[p].run = r /\ work'[p].as = work[p].as
      /\ work'[p].late = work[p].late
      /\ \A u \in Thread : u # p => work'[u] = work[u]
  BY <1>1, GoPipeline DEF MarkRunPendingApproval, Types
<1> USE DEF Rows
<1>5. LateHit'
  BY <1>1, <1>3, <1>4 DEF LateHit
<1>6. Begun'
  BY <1>1, <1>3, <1>4 DEF Begun, Busy
<1>7. Worked'
  BY <1>1, <1>3, <1>4 DEF Worked, Busy, Leaves
<1>8. Parked'
  BY <1>1, <1>3, <1>4 DEF Parked, Busy
<1>9. Sole'
  BY <1>1, <1>3, <1>4 DEF Sole, Busy, Active, Working
<1> QED BY <1>5, <1>6, <1>7, <1>8, <1>9

LEMMA FailKeeps ==
  ASSUME Types, Rows, NEW p \in Pipelines, Fail(p)
  PROVE  Rows'
<1> DEFINE r == work[p].run
<1>1. /\ UNCHANGED <<approval, overlapped>>
      /\ work[p].step = "fail" /\ r \in Runs
      /\ p \in Thread /\ \A q \in Pipelines : q \in Thread /\ q \notin Deciders
      /\ \A d \in Deciders : d \in Thread /\ d # p
  BY LifecycleAssumption, AtWork DEF Fail, Thread, Types
<1>2. PICK o \in Outcome : Ends(p, o) /\ SetStatus(r, o, "failed")
  BY DEF Fail
<1>3. /\ hit \subseteq hit'
      /\ r \in hit' \/ status'[r] = "failed"
      /\ status'[r] \in {"failed", status[r]}
      /\ \A q \in Runs : q # r => status'[q] = status[q]
  BY <1>1, <1>2, EndsRight, Statuses DEF Rows
<1>4. /\ work'[p] = Idle /\ Idle.late = FALSE /\ Idle.step = "idle"
      /\ \A q \in Runs : Idle.run # q
      /\ \A u \in Thread : u # p => work'[u] = work[u]
  BY <1>1, ReturnIdle, NotBusyIdle DEF Fail, Types, Idle
<1> USE DEF Rows
<1>5. LateHit'
  BY <1>1, <1>3, <1>4 DEF LateHit
<1>6. Begun'
  BY <1>1, <1>3, <1>4 DEF Begun, Busy
<1>7. Worked'
  BY <1>1, <1>3, <1>4 DEF Worked, Busy, Leaves
<1>8. Parked'
  BY <1>1, <1>3, <1>4 DEF Parked, Busy
<1>9. Sole'
  BY <1>1, <1>3, <1>4 DEF Sole, Busy, Active, Working
<1> QED BY <1>5, <1>6, <1>7, <1>8, <1>9

LEMMA CreateKeeps ==
  ASSUME Types, Rows, NEW p \in Pipelines, NEW r \in Runs, NEW who \in Origins, Create(p, r, who)
  PROVE  Rows'
<1>1. /\ UNCHANGED <<approval, overlapped>>
      /\ status[r] = "none" /\ work[p] = Idle /\ \A q \in Runs : Idle.run # q
      /\ p \in Thread /\ \A q \in Pipelines : q \in Thread /\ q \notin Deciders
      /\ \A d \in Deciders : d \in Thread /\ d # p
  BY LifecycleAssumption, NotBusyIdle DEF Create, Thread
<1>2. PICK o \in Outcome :
        /\ Costs(r, o) /\ SetStatus(r, o, "running")
        /\ IF o = "ok" THEN Does(p, Launched(r, who)) ELSE UNCHANGED work
  BY DEF Create
<1>3. /\ hit \subseteq hit'
      /\ r \in hit' \/ (o = "ok" /\ status'[r] = "running")
      /\ status'[r] \in {"running", "none"}
      /\ o = "ok" => status'[r] = "running"
      /\ \A q \in Runs : q # r => status'[q] = status[q]
  BY <1>1, <1>2, CostsRight, SetKeeps, Statuses DEF Types, RowsOK
<1>4. CASE o = "ok"
  <2>1. /\ work'[p].step = "plan" /\ work'[p].run = r /\ work'[p].late = FALSE
        /\ \A u \in Thread : u # p => work'[u] = work[u]
    BY <1>1, <1>2, <1>4, DoesWork DEF Types, Launched
  <2> USE DEF Rows
  <2>2. LateHit'
    BY <1>1, <1>3, <1>4, <2>1 DEF LateHit
  <2>3. Begun'
    BY <1>1, <1>3, <1>4, <2>1 DEF Begun, Busy
  <2>4. Worked'
    BY <1>1, <1>3, <1>4, <2>1 DEF Worked, Busy, Leaves
  <2>5. Parked'
    BY <1>1, <1>3, <1>4, <2>1 DEF Parked, Busy
  <2>7. approval[r] = "none" /\ \A u \in Thread : ~Busy(u, r)
    BY <1>1 DEF Begun
  <2>6. Sole'
    BY <1>1, <1>3, <1>4, <2>1, <2>7 DEF Sole, Busy, Active, Working
  <2> QED BY <2>2, <2>3, <2>4, <2>5, <2>6
<1>5. CASE o # "ok"
  <2>1. UNCHANGED work
    BY <1>2, <1>5
  <2> USE DEF Rows
  <2>2. LateHit'
    BY <1>1, <1>3, <1>5, <2>1 DEF LateHit
  <2>3. Begun'
    BY <1>1, <1>3, <1>5, <2>1 DEF Begun, Busy
  <2>4. Worked'
    BY <1>1, <1>3, <1>5, <2>1 DEF Worked, Busy, Leaves
  <2>5. Parked'
    BY <1>1, <1>3, <1>5, <2>1 DEF Parked, Busy
  <2>6. Sole'
    BY <1>1, <1>3, <1>5, <2>1 DEF Sole, Busy, Active, Working
  <2> QED BY <2>2, <2>3, <2>4, <2>5, <2>6
<1> QED BY <1>4, <1>5

LEMMA AskKeeps ==
  ASSUME Types, Rows, NEW p \in Pipelines, CreateBudgetApproval(p)
  PROVE  Rows'
<1> DEFINE r == work[p].run
<1>1. /\ UNCHANGED <<status, overlapped>>
      /\ work[p].step = "ask" /\ r \in Runs
      /\ p \in Thread /\ \A q \in Pipelines : q \in Thread /\ q \notin Deciders
      /\ \A d \in Deciders : d \in Thread /\ d # p
  BY LifecycleAssumption, AtWork DEF CreateBudgetApproval, Thread, Types
<1>2. PICK o \in Outcome :
        /\ Ends(p, o)
        /\ IF o \in Performed /\ Inserted(r)
           THEN asked' = Asked(r) /\ approval' = [approval EXCEPT ![r] = "pending"]
           ELSE UNCHANGED <<asked, approval>>
  BY DEF CreateBudgetApproval
<1>3. /\ hit \subseteq hit'
      /\ r \in hit' \/ approval'[r] = "pending"
      /\ approval'[r] \in {"pending", approval[r]}
      /\ \A q \in Runs : q # r => approval'[q] = approval[q]
  BY <1>1, <1>2, EndsKeeps, Statuses DEF Types, RowsOK, Rows, LateHit, Inserted
<1>4. CASE work[p].as = "trigger"
  <2>1. /\ work'[p] = Idle /\ Idle.late = FALSE /\ Idle.step = "idle"
        /\ \A q \in Runs : Idle.run # q
        /\ \A u \in Thread : u # p => work'[u] = work[u]
    BY <1>1, <1>4, ReturnIdle, NotBusyIdle DEF CreateBudgetApproval, Types, Idle
  <2> USE DEF Rows
  <2>2. LateHit'
    BY <1>1, <1>3, <1>4, <2>1 DEF LateHit
  <2>3. Begun'
    BY <1>1, <1>3, <1>4, <2>1 DEF Begun, Busy
  <2>4. Worked'
    BY <1>1, <1>3, <1>4, <2>1 DEF Worked, Busy, Leaves
  <2>5. Parked'
    BY <1>1, <1>3, <1>4, <2>1 DEF Parked, Busy
  <2>6. Sole'
    BY <1>1, <1>3, <1>4, <2>1 DEF Sole, Busy, Active, Working, ApprovalOf
  <2> QED BY <2>2, <2>3, <2>4, <2>5, <2>6
<1>5. CASE work[p].as # "trigger"
  <2>1. /\ work'[p].step = "fail" /\ work'[p].run = r /\ work'[p].as = work[p].as
        /\ work'[p].late = work[p].late
        /\ \A u \in Thread : u # p => work'[u] = work[u]
    BY <1>1, <1>5, GoPipeline DEF CreateBudgetApproval, Types
  <2> USE DEF Rows
  <2>2. LateHit'
    BY <1>1, <1>3, <1>5, <2>1 DEF LateHit
  <2>3. Begun'
    BY <1>1, <1>3, <1>5, <2>1 DEF Begun, Busy
  <2>4. Worked'
    BY <1>1, <1>3, <1>5, <2>1 DEF Worked, Busy, Leaves
  <2>5. Parked'
    BY <1>1, <1>3, <1>5, <2>1 DEF Parked, Busy
  <2>6. Sole'
    BY <1>1, <1>3, <1>5, <2>1 DEF Sole, Busy, Active, Working, ApprovalOf
  <2> QED BY <2>2, <2>3, <2>4, <2>5, <2>6
<1> QED BY <1>4, <1>5

LEMMA DeadlineKeeps ==
  ASSUME Types, Rows, NEW p \in Pipelines, Deadline(p)
  PROVE  Rows'
<1> DEFINE r == work[p].run
<1>1. /\ UNCHANGED <<status, approval, overlapped>>
      /\ p \in Thread /\ \A q \in Pipelines : q \in Thread /\ q \notin Deciders
      /\ \A d \in Deciders : d \in Thread /\ d # p
  BY LifecycleAssumption DEF Deadline, Thread
<1>2. work[p] \in Pipeline /\ r \in Runs
  <2>1. work[p] # Idle
    BY LifecycleAssumption DEF Deadline, Idle
  <2> QED BY <1>1, <2>1, AtWork DEF Types
<1>3. hit \subseteq hit' /\ r \in hit'
  BY <1>2, CostsKeeps DEF Deadline, Types
<1>4. /\ work'[p].step = work[p].step /\ work'[p].run = r /\ work'[p].as = work[p].as
      /\ work'[p].late = TRUE
      /\ \A u \in Thread : u # p => work'[u] = work[u]
  <2>1. work'[p] = [work[p] EXCEPT !.late = TRUE]
    BY <1>1, DoesWork DEF Deadline, Types
  <2> QED BY <1>1, <1>2, <2>1, DoesWork DEF Deadline, Types, Pipeline
<1> USE DEF Rows
<1>5. LateHit'
  BY <1>1, <1>2, <1>3, <1>4 DEF LateHit
<1>6. Begun'
  BY <1>1, <1>2, <1>3, <1>4 DEF Begun, Busy
<1>7. Worked'
  BY <1>1, <1>2, <1>3, <1>4 DEF Worked, Busy, Leaves
<1>8. Parked'
  BY <1>1, <1>2, <1>3, <1>4 DEF Parked, Busy
<1>9. Sole'
  BY <1>1, <1>2, <1>3, <1>4 DEF Sole, Busy, Active, Working
<1> QED BY <1>5, <1>6, <1>7, <1>8, <1>9

LEMMA GetKeeps ==
  ASSUME Types, Rows, NEW d \in Deciders, NEW r \in Runs, NEW v \in {"approved", "rejected"},
         GetPendingBudgetApproval(d, r, v)
  PROVE  Rows'
<1>1. /\ UNCHANGED <<status, approval, hit>> /\ work[d] = Idle
      /\ overlapped \subseteq overlapped'
      /\ r \in overlapped' \/ \A e \in Deciders : ~Busy(e, r)
      /\ d \in Thread /\ \A e \in Deciders : e \in Thread /\ e \notin Pipelines
      /\ \A q \in Pipelines : q \in Thread /\ q # d
  BY LifecycleAssumption DEF GetPendingBudgetApproval, Thread
<1>2. approval[r] = "pending"
  <2>1. asked # <<>> /\ Head(asked) = r
    BY DEF GetPendingBudgetApproval, Decidable
  <2>2. r \in Pending
    BY <2>1 DEF Types, ListOK, AskedOK, Pending
  <2> QED BY <2>2 DEF Types, ListOK
<1>3. /\ work'[d].step = "resolve" /\ work'[d].run = r
      /\ \A u \in Thread : u # d => work'[u] = work[u]
  BY <1>1, DoesWork DEF GetPendingBudgetApproval, Types
<1>4. \A q \in Runs : work[d].run # q
  BY <1>1, NotBusyIdle
<1> USE DEF Rows
<1>5. LateHit'
  BY <1>1, <1>2, <1>3, <1>4 DEF LateHit
<1>6. Begun'
  BY <1>1, <1>2, <1>3, <1>4 DEF Begun, Busy
<1>7. Worked'
  BY <1>1, <1>2, <1>3, <1>4 DEF Worked, Busy, Leaves
<1>8. Parked'
  BY <1>1, <1>2, <1>3, <1>4 DEF Parked, Busy
<1>9. Sole'
  BY <1>1, <1>2, <1>3, <1>4 DEF Sole, Busy, Active, Working, ApprovalOf
<1> QED BY <1>5, <1>6, <1>7, <1>8, <1>9

LEMMA ResolveKeeps ==
  ASSUME Types, Rows, NEW d \in Deciders, ResolveBudgetApproval(d)
  PROVE  Rows'
<1> DEFINE r == work[d].run
<1>1. /\ UNCHANGED <<status, overlapped>>
      /\ work[d].step = "resolve" /\ r \in Runs
      /\ work[d].as \in {"approved", "rejected"}
      /\ d \in Thread /\ \A e \in Deciders : e \in Thread /\ e \notin Pipelines
      /\ \A q \in Pipelines : q \in Thread /\ q # d
  BY LifecycleAssumption, AtWork DEF ResolveBudgetApproval, Thread, Types, Decision
<1>2. PICK o \in Outcome :
        /\ Costs(r, o)
        /\ IF o \in Performed
           THEN asked' = Others(r) /\ approval' = [approval EXCEPT ![r] = work[d].as]
           ELSE UNCHANGED <<asked, approval>>
        /\ IF o # "ok" THEN Return(d)
           ELSE GoTo(d, IF work[d].as = "approved" THEN "start" ELSE "reject")
  BY DEF ResolveBudgetApproval
<1>3. /\ hit \subseteq hit'
      /\ o # "ok" => r \in hit'
      /\ approval'[r] \in {work[d].as, approval[r]}
      /\ o = "ok" => approval'[r] = work[d].as
      /\ \A q \in Runs : q # r => approval'[q] = approval[q]
  BY <1>1, <1>2, CostsKeeps, Statuses DEF Types, RowsOK
<1>4. CASE o # "ok"
  <2>1. /\ work'[d] = Idle /\ Idle.late = FALSE /\ Idle.step = "idle"
        /\ \A q \in Runs : Idle.run # q
        /\ \A u \in Thread : u # d => work'[u] = work[u]
    BY <1>1, <1>2, <1>4, ReturnIdle, NotBusyIdle DEF Types, Idle
  <2> USE DEF Rows
  <2>2. LateHit'
    BY <1>1, <1>3, <1>4, <2>1 DEF LateHit
  <2>3. Begun'
    BY <1>1, <1>3, <1>4, <2>1 DEF Begun, Busy
  <2>4. Worked'
    BY <1>1, <1>3, <1>4, <2>1 DEF Worked, Busy, Leaves
  <2>5. Parked'
    BY <1>1, <1>3, <1>4, <2>1 DEF Parked, Busy
  <2>6. Sole'
    BY <1>1, <1>3, <1>4, <2>1 DEF Sole, Busy, Active, Working, ApprovalOf
  <2> QED BY <2>2, <2>3, <2>4, <2>5, <2>6
<1>5. CASE o = "ok"
  <2>1. /\ work'[d].step = IF work[d].as = "approved" THEN "start" ELSE "reject"
        /\ work'[d].run = r
        /\ \A u \in Thread : u # d => work'[u] = work[u]
    BY <1>1, <1>2, <1>5, GoDecision DEF Types
  <2> USE DEF Rows
  <2>2. LateHit'
    BY <1>1, <1>3, <1>5, <2>1 DEF LateHit
  <2>3. Begun'
    BY <1>1, <1>3, <1>5, <2>1 DEF Begun, Busy
  <2>4. Worked'
    BY <1>1, <1>3, <1>5, <2>1 DEF Worked, Busy, Leaves
  <2>5. Parked'
    BY <1>1, <1>3, <1>5, <2>1 DEF Parked, Busy
  <2>6. Sole'
    BY <1>1, <1>3, <1>5, <2>1 DEF Sole, Busy, Active, Working, ApprovalOf
  <2> QED BY <2>2, <2>3, <2>4, <2>5, <2>6
<1> QED BY <1>4, <1>5

LEMMA StartKeeps ==
  ASSUME Types, Rows, NEW d \in Deciders, NEW p \in Pipelines, Start(d, p)
  PROVE  Rows'
<1> DEFINE r == work[d].run
<1>1. /\ UNCHANGED <<approval, overlapped>>
      /\ work[d].step = "start" /\ r \in Runs /\ work[p] = Idle /\ p # d
      /\ d \in Thread /\ \A e \in Deciders : e \in Thread /\ e \notin Pipelines
      /\ \A q \in Pipelines : q \in Thread /\ q # d
      /\ p \in Thread /\ \A q \in Pipelines : q \in Thread /\ q \notin Deciders
      /\ \A e \in Deciders : e \in Thread /\ e # p
  BY LifecycleAssumption, AtWork DEF Start, Thread, Types
<1>2. PICK o \in Outcome :
        /\ Costs(r, o) /\ SetStatus(r, o, "running")
        /\ work' = [work EXCEPT ![d] = Idle, ![p] = IF o = "ok" THEN Launched(r, "decision") ELSE Idle]
  BY DEF Start
<1>3. /\ hit \subseteq hit'
      /\ r \in hit' \/ (o = "ok" /\ status'[r] = "running")
      /\ status'[r] \in {"running", status[r]}
      /\ \A q \in Runs : q # r => status'[q] = status[q]
  BY <1>1, <1>2, CostsRight, Statuses
<1>4. /\ work'[d] = Idle /\ Idle.late = FALSE /\ Idle.step = "idle"
      /\ \A q \in Runs : Idle.run # q
      /\ work'[p] = IF o = "ok" THEN Launched(r, "decision") ELSE Idle
      /\ \A u \in Thread : u # p /\ u # d => work'[u] = work[u]
  BY <1>1, <1>2, NotBusyIdle DEF Types, WorkOK, Idle
<1>5. /\ Launched(r, "decision").run = r /\ Launched(r, "decision").late = FALSE
      /\ Launched(r, "decision").step = "plan"
  BY DEF Launched
<1> USE DEF Rows
<1>6. LateHit'
  BY <1>1, <1>3, <1>4, <1>5 DEF LateHit
<1>7. Begun'
  BY <1>1, <1>3, <1>4, <1>5 DEF Begun, Busy
<1>8. Worked'
  BY <1>1, <1>3, <1>4, <1>5 DEF Worked, Busy, Leaves
<1>9. Parked'
  BY <1>1, <1>3, <1>4, <1>5 DEF Parked, Busy
<1>10. Sole'
  BY <1>1, <1>3, <1>4, <1>5 DEF Sole, Busy, Active, Working, ApprovalOf
<1> QED BY <1>6, <1>7, <1>8, <1>9, <1>10

LEMMA RejectKeeps ==
  ASSUME Types, Rows, NEW d \in Deciders, Reject(d)
  PROVE  Rows'
<1> DEFINE r == work[d].run
<1>1. /\ UNCHANGED <<approval, overlapped>>
      /\ work[d].step = "reject" /\ r \in Runs
      /\ d \in Thread /\ \A e \in Deciders : e \in Thread /\ e \notin Pipelines
      /\ \A q \in Pipelines : q \in Thread /\ q # d
  BY LifecycleAssumption, AtWork DEF Reject, Thread, Types
<1>2. PICK o \in Outcome :
        /\ Costs(r, o) /\ SetStatus(r, o, "rejected")
        /\ IF o = "ok" THEN GoTo(d, "finish") ELSE Return(d)
  BY DEF Reject
<1>3. /\ hit \subseteq hit'
      /\ r \in hit' \/ (o = "ok" /\ status'[r] = "rejected")
      /\ status'[r] \in {"rejected", status[r]}
      /\ \A q \in Runs : q # r => status'[q] = status[q]
  BY <1>1, <1>2, CostsRight, Statuses
<1>4. CASE Return(d)
  <2>1. /\ work'[d] = Idle /\ Idle.late = FALSE /\ Idle.step = "idle"
        /\ \A q \in Runs : Idle.run # q
        /\ \A u \in Thread : u # d => work'[u] = work[u]
    BY <1>1, <1>4, ReturnIdle, NotBusyIdle DEF Types, Idle
  <2> USE DEF Rows
  <2>2. LateHit'
    BY <1>1, <1>3, <2>1 DEF LateHit
  <2>3. Begun'
    BY <1>1, <1>3, <2>1 DEF Begun, Busy
  <2>4. Worked'
    BY <1>1, <1>3, <2>1 DEF Worked, Busy, Leaves
  <2>5. Parked'
    BY <1>1, <1>3, <2>1 DEF Parked, Busy
  <2>6. Sole'
    BY <1>1, <1>3, <2>1 DEF Sole, Busy, Active, Working, ApprovalOf
  <2> QED BY <2>2, <2>3, <2>4, <2>5, <2>6
<1>5. CASE GoTo(d, "finish")
  <2>1. /\ work'[d].step = "finish" /\ work'[d].run = r
        /\ \A u \in Thread : u # d => work'[u] = work[u]
    BY <1>1, <1>5, GoDecision DEF Types
  <2> USE DEF Rows
  <2>2. LateHit'
    BY <1>1, <1>3, <2>1 DEF LateHit
  <2>3. Begun'
    BY <1>1, <1>3, <2>1 DEF Begun, Busy
  <2>4. Worked'
    BY <1>1, <1>3, <2>1 DEF Worked, Busy, Leaves
  <2>5. Parked'
    BY <1>1, <1>3, <2>1 DEF Parked, Busy
  <2>6. Sole'
    BY <1>1, <1>3, <2>1 DEF Sole, Busy, Active, Working, ApprovalOf
  <2> QED BY <2>2, <2>3, <2>4, <2>5, <2>6
<1> QED BY <1>2, <1>4, <1>5

LEMMA FinishKeeps ==
  ASSUME Types, Rows, NEW d \in Deciders, FinishRejected(d)
  PROVE  Rows'
<1> DEFINE r == work[d].run
<1>1. /\ UNCHANGED <<approval, overlapped>>
      /\ work[d].step = "finish" /\ r \in Runs
      /\ d \in Thread /\ \A e \in Deciders : e \in Thread /\ e \notin Pipelines
      /\ \A q \in Pipelines : q \in Thread /\ q # d
  BY LifecycleAssumption, AtWork DEF FinishRejected, Thread, Types
<1>2. PICK o \in Outcome :
        /\ Costs(r, o) /\ SetStatus(r, o, "rejected")
        /\ Return(d)
  BY DEF FinishRejected
<1>3. /\ hit \subseteq hit'
      /\ r \in hit' \/ (o = "ok" /\ status'[r] = "rejected")
      /\ status'[r] \in {"rejected", status[r]}
      /\ \A q \in Runs : q # r => status'[q] = status[q]
  BY <1>1, <1>2, CostsRight, Statuses
<1>4. CASE Return(d)
  <2>1. /\ work'[d] = Idle /\ Idle.late = FALSE /\ Idle.step = "idle"
        /\ \A q \in Runs : Idle.run # q
        /\ \A u \in Thread : u # d => work'[u] = work[u]
    BY <1>1, <1>4, ReturnIdle, NotBusyIdle DEF Types, Idle
  <2> USE DEF Rows
  <2>2. LateHit'
    BY <1>1, <1>3, <2>1 DEF LateHit
  <2>3. Begun'
    BY <1>1, <1>3, <2>1 DEF Begun, Busy
  <2>4. Worked'
    BY <1>1, <1>3, <2>1 DEF Worked, Busy, Leaves
  <2>5. Parked'
    BY <1>1, <1>3, <2>1 DEF Parked, Busy
  <2>6. Sole'
    BY <1>1, <1>3, <2>1 DEF Sole, Busy, Active, Working, ApprovalOf
  <2> QED BY <2>2, <2>3, <2>4, <2>5, <2>6
<1> QED BY <1>2, <1>4

LEMMA CrashKeeps ==
  ASSUME Types, Rows, NEW T \in SUBSET Thread, Crash(T)
  PROVE  Rows'
<1>1. /\ UNCHANGED <<status, approval, overlapped>> /\ hit \subseteq hit'
      /\ \A u \in T : work[u].run \in hit'
      /\ \A u \in Thread : work'[u] = IF u \in T THEN Idle ELSE work[u]
      /\ Pipelines \subseteq Thread /\ Deciders \subseteq Thread
  BY DEF Crash, Thread
<1>2. Idle.late = FALSE /\ Idle.step = "idle" /\ \A q \in Runs : Idle.run # q
  BY NotBusyIdle DEF Idle
<1> USE DEF Rows
<1>3. LateHit'
  BY <1>1, <1>2 DEF LateHit
<1>4. Begun'
  BY <1>1, <1>2 DEF Begun, Busy
<1>5. Worked'
  BY <1>1, <1>2 DEF Worked, Busy, Leaves
<1>6. Parked'
  BY <1>1, <1>2 DEF Parked, Busy
<1>7. Sole'
  BY <1>1, <1>2 DEF Sole, Busy, Active, Working, ApprovalOf
<1> QED BY <1>3, <1>4, <1>5, <1>6, <1>7

-----------------------------------------------------------------------------
(* The invariant, and what follows from it.                                 *)

LEMMA InitRows == Init => Types /\ Rows
<1> SUFFICES ASSUME Init PROVE Types /\ Rows
  OBVIOUS
<1> USE LifecycleAssumption DEF Init
<1>1. \A t \in Thread : work[t] = Idle /\ \A r \in Runs : ~Busy(t, r)
  BY NotBusyIdle DEF Busy
<1>2. \A p \in Pipelines : p \in Thread
  BY DEF Thread
<1>3. \A d \in Deciders : d \in Thread
  BY DEF Thread
<1>4. RowsOK
  BY DEF RowsOK, Status
<1>5. WorkOK
  BY <1>2, <1>3 DEF WorkOK
<1>6. ListOK
  <2>1. asked \in Seq(Runs) /\ Len(asked) = 0
    OBVIOUS
  <2> QED BY <2>1 DEF ListOK, AskedOK, Unique, Pending
<1>7. LateHit /\ Begun
  BY <1>1, <1>2 DEF LateHit, Begun, Idle
<1>8. Worked /\ Parked
  BY DEF Worked, Parked
<1>9. Sole
  BY <1>1, <1>2, <1>3 DEF Sole, Active
<1> QED BY <1>4, <1>5, <1>6, <1>7, <1>8, <1>9 DEF Types, Rows

LEMMA TypesStep == Types /\ [Next]_vars => Types'
  BY RowsStep, WorkStep, ListStep DEF Types

LEMMA RowsAreKept == Types /\ Rows /\ [Next]_vars => Rows'
<1> SUFFICES ASSUME Types, Rows, [Next]_vars PROVE Rows'
  OBVIOUS
<1>1. CASE Next
  BY <1>1, CreateKeeps, PlanKeeps, ThinkKeeps, MarkKeeps, AskKeeps, FailKeeps, DeadlineKeeps,
     GetKeeps, ResolveKeeps, StartKeeps, RejectKeeps, FinishKeeps, CrashKeeps
  DEF Next, Process, Decide, Answer
<1>2. CASE UNCHANGED vars
  BY <1>2 DEF vars, Rows, LateHit, Begun, Worked, Parked, Sole, Active, Busy, Leaves
<1> QED BY <1>1, <1>2

LEMMA RowsHold == Spec => [](Types /\ Rows)
  BY InitRows, TypesStep, RowsAreKept, PTL DEF Spec

\* Whatever pipelines, decisions and crashes do in any order, a run has one
\* row of run_budget_approvals and the list of the pending ones is theirs.
THEOREM TypeCorrect == Spec => []TypeOK
<1>1. Types => TypeOK
  BY DEF Types, RowsOK, WorkOK, ListOK, AskedOK, Unique, TypeOK
<1> QED BY <1>1, RowsHold, PTL

\* A run that no fault has struck is worked on while it is running: every
\* pipeline writes the status before it leaves the run (processRun).
THEOREM RunningRunsAreWorkedOn == Spec => []RunningIsWorkedOn
<1>1. Rows => RunningIsWorkedOn
  BY DEF Rows, Worked, RunningIsWorkedOn
<1> QED BY <1>1, RowsHold, PTL

\* A run that no fault has struck is not left in pending_approval without
\* the request that a user can decide (CreateBudgetApproval).
THEOREM ParkedRunsCanBeDecided == Spec => []ParkedCanBeDecided
<1>1. Types /\ Rows => ParkedCanBeDecided
  BY DEF Rows, Parked, ParkedCanBeDecided
<1> QED BY <1>1, RowsHold, PTL

\* However many pipelines there are and whatever fails, a run that was not
\* decided on twice at once has one that spends its budget, and none while it
\* waits for a decision or is rejected (budgetDecision).
THEOREM OneWorkerAtATime == Spec => []OneWorker
<1>1. Rows => OneWorker
  BY DEF Rows, Sole, Active, OneWorker
<1> QED BY <1>1, RowsHold, PTL

-----------------------------------------------------------------------------
(* The permission to spend.                                                 *)

\* The steps Permission allows one run.
Allowed ==
  { <<"new", "spending">>, <<"new", "resting">>, <<"spending", "resting">>, <<"given", "resting">>,
    <<"resting", "asked">>, <<"asked", "given">>, <<"asked", "refused">>, <<"asked", "resting">>,
    <<"given", "spending">>, <<"asked", "contested">> }

\* A step is Permission's when one run makes an allowed one and no other moves.
LEMMA OneMoves ==
  ASSUME NEW r \in Runs,
         \A q \in Runs : q # r => Stage(q)' = Stage(q),
         Stage(r)' = Stage(r) \/ <<Stage(r), Stage(r)'>> \in Allowed
  PROVE  [Permit!Next]_[q \in Runs |-> Stage(q)]
<1> DEFINE m == [q \in Runs |-> Stage(q)]
<1>1. CASE Stage(r)' = Stage(r)
  BY <1>1
<1>2. CASE <<Stage(r), Stage(r)'>> \in Allowed
  <2>1. PICK a, b : <<a, b>> \in Allowed /\ Stage(r) = a /\ Stage(r)' = b
    BY <1>2
  <2>2. m[r] = a /\ m' = [m EXCEPT ![r] = b]
    <3>1. m' = [q \in Runs |-> Stage(q)']
      OBVIOUS
    <3> QED BY <2>1, <3>1
  <2>3. Permit!Moves(r, a, b)
    BY <2>2 DEF Permit!Moves
  <2>4. CASE b = "resting" /\ a \in {"spending", "given"}
    <3>1. {r} # {} /\ \A q \in {r} : m[q] \in {"spending", "given"}
      BY <2>2, <2>4
    <3>2. m' = [q \in Runs |-> IF q \in {r} THEN "resting" ELSE m[q]]
      BY <2>2, <2>4
    <3>3. Permit!Rest({r})
      BY <3>1, <3>2 DEF Permit!Rest
    <3> QED BY <3>3 DEF Permit!Next
  <2>5. CASE ~(b = "resting" /\ a \in {"spending", "given"})
    <3>1. Permit!Begin(r) \/ Permit!Ask(r) \/ Permit!Decide(r) \/ Permit!Use(r) \/ Permit!Contest(r)
      BY <2>1, <2>3, <2>5
      DEF Allowed, Permit!Begin, Permit!Ask, Permit!Decide, Permit!Use, Permit!Contest
    <3> QED BY <3>1 DEF Permit!Next
  <2> QED BY <2>4, <2>5
<1> QED BY <1>1, <1>2

\* What the stage of a run does not see.
LEMMA StageStays ==
  ASSUME NEW q \in Runs,
         approval'[q] = approval[q],
         status'[q] = "none" <=> status[q] = "none",
         q \in overlapped' <=> q \in overlapped,
         Spends(q)' <=> Spends(q),
         Granted(q)' <=> Granted(q)
  PROVE  Stage(q)' = Stage(q)
<1>1. CASE q \in overlapped
  BY <1>1 DEF Stage
<1>2. CASE q \notin overlapped /\ Spends(q)
  BY <1>2 DEF Stage
<1>3. CASE q \notin overlapped /\ ~Spends(q)
  <2> DEFINE rest(a, g, n) == CASE a = "pending" -> "asked"
                                [] a = "rejected" -> "refused"
                                [] a = "approved" -> IF g THEN "given" ELSE "resting"
                                [] a = "none" -> IF n THEN "new" ELSE "resting"
  <2>1. Stage(q) = rest(approval[q], Granted(q), status[q] = "none")
    BY <1>3, Zenon DEF Stage
  <2>2. Stage(q)' = rest(approval'[q], Granted(q)', status'[q] = "none")
    BY <1>3, Zenon DEF Stage
  <2> QED BY <2>1, <2>2
<1> QED BY <1>1, <1>2, <1>3

\* A step of the threads of run r is not seen by the other runs.
LEMMA OthersStay ==
  ASSUME NEW r, NEW q \in Runs, q # r,
         approval'[q] = approval[q],
         status'[q] = status[q],
         q \in overlapped' <=> q \in overlapped,
         \A t \in Thread : work'[t] = work[t] \/ (work[t].run \in {r, None} /\ work'[t].run \in {r, None})
  PROVE  Stage(q)' = Stage(q)
<1>1. q # None
  BY LifecycleAssumption
<1>2. \A t \in Thread : work[t].run = q \/ work'[t].run = q => work'[t] = work[t]
  BY <1>1
<1>3. Spends(q)' <=> Spends(q)
  BY <1>2 DEF Spends, Busy, Thread
<1>4. Granted(q)' <=> Granted(q)
  BY <1>2 DEF Granted, Busy, Thread
<1> QED BY <1>3, <1>4, StageStays

\* A pipeline that has not yet failed or asked, of a run that is not contested.
LEMMA BeforeAsking ==
  ASSUME Rows, NEW p \in Pipelines, work[p].run \in Runs \ overlapped,
         work[p].step \in Working \cup {"mark", "ask"}
  PROVE  /\ approval[work[p].run] \notin {"pending", "rejected"}
         /\ \A q \in Pipelines :
              Busy(q, work[p].run) /\ work[q].step \in Working \cup {"mark", "ask"} => q = p
         /\ \A d \in Deciders : ~Busy(d, work[p].run)
         /\ status[work[p].run] # "none"
<1> DEFINE r == work[p].run
<1>1. r \in Runs /\ r \notin overlapped /\ p \in Active(r) /\ Busy(p, r) /\ p \in Thread
  BY DEF Active, Busy, Thread
<1>2. /\ \A q \in Active(r) : q = p
      /\ approval[r] \notin {"pending", "rejected"}
      /\ \A d \in Deciders : ~Busy(d, r)
  BY <1>1 DEF Rows, Sole
<1>3. status[r] # "none"
  BY <1>1 DEF Rows, Begun
<1> QED BY <1>2, <1>3 DEF Active

\* Nobody spends: the row and the request tell the stage.
LEMMA Unspent ==
  ASSUME NEW r \in Runs \ overlapped, ~Spends(r)
  PROVE  /\ approval[r] = "pending" => Stage(r) = "asked"
         /\ approval[r] = "rejected" => Stage(r) = "refused"
         /\ approval[r] = "approved" => Stage(r) = IF Granted(r) THEN "given" ELSE "resting"
         /\ approval[r] = "none" => Stage(r) = IF status[r] = "none" THEN "new" ELSE "resting"
  BY DEF Stage

LEMMA UnspentNext ==
  ASSUME NEW r \in Runs \ overlapped', ~Spends(r)'
  PROVE  /\ approval'[r] = "pending" => Stage(r)' = "asked"
         /\ approval'[r] = "rejected" => Stage(r)' = "refused"
         /\ approval'[r] = "approved" => Stage(r)' = IF Granted(r)' THEN "given" ELSE "resting"
         /\ approval'[r] = "none" => Stage(r)' = IF status'[r] = "none" THEN "new" ELSE "resting"
  BY DEF Stage

\* A step of the threads of one run, seen by the rows of that run only.
LEMMA StepMoves ==
  ASSUME NEW r \in Runs,
         \A q \in Runs : q # r =>
           /\ approval'[q] = approval[q] /\ status'[q] = status[q]
           /\ q \in overlapped' <=> q \in overlapped,
         \A t \in Thread : work'[t] = work[t] \/ (work[t].run \in {r, None} /\ work'[t].run \in {r, None}),
         r \in overlapped => r \in overlapped',
         r \notin overlapped => Stage(r)' = Stage(r) \/ <<Stage(r), Stage(r)'>> \in Allowed
  PROVE  [Permit!Next]_[q \in Runs |-> Stage(q)]
<1>1. \A q \in Runs : q # r => Stage(q)' = Stage(q)
  BY OthersStay
<1>2. CASE r \in overlapped
  <2>1. Stage(r)' = Stage(r)
    BY <1>2 DEF Stage
  <2> QED BY <1>1, <2>1, OneMoves
<1>3. CASE r \notin overlapped
  BY <1>1, <1>3, OneMoves
<1> QED BY <1>2, <1>3

\* The plan leaves the money to the orchestrator, or ends the work.
LEMMA PlanMoves ==
  ASSUME Types, Rows, NEW p \in Pipelines, Plan(p)
  PROVE  [Permit!Next]_[q \in Runs |-> Stage(q)]
<1>0. PICK r \in Runs : work[p].run = r
  BY AtWork DEF Plan, Types
<1>1. /\ UNCHANGED <<status, approval, overlapped>> /\ work[p].step = "plan" /\ work[p].run = r
      /\ p \in Thread /\ p \notin Deciders
  BY <1>0, LifecycleAssumption DEF Plan, Thread
<1>2. PICK s \in {"fail", "mark", "think"} : GoTo(p, s)
  BY DEF Plan, Gated
<1>3. /\ work'[p].step = s /\ work'[p].run = r
      /\ \A u \in Thread : u # p => work'[u] = work[u]
  BY <1>1, <1>2, GoPipeline DEF Types
<1>4. ASSUME r \notin overlapped
      PROVE  Stage(r)' = Stage(r) \/ <<Stage(r), Stage(r)'>> \in Allowed
  <2>1. Spends(r) /\ Stage(r) = "spending"
    BY <1>1, <1>4 DEF Spends, Busy, Working, Stage
  <2>2. CASE Spends(r)'
    BY <1>1, <1>4, <2>1, <2>2 DEF Stage
  <2>3. CASE ~Spends(r)'
    <3>1. /\ approval[r] \in {"none", "approved"} /\ status[r] # "none"
          /\ \A d \in Deciders : ~Busy(d, r)
      BY <1>1, <1>4, BeforeAsking DEF Working, Types, RowsOK
    <3>2. ~Granted(r)'
      BY <1>1, <1>3, <3>1 DEF Granted, Busy, Thread
    <3>3. Stage(r)' = "resting"
      BY <1>1, <1>4, <2>3, <3>1, <3>2, UnspentNext
    <3> QED BY <2>1, <3>3 DEF Allowed
  <2> QED BY <2>2, <2>3
<1> QED BY <1>1, <1>3, <1>4, StepMoves

\* The orchestrator's work ends, with any result.
LEMMA ThinkMoves ==
  ASSUME Types, Rows, NEW p \in Pipelines, Think(p)
  PROVE  [Permit!Next]_[q \in Runs |-> Stage(q)]
<1>0. PICK r \in Runs : work[p].run = r
  BY AtWork DEF Think, Types
<1>1. /\ UNCHANGED <<approval, overlapped>> /\ work[p].step = "think" /\ work[p].run = r
      /\ p \in Thread /\ p \notin Deciders
  BY <1>0, LifecycleAssumption DEF Think, Thread
<1>2. /\ work'[p].step \notin Working /\ work'[p].run \in {r, None}
      /\ \A u \in Thread : u # p => work'[u] = work[u]
  <2>1. CASE GoTo(p, "fail")
    BY <1>1, <2>1, GoPipeline DEF Types, Working
  <2>2. CASE Return(p)
    BY <1>1, <2>2, ReturnIdle DEF Types, Working, Idle
  <2> QED BY <2>1, <2>2 DEF Think
<1>3. status'[r] \in {status[r], "succeeded", "failed"} /\ \A q \in Runs : q # r => status'[q] = status[q]
  <2>1. CASE UNCHANGED status
    BY <2>1
  <2>2. CASE \E o \in Outcome, s \in Finished : Ends(p, o) /\ SetStatus(r, o, s)
    BY <2>2, <1>1, SetKeeps, Statuses DEF Types, RowsOK
  <2> QED BY <1>1, <2>1, <2>2 DEF Think
<1>4. ASSUME r \notin overlapped
      PROVE  <<Stage(r), Stage(r)'>> \in Allowed
  <2>1. Stage(r) = "spending"
    BY <1>1, <1>4 DEF Spends, Busy, Working, Stage
  <2>2. /\ approval[r] \in {"none", "approved"} /\ status[r] # "none"
        /\ \A d \in Deciders : ~Busy(d, r)
        /\ \A q \in Pipelines : Busy(q, r) /\ work[q].step \in Working => q = p
    BY <1>1, <1>4, BeforeAsking DEF Working, Types, RowsOK
  <2>3. ~Spends(r)'
    BY <1>2, <2>2 DEF Spends, Busy, Thread
  <2>4. ~Granted(r)'
    BY <1>1, <1>2, <2>2 DEF Granted, Busy, Thread
  <2>5. Stage(r)' = "resting"
    BY <1>1, <1>3, <1>4, <2>2, <2>3, <2>4, UnspentNext
  <2> QED BY <2>1, <2>5 DEF Allowed
<1> QED BY <1>1, <1>2, <1>3, <1>4, StepMoves

\* Marking a run, failing it and a deadline move no money.
LEMMA PipelineStays ==
  ASSUME Types, Rows, NEW p \in Pipelines, MarkRunPendingApproval(p) \/ Fail(p) \/ Deadline(p)
  PROVE  [Permit!Next]_[q \in Runs |-> Stage(q)]
<1>0. PICK r \in Runs : work[p].run = r
  <2>1. work[p] # Idle
    BY LifecycleAssumption DEF MarkRunPendingApproval, Fail, Deadline, Idle
  <2> QED BY <2>1, AtWork DEF Types, Thread
<1>1. /\ UNCHANGED <<approval, overlapped>> /\ work[p].run = r /\ work[p].step # "idle"
      /\ p \in Thread /\ p \notin Deciders
  <2>1. work[p] # Idle
    BY LifecycleAssumption DEF MarkRunPendingApproval, Fail, Deadline, Idle
  <2> QED BY <1>0, <2>1, LifecycleAssumption, AtWork DEF MarkRunPendingApproval, Fail, Deadline, Thread, Types
<1>2. /\ work'[p].step \in Working <=> work[p].step \in Working
      /\ work'[p].step \in Working => work'[p].run = r
      /\ work'[p].run \in {r, None}
      /\ \A u \in Thread : u # p => work'[u] = work[u]
  <2>1. CASE MarkRunPendingApproval(p)
    BY <1>1, <2>1, GoPipeline DEF MarkRunPendingApproval, Types, Working
  <2>2. CASE Fail(p)
    BY <1>1, <2>2, ReturnIdle DEF Fail, Types, Working, Idle
  <2>3. CASE Deadline(p)
    <3>1. work[p] \in Pipeline
      BY <1>1, AtWork DEF Types
    <3>2. work'[p] = [work[p] EXCEPT !.late = TRUE] /\ \A u \in Thread : u # p => work'[u] = work[u]
      BY <1>1, <2>3, DoesWork DEF Deadline, Types
    <3> QED BY <1>1, <3>1, <3>2 DEF Pipeline
  <2> QED BY <2>1, <2>2, <2>3
<1>3. status[r] # "none" /\ status'[r] # "none" /\ \A q \in Runs : q # r => status'[q] = status[q]
  <2>1. status[r] # "none"
    BY <1>1 DEF Rows, Begun, Busy
  <2>2. CASE UNCHANGED status
    BY <2>1, <2>2
  <2>3. CASE \E o \in Outcome, s \in {"failed", "pending_approval"} : SetStatus(r, o, s)
    BY <2>1, <2>3, SetKeeps, Statuses DEF Types, RowsOK
  <2> QED BY <1>1, <2>2, <2>3 DEF MarkRunPendingApproval, Fail, Deadline
<1>4. Spends(r)' <=> Spends(r)
  BY <1>1, <1>2 DEF Spends, Busy, Thread
<1>5. Granted(r)' <=> Granted(r)
  BY <1>1, <1>2 DEF Granted, Busy, Thread
<1>6. Stage(r)' = Stage(r)
  BY <1>1, <1>3, <1>4, <1>5, StageStays
<1> QED BY <1>1, <1>2, <1>3, <1>6, StepMoves

\* The work of the run rests until the request is decided.
LEMMA AskMoves ==
  ASSUME Types, Rows, NEW p \in Pipelines, CreateBudgetApproval(p)
  PROVE  [Permit!Next]_[q \in Runs |-> Stage(q)]
<1>0. PICK r \in Runs : work[p].run = r
  BY AtWork DEF CreateBudgetApproval, Types
<1>1. /\ UNCHANGED <<status, overlapped>> /\ work[p].step = "ask" /\ work[p].run = r
      /\ p \in Thread /\ p \notin Deciders
  BY <1>0, LifecycleAssumption DEF CreateBudgetApproval, Thread
<1>2. /\ work'[p].step \notin Working /\ work'[p].run \in {r, None}
      /\ \A u \in Thread : u # p => work'[u] = work[u]
  <2>1. CASE GoTo(p, "fail")
    BY <1>1, <2>1, GoPipeline DEF Types, Working
  <2>2. CASE Return(p)
    BY <1>1, <2>2, ReturnIdle DEF Types, Working, Idle
  <2> QED BY <2>1, <2>2 DEF CreateBudgetApproval
<1>3. approval'[r] \in {approval[r], "pending"} /\ \A q \in Runs : q # r => approval'[q] = approval[q]
  BY <1>1 DEF CreateBudgetApproval, Types, RowsOK
<1>4. ASSUME r \notin overlapped
      PROVE  Stage(r)' = Stage(r) \/ <<Stage(r), Stage(r)'>> \in Allowed
  <2>1. /\ approval[r] \in {"none", "approved"} /\ status[r] # "none"
        /\ \A d \in Deciders : ~Busy(d, r)
        /\ \A q \in Pipelines : Busy(q, r) /\ work[q].step \in Working => q = p
    BY <1>1, <1>4, BeforeAsking DEF Working, Types, RowsOK
  <2>2. ~Spends(r) /\ ~Spends(r)'
    BY <1>1, <1>2, <2>1 DEF Spends, Busy, Thread, Working
  <2>3. ~Granted(r) /\ ~Granted(r)'
    BY <1>1, <1>2, <2>1 DEF Granted, Busy, Thread
  <2>4. Stage(r) = "resting"
    BY <1>4, <2>1, <2>2, <2>3, Unspent
  <2>5. Stage(r)' \in {"resting", "asked"}
    BY <1>1, <1>3, <1>4, <2>1, <2>2, <2>3, UnspentNext
  <2> QED BY <2>4, <2>5 DEF Allowed
<1> QED BY <1>1, <1>2, <1>3, <1>4, StepMoves

\* A new run spends, unless its trigger was lost.
LEMMA CreateMoves ==
  ASSUME Types, Rows, NEW p \in Pipelines, NEW r \in Runs, NEW who \in Origins, Create(p, r, who)
  PROVE  [Permit!Next]_[q \in Runs |-> Stage(q)]
<1>1. /\ UNCHANGED <<approval, overlapped>> /\ status[r] = "none" /\ work[p] = Idle
      /\ p \in Thread /\ p \notin Deciders
  BY LifecycleAssumption DEF Create, Thread
<1>2. PICK o \in Outcome :
        /\ SetStatus(r, o, "running")
        /\ IF o = "ok" THEN Does(p, Launched(r, who)) ELSE UNCHANGED work
  BY DEF Create
<1>3. status'[r] \in {"none", "running"} /\ \A q \in Runs : q # r => status'[q] = status[q]
  BY <1>1, <1>2, SetKeeps, Statuses DEF Types, RowsOK
<1>4. o = "ok" => /\ work'[p] = Launched(r, who) /\ Launched(r, who).run = r
                  /\ Launched(r, who).step = "plan"
                  /\ \A u \in Thread : u # p => work'[u] = work[u]
  BY <1>1, <1>2, DoesWork DEF Types, Launched
<1>5. approval[r] = "none" /\ \A u \in Thread : ~Busy(u, r)
  BY <1>1 DEF Rows, Begun
<1>6. ASSUME r \notin overlapped
      PROVE  Stage(r)' = Stage(r) \/ <<Stage(r), Stage(r)'>> \in Allowed
  <2>1. ~Spends(r)
    BY <1>5 DEF Spends, Thread
  <2>2. Stage(r) = "new"
    BY <1>1, <1>5, <1>6, <2>1, Unspent
  <2>3. CASE o = "ok"
    <3>1. Spends(r)'
      BY <1>4, <2>3 DEF Spends, Busy, Working
    <3>2. Stage(r)' = "spending"
      BY <1>1, <1>6, <3>1 DEF Stage
    <3> QED BY <2>2, <3>2 DEF Allowed
  <2>4. CASE o # "ok"
    <3>1. ~Spends(r)'
      BY <1>2, <1>5, <2>4 DEF Spends, Busy, Thread
    <3>2. Stage(r)' \in {"new", "resting"}
      BY <1>1, <1>3, <1>5, <1>6, <3>1, UnspentNext
    <3> QED BY <2>2, <3>2 DEF Allowed
  <2> QED BY <2>3, <2>4
<1>7. \A t \in Thread : work'[t] = work[t] \/ (work[t].run \in {r, None} /\ work'[t].run \in {r, None})
  BY <1>1, <1>2, <1>4 DEF Idle
<1> QED BY <1>1, <1>3, <1>6, <1>7, StepMoves

\* A request in flight on a run that is not contested: nobody spends, and no
\* other request is in flight on it.
LEMMA WhileDeciding ==
  ASSUME Rows, NEW r \in Runs \ overlapped, NEW d \in Deciders, Busy(d, r)
  PROVE  /\ ~Spends(r)
         /\ approval[r] = ApprovalOf(work[d].step)
         /\ status[r] # "none"
         /\ \A e \in Deciders : Busy(e, r) => e = d
<1>1. Active(r) = {} /\ approval[r] = ApprovalOf(work[d].step)
  BY DEF Rows, Sole
<1>2. \A e \in Deciders : Busy(e, r) => e = d
  BY DEF Rows, Sole
<1>3. ~Spends(r)
  BY <1>1 DEF Spends, Active
<1>4. status[r] # "none"
  BY DEF Rows, Begun, Thread
<1> QED BY <1>1, <1>2, <1>3, <1>4

\* A second decision contests the run, a first one changes nothing yet.
LEMMA GetMoves ==
  ASSUME Types, Rows, NEW d \in Deciders, NEW r \in Runs, NEW v \in {"approved", "rejected"},
         GetPendingBudgetApproval(d, r, v)
  PROVE  [Permit!Next]_[q \in Runs |-> Stage(q)]
<1>1. /\ UNCHANGED <<status, approval>> /\ work[d] = Idle
      /\ overlapped' \in {overlapped, overlapped \cup {r}}
      /\ d \in Thread /\ d \notin Pipelines
  BY LifecycleAssumption DEF GetPendingBudgetApproval, Thread
<1>2. approval[r] = "pending"
  <2>1. asked # <<>> /\ Head(asked) = r
    BY DEF GetPendingBudgetApproval, Decidable
  <2>2. r \in Pending
    BY <2>1 DEF Types, ListOK, AskedOK, Pending
  <2> QED BY <2>2 DEF Types, ListOK
<1>3. /\ work'[d].step = "resolve" /\ work'[d].run = r
      /\ \A u \in Thread : u # d => work'[u] = work[u]
  BY <1>1, DoesWork DEF GetPendingBudgetApproval, Types
<1>4. ASSUME r \notin overlapped
      PROVE  Stage(r)' = Stage(r) \/ <<Stage(r), Stage(r)'>> \in Allowed
  <2>1. ~Spends(r)
    BY <1>2, <1>4 DEF Rows, Sole, Spends, Active
  <2>2. Stage(r) = "asked"
    BY <1>2, <1>4, <2>1, Unspent
  <2>3. ~Spends(r)'
    BY <1>1, <1>3, <2>1 DEF Spends, Busy, Thread
  <2>4. CASE r \in overlapped'
    <3>1. Stage(r)' = "contested"
      BY <2>4 DEF Stage
    <3> QED BY <2>2, <3>1 DEF Allowed
  <2>5. CASE r \notin overlapped'
    BY <1>1, <1>2, <2>2, <2>3, <2>5, UnspentNext
  <2> QED BY <2>4, <2>5
<1>5. \A t \in Thread : work'[t] = work[t] \/ (work[t].run \in {r, None} /\ work'[t].run \in {r, None})
  BY <1>1, <1>3 DEF Idle
<1> QED BY <1>1, <1>4, <1>5, StepMoves

\* The answer is given, refused, or lost with its reply.
LEMMA ResolveMoves ==
  ASSUME Types, Rows, NEW d \in Deciders, ResolveBudgetApproval(d)
  PROVE  [Permit!Next]_[q \in Runs |-> Stage(q)]
<1>0. PICK r \in Runs : work[d].run = r
  BY AtWork DEF ResolveBudgetApproval, Types
<1>1. /\ UNCHANGED <<status, overlapped>> /\ work[d].step = "resolve" /\ work[d].run = r
      /\ work[d].as \in {"approved", "rejected"}
      /\ d \in Thread /\ d \notin Pipelines
  BY <1>0, LifecycleAssumption, AtWork DEF ResolveBudgetApproval, Thread, Types, Decision
<1>2. PICK o \in Outcome :
        /\ IF o \in Performed
           THEN approval' = [approval EXCEPT ![r] = work[d].as]
           ELSE UNCHANGED approval
        /\ IF o # "ok" THEN Return(d)
           ELSE GoTo(d, IF work[d].as = "approved" THEN "start" ELSE "reject")
  BY <1>1 DEF ResolveBudgetApproval
<1>3. /\ approval'[r] = IF o \in Performed THEN work[d].as ELSE approval[r]
      /\ \A q \in Runs : q # r => approval'[q] = approval[q]
  BY <1>1, <1>2 DEF Types, RowsOK
<1>4. /\ work'[d].run \in {r, None}
      /\ \A u \in Thread : u # d => work'[u] = work[u]
  <2>1. CASE o # "ok"
    BY <1>1, <1>2, <2>1, ReturnIdle DEF Types, Idle
  <2>2. CASE o = "ok"
    BY <1>1, <1>2, <2>2, GoDecision DEF Types
  <2> QED BY <2>1, <2>2
<1>5. ASSUME r \notin overlapped
      PROVE  Stage(r)' = Stage(r) \/ <<Stage(r), Stage(r)'>> \in Allowed
  <2>1. ~Spends(r) /\ approval[r] = "pending"
    BY <1>1, <1>5, WhileDeciding DEF Busy, ApprovalOf
  <2>2. Stage(r) = "asked"
    BY <1>5, <2>1, Unspent
  <2>3. ~Spends(r)'
    BY <1>1, <1>4, <2>1 DEF Spends, Busy, Thread
  <2>4. approval'[r] \in {"pending", "approved", "rejected"}
    BY <1>1, <1>3, <2>1
  <2>5. Stage(r)' \in {"asked", "refused", "given", "resting"}
    BY <1>1, <1>5, <2>3, <2>4, UnspentNext
  <2> QED BY <2>2, <2>5 DEF Allowed
<1> QED BY <1>1, <1>3, <1>4, <1>5, StepMoves

\* The permission is used by one goroutine, or lost.
LEMMA StartMoves ==
  ASSUME Types, Rows, NEW d \in Deciders, NEW p \in Pipelines, Start(d, p)
  PROVE  [Permit!Next]_[q \in Runs |-> Stage(q)]
<1>0. PICK r \in Runs : work[d].run = r
  BY AtWork DEF Start, Types
<1>1. /\ UNCHANGED <<approval, overlapped>> /\ work[d].step = "start" /\ work[d].run = r
      /\ work[p] = Idle /\ p # d
      /\ d \in Thread /\ d \notin Pipelines /\ p \in Thread /\ p \notin Deciders
  BY <1>0, LifecycleAssumption DEF Start, Thread
<1>2. PICK o \in Outcome :
        /\ SetStatus(r, o, "running")
        /\ work' = [work EXCEPT ![d] = Idle, ![p] = IF o = "ok" THEN Launched(r, "decision") ELSE Idle]
  BY <1>1 DEF Start
<1>3. status'[r] \in {status[r], "running"} /\ \A q \in Runs : q # r => status'[q] = status[q]
  BY <1>2, SetKeeps, Statuses DEF Types, RowsOK
<1>4. /\ work'[d] = Idle /\ Idle.run = None
      /\ work'[p] = IF o = "ok" THEN Launched(r, "decision") ELSE Idle
      /\ \A u \in Thread : u # p /\ u # d => work'[u] = work[u]
  BY <1>1, <1>2 DEF Types, WorkOK, Idle
<1>5. Launched(r, "decision").run = r /\ Launched(r, "decision").step = "plan" /\ r # None
  BY LifecycleAssumption DEF Launched
<1>6. ASSUME r \notin overlapped
      PROVE  <<Stage(r), Stage(r)'>> \in Allowed
  <2>1. /\ ~Spends(r) /\ approval[r] = "approved" /\ status[r] # "none"
        /\ \A e \in Deciders : Busy(e, r) => e = d
    BY <1>1, <1>6, WhileDeciding DEF Busy, ApprovalOf
  <2>2. Granted(r)
    BY <1>1 DEF Granted, Busy
  <2>3. Stage(r) = "given"
    BY <1>6, <2>1, <2>2, Unspent
  <2>4. CASE o = "ok"
    <3>1. Spends(r)'
      BY <1>4, <1>5, <2>4 DEF Spends, Busy, Working
    <3>2. Stage(r)' = "spending"
      BY <1>1, <1>6, <3>1 DEF Stage
    <3> QED BY <2>3, <3>2 DEF Allowed
  <2>5. CASE o # "ok"
    <3>1. ~Spends(r)'
      BY <1>1, <1>4, <1>5, <2>1, <2>5 DEF Spends, Busy, Thread
    <3>2. ~Granted(r)'
      BY <1>1, <1>4, <1>5, <2>1 DEF Granted, Busy, Thread
    <3>3. Stage(r)' = "resting"
      BY <1>1, <1>6, <2>1, <3>1, <3>2, UnspentNext
    <3> QED BY <2>3, <3>3 DEF Allowed
  <2> QED BY <2>4, <2>5
<1>7. \A t \in Thread : work'[t] = work[t] \/ (work[t].run \in {r, None} /\ work'[t].run \in {r, None})
  BY <1>1, <1>4, <1>5
<1> QED BY <1>1, <1>3, <1>6, <1>7, StepMoves

\* The status of a rejected run is written, twice, after the answer.
LEMMA RejectStays ==
  ASSUME Types, Rows, NEW d \in Deciders, Reject(d) \/ FinishRejected(d)
  PROVE  [Permit!Next]_[q \in Runs |-> Stage(q)]
<1>0. PICK r \in Runs : work[d].run = r
  BY AtWork DEF Reject, FinishRejected, Types
<1>1. /\ UNCHANGED <<approval, overlapped>> /\ work[d].step \in {"reject", "finish"} /\ work[d].run = r
      /\ d \in Thread /\ d \notin Pipelines
  BY <1>0, LifecycleAssumption DEF Reject, FinishRejected, Thread
<1>2. /\ work'[d].step # "start" /\ work'[d].run \in {r, None}
      /\ \A u \in Thread : u # d => work'[u] = work[u]
  <2>1. CASE GoTo(d, "finish")
    BY <1>1, <2>1, GoDecision DEF Types
  <2>2. CASE Return(d)
    BY <1>1, <2>2, ReturnIdle DEF Types, Idle
  <2> QED BY <2>1, <2>2 DEF Reject, FinishRejected
<1>3. status'[r] \in {status[r], "rejected"} /\ \A q \in Runs : q # r => status'[q] = status[q]
  <2>1. PICK o \in Outcome : SetStatus(r, o, "rejected")
    BY <1>1 DEF Reject, FinishRejected
  <2> QED BY <2>1, SetKeeps, Statuses DEF Types, RowsOK
<1>4. status[r] # "none"
  BY <1>1 DEF Rows, Begun, Busy
<1>5. Spends(r)' <=> Spends(r)
  BY <1>1, <1>2 DEF Spends, Busy, Thread
<1>6. Granted(r)' <=> Granted(r)
  BY <1>1, <1>2 DEF Granted, Busy, Thread
<1>7. Stage(r)' = Stage(r)
  BY <1>1, <1>3, <1>4, <1>5, <1>6, StageStays
<1> QED BY <1>1, <1>2, <1>3, <1>7, StepMoves

\* The goroutines and requests of a server end together: every permission in
\* use or about to be used there is gone.
LEMMA CrashRests ==
  ASSUME Types, Rows, NEW T \in SUBSET Thread, Crash(T)
  PROVE  [Permit!Next]_[q \in Runs |-> Stage(q)]
<1> DEFINE m == [q \in Runs |-> Stage(q)]
           R == {q \in Runs : Stage(q)' # Stage(q)}
<1>1. /\ UNCHANGED <<status, approval, overlapped>>
      /\ \A u \in Thread : work'[u] = IF u \in T THEN Idle ELSE work[u]
      /\ Pipelines \subseteq Thread /\ Deciders \subseteq Thread
      /\ \A q \in Runs : Idle.run # q
  BY NotBusyIdle DEF Crash, Thread
<1>2. ASSUME NEW r \in Runs, Stage(r)' # Stage(r)
      PROVE  Stage(r) \in {"spending", "given"} /\ Stage(r)' = "resting"
  <2>1. r \notin overlapped
    BY <1>1, <1>2 DEF Stage
  <2>2. Spends(r)' => Spends(r)
    BY <1>1 DEF Spends, Busy
  <2>3. Granted(r)' => Granted(r)
    BY <1>1 DEF Granted, Busy
  <2>4. CASE Spends(r)
    <3>1. PICK p \in Pipelines : Busy(p, r) /\ work[p].step \in Working
      BY <2>4 DEF Spends
    <3>2. /\ approval[r] \in {"none", "approved"} /\ status[r] # "none"
          /\ \A d \in Deciders : ~Busy(d, r)
      BY <2>1, <3>1, BeforeAsking DEF Busy, Types, RowsOK
    <3>3. ~Granted(r)'
      BY <2>3, <3>2 DEF Granted
    <3>4. Stage(r) = "spending"
      BY <2>1, <2>4 DEF Stage
    <3>5. ~Spends(r)'
      BY <1>1, <1>2, <2>1, <3>4 DEF Stage
    <3>6. Stage(r)' = "resting"
      BY <1>1, <2>1, <3>2, <3>3, <3>5, UnspentNext
    <3> QED BY <3>4, <3>6
  <2>5. CASE ~Spends(r)
    <3>1. ~Spends(r)'
      BY <2>2, <2>5
    <3>2. approval[r] \in {"none", "pending", "approved", "rejected"}
      BY DEF Types, RowsOK
    <3>3. CASE approval[r] = "approved"
      BY <1>1, <1>2, <2>1, <2>3, <2>5, <3>1, <3>3, Unspent, UnspentNext
    <3>4. CASE approval[r] # "approved"
      BY <1>1, <1>2, <2>1, <2>5, <3>1, <3>2, <3>4, Unspent, UnspentNext
    <3> QED BY <3>3, <3>4
  <2> QED BY <2>4, <2>5
<1>3. m' = [q \in Runs |-> IF q \in R THEN "resting" ELSE m[q]]
  <2>1. m' = [q \in Runs |-> Stage(q)']
    OBVIOUS
  <2> QED BY <1>2, <2>1
<1>4. \A q \in R : m[q] \in {"spending", "given"}
  BY <1>2
<1>5. CASE R = {}
  BY <1>3, <1>5
<1>6. CASE R # {}
  <2> HIDE DEF R
  <2>1. Permit!Rest(R)
    BY <1>3, <1>4, <1>6 DEF Permit!Rest
  <2>2. R \in SUBSET Runs
    BY DEF R
  <2> QED BY <2>1, <2>2 DEF Permit!Next
<1> QED BY <1>5, <1>6

LEMMA PermitStep == Types /\ Rows /\ [Next]_vars => [Permit!Next]_[q \in Runs |-> Stage(q)]
<1> SUFFICES ASSUME Types, Rows, [Next]_vars PROVE [Permit!Next]_[q \in Runs |-> Stage(q)]
  OBVIOUS
<1>1. CASE Next
  BY <1>1, CreateMoves, PlanMoves, ThinkMoves, PipelineStays, AskMoves,
     GetMoves, ResolveMoves, StartMoves, RejectStays, CrashRests
  DEF Next, Process, Decide, Answer
<1>2. CASE UNCHANGED vars
  BY <1>2 DEF vars, Stage, Spends, Granted, Busy
<1> QED BY <1>1, <1>2

\* Whatever fails and however many servers there are, a run spends its budget
\* when it begins and once for each approval of its own request, and never
\* after a rejection, but for two decisions on it at once (processRun,
\* budgetDecision).
THEOREM PermissionIsKept == Spec => KeepsPermission
<1>1. Init => Permit!Init
  <2> SUFFICES ASSUME Init, NEW r \in Runs PROVE Stage(r) = "new"
    BY DEF Permit!Init
  <2>1. r \notin overlapped /\ approval[r] = "none" /\ status[r] = "none"
    BY DEF Init
  <2>2. ~Spends(r)
    BY NotBusyIdle DEF Init, Spends, Busy, Thread
  <2> QED BY <2>1, <2>2, Unspent
<1> QED BY <1>1, RowsHold, PermitStep, PTL DEF Spec, KeepsPermission, Permit!Spec
=============================================================================
