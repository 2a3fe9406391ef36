------------------------------ MODULE Dispatch ------------------------------
(***************************************************************************)
(* What the workers promise of the messages on task.dispatch               *)
(* (internal/worker/processor.go): the handlers of an event publish one    *)
(* message at most, for the run and the topic the event names; a run is    *)
(* recorded before anything is published for it, and the record stays.     *)
(***************************************************************************)
EXTENDS Naturals
CONSTANTS Events, Runs, Topics, PayloadRun, PayloadTopic, None
VARIABLES taken,    \* events a handler has begun
          primary,  \* messages published by the handlers of an event
          record,   \* the topic a run is recorded under, or None
          sent      \* messages of a run

Init ==
  /\ taken = {}
  /\ primary = [v \in Events |-> 0]
  /\ record = [r \in Runs |-> None]
  /\ sent = [r \in Runs |-> 0]

\* Never given back.
Take(v) ==
  /\ taken' = taken \cup {v}
  /\ UNCHANGED <<primary, record, sent>>

Record(r, tp) ==
  /\ record[r] = None
  /\ record' = [record EXCEPT ![r] = tp]
  /\ UNCHANGED <<taken, primary, sent>>

Publish(v, r) ==
  /\ v \in taken /\ primary[v] = 0
  /\ PayloadRun[v] \in {r, None} /\ record[r] = PayloadTopic[v]
  /\ primary' = [primary EXCEPT ![v] = 1]
  /\ sent' = [sent EXCEPT ![r] = @ + 1]
  /\ UNCHANGED <<taken, record>>

\* By a worker that resumes the run.
Resend(r) ==
  /\ record[r] # None
  /\ sent' = [sent EXCEPT ![r] = @ + 1]
  /\ UNCHANGED <<taken, primary, record>>

Next ==
  \/ \E v \in Events : Take(v)
  \/ \E r \in Runs, tp \in Topics : Record(r, tp)
  \/ \E v \in Events, r \in Runs : Publish(v, r)
  \/ \E r \in Runs : Resend(r)

Spec == Init /\ [][Next]_<<taken, primary, record, sent>>
=============================================================================
