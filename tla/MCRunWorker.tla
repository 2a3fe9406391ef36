----------------------------- MODULE MCRunWorker -----------------------------
(* Small instances of RunWorker for TLC. *)
EXTENDS RunWorker, TLC

CONSTANTS w1, w2, s1, s2, e1, e2, e3, v1, v2, v3, r1, r2, t1

\* One process with two goroutines, or none.
MCOwner == [s \in Slots |-> w1]

\* Each entry has its own event; or e3 repeats that of e1, added by a producer
\* that tried again.
MCEntryEvent == [e \in Entries |-> CASE e = e1 -> v1 [] e = e2 -> v2 [] e = e3 -> v3]
MCRepeated   == [e \in Entries |-> IF e = e2 THEN v2 ELSE v1]

\* v1 names its run and topic, v2 leaves out the run, v3 leaves out both.
MCPayloadRun   == [v \in Events |-> IF v = v1 THEN r1 ELSE None]
MCPayloadTopic == [v \in Events |-> IF v = v3 THEN Blank ELSE t1]

\* Workers without goroutines are interchangeable.
MCWorkerSymmetry == Permutations(Workers)
=============================================================================
