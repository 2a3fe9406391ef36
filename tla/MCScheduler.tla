---------------------------- MODULE MCScheduler ----------------------------
(* Small instances of Scheduler for TLC. *)
EXTENDS Scheduler

CONSTANTS s1, s2, t1, t2

\* One topic falls due at any time, the other at the start or never.
MCMaxPeriods == [t \in Topics |-> IF t = t1 THEN 1 ELSE 0]
=============================================================================
