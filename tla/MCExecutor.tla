----------------------------- MODULE MCExecutor -----------------------------
(* Small instances of Executor for TLC. *)
EXTENDS Executor

CONSTANTS a, b, c, s, u

\* A negative count, none, and one retry.
MCMaxRetries == [t \in Tasks |-> CASE t = a -> -1 [] t = b -> 0 [] t = c -> 1]

\* Two of them share a stage.
MCStageOf == [t \in Tasks |-> IF t = a THEN u ELSE s]
=============================================================================
