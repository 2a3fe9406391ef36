-------------------------------- MODULE Calls --------------------------------
(***************************************************************************)
(* A call to Postgres or to a provider as its caller sees it end, for the  *)
(* modules about the tables of the program: it takes effect, it fails, or  *)
(* it takes effect and its reply is lost.                                  *)
(***************************************************************************)
EXTENDS Naturals

CONSTANTS
  Nil,
  MaxMishaps   \* bound: calls that do not end well, processes that are ended

ASSUME CallsAssumption == MaxMishaps \in Nat

VARIABLE mishaps

Ending == {"ok", "failed", "lost"}
Took == {"ok", "lost"}

Ends(o) ==
  IF o = "ok" THEN UNCHANGED mishaps ELSE mishaps < MaxMishaps /\ mishaps' = mishaps + 1
=============================================================================
