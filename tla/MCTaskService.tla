--------------------------- MODULE MCTaskService ----------------------------
(***************************************************************************)
(* Two requests at a time for one task of two priorities.                  *)
(***************************************************************************)
EXTENDS TaskService, TLC

CONSTANTS c1, c2

Callers == Permutations(Caller)
=============================================================================
