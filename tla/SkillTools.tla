----------------------------- MODULE SkillTools -----------------------------
(***************************************************************************)
(* The tools with which a skill is developed and tested.  Each works on    *)
(* files of its own; a behaviour is that of one of them.                   *)
(***************************************************************************)
EXTENDS SkillLoop, Review, Benchmark, WithServer, Evaluation

VARIABLE tool

loopOnly == <<triggerVars, loopVars>>
vars == <<tool, loopOnly, reviewVars, benchmarkVars, serverVars, evaluationVars>>

Init ==
  /\ tool \in {"loop", "review", "benchmark", "server", "evaluation"}
  /\ TriggerInit
  /\ IF tool = "loop" THEN LoopInit(Setups, "split")
     ELSE LoopInit({CHOOSE s \in Setups : TRUE}, "off") /\ description = "fits"
  /\ ReviewInit /\ BenchmarkInit /\ EvaluationInit
  /\ ServerInit /\ (tool # "server" => compound = {})

Loop == tool = "loop" /\ LoopNext /\ UNCHANGED <<tool, reviewVars, benchmarkVars, serverVars, evaluationVars>>
ReviewRuns == tool = "review" /\ ReviewNext /\ UNCHANGED <<tool, loopOnly, benchmarkVars, serverVars, evaluationVars>>
AggregateRuns == tool = "benchmark" /\ BenchmarkNext /\ UNCHANGED <<tool, loopOnly, reviewVars, serverVars, evaluationVars>>
TestWithServers == tool = "server" /\ ServerNext /\ UNCHANGED <<tool, loopOnly, reviewVars, benchmarkVars, evaluationVars>>
EvaluateServer == tool = "evaluation" /\ EvaluationNext /\ UNCHANGED <<tool, loopOnly, reviewVars, benchmarkVars, serverVars>>

Next == Loop \/ ReviewRuns \/ AggregateRuns \/ TestWithServers \/ EvaluateServer

(* The operating system schedules the pool, a run has its timeout, and so  *)
(* have the requests to the API.                                           *)
LoopGoesOn ==
  /\ tool = "loop" /\ LoopProgress
  /\ UNCHANGED <<tool, reviewVars, benchmarkVars, serverVars, evaluationVars>>

Spec == Init /\ [][Next]_vars /\ WF_vars(LoopGoesOn)
-----------------------------------------------------------------------------
(* The types of the variables of the tools.                                *)
TypeOK ==
  /\ tool \in {"loop", "review", "benchmark", "server", "evaluation"}
  /\ TriggerTyped /\ LoopTyped /\ ReviewTyped /\ BenchmarkTyped /\ ServersTyped /\ EvaluationTyped
=============================================================================
