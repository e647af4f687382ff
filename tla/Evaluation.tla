----------------------------- MODULE Evaluation -----------------------------
(***************************************************************************)
(* evaluation.py: Claude answers questions with the tools of an MCP        *)
(* server.  agent_loop answers one call of a tool at a time and asks       *)
(* again, until Claude calls none.                                         *)
(***************************************************************************)
EXTENDS Naturals, Sequences

CONSTANTS
  Questions,  \* number of qa_pair elements in the file
  MaxCalls    \* bound: calls of tools for one question

ASSUME EvaluationAssumption == Questions \in Nat \ {0} /\ MaxCalls \in Nat

VARIABLES
  phase,    \* "connect", "ask", "call", "answered", "reported" or "failed"
  pairs,    \* number of questions that were read from the file
  calls,    \* calls in the last response that have no result yet
  made,     \* history: calls made for the question
  scores    \* of the questions so far

evaluationVars == <<phase, pairs, calls, made, scores>>
-----------------------------------------------------------------------------
EvaluationInit ==
  phase = "connect" /\ pairs = 0 /\ calls = 0 /\ made = 0 /\ scores = <<>>

Fails == phase' = "failed" /\ UNCHANGED <<pairs, calls, made, scores>>

NextQuestion(answered, n) == IF answered = n THEN "reported" ELSE "ask"

(* __aenter__, which closes what it opened when it fails, list_tools, and  *)
(* parse_evaluation_file: a pair that lacks its question or its answer is  *)
(* passed over, and a file that does not parse has none.                   *)
Connect ==
  /\ phase = "connect"
  /\ \/ /\ pairs' \in 0 .. Questions /\ phase' = NextQuestion(0, pairs')
        /\ UNCHANGED <<calls, made, scores>>
     \/ Fails

(* messages.create: the API wants a result for every call before.          *)
Ask ==
  /\ phase = "ask"
  /\ \/ Fails
     \/ /\ calls = 0
        /\ \E n \in 0 .. 2 :
             /\ made + n <= MaxCalls
             /\ calls' = n /\ phase' = IF n = 0 THEN "answered" ELSE "call"
        /\ UNCHANGED <<pairs, made, scores>>

(* The first call of the response is made, and answered, error or not.     *)
CallTool ==
  /\ phase = "call" /\ phase' = "ask"
  /\ calls' = calls - 1 /\ made' = made + 1
  /\ UNCHANGED <<pairs, scores>>

(* evaluate_single_task: the last <response> is compared; extraction fails *)
(* if the response has no text at all.                                     *)
ScoreTask(right) ==
  /\ phase = "answered"
  /\ scores' = Append(scores, IF right THEN 1 ELSE 0)
  /\ phase' = NextQuestion(Len(scores'), pairs)
  /\ made' = 0
  /\ UNCHANGED <<pairs, calls>>

NoText == phase = "answered" /\ Fails

EvaluationNext ==
  Connect \/ Ask \/ CallTool \/ NoText \/ \E right \in BOOLEAN : ScoreTask(right)
-----------------------------------------------------------------------------
(* The types of the tool's variables.                                      *)
EvaluationTyped ==
  /\ phase \in {"connect", "ask", "call", "answered", "reported", "failed"}
  /\ pairs \in 0 .. Questions /\ calls \in 0 .. 2 /\ made \in 0 .. MaxCalls
  /\ scores \in Seq({0, 1}) /\ Len(scores) <= pairs
  /\ phase = "call" => calls > 0
  /\ phase \in {"ask", "call"} => made + calls <= MaxCalls
  /\ phase \in {"ask", "call", "answered"} => Len(scores) < pairs
=============================================================================
