------------------------------ MODULE Editing -------------------------------
(***************************************************************************)
(* What the models of the Office formats share: an author edits an         *)
(* unpacked file step by step, and pack.py or validate.py looks at it.     *)
(* The scripts run one at a time, each to its end unless a module says     *)
(* otherwise.                                                              *)
(***************************************************************************)
EXTENDS Naturals, FiniteSets, Sequences

(* A schema error the original file has too, a new one, XML that does not  *)
(* parse.                                                                  *)
Fault == {"old", "new", "malformed"}

VARIABLES
  verdict,  \* the last one since a change: of pack.py or validate.py
  lapses,   \* history: what was done that may have the file refused
  edits     \* edits so far

editingVars == <<verdict, lapses, edits>>

Verdict == {"none", "refused", "packed", "invalid", "valid"}

(* An edit counts as much as cost, until the bound is reached.             *)
Edited(cost, bound, lapse) ==
  /\ edits + cost <= bound
  /\ edits' = edits + cost
  /\ verdict' = "none"
  /\ lapses' = lapses \cup lapse

Judged(v) == verdict' = v /\ UNCHANGED <<lapses, edits>>

(* pack.py refuses nothing of an author who has a valid file and works as  *)
(* SKILL.md and editing.md say: tracks every change and keeps xml:space    *)
(* where a newline is, numbers comments afresh, puts a slide in the list   *)
(* before the next is added, takes a relationship away only with its       *)
(* element, cleans up, and lists no slide that was removed meanwhile.  One *)
(* lapse is not the author's: clean.py leaves the comments and controls of *)
(* a slide it removes behind, and pack.py does refuse those.               *)
CarefulAuthorPacks == verdict = "refused" => lapses # {}
=============================================================================
