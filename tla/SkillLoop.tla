----------------------------- MODULE SkillLoop ------------------------------
(***************************************************************************)
(* run_loop.py and improve_description.py: the description of a skill is   *)
(* evaluated (Trigger), the failures of the train set are shown to Claude, *)
(* who writes a better one, and the one with the best score on the test    *)
(* set wins.  The author puts it in SKILL.md and packages the skill.       *)
(*                                                                         *)
(* A definition whose comment starts with "Mutant:" is a faulty variant of *)
(* the definition below it; no specification uses it.                      *)
(***************************************************************************)
EXTENDS Trigger, SequencesExt, FiniteSetsExt

CONSTANTS
  Setups,         \* [items, runs, holdout], holdout as <<numerator, denominator>>
  MaxIterations

ASSUME SkillLoopAssumption ==
  /\ MaxIterations \in Nat \ {0}
  /\ \A s \in Setups :
       /\ s.runs \in Nat \ {0} /\ s.holdout \in Nat \X (Nat \ {0})
       /\ s.items \in Seq([query : {s.items[i].query : i \in DOMAIN s.items}, should : BOOLEAN])
       /\ s.items # <<>>

(* One is unfit if it has over 1024 characters or an angle bracket.        *)
Description == {"fits", "unfit"}

VARIABLES
  setup,        \* the arguments
  pc,           \* "off", "split", "eval", "improve", "done", "failed" or "packaged"
  train, test,  \* the items, by number
  description,  \* the current one
  history,      \* of each iteration: [description, train, test], the results by query
  shown,        \* history: the queries the prompts to improve contained
  best          \* the iteration whose description wins

loopVars == <<setup, pc, train, test, description, history, shown, best>>
-----------------------------------------------------------------------------
Items(should) == {i \in DOMAIN setup.items : setup.items[i].should = should}

(* How many of n items are held out: one at least.                         *)
HeldOut(n) == LET k == (n * setup.holdout[1]) \div setup.holdout[2]
              IN Min({n, Max({1, k})})

(* split_eval_set shuffles each kind and takes the first.                  *)
SplitEvalSet ==
  \E yes \in SUBSET Items(TRUE), no \in SUBSET Items(FALSE) :
    /\ Cardinality(yes) = HeldOut(Cardinality(Items(TRUE)))
    /\ Cardinality(no) = HeldOut(Cardinality(Items(FALSE)))
    /\ test' = yes \cup no
    /\ train' = DOMAIN setup.items \ (yes \cup no)

QueriesOf(items) == {setup.items[i].query : i \in items}

(* Every item as often as runs_per_query, train before test.               *)
AllRuns(first, second) ==
  LET order == SetToSeq(first) \o SetToSeq(second)
  IN [t \in 1 .. Len(order) * setup.runs |-> setup.items[order[((t - 1) \div setup.runs) + 1]]]

LoopInit(setups, start) ==
  /\ setup \in setups /\ pc = start
  /\ train = {} /\ test = {} /\ description \in Description
  /\ history = <<>> /\ shown = {} /\ best = 0

Split ==
  /\ pc = "split" /\ pc' = "eval"
  /\ IF setup.holdout[1] > 0 THEN SplitEvalSet ELSE train' = DOMAIN setup.items /\ test' = {}
  /\ Submit(AllRuns(train', test'))
  /\ UNCHANGED <<setup, description, history, shown, best>>

Evaluate ==
  /\ pc = "eval"
  /\ (\E t \in Running : Begin(t) \/ Hear(t)) \/ WorkerDies
  /\ UNCHANGED loopVars

(* The results are told apart by the text of the query.                    *)
Part(results, queries) == [q \in queries \cap DOMAIN results |-> results[q]]
Passed(results) == Cardinality({q \in DOMAIN results : results[q]})
AllPassed(results) == \A q \in DOMAIN results : results[q]

(* Mutant: the best train score wins.                                      *)
ScoreOfTrain(h) == Passed(h.train)
Score(h) == IF test # {} THEN Passed(h.test) ELSE Passed(h.train)

(* Mutant: the iterations are counted from 0.                              *)
BestFromZero(hs) ==
  Min({k \in DOMAIN hs : \A j \in DOMAIN hs : Score(hs[j]) <= Score(hs[k])}) - 1
(* max returns the first of the best.                                      *)
Best(hs) ==
  Min({k \in DOMAIN hs : \A j \in DOMAIN hs : Score(hs[j]) <= Score(hs[k])})

Judge ==
  /\ pc = "eval" /\ RunsEnded
  /\ \E last \in LastOf :
       LET results == Results(last)
           mine == QueriesOf(train)
           entry == [description |-> description, train |-> Part(results, mine),
                     test |-> Part(results, Queries(batch) \ mine)]
           hs == Append(history, entry)
           over == AllPassed(entry.train) \/ Len(hs) = MaxIterations
       IN /\ history' = hs
          /\ pc' = IF over THEN "done" ELSE "improve"
          /\ best' = IF over THEN Best(hs) ELSE 0
  /\ UNCHANGED <<setup, train, test, description, shown, triggerVars>>

(* Mutant: the prompt has the whole history.                               *)
BlindedNot(h) == DOMAIN h.train \cup DOMAIN h.test
(* The queries of an attempt in the prompt: what starts with test_ is not. *)
Blinded(h) == DOMAIN h.train

(* improve_description: a description that is too long is shortened once,  *)
(* and may be too long still.                                              *)
Improve ==
  /\ pc = "improve" /\ pc' = "eval"
  /\ shown' = shown \cup UNION {Blinded(history[k]) : k \in DOMAIN history}
  /\ description' \in Description
  /\ Submit(batch)
  /\ UNCHANGED <<setup, train, test, history, best>>

(* An error of the API ends run_loop; what it found is not written.        *)
ImproveFails ==
  /\ pc = "improve" /\ pc' = "failed"
  /\ shown' = shown \cup UNION {Blinded(history[k]) : k \in DOMAIN history}
  /\ UNCHANGED <<setup, train, test, description, history, best, triggerVars>>

(* validate_skill knows the length of the description and its characters.  *)
Valid(d) == d = "fits"

(* package_skill, once the best description is in SKILL.md.                *)
PackageSkill ==
  /\ pc = "done" /\ Valid(history[best].description)
  /\ pc' = "packaged"
  /\ UNCHANGED <<setup, train, test, description, history, shown, best, triggerVars>>

LoopNext == Split \/ Evaluate \/ Judge \/ Improve \/ ImproveFails \/ PackageSkill

(* A free process takes the next run, a run returns by its timeout at the  *)
(* latest, and run_loop goes on.                                           *)
LoopProgress ==
  /\ \/ Split \/ Judge \/ Improve \/ ImproveFails
     \/ /\ pc = "eval" /\ UNCHANGED loopVars
        /\ \E t \in Running : Begin(t) \/ CutShort(t)
-----------------------------------------------------------------------------
(* The types of the loop's variables; when it is over, there is a best.    *)
LoopTyped ==
  /\ pc \in {"off", "split", "eval", "improve", "done", "failed", "packaged"}
  /\ pc # "off" => setup \in Setups
  /\ train \subseteq DOMAIN setup.items /\ test \subseteq DOMAIN setup.items
  /\ description \in Description /\ Len(history) <= MaxIterations
  /\ shown \subseteq QueriesOf(DOMAIN setup.items)
  /\ best \in DOMAIN history \cup {0}
  /\ pc \in {"done", "packaged"} => best \in DOMAIN history

(* Whoever improves the description never sees how it did on a query that  *)
(* is held out, in this iteration or an earlier one; a text that is in     *)
(* both sets counts as train.                                              *)
HeldOutUnseen == shown \cap (QueriesOf(test) \ QueriesOf(train)) = {}

(* A packaged skill has a description that was evaluated, and no other did *)
(* better on the held-out queries; nor did an earlier one as well.  With   *)
(* every held-out text in the train set too, the first one wins whatever   *)
(* the scores.                                                             *)
PackagedIsBest ==
  pc = "packaged" =>
    \A k \in DOMAIN history :
      LET judged(h) == {q \in QueriesOf(DOMAIN setup.items) :
                          /\ test # {} => q \notin QueriesOf(train)
                          /\ (q \in DOMAIN h.train /\ h.train[q]) \/ (q \in DOMAIN h.test /\ h.test[q])}
          n(j) == Cardinality(judged(history[j]))
      IN n(k) <= n(best) /\ (k < best => n(k) < n(best))

(* The loop ends, however many runs hang: each has its timeout.            *)
LoopEnds == pc = "split" ~> pc \in {"done", "failed", "packaged"}
=============================================================================
