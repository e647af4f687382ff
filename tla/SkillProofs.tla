---------------------------- MODULE SkillProofs -----------------------------
(***************************************************************************)
(* Theorems about SkillTools, for every evaluation set, pool, reviewer and *)
(* number of servers and questions.                                        *)
(***************************************************************************)
EXTENDS SkillTools, TLAPS, SequenceTheorems, FiniteSetTheorems, NaturalsInduction

(* Claude picks another tool, the run's own command, or that of a run that *)
(* went on at the same time.                                               *)
Pickable(t, c) == c \in {0, t} \/ <<t, c>> \in beside

(* What is open belongs to a run that is running, all of which run beside  *)
(* each other; who has not returned has not answered.                      *)
RunsInv ==
  /\ TriggerTyped /\ 0 \notin Running /\ NoRunLeftBehind /\ CountedAsTriggered
  /\ pending \subseteq At("running") /\ unheard \subseteq At("done")
  /\ At("done") = Running \/ commands \subseteq At("running")
  /\ \A t, u \in At("running") : t = u \/ <<t, u>> \in beside
  /\ \A t \in Running : Pickable(t, picked[t]) /\ (stage[t] # "done" => answer[t] = FALSE)

LEMMA SubmitInv ==
  ASSUME RunsInv, NEW items, 0 \notin DOMAIN items, Submit(items)
  PROVE  RunsInv'
<1>1. /\ Running' = DOMAIN items /\ stage' = [t \in DOMAIN items |-> "queued"]
      /\ answer' = [t \in DOMAIN items |-> FALSE] /\ picked' = [t \in DOMAIN items |-> 0]
  BY DEF Submit, Running
<1>2. /\ pending' = {} /\ unheard' = {} /\ beside' = {} /\ commands' = {} /\ claudes' = {}
      /\ UNCHANGED <<deaths, leftovers>>
  BY DEF Submit
<1>3. TriggerTyped'
  BY <1>1, <1>2 DEF TriggerTyped, RunsInv
<1>4. At("running")' = {} /\ At("done")' = {}
  BY <1>1 DEF At
<1>5. CountedAsTriggered' /\ NoRunLeftBehind'
  BY <1>2, <1>4 DEF CountedAsTriggered, NoRunLeftBehind
<1>6. \A t \in Running' : Pickable(t, picked[t])' /\ answer'[t] = FALSE
  BY <1>1 DEF Pickable
<1> QED BY <1>1, <1>2, <1>3, <1>4, <1>5, <1>6 DEF RunsInv

LEMMA BeginInv ==
  ASSUME RunsInv, NEW t \in Running, Begin(t)
  PROVE  RunsInv'
<1>1. /\ stage' = [stage EXCEPT ![t] = "running"] /\ stage[t] = "queued" /\ Running' = Running
      /\ commands' = commands \cup {t} /\ claudes' = claudes \cup {t}
      /\ beside' = beside \cup ({t} \X At("running")) \cup (At("running") \X {t})
      /\ UNCHANGED <<pending, picked, unheard, answer, deaths, leftovers>>
  BY DEF Begin, At, Running
<1>2. TriggerTyped'
  BY <1>1 DEF RunsInv, TriggerTyped, At
<1>3. At("done")' = At("done") /\ At("running")' = At("running") \cup {t}
  BY <1>1, <1>2 DEF RunsInv, TriggerTyped, At
<1>4. NoRunLeftBehind' /\ CountedAsTriggered'
  BY <1>1, <1>3 DEF RunsInv, NoRunLeftBehind, CountedAsTriggered
<1>5. \A u \in Running : Pickable(u, picked[u])' /\ (stage'[u] # "done" => answer'[u] = FALSE)
  BY <1>1 DEF RunsInv, TriggerTyped, Pickable
<1>6. \A u, v \in At("running")' : u = v \/ <<u, v>> \in beside'
  BY <1>1, <1>3 DEF RunsInv
<1>7. commands' \subseteq At("running")'
  <2>1. t \notin At("done")
    BY <1>1 DEF At
  <2> QED BY <1>1, <1>3, <2>1 DEF RunsInv
<1> QED BY <1>1, <1>2, <1>3, <1>4, <1>5, <1>6, <1>7 DEF RunsInv

(* However a run returns, it answers whether it was its own command.       *)
LEMMA ReturnsInv ==
  ASSUME RunsInv, NEW t \in Running, NEW a \in BOOLEAN, NEW c \in Running \cup {0}, NEW heard \in BOOLEAN,
         Returns(t, a, c, heard), Pickable(t, c), heard => (a <=> c = t), ~heard => ~a
  PROVE  RunsInv'
<1>1. /\ stage[t] = "running" /\ stage' = [stage EXCEPT ![t] = "done"] /\ Running' = Running
      /\ answer' = [answer EXCEPT ![t] = a] /\ picked' = [picked EXCEPT ![t] = c]
      /\ unheard' = (IF heard THEN unheard ELSE unheard \cup {t})
      /\ pending' = pending \ {t} /\ commands' = commands \ {t} /\ claudes' = claudes \ {t}
      /\ UNCHANGED <<beside, deaths, leftovers>>
  BY DEF Returns, Unlinked, Running
<1>2. TriggerTyped'
  BY <1>1 DEF RunsInv, TriggerTyped
<1>3. At("done")' = At("done") \cup {t} /\ At("running")' = At("running") \ {t} /\ t \notin At("done")
  BY <1>1, <1>2 DEF RunsInv, TriggerTyped, At
<1>4. NoRunLeftBehind'
  BY <1>1, <1>3 DEF RunsInv, NoRunLeftBehind
<1>5. answer'[t] = a /\ picked'[t] = c
  BY <1>1 DEF RunsInv, TriggerTyped
<1>6. \A u \in Running \ {t} : answer'[u] = answer[u] /\ picked'[u] = picked[u] /\ stage'[u] = stage[u]
                              /\ (u \in unheard' <=> u \in unheard)
  BY <1>1 DEF RunsInv, TriggerTyped
<1>7. CountedAsTriggered'
  <2>1. t \notin unheard /\ t # 0
    BY <1>3 DEF RunsInv
  <2>2. \A u \in At("done") : u \in Running \ {t}
    BY <1>3 DEF At
  <2>3. \A u \in At("done") :
          /\ answer'[u] => picked'[u] = u
          /\ picked'[u] # 0 => answer'[u] \/ u \in unheard' \/ <<u, picked'[u]>> \in beside'
    BY <1>1, <1>6, <2>2 DEF RunsInv, CountedAsTriggered
  <2>4. answer'[t] => picked'[t] = t
    BY <1>5
  <2>5. picked'[t] # 0 => answer'[t] \/ t \in unheard' \/ <<t, picked'[t]>> \in beside'
    BY <1>1, <1>5, <2>1 DEF Pickable
  <2> QED BY <1>3, <2>3, <2>4, <2>5 DEF CountedAsTriggered
<1>8. \A u \in Running : Pickable(u, picked[u])' /\ (stage'[u] # "done" => answer'[u] = FALSE)
  BY <1>1, <1>2, <1>5, <1>6 DEF RunsInv, TriggerTyped, Pickable
<1>9. /\ unheard' \subseteq At("done")' /\ pending' \subseteq At("running")'
      /\ commands' \subseteq At("running")'
      /\ \A u, v \in At("running")' : u = v \/ <<u, v>> \in beside'
  BY <1>1, <1>3 DEF RunsInv
<1> QED BY <1>1, <1>2, <1>4, <1>7, <1>8, <1>9 DEF RunsInv

LEMMA HearInv ==
  ASSUME RunsInv, NEW t \in Running, Hear(t), stage[t] = "running"
  PROVE  RunsInv'
<1>1. t # 0 /\ picked[t] \in Running \cup {0} /\ Pickable(t, picked[t]) /\ Pickable(t, 0)
  BY DEF RunsInv, TriggerTyped, Pickable
<1>2. ASSUME NEW c \in Offered(t) \cup {0}
      PROVE  c \in Running \cup {0} /\ Pickable(t, c)
  <2>1. t \in At("running") /\ At("running") \subseteq Running /\ At("done") # Running
    BY DEF At
  <2>2. CASE c \in commands
    BY <2>1, <2>2 DEF Pickable, RunsInv
  <2>3. CASE c \in {u \in Running : <<t, u>> \in beside} \cup {0}
    BY <2>3 DEF Pickable
  <2> QED BY <1>2, <2>2, <2>3 DEF Offered
<1>3. ASSUME NEW c \in Offered(t) \cup {0}, BlockStart(t, c)
      PROVE  RunsInv'
  <2>1. /\ picked' = [picked EXCEPT ![t] = c] /\ pending' = pending \cup {t}
        /\ UNCHANGED <<stage, unheard, beside, answer, commands, claudes, deaths, leftovers>> /\ Running' = Running
    BY <1>3 DEF BlockStart, Running
  <2>2. TriggerTyped'
    BY <1>2, <2>1 DEF RunsInv, TriggerTyped
  <2>3. At("done")' = At("done") /\ At("running")' = At("running") /\ t \in At("running") /\ t \notin At("done")
    BY <2>1 DEF At
  <2>4. picked'[t] = c /\ \A u \in Running \ {t} : picked'[u] = picked[u]
    BY <2>1 DEF RunsInv, TriggerTyped
  <2>5. \A u \in At("done") : u \in Running \ {t}
    BY <2>3 DEF At
  <2>6. NoRunLeftBehind' /\ CountedAsTriggered'
    BY <2>1, <2>3, <2>4, <2>5 DEF RunsInv, NoRunLeftBehind, CountedAsTriggered
  <2>7. \A u \in Running : Pickable(u, picked[u])'
    BY <1>2, <2>1, <2>4 DEF RunsInv, Pickable
  <2> QED BY <2>1, <2>2, <2>3, <2>6, <2>7 DEF RunsInv
<1>4. ASSUME NEW c \in Offered(t) \cup {0}, AssistantMessage(t, c)
      PROVE  RunsInv'
  BY <1>1, <1>2, <1>4, ReturnsInv DEF AssistantMessage, NamesOwn
<1>5. CASE BlockStop(t)
  BY <1>1, <1>5, ReturnsInv DEF BlockStop, NamesOwn
<1>6. CASE NoSkill(t)
  BY <1>1, <1>6, ReturnsInv DEF NoSkill
<1>7. CASE CutShort(t)
  BY <1>1, <1>7, ReturnsInv DEF CutShort
<1> QED BY <1>3, <1>4, <1>5, <1>6, <1>7 DEF Hear

LEMMA WorkerDiesInv ==
  ASSUME RunsInv, WorkerDies
  PROVE  RunsInv'
<1>1. /\ unheard' = unheard \cup {t \in Running : stage[t] # "done"}
      /\ stage' = [t \in Running |-> "done"] /\ Running' = Running
      /\ pending' = {} /\ leftovers' = TRUE /\ UNCHANGED <<commands, claudes, picked, beside, answer>>
      /\ deaths < MaxDeaths /\ deaths' = deaths + 1
  BY DEF WorkerDies, Running
<1>2. TriggerTyped'
  BY <1>1, TriggerAssumption DEF RunsInv, TriggerTyped
<1>3. At("done")' = Running /\ At("running")' = {}
  BY <1>1 DEF At
<1>4. CountedAsTriggered'
  <2>1. ASSUME NEW t \in Running
        PROVE  /\ answer'[t] => picked'[t] = t
               /\ picked'[t] # 0 => answer'[t] \/ t \in unheard' \/ <<t, picked'[t]>> \in beside'
    <3>1. CASE stage[t] = "done"
      BY <1>1, <3>1 DEF RunsInv, CountedAsTriggered, At
    <3>2. CASE stage[t] # "done"
      BY <1>1, <3>2 DEF RunsInv
    <3> QED BY <3>1, <3>2
  <2> QED BY <1>3, <2>1 DEF CountedAsTriggered
<1>5. NoRunLeftBehind' /\ pending' = {} /\ unheard' \subseteq At("done")'
  BY <1>1, <1>3 DEF NoRunLeftBehind, RunsInv, TriggerTyped
<1>6. \A t \in Running : Pickable(t, picked[t])' /\ stage'[t] = "done"
  BY <1>1 DEF RunsInv, Pickable
<1> QED BY <1>1, <1>2, <1>3, <1>4, <1>5, <1>6 DEF RunsInv
-----------------------------------------------------------------------------
(* The runs are numbered from 1.                                           *)
LEMMA AllRunsNumbered == \A first, second : 0 \notin DOMAIN AllRuns(first, second)
BY DEF AllRuns

LEMMA RunsInvKept == RunsInv /\ UNCHANGED triggerVars => RunsInv'
BY DEF RunsInv, TriggerTyped, NoRunLeftBehind, CountedAsTriggered, Pickable, At, Running, triggerVars

LEMMA LoopRunsInv ==
  ASSUME RunsInv, LoopNext
  PROVE  RunsInv'
<1>1. CASE Split
  BY <1>1, SubmitInv, AllRunsNumbered DEF Split
<1>2. CASE Evaluate
  <2>1. ASSUME NEW t \in Running, Hear(t) PROVE stage[t] = "running"
    <3>1. pending \subseteq At("running")
      BY DEF RunsInv
    <3> QED BY <2>1, <3>1 DEF Hear, BlockStart, AssistantMessage, BlockStop, NoSkill, CutShort, Returns
  <2> QED BY <1>2, <2>1, BeginInv, HearInv, WorkerDiesInv DEF Evaluate
<1>3. CASE Improve
  BY <1>3, SubmitInv DEF Improve, RunsInv, Running
<1>4. CASE UNCHANGED triggerVars
  BY <1>4, RunsInvKept
<1> QED BY <1>1, <1>2, <1>3, <1>4 DEF LoopNext, Judge, ImproveFails, PackageSkill
-----------------------------------------------------------------------------
(* All that is shown, or may be, was learnt on the train set; before the   *)
(* split nothing was.                                                      *)
LearntFromTrain ==
  /\ \E S : history \in Seq(S)
  /\ shown \subseteq QueriesOf(train)
  /\ \A k \in DOMAIN history : DOMAIN history[k].train \subseteq QueriesOf(train)
  /\ pc = "split" => history = <<>> /\ shown = {}

LEMMA GrownHistory ==
  ASSUME NEW S, NEW hs \in Seq(S), NEW e
  PROVE  /\ \E T : Append(hs, e) \in Seq(T)
         /\ \A k \in DOMAIN Append(hs, e) : Append(hs, e)[k] = e \/ (k \in DOMAIN hs /\ Append(hs, e)[k] = hs[k])
<1>1. hs \in Seq(S \cup {e})
  BY SeqMonotonic
<1>2. Append(hs, e) \in Seq(S \cup {e})
  BY <1>1
<1> QED BY <1>1, <1>2

LEMMA LoopLearns ==
  ASSUME LearntFromTrain, LoopNext
  PROVE  LearntFromTrain'
<1>1. CASE Split
  <2>1. history' = <<>> /\ shown' = {} /\ pc' = "eval"
    BY <1>1 DEF Split, LearntFromTrain
  <2>2. history' \in Seq({})
    BY <2>1
  <2> QED BY <2>1, <2>2 DEF LearntFromTrain
<1>2. CASE Judge
  <2>1. PICK last \in LastOf :
          history' = Append(history, [description |-> description, train |-> Part(Results(last), QueriesOf(train)),
                                      test |-> Part(Results(last), Queries(batch) \ QueriesOf(train))])
    BY <1>2 DEF Judge
  <2> DEFINE e == [description |-> description, train |-> Part(Results(last), QueriesOf(train)),
                   test |-> Part(Results(last), Queries(batch) \ QueriesOf(train))]
  <2>2. DOMAIN e.train \subseteq QueriesOf(train)
    BY DEF Part
  <2>3. history' = Append(history, e)
    BY <2>1
  <2>4. UNCHANGED <<setup, train, shown>> /\ pc' \in {"done", "improve"}
    BY <1>2 DEF Judge
  <2>5. QueriesOf(train)' = QueriesOf(train)
    BY <2>4 DEF QueriesOf
  <2> HIDE DEF e
  <2>6. (\E T : history' \in Seq(T))
        /\ \A k \in DOMAIN history' : history'[k] = e \/ (k \in DOMAIN history /\ history'[k] = history[k])
    BY <2>3, GrownHistory, Zenon DEF LearntFromTrain
  <2>7. \A k \in DOMAIN history' : DOMAIN history'[k].train \subseteq QueriesOf(train)
    BY <2>2, <2>6 DEF LearntFromTrain
  <2> QED BY <2>4, <2>5, <2>6, <2>7 DEF LearntFromTrain
<1>3. CASE Improve \/ ImproveFails
  <2>1. /\ shown' = shown \cup UNION {Blinded(history[k]) : k \in DOMAIN history}
        /\ UNCHANGED <<setup, train, history>> /\ pc' \in {"eval", "failed"}
    BY <1>3 DEF Improve, ImproveFails
  <2>2. QueriesOf(train)' = QueriesOf(train)
    BY <2>1 DEF QueriesOf
  <2>3. shown' \subseteq QueriesOf(train)
    BY <2>1 DEF Blinded, LearntFromTrain
  <2> QED BY <2>1, <2>2, <2>3 DEF LearntFromTrain
<1>4. CASE Evaluate \/ PackageSkill
  <2>1. UNCHANGED <<setup, train, history, shown>> /\ (pc' = "split" => pc = "split")
    BY <1>4 DEF Evaluate, PackageSkill, loopVars
  <2>2. QueriesOf(train)' = QueriesOf(train)
    BY <2>1 DEF QueriesOf
  <2> QED BY <2>1, <2>2 DEF LearntFromTrain
<1> QED BY <1>1, <1>2, <1>3, <1>4 DEF LoopNext
-----------------------------------------------------------------------------
(* A set of naturals has a least element, which is what Min gives, and a   *)
(* bounded one a greatest.                                                 *)
LEMMA MinOfNaturals ==
  ASSUME NEW S \in SUBSET Nat, S # {}
  PROVE  Min(S) \in S /\ \A x \in S : Min(S) <= x
<1>1. IsWellFoundedOn({ss \in Nat \X Nat : ss[1] < ss[2]}, Nat)
  BY NatLessThanWellFounded DEF OpToRel
<1>2. PICK m \in S : \A c \in S : <<c, m>> \notin {ss \in Nat \X Nat : ss[1] < ss[2]}
  BY <1>1, WFMin
<1>3. ASSUME NEW c \in S PROVE m <= c
  <2>1. <<c, m>> \in Nat \X Nat /\ <<c, m>>[1] = c /\ <<c, m>>[2] = m
    OBVIOUS
  <2>2. ~(<<c, m>>[1] < <<c, m>>[2])
    BY <1>2, <2>1, Zenon
  <2> QED BY <2>1, <2>2
<1> QED BY <1>3 DEF Min

LEMMA BoundedHasGreatest ==
  ASSUME NEW S \in SUBSET Nat, S # {}, NEW b \in Nat, \A x \in S : x <= b
  PROVE  \E g \in S : \A x \in S : x <= g
<1> DEFINE B == {c \in Nat : \A x \in S : x <= c}
           m == Min(B)
<1>1. B \in SUBSET Nat /\ B # {}
  OBVIOUS
<1>2. m \in B /\ \A c \in B : m <= c
  <2> HIDE DEF B
  <2> QED BY <1>1, MinOfNaturals
<1> HIDE DEF m
<1>3. m \in S
  <2> SUFFICES ASSUME m \notin S PROVE FALSE
    OBVIOUS
  <2>1. m \in Nat /\ \A x \in S : x < m
    BY <1>2
  <2>2. PICK y \in S : y < m
    BY <2>1
  <2>3. m - 1 \in Nat /\ \A x \in S : x <= m - 1
    BY <2>1, <2>2
  <2>4. m <= m - 1
    BY <1>2, <2>3
  <2> QED BY <2>1, <2>4
<1> QED BY <1>2, <1>3

(* SetToSeq lists the set.                                                 *)
LEMMA SetToSeqLists ==
  ASSUME NEW S, IsFiniteSet(S)
  PROVE  SetToSeq(S) \in Seq(S)
<1>1. Cardinality(S) \in Nat /\ \E f \in [1 .. Cardinality(S) -> S] : IsInjective(f)
  BY FS_CardinalityType DEF ExistsBijection, Bijection, Injection
<1>2. SetToSeq(S) \in [1 .. Cardinality(S) -> S]
  BY <1>1 DEF SetToSeq
<1> QED BY <1>1, <1>2

(* With r runs of each of n items, run t is one of item (t - 1) \div r + 1. *)
LEMMA RunOfItem ==
  ASSUME NEW n \in Nat, NEW r \in Nat \ {0}, NEW t \in 1 .. n * r
  PROVE  ((t - 1) \div r) + 1 \in 1 .. n
<1> DEFINE q == (t - 1) \div r
<1>1. q \in Int /\ r * q <= t - 1 /\ t - 1 < r * q + r
  OBVIOUS
<1> HIDE DEF q
<1>2. q >= 0
  BY <1>1
<1>3. q < n
  BY <1>1, <1>2
<1> QED BY <1>2, <1>3 DEF q

LEMMA RunsAreOfItems ==
  ASSUME setup.items \in Seq([query : {setup.items[i].query : i \in DOMAIN setup.items}, should : BOOLEAN]),
         setup.runs \in Nat \ {0},
         NEW first \in SUBSET DOMAIN setup.items, NEW second \in SUBSET DOMAIN setup.items
  PROVE  Queries(AllRuns(first, second)) \subseteq QueriesOf(DOMAIN setup.items)
<1> DEFINE order == SetToSeq(first) \o SetToSeq(second)
<1>1. IsFiniteSet(DOMAIN setup.items)
  BY FS_Interval
<1>2. IsFiniteSet(first) /\ IsFiniteSet(second)
  BY <1>1, FS_Subset
<1>3. SetToSeq(first) \in Seq(DOMAIN setup.items) /\ SetToSeq(second) \in Seq(DOMAIN setup.items)
  BY <1>2, SetToSeqLists, SeqMonotonic
<1>4. order \in Seq(DOMAIN setup.items)
  BY <1>3
<1> HIDE DEF order
<1> DEFINE place(t) == ((t - 1) \div setup.runs) + 1
<1>5. AllRuns(first, second) =
        [t \in 1 .. Len(order) * setup.runs |-> setup.items[order[place(t)]]]
  BY DEF AllRuns, order
<1>6. ASSUME NEW t \in 1 .. Len(order) * setup.runs
      PROVE  order[place(t)] \in DOMAIN setup.items
  <2>1. Len(order) \in Nat
    BY <1>4
  <2>2. place(t) \in 1 .. Len(order)
    BY <2>1, RunOfItem
  <2> HIDE DEF place
  <2> QED BY <1>4, <2>2, ElementOfSeq
<1> HIDE DEF place
<1>7. \A t \in DOMAIN AllRuns(first, second) :
        \E i \in DOMAIN setup.items : AllRuns(first, second)[t] = setup.items[i]
  BY <1>5, <1>6
<1> QED BY <1>7 DEF Queries, QueriesOf
(* What was judged: every text is one of the set's, and counts as train    *)
(* only if the train set has it.                                           *)
EntryRight(h) ==
  /\ DOMAIN h.train \subseteq QueriesOf(train)
  /\ DOMAIN h.test \subseteq QueriesOf(DOMAIN setup.items) \ QueriesOf(train)

(* From the split on the items are in one set or the other and the batch   *)
(* has no other texts; when the loop is over the best was found.           *)
BestInv ==
  /\ pc \in {"off", "split", "eval", "improve", "done", "failed", "packaged"}
  /\ pc # "off" => setup \in Setups
  /\ pc \notin {"off", "split"} =>
       /\ train = DOMAIN setup.items \ test
       /\ Queries(batch) \subseteq QueriesOf(DOMAIN setup.items)
       /\ \A k \in DOMAIN history : EntryRight(history[k])
  /\ pc \in {"done", "packaged"} => history # <<>> /\ best = Best(history)

LEMMA SplitBest ==
  ASSUME LearntFromTrain, BestInv, Split
  PROVE  BestInv'
<1>1. /\ pc = "split" /\ pc' = "eval" /\ setup' = setup /\ history' = history
      /\ IF setup.holdout[1] > 0 THEN SplitEvalSet ELSE train' = DOMAIN setup.items /\ test' = {}
      /\ batch' = AllRuns(train', test')
  BY DEF Split, Submit
<1>2. setup \in Setups /\ history = <<>>
  BY <1>1 DEF BestInv, LearntFromTrain
<1>3. train' \subseteq DOMAIN setup.items /\ test' \subseteq DOMAIN setup.items
      /\ train' = DOMAIN setup.items \ test'
  <2>1. CASE setup.holdout[1] > 0
    BY <1>1, <2>1 DEF SplitEvalSet, Items
  <2>2. CASE ~(setup.holdout[1] > 0)
    BY <1>1, <2>2
  <2> QED BY <2>1, <2>2
<1>4. Queries(batch') \subseteq QueriesOf(DOMAIN setup.items)
  <2>1. /\ setup.items \in Seq([query : {setup.items[i].query : i \in DOMAIN setup.items}, should : BOOLEAN])
        /\ setup.runs \in Nat \ {0}
    BY <1>2, SkillLoopAssumption
  <2> QED BY <1>1, <1>3, <2>1, RunsAreOfItems
<1>5. (Queries(batch) \subseteq QueriesOf(DOMAIN setup.items))'
  BY <1>1, <1>4 DEF QueriesOf, Queries
<1>6. DOMAIN history' = {}
  BY <1>1, <1>2
<1> QED BY <1>1, <1>2, <1>3, <1>5, <1>6 DEF BestInv

LEMMA JudgeBest ==
  ASSUME LearntFromTrain, BestInv, Judge
  PROVE  BestInv'
<1>1. PICK last \in LastOf :
        /\ history' = Append(history, [description |-> description, train |-> Part(Results(last), QueriesOf(train)),
                                       test |-> Part(Results(last), Queries(batch) \ QueriesOf(train))])
        /\ pc' \in {"done", "improve"}
        /\ pc' = "done" => best' = Best(history')
  BY DEF Judge
<1> DEFINE e == [description |-> description, train |-> Part(Results(last), QueriesOf(train)),
                 test |-> Part(Results(last), Queries(batch) \ QueriesOf(train))]
<1>2. history' = Append(history, e)
  BY <1>1
<1>3. pc = "eval" /\ UNCHANGED <<setup, train, test, batch>>
  BY DEF Judge, triggerVars
<1>4. EntryRight(e)
  <2>1. Queries(batch) \subseteq QueriesOf(DOMAIN setup.items)
    BY <1>3 DEF BestInv
  <2> QED BY <2>1 DEF EntryRight, Part
<1> HIDE DEF e
<1>5. \A k \in DOMAIN history' : history'[k] = e \/ (k \in DOMAIN history /\ history'[k] = history[k])
  BY <1>2, GrownHistory, Zenon DEF LearntFromTrain
<1>6. \A k \in DOMAIN history' : EntryRight(history'[k])
  BY <1>3, <1>4, <1>5 DEF BestInv
<1>7. \A h : EntryRight(h) => EntryRight(h)'
  BY <1>3 DEF EntryRight, QueriesOf
<1>8. \A k \in DOMAIN history' : EntryRight(history[k])'
  BY <1>3, <1>6 DEF EntryRight, QueriesOf
<1>9. Best(history)' = Best(history')
  BY <1>3 DEF Best, Score
<1>10. history' # <<>>
  BY <1>2 DEF LearntFromTrain
<1> QED BY <1>1, <1>3, <1>8, <1>9, <1>10 DEF BestInv, QueriesOf, Queries

LEMMA LoopFindsBest ==
  ASSUME LearntFromTrain, BestInv, LoopNext
  PROVE  BestInv'
<1>1. CASE UNCHANGED <<setup, train, test, history>> /\ Queries(batch)' = Queries(batch)
           /\ pc \notin {"off", "split"} /\ pc' \notin {"off", "split"}
           /\ pc' \in {"eval", "improve", "done", "failed", "packaged"}
           /\ (pc' \in {"done", "packaged"} => pc \in {"done", "packaged"} /\ UNCHANGED best)
  <2>1. \A k \in DOMAIN history : EntryRight(history[k]) <=> EntryRight(history[k])'
    BY <1>1 DEF EntryRight, QueriesOf
  <2>2. Best(history)' = Best(history)
    BY <1>1 DEF Best, Score
  <2>3. QueriesOf(DOMAIN setup.items)' = QueriesOf(DOMAIN setup.items)
    BY <1>1 DEF QueriesOf
  <2> QED BY <1>1, <2>1, <2>2, <2>3 DEF BestInv
<1>2. CASE Evaluate
  <2>1. UNCHANGED <<pc, setup, train, test, history, best>> /\ pc = "eval"
    BY <1>2 DEF Evaluate, loopVars
  <2>2. batch' = batch
    BY <1>2 DEF Evaluate, Begin, Hear, BlockStart, AssistantMessage, BlockStop, NoSkill, CutShort, Returns, WorkerDies
  <2> QED BY <1>1, <2>1, <2>2 DEF Queries
<1>3. CASE Improve \/ ImproveFails \/ PackageSkill
  <2>1. UNCHANGED <<setup, train, test, history, best, batch>>
    BY <1>3 DEF Improve, ImproveFails, PackageSkill, Submit, triggerVars
  <2>2. /\ pc \in {"improve", "done"} /\ pc' \in {"eval", "failed", "packaged"}
        /\ (pc' = "packaged" => pc = "done")
    BY <1>3 DEF Improve, ImproveFails, PackageSkill
  <2> QED BY <1>1, <2>1, <2>2 DEF Queries
<1> QED BY <1>2, <1>3, SplitBest, JudgeBest DEF LoopNext

LEMMA BestKept == BestInv /\ UNCHANGED loopOnly => BestInv'
BY DEF BestInv, EntryRight, QueriesOf, Queries, Best, Score, loopOnly, loopVars, triggerVars

(* The texts an iteration got right among those that decide: those of the  *)
(* test part, or of the train part if nothing is held out.                 *)
Right(h) ==
  {q \in QueriesOf(DOMAIN setup.items) :
     /\ test # {} => q \notin QueriesOf(train)
     /\ (q \in DOMAIN h.train /\ h.train[q]) \/ (q \in DOMAIN h.test /\ h.test[q])}

LEMMA TextsFinite ==
  ASSUME setup \in Setups
  PROVE  IsFiniteSet(QueriesOf(DOMAIN setup.items)) /\ Cardinality(QueriesOf(DOMAIN setup.items)) \in Nat
<1> DEFINE D == DOMAIN setup.items
           f == [i \in D |-> setup.items[i].query]
<1>1. setup.items \in Seq([query : {setup.items[i].query : i \in DOMAIN setup.items}, should : BOOLEAN])
  BY SkillLoopAssumption
<1>2. IsFiniteSet(D)
  BY <1>1, FS_Interval
<1>3. f \in Surjection(D, QueriesOf(D))
  BY DEF Surjection, QueriesOf
<1> HIDE DEF f
<1> QED BY <1>2, <1>3, FS_Surjection, FS_CardinalityType

LEMMA ScoreOfRight ==
  ASSUME BestInv, pc \notin {"off", "split"}, NEW h, EntryRight(h)
  PROVE  /\ Score(h) = Cardinality(Right(h)) /\ Score(h) \in Nat
         /\ Score(h) <= Cardinality(QueriesOf(DOMAIN setup.items))
<1>1. train \subseteq DOMAIN setup.items /\ (test = {} => train = DOMAIN setup.items)
  BY DEF BestInv
<1>2. QueriesOf(train) \subseteq QueriesOf(DOMAIN setup.items)
  BY <1>1 DEF QueriesOf
<1>3. ASSUME test = {} PROVE Score(h) = Cardinality(Right(h))
  <2>1. DOMAIN h.test = {} /\ DOMAIN h.train \subseteq QueriesOf(DOMAIN setup.items)
    BY <1>1, <1>2, <1>3 DEF EntryRight
  <2>2. Right(h) = {q \in DOMAIN h.train : h.train[q]}
    BY <1>3, <2>1 DEF Right
  <2> QED BY <1>3, <2>2 DEF Score, Passed
<1>4. ASSUME test # {} PROVE Score(h) = Cardinality(Right(h))
  <2>1. Right(h) = {q \in DOMAIN h.test : h.test[q]}
    BY <1>4 DEF Right, EntryRight
  <2> QED BY <1>4, <2>1 DEF Score, Passed
<1>5. Right(h) \subseteq QueriesOf(DOMAIN setup.items)
  BY DEF Right
<1>6. IsFiniteSet(QueriesOf(DOMAIN setup.items))
  BY TextsFinite DEF BestInv
<1> QED BY <1>3, <1>4, <1>5, <1>6, FS_Subset, FS_CardinalityType

(* The iterations that no other beat.                                      *)
Unbeaten == {i \in DOMAIN history : \A j \in DOMAIN history : Score(history[j]) <= Score(history[i])}

LEMMA BestIsFirst ==
  ASSUME LearntFromTrain, BestInv, pc \in {"done", "packaged"}
  PROVE  best \in Unbeaten /\ \A x \in Unbeaten : best <= x
<1> DEFINE top == Cardinality(QueriesOf(DOMAIN setup.items))
           reached == {Score(history[j]) : j \in DOMAIN history}
<1>1. DOMAIN history \subseteq Nat
  BY DEF LearntFromTrain
<1>2. \A j \in DOMAIN history : Score(history[j]) \in Nat /\ Score(history[j]) <= top
  BY ScoreOfRight DEF BestInv
<1>3. top \in Nat
  BY TextsFinite DEF BestInv
<1>4. PICK g \in reached : \A x \in reached : x <= g
  <2>1. reached \in SUBSET Nat /\ reached # {} /\ \A x \in reached : x <= top
    BY <1>2 DEF BestInv, LearntFromTrain
  <2> HIDE DEF reached, top
  <2> QED BY <1>3, <2>1, BoundedHasGreatest
<1>5. Unbeaten \in SUBSET Nat /\ Unbeaten # {}
  BY <1>1, <1>4 DEF Unbeaten
<1>6. best = Min(Unbeaten)
  BY DEF BestInv, Best, Unbeaten
<1> QED BY <1>5, <1>6, MinOfNaturals

LEMMA BestIsPackaged == LearntFromTrain /\ BestInv => PackagedIsBest
<1> SUFFICES ASSUME LearntFromTrain, BestInv, pc = "packaged", NEW k \in DOMAIN history
             PROVE  /\ Cardinality(Right(history[k])) <= Cardinality(Right(history[best]))
                    /\ k < best => Cardinality(Right(history[k])) < Cardinality(Right(history[best]))
  BY DEF PackagedIsBest, Right
<1>1. DOMAIN history \subseteq Nat
  BY DEF LearntFromTrain
<1>2. \A j \in DOMAIN history : Score(history[j]) = Cardinality(Right(history[j])) /\ Score(history[j]) \in Nat
  BY ScoreOfRight DEF BestInv
<1>3. best \in Unbeaten /\ \A x \in Unbeaten : best <= x
  BY BestIsFirst
<1>4. best \in DOMAIN history /\ Score(history[k]) <= Score(history[best])
  BY <1>3 DEF Unbeaten
<1>5. ASSUME k < best PROVE Score(history[k]) < Score(history[best])
  <2>1. k \notin Unbeaten
    BY <1>1, <1>3, <1>4, <1>5
  <2>2. PICK j \in DOMAIN history : ~(Score(history[j]) <= Score(history[k]))
    BY <2>1 DEF Unbeaten
  <2>3. Score(history[j]) <= Score(history[best])
    BY <1>3 DEF Unbeaten
  <2> QED BY <1>2, <1>4, <2>2, <2>3
<1> QED BY <1>2, <1>4, <1>5

(* The sets are of the items, and the iterations are numbered; before the  *)
(* loop is over there is none that is best.                                *)
LoopBounds ==
  /\ train \subseteq DOMAIN setup.items /\ test \subseteq DOMAIN setup.items
  /\ description \in Description /\ Len(history) <= MaxIterations
  /\ pc \in {"split", "eval", "improve"} => Len(history) < MaxIterations
  /\ pc \notin {"done", "packaged"} => best = 0

LEMMA LoopKeepsBounds ==
  ASSUME LearntFromTrain, LoopBounds, LoopNext
  PROVE  LoopBounds'
<1>1. CASE Split
  <2>1. /\ pc = "split" /\ pc' = "eval" /\ UNCHANGED <<setup, description, history, best>>
        /\ IF setup.holdout[1] > 0 THEN SplitEvalSet ELSE train' = DOMAIN setup.items /\ test' = {}
    BY <1>1 DEF Split
  <2>2. train' \subseteq DOMAIN setup.items /\ test' \subseteq DOMAIN setup.items
    BY <2>1 DEF SplitEvalSet, Items
  <2> QED BY <2>1, <2>2 DEF LoopBounds
<1>2. CASE Judge
  <2>1. PICK e :
          /\ history' = Append(history, e)
          /\ pc' \in {"done", "improve"} /\ (pc' = "improve" => Len(Append(history, e)) # MaxIterations /\ best' = 0)
    <3>1. PICK last \in LastOf :
            LET e == [description |-> description, train |-> Part(Results(last), QueriesOf(train)),
                      test |-> Part(Results(last), Queries(batch) \ QueriesOf(train))]
                over == AllPassed(e.train) \/ Len(Append(history, e)) = MaxIterations
            IN /\ history' = Append(history, e)
               /\ pc' = (IF over THEN "done" ELSE "improve")
               /\ best' = (IF over THEN Best(Append(history, e)) ELSE 0)
      BY <1>2, Zenon DEF Judge
    <3> DEFINE e == [description |-> description, train |-> Part(Results(last), QueriesOf(train)),
                     test |-> Part(Results(last), Queries(batch) \ QueriesOf(train))]
               over == AllPassed(e.train) \/ Len(Append(history, e)) = MaxIterations
    <3>2. /\ history' = Append(history, e)
          /\ pc' = (IF over THEN "done" ELSE "improve")
          /\ best' = (IF over THEN Best(Append(history, e)) ELSE 0)
      BY <3>1
    <3> HIDE DEF e
    <3> QED BY <3>2
  <2>2. pc = "eval" /\ UNCHANGED <<setup, train, test, description>>
    BY <1>2 DEF Judge
  <2>3. Len(history) \in Nat /\ Len(Append(history, e)) = Len(history) + 1
    BY DEF LearntFromTrain
  <2>4. Len(history) < MaxIterations /\ MaxIterations \in Nat
    BY <2>2, SkillLoopAssumption DEF LoopBounds
  <2> QED BY <2>1, <2>2, <2>3, <2>4 DEF LoopBounds
<1>3. CASE Evaluate \/ Improve \/ ImproveFails \/ PackageSkill
  <2>1. /\ UNCHANGED <<setup, train, test, history, best>> /\ description' \in Description
        /\ \/ pc' = pc
           \/ pc = "improve" /\ pc' \in {"eval", "failed"}
           \/ pc = "done" /\ pc' = "packaged"
    BY <1>3 DEF Evaluate, Improve, ImproveFails, PackageSkill, loopVars, LoopBounds
  <2> QED BY <2>1 DEF LoopBounds
<1> QED BY <1>1, <1>2, <1>3 DEF LoopNext

LEMMA BoundsKept == LoopBounds /\ UNCHANGED loopVars => LoopBounds'
BY DEF LoopBounds, loopVars

LEMMA LoopIsTyped == LearntFromTrain /\ BestInv /\ LoopBounds => LoopTyped
<1> SUFFICES ASSUME LearntFromTrain, BestInv, LoopBounds PROVE LoopTyped
  OBVIOUS
<1>1. shown \subseteq QueriesOf(DOMAIN setup.items)
  BY DEF LearntFromTrain, LoopBounds, QueriesOf
<1>2. pc \in {"done", "packaged"} => best \in DOMAIN history
  BY BestIsFirst DEF Unbeaten
<1> QED BY <1>1, <1>2 DEF LoopTyped, BestInv, LoopBounds
-----------------------------------------------------------------------------
(* Where with_server.py is, and what is up then: the servers of the use    *)
(* under way are among the started ones, and those that it has yet to      *)
(* stop, but for the named exceptions.                                     *)
ServersInv ==
  /\ ServersTyped /\ ServersStopped
  /\ step # "off" => uses > 0
  /\ step = "command" => next = 1
  /\ step \in {"start", "wait"} => started <= next
  /\ \A s \in alive : s[1] = uses =>
       \/ s[2] <= started /\ (step = "stop" => s[2] >= next)
       \/ s[2] \in compound \/ s[1] \in cut

LEMMA ServerStepInv ==
  ASSUME ServersInv, ServerNext
  PROVE  ServersInv'
<1> USE WithServerAssumption DEF ServersInv, ServersTyped, ServersStopped, Server
<1>0. \A s \in alive : s[1] \in 1 .. uses /\ s[2] \in Server /\ s = <<s[1], s[2]>>
  OBVIOUS
<1>1. CASE UseServers
  BY <1>0, <1>1 DEF UseServers
<1>2. CASE StartServer
  <2>1. ServersTyped'
    BY <1>0, <1>2 DEF StartServer
  <2>2. ServersStopped'
    BY <1>0, <1>2 DEF StartServer
  <2>3. ServersInv'
    BY <1>0, <1>2, <2>1, <2>2 DEF StartServer
  <2> QED BY <2>3
<1>3. CASE ServerReady
  BY <1>0, <1>3 DEF ServerReady
<1>4. CASE ServerTimesOut
  BY <1>0, <1>4 DEF ServerTimesOut, AfterFailure
<1>5. CASE CommandEnds
  <2>1. step = "command" /\ step' = "stop" /\ UNCHANGED <<next, started, compound, alive, holder, uses, cut>>
    BY <1>5 DEF CommandEnds
  <2>2. ServersTyped' /\ ServersStopped'
    BY <2>1
  <2>3. next = 1
    BY <2>1
  <2> QED BY <1>0, <2>1, <2>2, <2>3
<1>6. CASE Interrupt
  <2>1. CASE UNCHANGED <<alive, cut>>
    BY <1>0, <1>6, <2>1 DEF Interrupt
  <2>2. CASE step = "start" /\ alive' = alive \cup {<<uses, next>>} /\ cut' = cut \cup {uses}
    <3>1. /\ step' = "stop" /\ next' = 1 /\ UNCHANGED <<started, compound, holder, uses>>
          /\ uses \in 1 .. uses /\ next \in Server
      BY <1>6, <2>2 DEF Interrupt
    <3>2. ServersTyped'
      BY <1>0, <2>2, <3>1
    <3>3. ServersStopped'
      BY <1>0, <2>2, <3>1
    <3> QED BY <1>0, <2>2, <3>1, <3>2, <3>3
  <2> QED BY <1>6, <2>1, <2>2 DEF Interrupt
<1>7. CASE StopServer
  <2>1. ServersTyped'
    BY <1>0, <1>7 DEF StopServer, Freed
  <2>2. ServersStopped'
    BY <1>0, <1>7 DEF StopServer, Freed
  <2>3. ServersInv'
    <3>1. /\ step = "stop" /\ next <= started /\ next' = next + 1 /\ next \in Nat /\ started \in Nat
          /\ UNCHANGED <<step, started, compound, uses, cut>>
      BY <1>7 DEF StopServer
    <3>2. CASE next \in compound /\ UNCHANGED <<alive, holder>>
      BY <1>0, <2>1, <2>2, <3>1, <3>2
    <3>3. CASE alive' = alive \ {<<uses, next>>}
      <4>1. \A s \in alive' : s[1] = uses => s[2] # next /\ s[2] \in Nat
        BY <1>0, <3>3
      <4>2. \A s \in alive' : s[1] = uses => (s[2] <= started /\ s[2] >= next + 1) \/ s[2] \in compound \/ s[1] \in cut
        BY <3>1, <3>3, <4>1
      <4>3. uses' > 0 /\ ~(step' \in {"start", "wait"}) /\ step' # "command"
        BY <3>1
      <4>4. \A s \in alive' : s[1] = uses' => (s[2] <= started' /\ (step' = "stop" => s[2] >= next'))
                                             \/ s[2] \in compound' \/ s[1] \in cut'
        BY <3>1, <4>2
      <4> QED BY <2>1, <2>2, <4>3, <4>4
    <3> QED BY <1>7, <3>2, <3>3, Zenon DEF StopServer
  <2> QED BY <2>3
<1>8. CASE AllStopped
  BY <1>0, <1>8 DEF AllStopped
<1>9. CASE CutOff
  BY <1>0, <1>9 DEF CutOff
<1>10. ASSUME NEW s \in alive, Bind(s) \/ ServerEnds(s)
       PROVE  ServersInv'
  <2>1. s[1] \in 1 .. uses /\ s[2] \in Server /\ s = <<s[1], s[2]>>
    BY <1>0
  <2>2. ServersTyped'
    <3>1. CASE Bind(s)
      BY <2>1, <3>1 DEF Bind
    <3>2. CASE ServerEnds(s)
      BY <2>1, <3>2 DEF ServerEnds, Freed
    <3> QED BY <1>10, <3>1, <3>2
  <2>3. ServersStopped'
    <3>1. CASE Bind(s)
      BY <1>0, <2>1, <3>1 DEF Bind
    <3>2. CASE ServerEnds(s)
      <4>1. \A i \in Server : holder'[i] # 0 => holder'[i] = holder[i] /\ <<holder[i], i>> # s
        BY <2>1, <3>2 DEF ServerEnds, Freed
      <4> QED BY <1>0, <2>1, <3>2, <4>1 DEF ServerEnds
    <3> QED BY <1>10, <3>1, <3>2
  <2>4. UNCHANGED <<step, next, started, compound, uses, cut>> /\ alive' \subseteq alive
    BY <1>10 DEF Bind, ServerEnds
  <2> QED BY <2>2, <2>3, <2>4
<1> QED BY <1>1, <1>2, <1>3, <1>4, <1>5, <1>6, <1>7, <1>8, <1>9, <1>10 DEF ServerNext
-----------------------------------------------------------------------------
(* Two maps of texts that say the same: blank texts and missing ones are   *)
(* not told apart.                                                         *)
Says(f, r) == IF r \in DOMAIN f THEN f[r] ELSE ""
Same(f, g) == \A r : Says(f, r) = Says(g, r)

LEMMA SaidIs ==
  ASSUME NEW f
  PROVE  /\ DOMAIN Said(f) = {r \in DOMAIN f : f[r] # ""} /\ \A r \in DOMAIN Said(f) : Said(f)[r] = f[r]
         /\ \A r : Says(Said(f), r) = Says(f, r)
BY DEF Said, Restrict, Says

LEMMA SameSaid ==
  ASSUME NEW f, NEW g
  PROVE  Same(f, g) => Said(f) = Said(g)
<1> HAVE Same(f, g)
<1>1. {r \in DOMAIN f : f[r] # ""} = {r \in DOMAIN g : g[r] # ""}
  BY DEF Same, Says
<1>2. \A r \in {q \in DOMAIN f : f[q] # ""} : f[r] = g[r]
  BY DEF Same, Says
<1> QED BY <1>1, <1>2 DEF Said, Restrict

LEMMA SaidSame ==
  ASSUME NEW f, NEW g, Said(f) = Said(g)
  PROVE  Same(f, g)
<1>1. \A r : Says(f, r) = Says(Said(f), r) /\ Says(g, r) = Says(Said(g), r)
  BY SaidIs
<1> QED BY <1>1 DEF Same

LEMMA NothingSaid == (\A r : Says(Nothing, r) = "") /\ Said(Nothing) = Nothing
BY DEF Nothing, Says, Said, Restrict

(* What the texts say after one of them was typed.                         *)
TypedIn(f, g, r, text) == \A q : Says(f, q) = IF q = r THEN text ELSE Says(g, q)

LEMMA WithSays ==
  ASSUME NEW f, NEW r, NEW text
  PROVE  TypedIn(With(f, r, text), f, r, text)
BY DEF TypedIn, With, Says

LEMMA TypedSays ==
  ASSUME NEW r, NEW text
  PROVE  TypedIn(Typed(r, text), feedbackMap, r, text) /\ DOMAIN Typed(r, text) \subseteq DOMAIN feedbackMap \cup {r}
<1>1. CASE text = ""
  BY <1>1 DEF TypedIn, Typed, Restrict, Says
<1>2. CASE text # ""
  <2>1. Typed(r, text) = With(feedbackMap, r, text)
    BY <1>2 DEF Typed
  <2>2. DOMAIN With(feedbackMap, r, text) = DOMAIN feedbackMap \cup {r}
    BY DEF With
  <2> QED BY <2>1, <2>2, WithSays
<1> QED BY <1>1, <1>2
-----------------------------------------------------------------------------
(* While no page was loaded that did not show what was saved: the file     *)
(* says what the reviewer was told is saved unless the last save failed,   *)
(* an open page what the reviewer typed, and a page that has yet to ask    *)
(* knows all runs of the file.                                             *)
ReviewInv ==
  /\ ReviewTyped
  /\ page = "loading" => DOMAIN feedback \subseteq embedded
  /\ ~reloaded => /\ unsaved \/ Same(feedback, said)
                  /\ page = "loading" => ~unsaved /\ Same(typed, said)
                  /\ page = "shown" => Same(feedbackMap, typed)
                  /\ previous.feedback = Nothing \/ Same(previous.feedback, saidBefore)

LEMMA OfRunsIs ==
  /\ OfRuns(Nothing)
  /\ \A f : OfRuns(f) => OfRuns(Said(f))
  /\ \A f : \A r \in Run, text \in Text \cup {""} : OfRuns(f) => OfRuns(With(f, r, text))
  /\ \A r \in Run, text \in Text \cup {""} : OfRuns(feedbackMap) => OfRuns(Typed(r, text))
<1>1. OfRuns(Nothing)
  BY DEF OfRuns, Nothing
<1>2. ASSUME NEW f, NEW S, OfRuns(f) PROVE OfRuns(Restrict(f, DOMAIN f \cap S))
  BY <1>2 DEF OfRuns, Restrict
<1>3. ASSUME NEW f, OfRuns(f) PROVE OfRuns(Said(f))
  <2>1. DOMAIN f \cap {r \in DOMAIN f : f[r] # ""} = {r \in DOMAIN f : f[r] # ""}
    OBVIOUS
  <2> QED BY <1>2, <1>3, <2>1 DEF Said
<1>4. ASSUME NEW f, NEW r \in Run, NEW text \in Text \cup {""}, OfRuns(f) PROVE OfRuns(With(f, r, text))
  BY <1>4 DEF OfRuns, With
<1>5. ASSUME NEW r \in Run, NEW text \in Text \cup {""}, OfRuns(feedbackMap) PROVE OfRuns(Typed(r, text))
  <2>1. DOMAIN feedbackMap \cap (DOMAIN feedbackMap \ {r}) = DOMAIN feedbackMap \ {r}
    OBVIOUS
  <2> QED BY <1>2, <1>4, <1>5, <2>1 DEF Typed
<1> QED BY <1>1, <1>3, <1>4, <1>5

LEMMA ReviewInitInv == ReviewInit => ReviewInv
<1> SUFFICES ASSUME ReviewInit PROVE ReviewInv
  OBVIOUS
<1>1. /\ feedback = Nothing /\ said = Nothing /\ previous = [feedback |-> Nothing, outputs |-> {}]
      /\ feedbackMap = Nothing /\ typed = Nothing /\ saidBefore = Nothing
  BY DEF ReviewInit
<1>2. /\ page = "none" /\ reloaded = FALSE /\ unsaved = FALSE /\ serving = FALSE
      /\ outputs = {} /\ embedded = {} /\ reviews = 1
  BY DEF ReviewInit
<1>3. DOMAIN Nothing = {}
  BY DEF Nothing
<1>4. ReviewTyped
  BY <1>1, <1>2, <1>3, OfRunsIs DEF ReviewTyped
<1> QED BY <1>1, <1>2, <1>3, <1>4 DEF ReviewInv, Same

(* A request that saves what the page has.                                 *)
LEMMA PostInv ==
  ASSUME ReviewInv, NEW r \in embedded, NEW text \in Text \cup {""}, NEW reviewed, NEW final \in BOOLEAN,
         page = "shown", feedbackMap' = Typed(r, text), Post(r, text, reviewed, final),
         DOMAIN reviewed \subseteq embedded, OfRuns(reviewed), Same(reviewed, feedbackMap')
  PROVE  ReviewInv'
<1>1. /\ typed' = With(typed, r, text)
      /\ UNCHANGED <<outputs, previous, reviews, page, embedded, saidBefore, reloaded>>
  BY DEF Post
<1>2. r \in Run
  BY DEF ReviewInv, ReviewTyped
<1>3. ~reloaded => Same(feedbackMap', typed')
  <2>1. TypedIn(feedbackMap', feedbackMap, r, text)
    BY TypedSays
  <2>2. TypedIn(typed', typed, r, text)
    BY <1>1, WithSays
  <2> QED BY <2>1, <2>2 DEF ReviewInv, Same, TypedIn
<1>4. /\ feedback' \in {feedback, Nothing, reviewed} /\ said' \in {typed', said}
      /\ serving' \in BOOLEAN /\ unsaved' \in BOOLEAN
  <2>1. said' \in {typed', said}
    BY DEF Post
  <2>2. CASE Answered(reviewed)
    BY <2>1, <2>2 DEF Answered, ReviewInv, ReviewTyped
  <2>3. CASE Unanswered(reviewed, final)
    BY <2>1, <2>3, Zenon DEF Unanswered, ReviewInv, ReviewTyped
  <2> QED BY <2>2, <2>3 DEF Post
<1>5. ~reloaded => unsaved' \/ Same(feedback', said')
  <2>1. CASE Answered(reviewed) /\ said' = typed'
    <3>1. feedback' = reviewed \/ unsaved'
      BY <2>1 DEF Answered
    <3> QED BY <1>3, <2>1, <3>1 DEF Same
  <2>2. CASE Unanswered(reviewed, final) /\ said' = IF final THEN typed' ELSE said
    <3>1. unsaved' \/ (~unsaved /\ ~final /\ feedback' = feedback)
      BY <2>2 DEF Unanswered
    <3> QED BY <2>2, <3>1 DEF ReviewInv
  <2> QED BY <2>1, <2>2 DEF Post
<1>6. DOMAIN feedbackMap' \subseteq embedded
  <2>1. DOMAIN feedbackMap' \subseteq DOMAIN feedbackMap \cup {r}
    BY TypedSays, Zenon
  <2> QED BY <2>1 DEF ReviewInv, ReviewTyped
<1>7. DOMAIN feedback' \subseteq outputs
  BY <1>4 DEF ReviewInv, ReviewTyped, Nothing
<1>8. OfRuns(feedback') /\ OfRuns(said') /\ OfRuns(typed') /\ OfRuns(feedbackMap')
  BY <1>1, <1>2, <1>4, OfRunsIs DEF ReviewInv, ReviewTyped
<1>9. ReviewTyped'
  BY <1>1, <1>4, <1>6, <1>7, <1>8 DEF ReviewInv, ReviewTyped, OfRuns
<1> QED BY <1>1, <1>3, <1>5, <1>9 DEF ReviewInv

LEMMA ReviewStepInv ==
  ASSUME ReviewInv, ReviewNext
  PROVE  ReviewInv'
<1>1. CASE (\E r \in Run : Produce(r)) \/ Serve \/ StopServing
  <2>1. /\ UNCHANGED <<feedback, previous, reviews, page, embedded, feedbackMap, typed, said, saidBefore, unsaved, reloaded>>
        /\ outputs \subseteq outputs' /\ outputs' \subseteq Run /\ serving' \in BOOLEAN
    BY <1>1 DEF Produce, Serve, StopServing, ReviewInv, ReviewTyped
  <2>2. ReviewTyped'
    BY <2>1 DEF ReviewInv, ReviewTyped, OfRuns
  <2> QED BY <2>1, <2>2 DEF ReviewInv
<1>2. CASE LoadPage
  <2>1. /\ page' = (IF ~HasPrevious THEN "loading" ELSE "shown")
        /\ embedded' = outputs /\ feedbackMap' = Nothing /\ typed' = said
        /\ reloaded' = (reloaded \/ unsaved \/ (HasPrevious /\ Said(feedback) # Nothing))
        /\ UNCHANGED <<outputs, feedback, previous, reviews, serving, said, saidBefore, unsaved>>
    BY <1>2 DEF LoadPage, Asks
  <2>2. DOMAIN feedbackMap' = {}
    BY <2>1 DEF Nothing
  <2>3. ~reloaded' => ~reloaded /\ ~unsaved /\ Same(feedback, said)
    BY <2>1 DEF ReviewInv, ReviewTyped
  <2>4. ~reloaded' /\ page' = "shown" => Same(feedbackMap', typed')
    <3>1. ~reloaded' /\ page' = "shown" => Said(feedback) = Said(Nothing)
      BY <2>1, NothingSaid
    <3>2. ~reloaded' /\ page' = "shown" => Same(feedback, Nothing)
      BY <3>1, SaidSame
    <3> QED BY <2>1, <2>3, <3>2 DEF Same
  <2>5. Same(typed', said')
    BY <2>1 DEF Same
  <2>6. page' \in {"loading", "shown"} /\ reloaded' \in BOOLEAN
    BY <2>1 DEF ReviewInv, ReviewTyped
  <2>7. ReviewTyped'
    BY <2>1, <2>2, <2>6, OfRunsIs DEF ReviewInv, ReviewTyped, OfRuns
  <2> QED BY <2>1, <2>3, <2>4, <2>5, <2>7 DEF ReviewInv, ReviewTyped
<1>3. CASE Fetch
  <2>1. /\ page = "loading" /\ page' = "shown" /\ feedbackMap' = (IF serving THEN feedback ELSE Nothing)
        /\ reloaded' = (reloaded \/ (~serving /\ Said(feedback) # Nothing))
        /\ UNCHANGED <<outputs, feedback, previous, reviews, serving, embedded, typed, said, saidBefore, unsaved>>
    BY <1>3 DEF Fetch
  <2>2. DOMAIN feedbackMap' \subseteq embedded /\ OfRuns(feedbackMap')
    BY <2>1, OfRunsIs DEF ReviewInv, ReviewTyped, Nothing
  <2>3. ~reloaded' => ~reloaded /\ Same(feedback, said) /\ Same(typed, said)
    BY <2>1 DEF ReviewInv, ReviewTyped
  <2>4. ~reloaded' => Same(feedbackMap', typed')
    <3>1. CASE serving
      BY <2>1, <2>3, <3>1 DEF Same
    <3>2. CASE ~serving
      <4>1. ~reloaded' => Said(feedback) = Said(Nothing)
        BY <2>1, <3>2, NothingSaid DEF ReviewInv, ReviewTyped
      <4>2. ~reloaded' => Same(feedback, Nothing)
        BY <4>1, SaidSame
      <4> QED BY <2>1, <2>3, <3>2, <4>2 DEF Same
    <3> QED BY <3>1, <3>2
  <2>5. reloaded' \in BOOLEAN
    BY <2>1 DEF ReviewInv, ReviewTyped
  <2>6. ReviewTyped'
    BY <2>1, <2>2, <2>5 DEF ReviewInv, ReviewTyped, OfRuns
  <2> QED BY <2>1, <2>3, <2>4, <2>6 DEF ReviewInv
<1>4. CASE NextIteration
  <2>1. /\ previous' = LoadPreviousIteration /\ saidBefore' = said /\ typed' = Nothing /\ said' = Nothing
        /\ outputs' = {} /\ feedback' = Nothing /\ page' = "none" /\ embedded' = {} /\ feedbackMap' = Nothing
        /\ reloaded' = (reloaded \/ unsaved) /\ unsaved' = FALSE /\ serving' = FALSE /\ reviews' = reviews + 1
    BY <1>4 DEF NextIteration
  <2>2. previous'.feedback = Said(feedback) /\ previous'.outputs = outputs
    BY <2>1 DEF LoadPreviousIteration
  <2>3. ~reloaded' => Same(previous'.feedback, saidBefore')
    <3>1. \A q : Says(Said(feedback), q) = Says(feedback, q)
      BY SaidIs, Zenon
    <3>2. ~reloaded' => \A q : Says(feedback, q) = Says(said, q)
      BY <2>1 DEF ReviewInv, ReviewTyped, Same
    <3> QED BY <2>1, <2>2, <3>1, <3>2 DEF Same
  <2>4. DOMAIN Nothing = {} /\ Same(feedback', said')
    BY <2>1 DEF Nothing, Same
  <2>5. OfRuns(previous'.feedback)
    BY <2>2, OfRunsIs DEF ReviewInv, ReviewTyped
  <2>6. ReviewTyped'
    <3>1. OfRuns(Nothing) /\ OfRuns(said)
      BY OfRunsIs DEF ReviewInv, ReviewTyped
    <3>2. OfRuns(feedback') /\ OfRuns(feedbackMap') /\ OfRuns(typed') /\ OfRuns(said') /\ OfRuns(saidBefore')
      BY <2>1, <3>1
    <3>3. previous'.outputs \subseteq Run /\ reviews' \in Nat
      BY <2>1, <2>2 DEF ReviewInv, ReviewTyped
    <3> QED BY <2>1, <2>4, <2>5, <3>2, <3>3 DEF ReviewTyped, OfRuns
  <2> QED BY <2>1, <2>3, <2>4, <2>6 DEF ReviewInv
<1>5. ASSUME NEW r \in Run, NEW text \in Text \cup {""}, Save(r, text)
      PROVE  ReviewInv'
  <2>1. page = "shown" /\ r \in embedded /\ feedbackMap' = Typed(r, text) /\ Post(r, text, Said(feedbackMap'), FALSE)
    BY <1>5 DEF Save
  <2>2. DOMAIN Said(feedbackMap') \subseteq embedded /\ Same(Said(feedbackMap'), feedbackMap')
    <3>1. DOMAIN Said(feedbackMap') \subseteq DOMAIN feedbackMap' /\ \A q : Says(Said(feedbackMap'), q) = Says(feedbackMap', q)
      BY SaidIs
    <3>2. DOMAIN feedbackMap' \subseteq DOMAIN feedbackMap \cup {r}
      BY <2>1, TypedSays, Zenon
    <3> QED BY <2>1, <3>1, <3>2 DEF Same, ReviewInv, ReviewTyped
  <2>3. OfRuns(Said(feedbackMap'))
    BY <2>1, OfRunsIs DEF ReviewInv, ReviewTyped
  <2> QED BY <2>1, <2>2, <2>3, PostInv
<1>6. ASSUME NEW r \in Run, NEW text \in Text \cup {""}, SubmitAll(r, text)
      PROVE  ReviewInv'
  <2> DEFINE all == [q \in embedded |-> IF q \in DOMAIN feedbackMap' THEN feedbackMap'[q] ELSE ""]
  <2>1. page = "shown" /\ r \in embedded /\ feedbackMap' = Typed(r, text) /\ Post(r, text, all, TRUE)
    BY <1>6 DEF SubmitAll
  <2>2. DOMAIN feedbackMap' \subseteq embedded
    <3>1. DOMAIN feedbackMap' \subseteq DOMAIN feedbackMap \cup {r}
      BY <2>1, TypedSays, Zenon
    <3> QED BY <2>1, <3>1 DEF ReviewInv, ReviewTyped
  <2>3. DOMAIN all \subseteq embedded /\ Same(all, feedbackMap')
    BY <2>2 DEF Same, Says
  <2>4. OfRuns(feedbackMap')
    BY <2>1, OfRunsIs DEF ReviewInv, ReviewTyped
  <2>5. OfRuns(all)
    BY <2>4 DEF OfRuns, ReviewInv, ReviewTyped
  <2> HIDE DEF all
  <2> QED BY <2>1, <2>3, <2>5, PostInv
<1> QED BY <1>1, <1>2, <1>3, <1>4, <1>5, <1>6 DEF ReviewNext
-----------------------------------------------------------------------------
(* What holds of 0, and of i + 1 if of i, holds of every natural.          *)
LEMMA NatSetInduction ==
  ASSUME NEW G, 0 \in G, \A i \in Nat : i \in G => i + 1 \in G
  PROVE  Nat \subseteq G
<1>1. IsWellFoundedOn({ss \in Nat \X Nat : ss[1] < ss[2]}, Nat)
  BY NatLessThanWellFounded DEF OpToRel
<1>2. SUFFICES ASSUME Nat \ G # {} PROVE FALSE
  OBVIOUS
<1>3. PICK m \in Nat \ G : \A c \in Nat \ G : <<c, m>> \notin {ss \in Nat \X Nat : ss[1] < ss[2]}
  <2>1. Nat \ G \subseteq Nat
    OBVIOUS
  <2> QED BY <1>1, <1>2, <2>1, WFMin
<1>4. m # 0 /\ m - 1 \in Nat
  BY <1>3
<1>5. m - 1 \notin G
  <2>1. m - 1 + 1 = m
    BY <1>4
  <2> QED BY <1>3, <1>4, <2>1
<1>6. <<m - 1, m>> \in {ss \in Nat \X Nat : ss[1] < ss[2]}
  <2>1. <<m - 1, m>> \in Nat \X Nat /\ <<m - 1, m>>[1] < <<m - 1, m>>[2]
    BY <1>4
  <2> QED BY <2>1
<1> QED BY <1>3, <1>4, <1>5, <1>6

(* The results up to an evaluation are those up to the one before, with    *)
(* its own.                                                                *)
LEMMA ResultsStep ==
  /\ ResultsUpTo[0] = <<>>
  /\ \A e \in 1 .. EvalIds : ResultsUpTo[e] = Add(Add(ResultsUpTo[e - 1], e, 1), e, 2)
<1> DEFINE Step(r, e) == Add(Add(r, e, 1), e, 2)
           Body(n, f) == [e \in 0 .. n |-> IF e = 0 THEN <<>> ELSE Step(f[e - 1], e)]
           L == {n \in Nat : \E f : f = Body(n, f)}
<1> HIDE DEF Step
<1>1. 0 \in L
  <2> DEFINE f == [e \in 0 .. 0 |-> <<>>]
  <2>1. f = Body(0, f)
    OBVIOUS
  <2> HIDE DEF f
  <2> QED BY <2>1
<1>2. ASSUME NEW n \in Nat, n \in L PROVE n + 1 \in L
  <2>1. PICK f : f = Body(n, f)
    BY <1>2
  <2> DEFINE g == [e \in 0 .. n + 1 |-> IF e <= n THEN f[e] ELSE Step(f[n], n + 1)]
  <2>2. ASSUME NEW e \in 0 .. n + 1
        PROVE  g[e] = IF e = 0 THEN <<>> ELSE Step(g[e - 1], e)
    <3>1. CASE e <= n
      <4>1. e \in 0 .. n /\ (e # 0 => e - 1 \in 0 .. n /\ e - 1 \in 0 .. n + 1 /\ e - 1 <= n)
        BY <3>1
      <4>2. f[e] = IF e = 0 THEN <<>> ELSE Step(f[e - 1], e)
        BY <2>1, <4>1
      <4> QED BY <3>1, <4>1, <4>2
    <3>2. CASE e = n + 1
      <4>1. ~(e <= n) /\ e # 0 /\ e - 1 = n /\ n \in 0 .. n + 1 /\ n <= n
        BY <3>2
      <4>2. g[e] = Step(f[n], n + 1) /\ g[n] = f[n]
        BY <4>1
      <4> HIDE DEF g
      <4> QED BY <3>2, <4>1, <4>2
    <3> QED BY <3>1, <3>2
  <2>3. g = [e \in 0 .. n + 1 |-> g[e]]
    OBVIOUS
  <2> HIDE DEF g
  <2>4. g = Body(n + 1, g)
    BY <2>2, <2>3
  <2> QED BY <2>4
<1>3. EvalIds \in L
  <2>1. Nat \subseteq L
    <3> HIDE DEF L
    <3> QED BY <1>1, <1>2, NatSetInduction
  <2> HIDE DEF L
  <2> QED BY <2>1, BenchmarkAssumption
<1>4. ResultsUpTo = Body(EvalIds, ResultsUpTo)
  <2>1. ResultsUpTo = CHOOSE f : f = Body(EvalIds, f)
    BY Zenon DEF ResultsUpTo, Step
  <2> QED BY <1>3, <2>1
<1>5. ResultsUpTo = [e \in 0 .. EvalIds |-> IF e = 0 THEN <<>> ELSE Step(ResultsUpTo[e - 1], e)]
  BY <1>4
<1>6. ResultsUpTo[0] = <<>>
  BY <1>5, BenchmarkAssumption
<1>7. ASSUME NEW e \in 1 .. EvalIds PROVE ResultsUpTo[e] = Step(ResultsUpTo[e - 1], e)
  <2>1. e \in 0 .. EvalIds /\ e # 0
    BY BenchmarkAssumption
  <2> QED BY <1>5, <2>1
<1> QED BY <1>6, <1>7 DEF Step

(* The runs of an evaluation and of those before it, with such a grade.    *)
Until(e, c, grades) == {d \in RunDir : d[1] <= e /\ d[2] = c /\ runDirs[d] \in grades}

LEMMA UntilCounts ==
  ASSUME NEW c \in {1, 2}, NEW grades
  PROVE  /\ Cardinality(Until(0, c, grades)) = 0
         /\ \A e \in 1 .. EvalIds :
              /\ Cardinality(Until(e, c, grades)) = Cardinality(Until(e - 1, c, grades)) + Graded(e, c, grades)
              /\ Cardinality(Until(e, c, grades)) \in Nat
<1>1. IsFiniteSet(RunDir)
  <2> DEFINE E == 1 .. EvalIds
             R == 1 .. RunsEach
             P == E \X ((1 .. 2) \X R)
             f == [d \in P |-> <<d[1], d[2][1], d[2][2]>>]
  <2>1. IsFiniteSet(E) /\ IsFiniteSet(R) /\ IsFiniteSet(1 .. 2)
    <3>1. EvalIds \in Int /\ RunsEach \in Int /\ 1 \in Int /\ 2 \in Int
      BY BenchmarkAssumption
    <3> QED BY <3>1, FS_Interval, Zenon
  <2> HIDE DEF E, R
  <2>2. IsFiniteSet((1 .. 2) \X R)
    BY <2>1, FS_Product
  <2>3. IsFiniteSet(P)
    BY <2>1, <2>2, FS_Product
  <2>4. 1 .. 2 = {1, 2} /\ RunDir = E \X {1, 2} \X R
    BY DEF RunDir, E, R
  <2>5. ASSUME NEW d \in RunDir
        PROVE  <<d[1], <<d[2], d[3]>>>> \in P /\ f[<<d[1], <<d[2], d[3]>>>>] = d
    BY <2>4
  <2>6. f \in [P -> RunDir]
    <3>1. \A d \in P : <<d[1], d[2][1], d[2][2]>> \in RunDir
      BY <2>4
    <3> QED BY <3>1
  <2> HIDE DEF f, P
  <2>7. f \in Surjection(P, RunDir)
    BY <2>5, <2>6 DEF Surjection
  <2> QED BY <2>3, <2>7, FS_Surjection
<1>2. \A e : IsFiniteSet(Until(e, c, grades)) /\ Cardinality(Until(e, c, grades)) \in Nat
  BY <1>1, FS_Subset, FS_CardinalityType DEF Until
<1>3. Until(0, c, grades) = {}
  BY BenchmarkAssumption DEF Until, RunDir
<1>4. ASSUME NEW e \in 1 .. EvalIds
      PROVE  Cardinality(Until(e, c, grades)) = Cardinality(Until(e - 1, c, grades)) + Graded(e, c, grades)
  <2> DEFINE N == {n \in 1 .. RunsEach : runDirs[<<e, c, n>>] \in grades}
             A == {<<e, c, n>> : n \in N}
             B == Until(e - 1, c, grades)
  <2>1. Until(e, c, grades) = B \cup A /\ B \cap A = {}
    <3>1. e \in Int /\ \A d \in RunDir :
            /\ d = <<d[1], d[2], d[3]>> /\ d[1] \in Int /\ d[3] \in 1 .. RunsEach
            /\ (d[1] <= e <=> d[1] <= e - 1 \/ d[1] = e) /\ ~(d[1] <= e - 1 /\ d[1] = e)
      BY BenchmarkAssumption DEF RunDir
    <3>2. A = {d \in RunDir : d[1] = e /\ d[2] = c /\ runDirs[d] \in grades}
      <4>1. ASSUME NEW d \in RunDir, d[1] = e, d[2] = c, runDirs[d] \in grades PROVE d \in A
        <5>1. d = <<e, c, d[3]>> /\ d[3] \in 1 .. RunsEach
          BY <3>1, <4>1
        <5> QED BY <4>1, <5>1
      <4>2. ASSUME NEW n \in N
            PROVE  /\ <<e, c, n>> \in RunDir /\ <<e, c, n>>[1] = e /\ <<e, c, n>>[2] = c
                   /\ runDirs[<<e, c, n>>] \in grades
        BY DEF RunDir
      <4> QED BY <4>1, <4>2
    <3> HIDE DEF A
    <3> QED BY <3>1, <3>2 DEF Until
  <2>2. IsFiniteSet(N)
    <3>1. IsFiniteSet(1 .. RunsEach) /\ N \in SUBSET (1 .. RunsEach)
      BY FS_Interval, BenchmarkAssumption
    <3> QED BY <3>1, FS_Subset
  <2>3. IsFiniteSet(A) /\ Cardinality(A) = Cardinality(N)
    <3> DEFINE f == [n \in N |-> <<e, c, n>>]
    <3>1. f \in Bijection(N, A)
      <4>1. \A n, m \in N : <<e, c, n>> = <<e, c, m>> => n = m
        OBVIOUS
      <4>2. f \in [N -> A] /\ \A a \in A : \E n \in N : f[n] = a
        OBVIOUS
      <4>3. \A n, m \in N : f[n] = f[m] => n = m
        BY <4>1
      <4> HIDE DEF f, A, N
      <4> QED BY <4>2, <4>3, Zenon DEF Bijection, Injection, Surjection, IsInjective
    <3> HIDE DEF f, A, N
    <3> QED BY <2>2, <3>1, FS_Bijection DEF ExistsBijection
  <2> HIDE DEF A, B, N
  <2>4. Cardinality(B \cup A) = Cardinality(B) + Cardinality(A) - Cardinality(B \cap A)
    BY <1>2, <2>3, FS_Union DEF B
  <2>5. Cardinality(B \cap A) = 0 /\ Cardinality(A) \in Nat /\ Cardinality(B) \in Nat
    BY <1>2, <2>1, <2>3, FS_EmptySet, FS_CardinalityType DEF B
  <2> QED BY <2>1, <2>3, <2>4, <2>5 DEF Graded, N, B
<1> QED BY <1>2, <1>3, <1>4, FS_EmptySet

(* The entry of a configuration once an evaluation is read.                *)
EntryAt(e, c) ==
  [key |-> c, passed |-> Cardinality(Until(e, c, {"passed"})),
   number |-> Cardinality(Until(e, c, {"failed", "passed"}))]

LEMMA EntryNext ==
  ASSUME NEW e \in 1 .. EvalIds, NEW c \in {1, 2}
  PROVE  /\ Entry(EntryAt(e - 1, c), e) = EntryAt(e, c)
         /\ ~HasRuns(e, c) => EntryAt(e, c) = EntryAt(e - 1, c)
         /\ EntryAt(e - 1, c) = NoRuns(c) => Entry(NoRuns(c), e) = EntryAt(e, c)
<1>1. \A grades :
        /\ Cardinality(Until(e, c, grades)) = Cardinality(Until(e - 1, c, grades)) + Graded(e, c, grades)
        /\ Cardinality(Until(e, c, grades)) \in Nat
  BY UntilCounts
<1>2. Cardinality(Until(e - 1, c, {"passed"})) \in Nat /\ Cardinality(Until(e - 1, c, {"failed", "passed"})) \in Nat
  <2>1. CASE e = 1
    <3>1. e - 1 = 0
      BY <2>1
    <3> QED BY <3>1, UntilCounts
  <2>2. CASE e # 1
    <3>1. e - 1 \in 1 .. EvalIds
      BY <2>2, BenchmarkAssumption
    <3> QED BY <3>1, UntilCounts
  <2> QED BY <2>1, <2>2
<1>3. Entry(EntryAt(e - 1, c), e) = EntryAt(e, c)
  <2>1. ASSUME NEW p, NEW q
        PROVE  Entry([key |-> c, passed |-> p, number |-> q], e)
                 = [key |-> c, passed |-> p + Graded(e, c, {"passed"}), number |-> q + Graded(e, c, {"failed", "passed"})]
    BY DEF Entry
  <2> QED BY <1>1, <2>1 DEF EntryAt
<1>4. ASSUME ~HasRuns(e, c) PROVE EntryAt(e, c) = EntryAt(e - 1, c)
  <2>1. \A n \in 1 .. RunsEach : runDirs[<<e, c, n>>] = "absent"
    BY <1>4 DEF HasRuns
  <2>2. "absent" \notin {"passed"} /\ "absent" \notin {"failed", "passed"}
    OBVIOUS
  <2>3. Graded(e, c, {"passed"}) = Cardinality({}) /\ Graded(e, c, {"failed", "passed"}) = Cardinality({})
    <3>1. /\ {n \in 1 .. RunsEach : runDirs[<<e, c, n>>] \in {"passed"}} = {}
          /\ {n \in 1 .. RunsEach : runDirs[<<e, c, n>>] \in {"failed", "passed"}} = {}
      BY <2>1, <2>2
    <3> QED BY <3>1 DEF Graded
  <2>4. Graded(e, c, {"passed"}) = 0 /\ Graded(e, c, {"failed", "passed"}) = 0
    BY <2>3, FS_EmptySet
  <2> QED BY <1>1, <1>2, <2>4 DEF EntryAt
<1> QED BY <1>3, <1>4

(* If the first evaluation that has a run has runs of both configurations, *)
(* the results are those of both in their order.                           *)
LEMMA ResultsAre ==
  ASSUME NEW first \in 1 .. EvalIds, HasRuns(first, 1), HasRuns(first, 2),
         \A e \in 1 .. first - 1 : ~HasRuns(e, 1) /\ ~HasRuns(e, 2)
  PROVE  LoadRunResults = <<EntryAt(EvalIds, 1), EntryAt(EvalIds, 2)>>
<1> DEFINE None(e) == ResultsUpTo[e] = <<>> /\ EntryAt(e, 1) = NoRuns(1) /\ EntryAt(e, 2) = NoRuns(2)
           Both(e) == ResultsUpTo[e] = <<EntryAt(e, 1), EntryAt(e, 2)>>
           L == {e \in Nat : e <= EvalIds => IF e < first THEN None(e) ELSE Both(e)}
<1>1. \A e, c : EntryAt(e, c).key = c
  BY DEF EntryAt
<1>2. 0 \in L
  <2>1. EntryAt(0, 1) = NoRuns(1) /\ EntryAt(0, 2) = NoRuns(2)
    BY UntilCounts DEF EntryAt, NoRuns
  <2>2. ResultsUpTo[0] = <<>> /\ 0 < first
    BY ResultsStep, BenchmarkAssumption
  <2> QED BY <2>1, <2>2
<1>3. ASSUME NEW d \in Nat, d \in L PROVE d + 1 \in L
  <2> SUFFICES ASSUME d + 1 <= EvalIds
               PROVE  IF d + 1 < first THEN None(d + 1) ELSE Both(d + 1)
    OBVIOUS
  <2> DEFINE e == d + 1
  <2>1. e \in 1 .. EvalIds /\ e - 1 = d /\ EvalIds \in Nat
    BY BenchmarkAssumption
  <2>2. IF d < first THEN None(d) ELSE Both(d)
    BY <1>3, <2>1
  <2>3. ResultsUpTo[e] = Add(Add(ResultsUpTo[d], e, 1), e, 2)
    <3> HIDE DEF e
    <3> QED BY <2>1, ResultsStep
  <2>4. \A c \in {1, 2} :
          /\ Entry(EntryAt(d, c), e) = EntryAt(e, c)
          /\ ~HasRuns(e, c) => EntryAt(e, c) = EntryAt(d, c)
          /\ EntryAt(d, c) = NoRuns(c) => Entry(NoRuns(c), e) = EntryAt(e, c)
    <3> HIDE DEF e
    <3> QED BY <2>1, EntryNext
  <2> HIDE DEF e
  <2>5. CASE e < first
    <3>1. ~HasRuns(e, 1) /\ ~HasRuns(e, 2) /\ d < first
      BY <2>1, <2>5
    <3>2. None(e)
      BY <2>2, <2>3, <2>4, <3>1 DEF Add
    <3> QED BY <2>5, <3>2 DEF e
  <2>6. CASE e = first
    <3>1. HasRuns(e, 1) /\ HasRuns(e, 2) /\ None(d)
      BY <2>1, <2>2, <2>6
    <3>2. Add(<<>>, e, 1) = <<EntryAt(e, 1)>>
      BY <2>4, <3>1 DEF Add
    <3>3. Add(<<EntryAt(e, 1)>>, e, 2) = <<EntryAt(e, 1), EntryAt(e, 2)>>
      <4>1. HasRuns(e, 2) /\ Entry(NoRuns(2), e) = EntryAt(e, 2)
        BY <2>4, <3>1
      <4>2. ~\E k \in DOMAIN <<EntryAt(e, 1)>> : <<EntryAt(e, 1)>>[k].key = 2
        <5>1. EntryAt(e, 1).key # 2
          BY <1>1
        <5>2. \A x : \A k \in DOMAIN <<x>> : <<x>>[k] = x
          OBVIOUS
        <5> QED BY <5>1, <5>2, Zenon
      <4>3. Append(<<EntryAt(e, 1)>>, EntryAt(e, 2)) = <<EntryAt(e, 1), EntryAt(e, 2)>>
        <5>1. ASSUME NEW x, NEW y PROVE Append(<<x>>, y) = <<x, y>>
          <6>1. <<x>> \in Seq({x, y}) /\ y \in {x, y} /\ <<x, y>> \in Seq({x, y})
            OBVIOUS
          <6> DEFINE t == Append(<<x>>, y)
                     u == <<x, y>>
          <6>2. t \in Seq({x, y}) /\ Len(t) = 2 /\ t[1] = x /\ t[2] = y
            BY <6>1, AppendProperties
          <6>3. Len(u) = 2 /\ u[1] = x /\ u[2] = y
            OBVIOUS
          <6>4. u \in Seq({x, y})
            BY <6>1
          <6> HIDE DEF t, u
          <6>5. \A k \in 1 .. Len(t) : t[k] = u[k]
            BY <6>2, <6>3
          <6>6. t = u
            BY <6>2, <6>3, <6>4, <6>5, SeqEqual
          <6> QED BY <6>6 DEF t, u
        <5> QED BY <5>1, Zenon
      <4>4. Add(<<EntryAt(e, 1)>>, e, 2) = Append(<<EntryAt(e, 1)>>, Entry(NoRuns(2), e))
        BY <4>1, <4>2, Zenon DEF Add
      <4> QED BY <4>1, <4>3, <4>4
    <3>4. Both(e)
      BY <2>3, <3>1, <3>2, <3>3
    <3> QED BY <2>1, <2>6, <3>4 DEF e
  <2>7. CASE e > first
    <3>1. Both(d)
      BY <2>1, <2>2, <2>7
    <3>2. Add(<<EntryAt(d, 1), EntryAt(d, 2)>>, e, 1) = <<EntryAt(e, 1), EntryAt(d, 2)>>
      BY <1>1, <2>4 DEF Add
    <3>3. Add(<<EntryAt(e, 1), EntryAt(d, 2)>>, e, 2) = <<EntryAt(e, 1), EntryAt(e, 2)>>
      BY <1>1, <2>4 DEF Add
    <3>4. Both(e)
      BY <2>3, <3>1, <3>2, <3>3
    <3> QED BY <2>1, <2>7, <3>4 DEF e
  <2> QED BY <2>1, <2>5, <2>6, <2>7
<1>4. EvalIds \in L
  <2>1. Nat \subseteq L
    <3> HIDE DEF L
    <3> QED BY <1>2, <1>3, NatSetInduction
  <2> HIDE DEF L
  <2> QED BY <2>1, BenchmarkAssumption
<1>5. ~(EvalIds < first) /\ EvalIds <= EvalIds
  BY BenchmarkAssumption
<1>6. Both(EvalIds)
  BY <1>4, <1>5
<1> QED BY <1>6 DEF LoadRunResults

(* A number that is rounded to is off by half a unit at most.              *)
LEMMA RoundedNear ==
  ASSUME NEW a \in Int, NEW b \in Nat \ {0}, NEW m \in Rounded(a, b)
  PROVE  m \in Int /\ -b <= 2 * (m * b - a) /\ 2 * (m * b - a) <= b
<1>1. a \div b \in Int
  OBVIOUS
<1>2. m \in Int
  BY <1>1 DEF Rounded
<1>3. m * b \in Int
  BY <1>2
<1>4. 2 * (m * b - a) \in -b .. b
  BY DEF Rounded
<1> QED BY <1>2, <1>3, <1>4

LEMMA Scaled ==
  ASSUME NEW b \in Nat, NEW k \in Int, -b <= k, k <= b, NEW n \in Nat
  PROVE  -(b * n) <= k * n /\ k * n <= b * n
<1>1. (b - k) * n >= 0 /\ (b + k) * n >= 0
  <2>1. b - k \in Nat /\ b + k \in Nat
    OBVIOUS
  <2>2. \A x, y \in Nat : x * y >= 0
    OBVIOUS
  <2> QED BY <2>1, <2>2
<1>2. (b - k) * n = b * n - k * n /\ (b + k) * n = b * n + k * n
  OBVIOUS
<1>3. b * n \in Int /\ k * n \in Int
  OBVIOUS
<1> QED BY <1>1, <1>2, <1>3

(* The roundings of two rates and of their difference add up.              *)
Near(delta, p1, n1, p2, n2) ==
  100 * delta * (n1 * n2) - 10000 * (p1 * n2 - p2 * n1) \in -51 * (n1 * n2) .. 51 * (n1 * n2)

LEMMA DeltaNear ==
  ASSUME NEW p1 \in Nat, NEW n1 \in Nat \ {0}, NEW m \in Rounded(10000 * p1, n1),
         NEW p2 \in Nat, NEW n2 \in Nat \ {0}, NEW o \in Rounded(10000 * p2, n2),
         NEW delta \in Rounded(m - o, 100)
  PROVE  Near(delta, p1, n1, p2, n2)
<1> DEFINE x == m * n1 - 10000 * p1
           y == o * n2 - 10000 * p2
           d == 100 * delta - (m - o)
           u == n1 * n2
<1>1. m \in Int /\ -n1 <= 2 * x /\ 2 * x <= n1
  BY RoundedNear
<1>2. o \in Int /\ -n2 <= 2 * y /\ 2 * y <= n2
  BY RoundedNear
<1>3. delta \in Int /\ -50 <= d /\ d <= 50
  <2>1. m - o \in Int /\ 100 \in Nat \ {0}
    BY <1>1, <1>2
  <2>2. delta \in Int /\ -100 <= 2 * (delta * 100 - (m - o)) /\ 2 * (delta * 100 - (m - o)) <= 100
    BY <2>1, RoundedNear
  <2> QED BY <1>1, <1>2, <2>2
<1>4. x \in Int /\ y \in Int /\ d \in Int /\ u \in Nat /\ n1 \in Nat /\ n2 \in Nat
  BY <1>1, <1>2, <1>3
<1>5. 100 * delta * u - 10000 * (p1 * n2 - p2 * n1) = d * u + x * n2 - y * n1
  BY <1>1, <1>2, <1>3
<1> HIDE DEF x, y, d
<1>6. -(n1 * n2) <= (2 * x) * n2 /\ (2 * x) * n2 <= n1 * n2
  BY <1>1, <1>4, Scaled
<1>7. -(n2 * n1) <= (2 * y) * n1 /\ (2 * y) * n1 <= n2 * n1
  BY <1>2, <1>4, Scaled
<1>8. -(50 * u) <= d * u /\ d * u <= 50 * u
  BY <1>3, <1>4, Scaled
<1>9. (2 * x) * n2 = 2 * (x * n2) /\ (2 * y) * n1 = 2 * (y * n1) /\ n2 * n1 = u
  BY <1>4
<1> DEFINE xn == x * n2
           yn == y * n1
           du == d * u
<1>10. xn \in Int /\ yn \in Int /\ du \in Int
  BY <1>4
<1>11. -u <= 2 * xn /\ 2 * xn <= u /\ -u <= 2 * yn /\ 2 * yn <= u /\ -(50 * u) <= du /\ du <= 50 * u
  BY <1>6, <1>7, <1>8, <1>9
<1> HIDE DEF xn, yn, du, u
<1>12. du + xn - yn \in -51 * u .. 51 * u
  BY <1>4, <1>10, <1>11
<1> QED BY <1>3, <1>5, <1>12 DEF xn, yn, du, u, Near

(* What the runs on disk say does not depend on what is written.           *)
LEMMA SameRuns ==
  ASSUME runDirs' = runDirs
  PROVE  /\ \A c : AllGraded(c)' = AllGraded(c) /\ Counted(c, {"passed"})' = Counted(c, {"passed"})
         /\ FirstHasBoth' <=> FirstHasBoth
<1>1. \A c, grades : Counted(c, grades)' = Counted(c, grades)
  BY DEF Counted
<1>2. \A c : AllGraded(c)' = AllGraded(c)
  BY <1>1 DEF AllGraded
<1>3. FirstHasBoth' <=> FirstHasBoth
  BY DEF FirstHasBoth, HasRuns
<1> QED BY <1>1, <1>2, <1>3

(* What is written says what the runs on disk said.                        *)
LEMMA DeltaIs ==
  ASSUME GenerateBenchmark
  PROVE  /\ Len(benchmark') = 1 /\ benchmark'[1] \in Int /\ DOMAIN benchmark' = {1} /\ runDirs' = runDirs
         /\ DeltaIsOfSkill'
<1>1. PICK mine \in Means(LoadRunResults, 1), other \in Means(LoadRunResults, 2) :
        \E delta \in Rounded(mine - other, 100) : benchmark' = <<delta>>
  BY DEF GenerateBenchmark
<1>2. PICK delta \in Rounded(mine - other, 100) : benchmark' = <<delta>>
  BY <1>1
<1>3. Len(benchmark') = 1 /\ DOMAIN benchmark' = {1} /\ benchmark'[1] = delta /\ runDirs' = runDirs
  BY <1>2 DEF GenerateBenchmark
<1>4. delta \in Int
  <2>1. mine \in Int /\ other \in Int
    BY DEF Means, Rounded
  <2> QED BY <2>1 DEF Rounded
<1>5. \A c, grades : Cardinality(Until(EvalIds, c, grades)) = Counted(c, grades)
  <2>1. \A c, grades : Until(EvalIds, c, grades) = {d \in RunDir : d[2] = c /\ runDirs[d] \in grades}
    BY BenchmarkAssumption DEF Until, RunDir
  <2> QED BY <2>1 DEF Counted
<1>6. \A c \in {1, 2} : EntryAt(EvalIds, c) = [key |-> c, passed |-> Counted(c, {"passed"}), number |-> AllGraded(c)]
  BY <1>5 DEF EntryAt, AllGraded
<1>7. \A c \in {1, 2} : \A grades : Counted(c, grades) \in Nat
  <2>1. ASSUME NEW c \in {1, 2}, NEW grades
        PROVE  Cardinality(Until(EvalIds, c, grades)) \in Nat
    <3>1. CASE EvalIds = 0
      BY <3>1, UntilCounts
    <3>2. CASE EvalIds # 0
      <4>1. EvalIds \in 1 .. EvalIds
        BY <3>2, BenchmarkAssumption
      <4> QED BY <4>1, UntilCounts
    <3> QED BY <3>1, <3>2
  <2> QED BY <1>5, <2>1
<1>8. ASSUME AllGraded(1) > 0, AllGraded(2) > 0, FirstHasBoth
      PROVE  Near(delta, Counted(1, {"passed"}), AllGraded(1), Counted(2, {"passed"}), AllGraded(2))
  <2>1. LoadRunResults = <<EntryAt(EvalIds, 1), EntryAt(EvalIds, 2)>>
    BY <1>8, ResultsAre DEF FirstHasBoth
  <2> DEFINE N(c) == AllGraded(c)
             P(c) == Counted(c, {"passed"})
  <2>2. N(1) \in Nat \ {0} /\ N(2) \in Nat \ {0} /\ P(1) \in Nat /\ P(2) \in Nat
    BY <1>7, <1>8 DEF AllGraded
  <2>3. mine \in Rounded(10000 * P(1), N(1))
    <3>1. LoadRunResults[1] = [key |-> 1, passed |-> P(1), number |-> N(1)] /\ 1 \in DOMAIN LoadRunResults
      BY <1>6, <2>1
    <3> QED BY <1>8, <3>1 DEF Means
  <2>4. other \in Rounded(10000 * P(2), N(2))
    <3>1. LoadRunResults[2] = [key |-> 2, passed |-> P(2), number |-> N(2)] /\ 2 \in DOMAIN LoadRunResults
      BY <1>6, <2>1
    <3> QED BY <1>8, <3>1 DEF Means
  <2> HIDE DEF N, P
  <2>5. Near(delta, P(1), N(1), P(2), N(2))
    BY <2>2, <2>3, <2>4, DeltaNear
  <2> QED BY <2>5 DEF N, P
<1>9. /\ AllGraded(1)' = AllGraded(1) /\ AllGraded(2)' = AllGraded(2) /\ (FirstHasBoth' <=> FirstHasBoth)
      /\ Counted(1, {"passed"})' = Counted(1, {"passed"}) /\ Counted(2, {"passed"})' = Counted(2, {"passed"})
  BY <1>3, SameRuns
<1>10. DeltaIsOfSkill'
  BY <1>3, <1>8, <1>9 DEF DeltaIsOfSkill, Near
<1> QED BY <1>3, <1>4, <1>10

(* What is on disk, and what was written of it.                            *)
BenchmarkInv == BenchmarkTyped /\ DeltaIsOfSkill

LEMMA BenchmarkStepInv ==
  ASSUME BenchmarkInv, BenchmarkNext
  PROVE  BenchmarkInv'
<1>1. CASE GenerateBenchmark
  <2>1. BenchmarkTyped'
    <3>1. Len(benchmark') = 1 /\ benchmark'[1] \in Int /\ DOMAIN benchmark' = {1} /\ runDirs' = runDirs
      BY <1>1, DeltaIs, Zenon
    <3> QED BY <3>1 DEF BenchmarkInv, BenchmarkTyped
  <2> QED BY <1>1, <2>1, DeltaIs DEF BenchmarkInv
<1>2. CASE benchmark = <<>> /\ benchmark' = benchmark /\ BenchmarkTyped'
  <2>1. DeltaIsOfSkill'
    BY <1>2 DEF DeltaIsOfSkill
  <2> QED BY <1>2, <2>1 DEF BenchmarkInv
<1>3. ASSUME NEW d \in RunDir, NEW grade \in {"broken", "failed", "passed"}, MakeRun(d) \/ GradeRun(d, grade)
      PROVE  benchmark = <<>> /\ benchmark' = benchmark /\ BenchmarkTyped'
  BY <1>3 DEF MakeRun, GradeRun, BenchmarkInv, BenchmarkTyped
<1>4. ASSUME NEW d \in RunDir, MakeRun(d)
      PROVE  benchmark = <<>> /\ benchmark' = benchmark /\ BenchmarkTyped'
  BY <1>3, <1>4
<1> QED BY <1>1, <1>2, <1>3, <1>4 DEF BenchmarkNext
-----------------------------------------------------------------------------
(* agent_loop is in the middle of a question, or at its beginning.         *)
EvaluationInv ==
  /\ EvaluationTyped
  /\ phase \in {"connect", "answered"} => calls = 0
  /\ phase = "connect" => made = 0 /\ scores = <<>>

LEMMA EvaluationStepInv ==
  ASSUME EvaluationInv, EvaluationNext
  PROVE  EvaluationInv'
<1> USE EvaluationAssumption DEF EvaluationInv, EvaluationTyped, NextQuestion, Fails
<1>1. CASE Connect
  <2>1. CASE phase' = "failed" /\ UNCHANGED <<pairs, calls, made, scores>>
    BY <1>1, <2>1 DEF Connect
  <2>2. ASSUME phase = "connect", pairs' \in 0 .. Questions, phase' = (IF 0 = pairs' THEN "reported" ELSE "ask"),
               UNCHANGED <<calls, made, scores>>
        PROVE  EvaluationInv'
    <3>1. Len(scores') = 0 /\ calls' = 0 /\ made' = 0 /\ scores' \in Seq({0, 1})
      BY <2>2
    <3> QED BY <2>2, <3>1
  <2> QED BY <1>1, <2>1, <2>2 DEF Connect
<1>2. CASE Ask
  <2>1. CASE phase' = "failed" /\ UNCHANGED <<pairs, calls, made, scores>>
    BY <2>1
  <2>2. ASSUME NEW n \in 0 .. 2, phase = "ask", made + n <= MaxCalls, calls' = n,
               phase' = (IF n = 0 THEN "answered" ELSE "call"), UNCHANGED <<pairs, made, scores>>
        PROVE  EvaluationInv'
    BY <2>2
  <2> QED BY <1>2, <2>1, <2>2 DEF Ask
<1>3. CASE CallTool
  BY <1>3 DEF CallTool
<1>4. CASE NoText
  BY <1>4 DEF NoText
<1>5. ASSUME NEW right \in BOOLEAN, ScoreTask(right)
      PROVE  EvaluationInv'
  BY <1>5 DEF ScoreTask
<1> QED BY <1>1, <1>2, <1>3, <1>4, <1>5 DEF EvaluationNext
-----------------------------------------------------------------------------
(* A tool that is not at work changes nothing of its own.                  *)
LEMMA LearntKept == LearntFromTrain /\ UNCHANGED loopVars => LearntFromTrain'
BY DEF LearntFromTrain, QueriesOf, loopVars

LEMMA ServersKept == ServersInv /\ UNCHANGED serverVars => ServersInv'
BY DEF ServersInv, ServersTyped, ServersStopped, serverVars

LEMMA ReviewKept == ReviewInv /\ UNCHANGED reviewVars => ReviewInv'
<1> SUFFICES ASSUME ReviewInv, UNCHANGED reviewVars PROVE ReviewInv'
  OBVIOUS
<1>1. UNCHANGED <<outputs, feedback, previous, reviews, serving, page, embedded, feedbackMap,
                  typed, said, saidBefore, unsaved, reloaded>>
  BY DEF reviewVars
<1>2. ReviewTyped'
  BY <1>1 DEF ReviewInv, ReviewTyped, OfRuns
<1> QED BY <1>1, <1>2 DEF ReviewInv

LEMMA BenchmarkKept == BenchmarkInv /\ UNCHANGED benchmarkVars => BenchmarkInv'
<1> SUFFICES ASSUME BenchmarkInv, UNCHANGED benchmarkVars PROVE BenchmarkInv'
  OBVIOUS
<1>1. DeltaIsOfSkill'
  <2>1. benchmark' = benchmark /\ runDirs' = runDirs
    BY DEF benchmarkVars
  <2>2. /\ AllGraded(1)' = AllGraded(1) /\ AllGraded(2)' = AllGraded(2) /\ (FirstHasBoth' <=> FirstHasBoth)
        /\ Counted(1, {"passed"})' = Counted(1, {"passed"}) /\ Counted(2, {"passed"})' = Counted(2, {"passed"})
    BY <2>1, SameRuns
  <2> QED BY <2>1, <2>2 DEF BenchmarkInv, DeltaIsOfSkill
<1>2. BenchmarkTyped'
  BY DEF BenchmarkInv, BenchmarkTyped, benchmarkVars
<1> QED BY <1>1, <1>2 DEF BenchmarkInv

LEMMA EvaluationKept == EvaluationInv /\ UNCHANGED evaluationVars => EvaluationInv'
BY DEF EvaluationInv, EvaluationTyped, evaluationVars

Inv ==
  /\ tool \in {"loop", "review", "benchmark", "server", "evaluation"}
  /\ RunsInv /\ LearntFromTrain /\ BestInv /\ LoopBounds
  /\ ServersInv /\ ReviewInv /\ BenchmarkInv /\ EvaluationInv

LEMMA InitInv == Init => Inv
<1> SUFFICES ASSUME Init PROVE Inv
  OBVIOUS
<1>1. RunsInv
  <2>1. /\ Running = {} /\ stage = <<>> /\ answer = <<>> /\ picked = <<>> /\ pending = {} /\ unheard = {}
        /\ beside = {} /\ commands = {} /\ claudes = {} /\ deaths = 0 /\ leftovers = FALSE
    BY DEF Init, TriggerInit, Running
  <2>2. \A S : <<>> \in [{} -> S]
    OBVIOUS
  <2>3. TriggerTyped
    <3>1. /\ stage \in [Running -> {"queued", "running", "done"}]
          /\ answer \in [Running -> BOOLEAN] /\ picked \in [Running -> Running \cup {0}]
      BY <2>1, <2>2
    <3>2. deaths \in 0 .. MaxDeaths
      BY <2>1, TriggerAssumption
    <3> QED BY <2>1, <3>1, <3>2 DEF TriggerTyped
  <2>4. \A s : At(s) = {}
    BY <2>1 DEF At
  <2>5. NoRunLeftBehind /\ CountedAsTriggered
    BY <2>1, <2>4 DEF NoRunLeftBehind, CountedAsTriggered
  <2> QED BY <2>1, <2>3, <2>4, <2>5 DEF RunsInv
<1>2. LearntFromTrain
  <2>1. history = <<>> /\ shown = {}
    BY DEF Init, LoopInit
  <2>2. history \in Seq({})
    BY <2>1
  <2> QED BY <2>1, <2>2 DEF LearntFromTrain
<1>3. ServersInv
  BY WithServerAssumption DEF Init, ServerInit, ServersInv, ServersTyped, ServersStopped, Server
<1>4. ReviewInv
  BY ReviewInitInv DEF Init
<1>5. EvaluationInv
  BY EvaluationAssumption DEF Init, EvaluationInit, EvaluationInv, EvaluationTyped
<1>6. BestInv
  BY DEF Init, LoopInit, BestInv
<1>7. BenchmarkInv
  <2>1. benchmark = <<>> /\ runDirs = [d \in RunDir |-> "absent"]
    BY DEF Init, BenchmarkInit
  <2> QED BY <2>1 DEF BenchmarkInv, BenchmarkTyped, DeltaIsOfSkill
<1>8. LoopBounds
  BY SkillLoopAssumption DEF Init, LoopInit, LoopBounds
<1>9. tool \in {"loop", "review", "benchmark", "server", "evaluation"}
  BY DEF Init
<1> QED BY <1>1, <1>2, <1>3, <1>4, <1>5, <1>6, <1>7, <1>8, <1>9 DEF Inv

LEMMA NextInv == Inv /\ [Next]_vars => Inv'
<1> SUFFICES ASSUME Inv, [Next]_vars PROVE Inv'
  OBVIOUS
<1>1. RunsInv'
  BY LoopRunsInv, RunsInvKept
  DEF Inv, Next, vars, loopOnly, Loop, ReviewRuns, AggregateRuns, TestWithServers, EvaluateServer
<1>2. LearntFromTrain'
  BY LoopLearns, LearntKept
  DEF Inv, Next, vars, loopOnly, Loop, ReviewRuns, AggregateRuns, TestWithServers, EvaluateServer
<1>3. ServersInv'
  BY ServerStepInv, ServersKept
  DEF Inv, Next, vars, loopOnly, Loop, ReviewRuns, AggregateRuns, TestWithServers, EvaluateServer
<1>4. ReviewInv'
  BY ReviewStepInv, ReviewKept
  DEF Inv, Next, vars, loopOnly, Loop, ReviewRuns, AggregateRuns, TestWithServers, EvaluateServer
<1>5. EvaluationInv'
  BY EvaluationStepInv, EvaluationKept
  DEF Inv, Next, vars, loopOnly, Loop, ReviewRuns, AggregateRuns, TestWithServers, EvaluateServer
<1>6. BestInv'
  BY LoopFindsBest, BestKept
  DEF Inv, Next, vars, loopOnly, Loop, ReviewRuns, AggregateRuns, TestWithServers, EvaluateServer
<1>7. BenchmarkInv'
  BY BenchmarkStepInv, BenchmarkKept
  DEF Inv, Next, vars, loopOnly, Loop, ReviewRuns, AggregateRuns, TestWithServers, EvaluateServer
<1>8. LoopBounds'
  BY LoopKeepsBounds, BoundsKept
  DEF Inv, Next, vars, loopOnly, Loop, ReviewRuns, AggregateRuns, TestWithServers, EvaluateServer
<1>9. tool' = tool
  BY DEF Next, vars, Loop, ReviewRuns, AggregateRuns, TestWithServers, EvaluateServer
<1> QED BY <1>1, <1>2, <1>3, <1>4, <1>5, <1>6, <1>7, <1>8, <1>9 DEF Inv

(* With any number of items, runs, iterations, servers and questions, the  *)
(* variables of the tools stay in their types.                             *)
THEOREM SkillToolsTyped == Spec => []TypeOK
<1>1. Inv => TypeOK
  BY LoopIsTyped DEF Inv, TypeOK, RunsInv, ServersInv, ReviewInv, BenchmarkInv, EvaluationInv
<1> QED BY <1>1, InitInv, NextInv, PTL DEF Spec

(* Whatever set is split how, and however often: the prompts that improve  *)
(* a description contain no query that only the held-out items have.       *)
THEOREM TestSetStaysBlind == Spec => []HeldOutUnseen
<1>1. Inv => HeldOutUnseen
  BY DEF Inv, LearntFromTrain, HeldOutUnseen
<1> QED BY <1>1, InitInv, NextInv, PTL DEF Spec

(* For any set, hold-out and number of iterations, what is packaged is the *)
(* first description than which no other did better on the texts that      *)
(* decide, however the split fell and in whatever order the runs ended.    *)
THEOREM BestDescriptionWins == Spec => []PackagedIsBest
<1>1. Inv => PackagedIsBest
  BY BestIsPackaged DEF Inv
<1> QED BY <1>1, InitInv, NextInv, PTL DEF Spec

(* With any number of runs and processes, a run counts as triggered only   *)
(* for its own command, and misses no call but a late one or one for a run *)
(* beside it.                                                              *)
THEOREM OwnCommandCounts == Spec => []CountedAsTriggered
<1>1. Inv => CountedAsTriggered
  BY DEF Inv, RunsInv
<1> QED BY <1>1, InitInv, NextInv, PTL DEF Spec

(* With any number of runs and processes, in whatever way a run returns:   *)
(* its command file and its claude are gone, unless a process died.        *)
THEOREM NoRunStaysBehind == Spec => []NoRunLeftBehind
<1>1. Inv => NoRunLeftBehind
  BY DEF Inv, RunsInv
<1> QED BY <1>1, InitInv, NextInv, PTL DEF Spec

(* With any number of servers and uses of the script, a server that is up  *)
(* belongs to the use under way; the exceptions are those of the property: *)
(* compound commands, and scripts that were killed or interrupted at the   *)
(* wrong time.                                                             *)
THEOREM ServersAreStopped == Spec => []ServersStopped
<1>1. Inv => ServersStopped
  BY DEF Inv, ServersInv
<1> QED BY <1>1, InitInv, NextInv, PTL DEF Spec

(* For any runs, texts and number of iterations, feedback.json is what the *)
(* reviewer was told it is, unless the last save failed behind the page's  *)
(* back or a page began from nothing.                                      *)
THEOREM FeedbackStays == Spec => []FeedbackKept
<1>1. Inv => FeedbackKept
  BY SameSaid DEF Inv, ReviewInv, FeedbackKept
<1> QED BY <1>1, InitInv, NextInv, PTL DEF Spec

(* For any number of evaluations and runs, whatever was graded and however *)
(* the halves were rounded: the delta is the difference between the shares *)
(* of passed runs, to within 0.0051.                                       *)
THEOREM DeltaIsNear == Spec => []DeltaIsOfSkill
<1>1. Inv => DeltaIsOfSkill
  BY DEF Inv, BenchmarkInv
<1> QED BY <1>1, InitInv, NextInv, PTL DEF Spec
=============================================================================
