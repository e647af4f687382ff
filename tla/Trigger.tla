------------------------------ MODULE Trigger -------------------------------
(***************************************************************************)
(* run_eval.py: does Claude pick a skill for a query?  A pool of processes *)
(* runs `claude -p` once for every run of every query.  Each run writes a  *)
(* command file of its own, under which the skill is offered, and reads    *)
(* what Claude says until it knows its first tool.  All runs share the     *)
(* directory of the command files, so Claude may pick another run's.       *)
(*                                                                         *)
(* A run is a number, its command file has the same.  What Claude says is  *)
(* abstracted to the events run_single_query tells apart.                  *)
(*                                                                         *)
(* A definition whose comment starts with "Mutant:" is a faulty variant of *)
(* the definition below it; no specification uses it.                      *)
(***************************************************************************)
EXTENDS Naturals, FiniteSets, Sequences

CONSTANTS
  Workers,    \* processes in the pool
  Threshold,  \* trigger_threshold as <<numerator, denominator>>
  MaxDeaths   \* bound: processes of the pool that die

ASSUME TriggerAssumption ==
  /\ Workers \in Nat \ {0} /\ MaxDeaths \in Nat
  /\ Threshold \in Nat \X (Nat \ {0})

VARIABLES
  batch,     \* the item of each run: [query, should]
  stage,     \* of each run: "queued", "running" or "done"
  pending,   \* runs that hear a Skill or Read call begin (pending_tool_name)
  picked,    \* history: the command Claude picked, 0 for another tool or none
  unheard,   \* history: runs that ended before they heard what Claude picks
  beside,    \* history: pairs of runs that were running at the same time
  answer,    \* what run_single_query returned
  commands,  \* command files of the batch
  claudes,   \* runs whose claude process is alive
  deaths,    \* processes of the pool that died
  leftovers  \* history: one died while runs were running

triggerVars == <<batch, stage, pending, picked, unheard, beside, answer, commands, claudes, deaths, leftovers>>

Running == DOMAIN batch
At(s) == {t \in Running : stage[t] = s}
-----------------------------------------------------------------------------
(* run_eval submits every run of every item.  A command file that an       *)
(* earlier batch left behind is one of something else from then on.        *)
Submit(items) ==
  /\ batch' = items
  /\ stage' = [t \in DOMAIN items |-> "queued"]
  /\ answer' = [t \in DOMAIN items |-> FALSE]
  /\ picked' = [t \in DOMAIN items |-> 0]
  /\ pending' = {} /\ unheard' = {} /\ beside' = {} /\ commands' = {} /\ claudes' = {}
  /\ UNCHANGED <<deaths, leftovers>>

TriggerInit ==
  /\ batch = <<>> /\ stage = <<>> /\ answer = <<>> /\ picked = <<>>
  /\ pending = {} /\ unheard = {} /\ beside = {} /\ commands = {} /\ claudes = {}
  /\ deaths = 0 /\ leftovers = FALSE

(* A free process takes the next run: it writes the command file and       *)
(* starts claude.                                                          *)
Begin(t) ==
  /\ t \in At("queued") /\ \A u \in At("queued") : t <= u
  /\ Cardinality(At("running")) < Workers
  /\ stage' = [stage EXCEPT ![t] = "running"]
  /\ commands' = commands \cup {t} /\ claudes' = claudes \cup {t}
  /\ beside' = beside \cup ({t} \X At("running")) \cup (At("running") \X {t})
  /\ UNCHANGED <<batch, pending, picked, unheard, answer, deaths, leftovers>>

(* Mutant: the early return leaves the command file.                       *)
UnlinkedIfNot(t, a) == IF a THEN commands ELSE commands \ {t}
Unlinked(t, a) == commands \ {t}

(* run_single_query returns a: both finally clauses run.                   *)
Returns(t, a, c, heard) ==
  /\ stage[t] = "running"
  /\ stage' = [stage EXCEPT ![t] = "done"]
  /\ answer' = [answer EXCEPT ![t] = a]
  /\ picked' = [picked EXCEPT ![t] = c]
  /\ unheard' = IF heard THEN unheard ELSE unheard \cup {t}
  /\ pending' = pending \ {t}
  /\ commands' = Unlinked(t, a) /\ claudes' = claudes \ {t}
  /\ UNCHANGED <<batch, beside, deaths, leftovers>>

NamesOwn(t, c) == c = t

(* content_block_start of Skill or Read, for a command or for something    *)
(* else.                                                                   *)
BlockStart(t, c) ==
  /\ stage[t] = "running" /\ t \notin pending
  /\ pending' = pending \cup {t} /\ picked' = [picked EXCEPT ![t] = c]
  /\ UNCHANGED <<batch, stage, unheard, beside, answer, commands, claudes, deaths, leftovers>>

(* The delta that completes the own name, or the end of the block.         *)
BlockStop(t) == t \in pending /\ Returns(t, NamesOwn(t, picked[t]), picked[t], TRUE)

(* Another tool's content_block_start, message_stop without a tool, or the *)
(* result.                                                                 *)
NoSkill(t) == t \notin pending /\ Returns(t, FALSE, 0, TRUE)

(* A full assistant message: its first tool_use decides.                   *)
AssistantMessage(t, c) == t \notin pending /\ Returns(t, NamesOwn(t, c), c, TRUE)

(* Mutant: the time is not looked at while a call is pending.              *)
CutShortIdle(t) == t \notin pending /\ Returns(t, FALSE, 0, FALSE)
(* The timeout, a failure to start claude, or its exit: what it said last  *)
(* and was not parsed is dropped (lines 102 to 106).                       *)
CutShort(t) == Returns(t, FALSE, 0, FALSE)

(* A process of the pool dies and breaks the pool: its other processes are *)
(* terminated without their finally clauses, so that command files and     *)
(* claude processes stay, and every run not done counts as not triggered.  *)
WorkerDies ==
  /\ deaths < MaxDeaths /\ At("running") # {}
  /\ deaths' = deaths + 1 /\ leftovers' = TRUE
  /\ unheard' = unheard \cup {t \in Running : stage[t] # "done"}
  /\ stage' = [t \in Running |-> "done"]
  /\ pending' = {}
  /\ UNCHANGED <<batch, picked, beside, answer, commands, claudes>>

(* The commands a claude may have found: those that are there, or were     *)
(* while it ran.                                                           *)
Offered(t) == commands \cup {u \in Running : <<t, u>> \in beside}

Hear(t) ==
  \/ \E c \in Offered(t) \cup {0} : BlockStart(t, c) \/ AssistantMessage(t, c)
  \/ BlockStop(t) \/ NoSkill(t) \/ CutShort(t)

RunsEnded == \A t \in Running : stage[t] = "done"
-----------------------------------------------------------------------------
(* The results of run_eval, by query: items with one text are one, and     *)
(* should_trigger is that of the item whose run completed last.            *)
Queries(items) == {items[t].query : t \in DOMAIN items}
RunsOf(q) == {t \in Running : batch[t].query = q}
Triggers(q) == Cardinality({t \in RunsOf(q) : answer[t]})
Often(q) == Triggers(q) * Threshold[2] >= Threshold[1] * Cardinality(RunsOf(q))
LastOf == {f \in [Queries(batch) -> Running] : \A q \in Queries(batch) : f[q] \in RunsOf(q)}
Results(last) == [q \in Queries(batch) |-> Often(q) = batch[last[q]].should]
-----------------------------------------------------------------------------
(* The types of the variables of a batch.                                  *)
TriggerTyped ==
  /\ stage \in [Running -> {"queued", "running", "done"}]
  /\ answer \in [Running -> BOOLEAN] /\ picked \in [Running -> Running \cup {0}]
  /\ pending \subseteq Running /\ unheard \subseteq Running /\ beside \subseteq Running \X Running
  /\ commands \subseteq Running /\ claudes \subseteq Running
  /\ deaths \in 0 .. MaxDeaths /\ leftovers \in BOOLEAN

(* A run counts as triggered only if the first tool Claude called was for  *)
(* the run's own command.  It is missed only if the call was cut short, or *)
(* was for the command of a run that went on at the same time, the same    *)
(* skill: never for that of a run that was over, whose file is gone.       *)
CountedAsTriggered ==
  \A t \in At("done") :
    /\ answer[t] => picked[t] = t
    /\ picked[t] # 0 => answer[t] \/ t \in unheard \/ <<t, picked[t]>> \in beside

(* A run that has returned leaves neither its command file, which every    *)
(* later claude would be offered, nor its claude process, as long as no    *)
(* process of the pool dies.                                               *)
NoRunLeftBehind == ~leftovers => commands \subseteq At("running") /\ claudes \subseteq At("running")
=============================================================================
