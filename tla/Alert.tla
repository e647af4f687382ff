-------------------------------- MODULE Alert --------------------------------
(***************************************************************************)
(* The alert state machine of one registered task (alert.go): executions   *)
(* of the task, which may overlap, hand their results to                   *)
(* handleAlertStateLocked in the order they get the shard lock, each with  *)
(* the time of the rotation that started it.  An execution that outlives   *)
(* its task's registration acts on the node's next task; TimeWheel has     *)
(* that (staleActed), here executions end with their task.                 *)
(*                                                                         *)
(* Times and durations are numbers, 0 is the zero time.Time; severities,   *)
(* values and labels are left out.                                         *)
(*                                                                         *)
(* A definition whose comment starts with "Mutant:" is a faulty variant of *)
(* the definition below it; no specification uses it.                      *)
(***************************************************************************)
EXTENDS Integers, Sequences, FiniteSets

CONSTANTS
  Task,     \* tasks, by their For and RepeatInterval
  MaxTime   \* bound: rotations after the task was added

ASSUME AlertAssumption ==
  /\ Task \subseteq [For : Nat, RepeatInterval : Nat]
  /\ MaxTime \in Nat

AlertState == {"Pending", "Firing", "Resolved"}
Time == 1 .. MaxTime

VARIABLES
  task,              \* the registered task
  clock,             \* time since the task was added, in rotations
  inflight,          \* executions in progress, by the time of their rotation
  alertState, pendingSince, lastFiredAt,   \* taskSlot fields
  records,           \* what the history manager and the callback were given
  stored,            \* what the history store was given
  totalAlertsFired,
  log                \* history: the results handled, in order

nodeVars == <<alertState, pendingSince, lastFiredAt>>
outVars == <<records, stored, totalAlertsFired>>
vars == <<task, clock, inflight, nodeVars, outVars, log>>
-----------------------------------------------------------------------------
(* Mutant: pendingSince of the node's last task is kept.                   *)
KeepAlertState ==
  alertState' = "Pending" /\ UNCHANGED pendingSince /\ lastFiredAt' = 0
ResetAlertState ==
  alertState' = "Pending" /\ pendingSince' = 0 /\ lastFiredAt' = 0

Init ==
  /\ task \in Task
  /\ clock = 0 /\ inflight = {}
  /\ alertState = "Pending" /\ pendingSince = 0 /\ lastFiredAt = 0
  /\ records = <<>> /\ stored = <<>> /\ totalAlertsFired = 0
  /\ log = <<>>

(* The task is removed and one is added on the same node, which AddTask    *)
(* resets; times count from here.                                          *)
AddTask(t) ==
  /\ task' = t /\ clock' = 0 /\ inflight' = {}
  /\ ResetAlertState
  /\ records' = <<>> /\ stored' = <<>> /\ totalAlertsFired' = 0
  /\ log' = <<>>

(* One rotation, in which the task is due or not.                          *)
Tick ==
  /\ clock < MaxTime
  /\ clock' = clock + 1
  /\ inflight' \in {inflight, inflight \cup {clock + 1}}
  /\ UNCHANGED <<task, nodeVars, outVars, log>>

(* A paused task or one whose function panicked hands in no result.        *)
NoResult(now) ==
  /\ now \in inflight
  /\ inflight' = inflight \ {now}
  /\ UNCHANGED <<task, clock, nodeVars, outVars, log>>
-----------------------------------------------------------------------------
ForReached(now) ==
  task.For = 0 \/ (pendingSince # 0 /\ now - pendingSince >= task.For)

(* computeAlertState: the new state ...                                    *)
NewState(isFiring, now) ==
  CASE isFiring /\ (alertState = "Firing" \/ ForReached(now)) -> "Firing"
    [] ~isFiring /\ alertState = "Firing" -> "Resolved"
    [] OTHER -> "Pending"

(* Mutant: a result that is not firing leaves pendingSince.                *)
NewSinceKept(isFiring, now) ==
  CASE isFiring /\ alertState # "Firing" /\ ForReached(now) -> 0
    [] isFiring /\ pendingSince = 0 /\ alertState # "Firing" -> now
    [] OTHER -> pendingSince

(* ... and the new pendingSince.                                           *)
NewSince(isFiring, now) ==
  CASE ~isFiring \/ (alertState # "Firing" /\ ForReached(now)) -> 0
    [] isFiring /\ alertState # "Firing" /\ ~ForReached(now) /\ pendingSince = 0 -> now
    [] OTHER -> pendingSince

(* A task that stays Firing is told again after RepeatInterval.            *)
Repeats(new, now) ==
  /\ alertState = "Firing" /\ new = "Firing"
  /\ task.RepeatInterval > 0 /\ lastFiredAt # 0
  /\ now - lastFiredAt >= task.RepeatInterval

(* Mutant: the time of a repeated alert is not kept.                       *)
NewLastOnce(new, now) ==
  IF new = "Firing" /\ alertState # "Firing" THEN now ELSE lastFiredAt
(* Mutant: the time of the next repetition is kept instead.                *)
NewLastNext(new, now) ==
  IF new = "Firing" /\ (alertState # "Firing" \/ Repeats(new, now))
  THEN now + task.RepeatInterval ELSE lastFiredAt
NewLast(new, now) ==
  IF new = "Firing" /\ (alertState # "Firing" \/ Repeats(new, now))
  THEN now ELSE lastFiredAt

(* Mutant: repeated alerts are not counted.                                *)
CountsFirst(new, now) == new = "Firing" /\ alertState # "Firing"
Counts(new, now) == new = "Firing" /\ (alertState # "Firing" \/ Repeats(new, now))

(* handleAlertStateLocked.  An execution that was skipped because its      *)
(* context is gone hands in the zero AlarmResult, which is not firing.     *)
HandleAlertState(now, isFiring) ==
  LET new == NewState(isFiring, now)
      rec == [old |-> alertState, new |-> new, at |-> now]
  IN /\ now \in inflight
     /\ inflight' = inflight \ {now}
     /\ alertState' = new
     /\ pendingSince' = NewSince(isFiring, now)
     /\ lastFiredAt' = NewLast(new, now)
     /\ records' = IF new # alertState \/ Repeats(new, now)
                   THEN Append(records, rec) ELSE records
     /\ stored' = IF new # alertState THEN Append(stored, rec) ELSE stored
     /\ totalAlertsFired' = totalAlertsFired + (IF Counts(new, now) THEN 1 ELSE 0)
     /\ log' = Append(log, [at |-> now, firing |-> isFiring])
     /\ UNCHANGED <<task, clock>>

Next ==
  \/ \E t \in Task : AddTask(t)
  \/ Tick
  \/ \E now \in inflight :
       NoResult(now) \/ \E isFiring \in BOOLEAN : HandleAlertState(now, isFiring)

Spec == Init /\ [][Next]_vars
-----------------------------------------------------------------------------
Record == [old : AlertState, new : AlertState, at : Time]

(* Every variable has its type.                                            *)
TypeOK ==
  /\ task \in Task
  /\ clock \in 0 .. MaxTime
  /\ inflight \subseteq Time
  /\ alertState \in AlertState
  /\ pendingSince \in 0 .. MaxTime
  /\ lastFiredAt \in 0 .. MaxTime
  /\ records \in Seq(Record)
  /\ stored \in Seq(Record)
  /\ totalAlertsFired \in Nat
  /\ log \in Seq([at : Time, firing : BOOLEAN])

(* What the state should be, read off the results alone: the results from  *)
(* i to n are a streak, all firing with none firing before; the streak has *)
(* held once one of its results is For later than its first.               *)
Streak(i, n) ==
  /\ \A k \in i .. n : log[k].firing
  /\ i > 1 => ~log[i - 1].firing
Held(n) ==
  \E i \in 1 .. n : /\ Streak(i, n)
                    /\ \E j \in i .. n : log[j].at - log[i].at >= task.For
Expected ==
  CASE Held(Len(log)) -> "Firing"
    [] /\ log # <<>> /\ ~log[Len(log)].firing
       /\ Held(Len(log) - 1) -> "Resolved"
    [] OTHER -> "Pending"

(* The state is Firing exactly while the current streak of firing results  *)
(* has reached For, Resolved after the result that ended such a streak,    *)
(* and Pending otherwise, on a node used before as on a new one.           *)
StateFollowsResults == alertState = Expected

(* Two times at least For apart between which no result was not firing.    *)
HeldThroughout ==
  alertState = "Firing" =>
    \E i, j \in 1 .. Len(log) :
      /\ log[j].at - log[i].at >= task.For
      /\ \A k \in 1 .. Len(log) :
           log[k].at \in log[i].at .. log[j].at => log[k].firing

InOrder == \A i, j \in 1 .. Len(log) : i < j => log[i].at < log[j].at

(* When results are handled in the order of their times, a task is Firing  *)
(* only after its condition held throughout an interval of For.            *)
HeldWhenInOrder == InOrder => HeldThroughout

(* While a task stays Firing it is told again no sooner than               *)
(* RepeatInterval after the last time, whatever the order of the results.  *)
RepeatsSpaced ==
  \A i \in 2 .. Len(records) :
    records[i].old = "Firing" /\ records[i].new = "Firing" =>
      /\ records[i - 1].new = "Firing"
      /\ records[i].at - records[i - 1].at >= task.RepeatInterval

(* The records of a change of state and those of the state Firing.         *)
Changes == {i \in DOMAIN records : records[i].old # records[i].new}
OfFiring == {i \in DOMAIN records : records[i].new = "Firing"}

(* The history store gets the changes of state among what the callback is  *)
(* told, all of them and in their order, and the alert counter counts what *)
(* it is told of Firing.                                                   *)
HistoryAgrees ==
  /\ Len(stored) = Cardinality(Changes)
  /\ \A i \in Changes : stored[Cardinality({j \in Changes : j <= i})] = records[i]
  /\ totalAlertsFired = Cardinality(OfFiring)
=============================================================================
