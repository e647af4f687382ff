---------------------------- MODULE MCTimeWheel ----------------------------
(* Small instances of TimeWheel: the tasks the configurations choose from. *)
EXTENDS TimeWheel, TLC

CONSTANTS x, y

Def(id, mode, times, prio, timeout, valid) ==
  [ID |-> id, Mode |-> mode, Times |-> times, Priority |-> prio,
   Timeout |-> timeout, Valid |-> valid]

OnceX == Def(x, "Once", 0, 0, FALSE, TRUE)
TwiceX == Def(x, "FixedTimes", 2, 1, FALSE, TRUE)
RepeatX == Def(x, "Repeated", 0, 1, FALSE, TRUE)
RepeatY == Def(y, "Repeated", 0, 1, FALSE, TRUE)
InvalidX == Def(x, "Repeated", 0, 1, FALSE, FALSE)

TwoIDs == {OnceX, RepeatY}
OneRepeat == {RepeatX}
OneOnce == {OnceX}
OneTwice == {TwiceX}
Counted == {TwiceX, OnceX}
Updated == {RepeatX, InvalidX}
NodeSymmetry == Permutations(Node)
CallerSymmetry == NodeSymmetry \cup Permutations(Client)

(* The invariants say nothing of what follows a stale execution's change.  *)
BeforeStale == ~staleActed

(* Pausing touches neither the lists nor the map; the run live has it.     *)
NonePaused == \A n \in Node : ~paused[n]

(* Fields no step reads before writing them: those of a node without a     *)
(* task, and the locals of an execution that is past using them.           *)
(* Comparing the state has TLC evaluate every function before it queues    *)
(* the state; a view alone leaves some of them lazy.                       *)
Evaluated == vars = vars
LiveInt(f, live) == [n \in DOMAIN f |-> IF live[n] THEN f[n] ELSE 0]
LiveView ==
  LET held == [n \in Node |-> task[n] # NULL]
      used == [e \in Exec |-> pc[e] # "finish"]
  IN <<wheelVars, slots, next, prev, LiveInt(slotIndex, held), task, ctx,
       [n \in Node |-> held[n] /\ due[n]], paused, LiveInt(executed, held),
       mapVars, client, pc, [e \in Exec |-> IF used[e] THEN info[e] ELSE NULL],
       LiveInt(cur, used), [e \in Exec |-> IF pc[e] = "store" THEN seen[e] ELSE 0],
       runningTasks, [e \in Exec |-> used[e] /\ fresh[e]], staleActed,
       LiveInt(ran, held), Evaluated>>

(* Without FixedTimes tasks the counts decide nothing.                     *)
ListView ==
  LET held == [n \in Node |-> task[n] # NULL]
      used == [e \in Exec |-> pc[e] # "finish"]
  IN <<wheelVars, slots, next, prev, LiveInt(slotIndex, held), task, ctx,
       [n \in Node |-> held[n] /\ due[n]], paused, mapVars, client, pc,
       [e \in Exec |-> IF used[e] THEN info[e] ELSE NULL], LiveInt(cur, used),
       runningTasks, [e \in Exec |-> used[e] /\ fresh[e]], staleActed, Evaluated>>
=============================================================================
