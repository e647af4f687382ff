------------------------------ MODULE TimeWheel ------------------------------
(***************************************************************************)
(* The single-level time wheel of pkg/timewheel: the task map (one lock    *)
(* per shard), the slots with their doubly linked lists (slotsMu), the     *)
(* node pool, the rotation goroutine (tick) and the pool goroutines that   *)
(* run executeTask.                                                        *)
(*                                                                         *)
(* What one lock covers is one action: shard.mu is held for the whole body *)
(* of RemoveTask, PauseTask, ResumeTask, for one shard of ClearAllTasks,   *)
(* for the second half of AddTask and for the last part of executeTask;    *)
(* slotsMu nests inside it.  What executeTask and AddTask do on a node     *)
(* outside the locks is a step per read or write that another goroutine    *)
(* may come before.                                                        *)
(*                                                                         *)
(* Clock values are abstracted to one bit per node, due (runAt has been    *)
(* reached), and every computed slot index is an arbitrary slot.           *)
(*                                                                         *)
(* A definition whose comment starts with "Mutant:" is a faulty variant of *)
(* the definition below it; no specification uses it.                      *)
(***************************************************************************)
EXTENDS Integers, FiniteSets

CONSTANTS
  TaskID,       \* task identifiers
  Task,         \* task definitions a caller may pass in
  Node,         \* *taskSlot objects
  Client,       \* goroutines calling AddTask and UpdateTask
  SlotNum,      \* tw.slotNum
  MaxConcurrent,\* tw.maxConcurrentTasks, 0 when concurrency control is off
  Panics,       \* whether a task function may panic
  NULL,         \* Go's nil
  Overlap,      \* bound: executions of one node in flight at the same time
  MaxInFlight,  \* bound: executions in flight at the same time
  CountCap      \* bound: counts of executions are not told apart from here on

Modes == {"Once", "FixedTimes", "Repeated"}

(* A task AddTask accepts (Valid) has Times above 0 when they are fixed.    *)
ASSUME TaskAssumption ==
  /\ Task \subseteq [ID : TaskID, Mode : Modes, Times : Nat, Priority : Nat,
                     Timeout : BOOLEAN, Valid : BOOLEAN]
  /\ \A t \in Task : t.Times < CountCap
  /\ \A t \in Task : t.Valid /\ t.Mode = "FixedTimes" => t.Times > 0
ASSUME NullAssumption == /\ NULL \notin Node
                         /\ NULL \notin Task
                         /\ NULL \notin TaskID
                         /\ NULL \notin {"live", "cancelled"}
ASSUME BoundAssumption ==
  /\ IsFiniteSet(Node)
  /\ SlotNum \in Nat \ {0}
  /\ MaxConcurrent \in Nat
  /\ Overlap \in Nat \ {0}
  /\ CountCap \in Nat \ {0}
  /\ MaxInFlight \in Nat
  /\ Panics \in BOOLEAN

Slot == 0 .. SlotNum - 1
Exec == Node \X (1 .. Overlap)   \* executeTask calls, by the node they hold
NodeOf(e) == e[1]

VARIABLES
  phase,        \* "running" is tw.running; Stop() waits for wg while "stopping",
                \* for taskWg while "draining"
  loop,         \* the runLoop goroutine is alive
  currentSlot,  \* tw.currentSlot modulo slotNum
  slots,        \* tw.slots: the head of every list
  next, prev, slotIndex, task, ctx, due, paused, executed,  \* taskSlot fields
  shard,        \* the task map: TaskID -> Node or NULL
  taskPool,     \* nodes AddTask may get from the sync.Pool
  client,       \* where each client is in AddTask or UpdateTask
  pc, info, cur, seen,  \* locals of executeTask
  runningTasks, \* tokens in taskSemaphore
  fresh,        \* history: the node is still the one tick collected
  staleActed,   \* history: an execution that was not fresh changed a task's node
  ran           \* history: task function calls since the node was prepared

wheelVars == <<phase, loop, currentSlot>>
listVars  == <<slots, next, prev, slotIndex>>
nodeVars  == <<task, ctx, due, paused, executed>>
mapVars   == <<shard, taskPool>>
execVars  == <<pc, info, cur, seen, runningTasks>>
histVars  == <<fresh, staleActed, ran>>
vars == <<wheelVars, listVars, nodeVars, mapVars, client, execVars, histVars>>
-----------------------------------------------------------------------------
Registered == {shard[id] : id \in TaskID} \ {NULL}

(* What a walk from the head of slot s visits while it stays inside Keep:  *)
(* the least set that has the head and is closed under next.               *)
Walk(s, Keep) ==
  {n \in Keep : \A S \in SUBSET Keep :
                   /\ slots[s] \in Keep => slots[s] \in S
                   /\ \A m \in S : next[m] \in Keep => next[m] \in S
                   => n \in S}

Chain(s) == Walk(s, Node)

(* A walk of slot s reaches nil; it does not on a cyclic list.             *)
Ends(s) == slots[s] = NULL \/ \E n \in Chain(s) : next[n] = NULL

Store(f, p, v) == IF p \in DOMAIN f THEN [f EXCEPT ![p] = v] ELSE f

(* Unlinking n; s is the list whose head is moved when n has no prev.      *)
UnlinkNext(n) == Store(next, prev[n], next[n])
(* Mutant: node.next.prev is left pointing at the removed node.             *)
UnlinkPrevStale(n) == prev
UnlinkPrev(n) == Store(prev, next[n], prev[n])
(* Mutant: the removed node stays the head of its list.                    *)
UnlinkHeadStale(n, s) == slots
UnlinkHead(n, s) ==
  IF prev[n] = NULL THEN [slots EXCEPT ![s] = next[n]] ELSE slots

(* Mutant: the entry stays in the task map.                                *)
KeepEntry(id) == UNCHANGED shard
DeleteEntry(id) == shard' = [shard EXCEPT ![id] = NULL]

(* n leaves the map, its context is cancelled and it goes back to the      *)
(* pool.  No other field is reset, paused in particular.                   *)
Recycle(n, id, s) ==
  /\ slots' = UnlinkHead(n, s)
  /\ next' = [UnlinkNext(n) EXCEPT ![n] = NULL]
  /\ prev' = [UnlinkPrev(n) EXCEPT ![n] = NULL]
  /\ DeleteEntry(id)
  /\ task' = [task EXCEPT ![n] = NULL]
  /\ ctx' = [ctx EXCEPT ![n] = NULL]
  /\ taskPool' = taskPool \cup {n}

Outdate(n) == fresh' = [e \in Exec |-> fresh[e] /\ NodeOf(e) # n]

Saturate(k) == IF k < CountCap THEN k + 1 ELSE k
-----------------------------------------------------------------------------
NoCall == [op |-> "idle", task |-> NULL, node |-> NULL, old |-> NULL]

Init ==
  /\ phase = "stopped" /\ loop = FALSE /\ currentSlot = 0
  /\ slots = [s \in Slot |-> NULL]
  /\ next = [n \in Node |-> NULL] /\ prev = [n \in Node |-> NULL]
  /\ slotIndex = [n \in Node |-> 0]
  /\ task = [n \in Node |-> NULL] /\ ctx = [n \in Node |-> NULL]
  /\ due = [n \in Node |-> FALSE] /\ paused = [n \in Node |-> FALSE]
  /\ executed = [n \in Node |-> 0]
  /\ shard = [id \in TaskID |-> NULL]
  /\ taskPool = Node
  /\ client = [c \in Client |-> NoCall]
  /\ pc = [e \in Exec |-> "idle"] /\ info = [e \in Exec |-> NULL]
  /\ cur = [e \in Exec |-> 0] /\ seen = [e \in Exec |-> 0]
  /\ runningTasks = 0
  /\ fresh = [e \in Exec |-> FALSE] /\ staleActed = FALSE
  /\ ran = [n \in Node |-> 0]

-----------------------------------------------------------------------------
(* Start and Stop.                                                         *)

(* Mutant: the initial slot is not reduced modulo slotNum.                 *)
StartUnreduced ==
  /\ phase = "stopped"
  /\ phase' = "running" /\ loop' = TRUE
  /\ currentSlot' \in 0 .. SlotNum
  /\ UNCHANGED <<listVars, nodeVars, mapVars, client, execVars, histVars>>

Start ==
  /\ phase = "stopped"
  /\ phase' = "running" /\ loop' = TRUE
  /\ currentSlot' \in Slot
  /\ UNCHANGED <<listVars, nodeVars, mapVars, client, execVars, histVars>>

Stopping == phase \in {"stopping", "draining"}

(* running becomes false and tw.ctx, with every context made from it, is   *)
(* cancelled.                                                              *)
StopBegin ==
  /\ phase = "running"
  /\ phase' = "stopping"
  /\ ctx' = [n \in Node |-> IF ctx[n] = "live" THEN "cancelled" ELSE ctx[n]]
  /\ UNCHANGED <<loop, currentSlot, listVars, task, due, paused, executed,
                 mapVars, client, execVars, histVars>>

LoopExit ==
  /\ Stopping /\ loop
  /\ loop' = FALSE
  /\ UNCHANGED <<phase, currentSlot, listVars, nodeVars, mapVars, client,
                 execVars, histVars>>

TasksDone == \A e \in Exec : pc[e] = "idle"

(* Mutant: taskWg is waited for first.                                     *)
WaitsSwapped(p) == IF p = "stopping" THEN TasksDone ELSE ~loop
(* What Stop waits for: wg, then taskWg.                                   *)
Waits(p) == IF p = "stopping" THEN ~loop ELSE TasksDone

LoopAwaited ==
  /\ phase = "stopping" /\ Waits(phase)
  /\ phase' = "draining"
  /\ UNCHANGED <<loop, currentSlot, listVars, nodeVars, mapVars, client,
                 execVars, histVars>>

(* The pools are released; the context, the pool and the semaphore are     *)
(* replaced.                                                               *)
StopEnd ==
  /\ phase = "draining" /\ Waits(phase)
  /\ phase' = "stopped"
  /\ runningTasks' = 0
  /\ UNCHANGED <<loop, currentSlot, listVars, nodeVars, mapVars, client,
                 pc, info, cur, seen, histVars>>
-----------------------------------------------------------------------------
(* Mutant: the node stays in the pool while AddTask fills it.              *)
GetShared(n) == n \in taskPool /\ UNCHANGED taskPool
Get(n) == n \in taskPool /\ taskPool' = taskPool \ {n}

(* Mutant: executed is not reset on a reused node.                         *)
KeepCount(n) == UNCHANGED executed
ResetCount(n) == executed' = [executed EXCEPT ![n] = 0]

(* AddTask: the task is valid and the wheel runs, when this is checked ... *)
Admit(c, t, old) ==
  /\ phase = "running" /\ t.Valid
  /\ client' = [client EXCEPT ![c] =
       [op |-> "prepare", task |-> t, node |-> NULL, old |-> old]]
  /\ UNCHANGED <<wheelVars, listVars, nodeVars, mapVars, execVars, histVars>>

AddTask(c, t) == client[c].op = "idle" /\ Admit(c, t, NULL)

(* ... a node is taken from the pool and filled without a lock, its        *)
(* context a child of the tw.ctx of this moment ...                        *)
Prepare(c) ==
  /\ client[c].op = "prepare"
  /\ \E n \in Node, s \in Slot :
       /\ Get(n)
       /\ task' = [task EXCEPT ![n] = client[c].task]
       /\ ctx' = [ctx EXCEPT ![n] =
            IF Stopping THEN "cancelled" ELSE "live"]
       /\ slotIndex' = [slotIndex EXCEPT ![n] = s]
       /\ due' = [due EXCEPT ![n] = FALSE]
       /\ ResetCount(n)
       /\ next' = [next EXCEPT ![n] = NULL]
       /\ prev' = [prev EXCEPT ![n] = NULL]
       /\ ran' = [ran EXCEPT ![n] = 0]
       /\ client' = [client EXCEPT ![c].op = "commit", ![c].node = n]
  /\ UNCHANGED <<wheelVars, slots, paused, shard, execVars, fresh, staleActed>>

(* Mutant: no rollback when a task cannot be added.                        *)
FailedAddGivesUp(c) == client' = [client EXCEPT ![c] = NoCall]
(* An AddTask call fails: the end, or UpdateTask's rollback.               *)
FailedAdd(c) ==
  client' = [client EXCEPT ![c] =
    IF @.old = NULL
    THEN NoCall
    ELSE [op |-> "rollback", task |-> @.task, node |-> NULL, old |-> @.old]]

(* ... then, under the locks, rejected when the ID is taken ...            *)
AddRejected(c) ==
  /\ client[c].op = "commit"
  /\ shard[client[c].task.ID] # NULL
  /\ taskPool' = taskPool \cup {client[c].node}
  /\ FailedAdd(c)
  /\ UNCHANGED <<wheelVars, listVars, nodeVars, shard, execVars, histVars>>

(* ... or linked into the list of its slot: before the first node that has *)
(* no task or whose priority value is not below t's.                       *)
Before(s, t) ==
  Walk(s, {n \in Node : task[n] # NULL /\ task[n].Priority < t.Priority})

LinkEmpty(n, s) ==
  /\ slots[s] = NULL
  /\ slots' = [slots EXCEPT ![s] = n]
  /\ UNCHANGED <<next, prev>>

(* Mutant: the rest of the list is not hung on the new head.               *)
LinkFrontDrops(n, s, t) ==
  /\ slots[s] # NULL /\ Before(s, t) = {}
  /\ prev' = [prev EXCEPT ![slots[s]] = n]
  /\ slots' = [slots EXCEPT ![s] = n]
  /\ UNCHANGED next

LinkFront(n, s, t) ==
  /\ slots[s] # NULL /\ Before(s, t) = {}
  /\ next' = [next EXCEPT ![n] = slots[s]]
  /\ prev' = [prev EXCEPT ![slots[s]] = n]
  /\ slots' = [slots EXCEPT ![s] = n]

LinkAfter(n, s, t) ==
  \E p \in Before(s, t) :
    /\ next[p] \notin Before(s, t)
    /\ next' = [next EXCEPT ![n] = next[p], ![p] = n]
    /\ prev' = [Store(prev, next[p], n) EXCEPT ![n] = p]
    /\ UNCHANGED slots

AddCommit(c) ==
  LET t == client[c].task
      n == client[c].node
      s == slotIndex[n]
  IN /\ client[c].op = "commit"
     /\ shard[t.ID] = NULL
     /\ LinkEmpty(n, s) \/ LinkFront(n, s, t) \/ LinkAfter(n, s, t)
     /\ shard' = [shard EXCEPT ![t.ID] = n]
     /\ client' = [client EXCEPT ![c] = NoCall]
     /\ UNCHANGED <<wheelVars, slotIndex, nodeVars, taskPool, execVars, histVars>>

(* UpdateTask: copy the old task, remove it, add the new one, and add the  *)
(* copy back when that fails.                                              *)
UpdateTask(c, t) ==
  /\ client[c].op = "idle" /\ phase = "running"
  /\ shard[t.ID] # NULL
  /\ client' = [client EXCEPT ![c] =
       [op |-> "updateRemove", task |-> t, node |-> NULL,
        old |-> task[shard[t.ID]]]]
  /\ UNCHANGED <<wheelVars, listVars, nodeVars, mapVars, execVars, histVars>>

Remove(id) ==
  LET n == shard[id]
  IN /\ n # NULL
     /\ Recycle(n, id, slotIndex[n])
     /\ Outdate(n)
     /\ UNCHANGED <<wheelVars, slotIndex, due, paused, executed, execVars,
                    staleActed, ran>>

UpdateRemove(c) ==
  /\ client[c].op = "updateRemove"
  /\ \/ /\ Remove(client[c].task.ID)
        /\ client' = [client EXCEPT ![c].op = "updateAdd"]
     \/ /\ shard[client[c].task.ID] = NULL
        /\ client' = [client EXCEPT ![c] = NoCall]
        /\ UNCHANGED <<wheelVars, listVars, nodeVars, mapVars, execVars, histVars>>

UpdateAdd(c) ==
  /\ client[c].op = "updateAdd"
  /\ \/ Admit(c, client[c].task, client[c].old)
     \/ /\ phase # "running" \/ ~client[c].task.Valid
        /\ FailedAdd(c)
        /\ UNCHANGED <<wheelVars, listVars, nodeVars, mapVars, execVars, histVars>>

UpdateRollback(c) ==
  /\ client[c].op = "rollback"
  /\ \/ Admit(c, client[c].old, NULL)
     \/ /\ phase # "running"
        /\ client' = [client EXCEPT ![c] = NoCall]
        /\ UNCHANGED <<wheelVars, listVars, nodeVars, mapVars, execVars, histVars>>

RemoveTask(id) == Remove(id) /\ UNCHANGED client

(* One task of ClearAllTasks, which takes the shards one after the other.  *)
ClearAllTasks(id) == Remove(id) /\ UNCHANGED client

PauseTask(id) ==
  LET n == shard[id]
  IN /\ n # NULL /\ ~paused[n]
     /\ paused' = [paused EXCEPT ![n] = TRUE]
     /\ UNCHANGED <<wheelVars, listVars, task, ctx, due, executed, mapVars,
                    client, execVars, histVars>>

ResumeTask(id) ==
  LET n == shard[id]
  IN /\ n # NULL /\ paused[n]
     /\ paused' = [paused EXCEPT ![n] = FALSE]
     /\ due' = [due EXCEPT ![n] = FALSE]
     /\ UNCHANGED <<wheelVars, listVars, task, ctx, executed, mapVars,
                    client, execVars, histVars>>
-----------------------------------------------------------------------------
(* The clock reaches runAt of a node.                                      *)
TimePasses(n) ==
  /\ task[n] # NULL /\ ~due[n]
  /\ due' = [due EXCEPT ![n] = TRUE]
  /\ UNCHANGED <<wheelVars, listVars, task, ctx, paused, executed, mapVars,
                 client, execVars, histVars>>

Active == {e \in Exec : pc[e] # "idle"}

IdleCall(n) == CHOOSE k \in 1 .. Overlap : pc[<<n, k>>] = "idle"

(* One rotation step: every due node of the slot is handed to the pool.    *)
(* On a cyclic list the walk never ends and holds slotsMu for ever.        *)
Tick ==
  LET s == (currentSlot + 1) % SlotNum
      collected == {n \in Chain(s) : due[n]}
      started == {<<n, IdleCall(n)>> : n \in collected}
  IN /\ loop /\ Ends(s)
     /\ \A n \in collected : \E k \in 1 .. Overlap : pc[<<n, k>>] = "idle"
     /\ Cardinality(Active \cup started) <= MaxInFlight
     /\ currentSlot' = s
     /\ pc' = [e \in Exec |-> IF e \in started THEN "start" ELSE pc[e]]
     /\ cur' = [e \in Exec |-> IF e \in started THEN s ELSE cur[e]]
     /\ fresh' = [e \in Exec |-> e \in started \/ fresh[e]]
     /\ UNCHANGED <<phase, loop, listVars, nodeVars, mapVars, client, info,
                    seen, runningTasks, staleActed, ran>>
-----------------------------------------------------------------------------
(* executeTask, one action per step another goroutine may come before.     *)

Goto(e, label) == pc' = [pc EXCEPT ![e] = label]
Quiet == UNCHANGED <<wheelVars, listVars, mapVars, client>>

(* Mutant: the semaphore is not released.                                  *)
KeepToken == UNCHANGED runningTasks
ReleaseToken ==
  runningTasks' = IF MaxConcurrent > 0 THEN runningTasks - 1 ELSE 0

(* The deferred function: the semaphore is released, taskWg.Done().        *)
Leave(e) ==
  /\ Goto(e, "idle")
  /\ info' = [info EXCEPT ![e] = NULL]
  /\ cur' = [cur EXCEPT ![e] = 0]
  /\ seen' = [seen EXCEPT ![e] = 0]
  /\ fresh' = [fresh EXCEPT ![e] = FALSE]

AcquireSemaphore(e) ==
  /\ pc[e] = "start"
  /\ MaxConcurrent > 0 => runningTasks < MaxConcurrent
  /\ runningTasks' = IF MaxConcurrent > 0 THEN runningTasks + 1 ELSE 0
  /\ Goto(e, "check")
  /\ Quiet /\ UNCHANGED <<nodeVars, info, cur, seen, histVars>>

(* Mutant: the deferred function releases a token that was not acquired.   *)
SkipExecutionReleases(e) ==
  /\ pc[e] = "start"
  /\ MaxConcurrent > 0 /\ Stopping
  /\ Leave(e) /\ runningTasks' = runningTasks - 1
  /\ Quiet /\ UNCHANGED <<nodeVars, staleActed, ran>>

(* ctx.Done() wins the select: the execution is skipped.                   *)
SkipExecution(e) ==
  /\ pc[e] = "start"
  /\ MaxConcurrent > 0 /\ Stopping
  /\ Leave(e)
  /\ Quiet /\ UNCHANGED <<nodeVars, runningTasks, staleActed, ran>>

(* Mutant: the worker waits until its task is resumed.                     *)
CheckTaskStateWaits(e) ==
  LET n == NodeOf(e)
  IN /\ pc[e] = "check"
     /\ Goto(e, IF task[n] = NULL \/ paused[n] THEN "check" ELSE "copy")
     /\ Quiet /\ UNCHANGED <<nodeVars, info, cur, seen, runningTasks, histVars>>

CheckTaskState(e) ==
  LET n == NodeOf(e)
  IN /\ pc[e] = "check"
     /\ Goto(e, IF task[n] = NULL \/ paused[n] THEN "finish" ELSE "copy")
     /\ Quiet /\ UNCHANGED <<nodeVars, info, cur, seen, runningTasks, histVars>>

(* A task removed since the check makes the copy panic; recover() ends the *)
(* execution.                                                              *)
CopyTaskInfo(e) ==
  LET n == NodeOf(e)
  IN /\ pc[e] = "copy"
     /\ Goto(e, IF task[n] = NULL THEN "finish" ELSE "context")
     /\ info' = [info EXCEPT ![e] = task[n]]
     /\ Quiet /\ UNCHANGED <<nodeVars, cur, seen, runningTasks, histVars>>

(* runTask: no run on a nil context, nor on a cancelled one when the task  *)
(* has a timeout; both count as an execution that returned an error.       *)
RunTask(e) ==
  LET n == NodeOf(e)
  IN /\ pc[e] = "context"
     /\ Goto(e, IF ctx[n] = NULL \/ (info[e].Timeout /\ ctx[n] = "cancelled")
                THEN "load" ELSE "call")
     /\ Quiet /\ UNCHANGED <<nodeVars, info, cur, seen, runningTasks, histVars>>

(* node.task is read again for its function.                               *)
CallRun(e) ==
  LET n == NodeOf(e)
  IN /\ pc[e] = "call"
     /\ IF task[n] = NULL
        THEN Goto(e, "finish") /\ UNCHANGED ran
        ELSE Goto(e, "running") /\ ran' = [ran EXCEPT ![n] = Saturate(@)]
     /\ Quiet /\ UNCHANGED <<nodeVars, info, cur, seen, runningTasks, fresh,
                             staleActed>>

RunReturns(e) ==
  /\ pc[e] = "running" /\ Goto(e, "load")
  /\ Quiet /\ UNCHANGED <<nodeVars, info, cur, seen, runningTasks, histVars>>

(* The panic unwinds executeTask: neither the result nor the schedule is   *)
(* updated.                                                                *)
RunPanics(e) ==
  /\ Panics
  /\ pc[e] = "running" /\ Goto(e, "finish")
  /\ Quiet /\ UNCHANGED <<nodeVars, info, cur, seen, runningTasks, histVars>>

(* updateTaskResult: node.executed++ is a load and a store without a lock. *)
LoadExecuted(e) ==
  /\ pc[e] = "load" /\ Goto(e, "store")
  /\ seen' = [seen EXCEPT ![e] = executed[NodeOf(e)]]
  /\ Quiet /\ UNCHANGED <<nodeVars, info, cur, runningTasks, histVars>>

StoreExecuted(e) ==
  /\ pc[e] = "store" /\ Goto(e, "recheck")
  /\ executed' = [executed EXCEPT ![NodeOf(e)] = Saturate(seen[e])]
  /\ staleActed' = (staleActed \/ (~fresh[e] /\ task[NodeOf(e)] # NULL))
  /\ Quiet /\ UNCHANGED <<task, ctx, due, paused, info, cur, seen, runningTasks,
                          fresh, ran>>

Recheck(e) ==
  /\ pc[e] = "recheck"
  /\ Goto(e, IF task[NodeOf(e)] = NULL THEN "finish" ELSE "schedule")
  /\ Quiet /\ UNCHANGED <<nodeVars, info, cur, seen, runningTasks, histVars>>

(* Mutant: one execution too many.                                         *)
ShouldRescheduleOnceMore(e) ==
  CASE info[e].Mode = "Once" -> FALSE
    [] info[e].Mode = "FixedTimes" -> executed[NodeOf(e)] <= info[e].Times
    [] OTHER -> TRUE

(* Mutant: one execution too few.                                          *)
ShouldRescheduleOnceLess(e) ==
  CASE info[e].Mode = "Once" -> FALSE
    [] info[e].Mode = "FixedTimes" -> executed[NodeOf(e)] + 1 < info[e].Times
    [] OTHER -> TRUE

ShouldReschedule(e) ==
  CASE info[e].Mode = "Once" -> FALSE
    [] info[e].Mode = "FixedTimes" -> executed[NodeOf(e)] < info[e].Times
    [] OTHER -> TRUE

(* Put n at the head of slot s, in the lists that unlinking it left.       *)
MoveTo(n, s, from) ==
  LET head == UnlinkHead(n, from)
  IN /\ slots' = [head EXCEPT ![s] = n]
     /\ next' = [UnlinkNext(n) EXCEPT ![n] = head[s]]
     /\ prev' = [Store(UnlinkPrev(n), head[s], n) EXCEPT ![n] = NULL]
     /\ slotIndex' = [slotIndex EXCEPT ![n] = s]

Reschedule(e) ==
  LET n == NodeOf(e)
  IN /\ due' = [due EXCEPT ![n] = FALSE]
     /\ \E s \in Slot :
          IF s = slotIndex[n]
          THEN UNCHANGED <<listVars, fresh>>
          ELSE MoveTo(n, s, cur[e]) /\ Outdate(n)
     /\ UNCHANGED <<task, ctx, mapVars>>

RemoveExecuted(e) ==
  /\ Recycle(NodeOf(e), info[e].ID, cur[e])
  /\ Outdate(NodeOf(e))
  /\ UNCHANGED <<due, slotIndex>>

(* handleTaskSchedulingLocked, under the lock of the shard of info.ID.     *)
HandleTaskScheduling(e) ==
  /\ pc[e] = "schedule" /\ Goto(e, "finish")
  /\ IF task[NodeOf(e)] = NULL
     THEN UNCHANGED <<listVars, task, ctx, due, mapVars, fresh, staleActed>>
     ELSE /\ staleActed' = (staleActed \/ ~fresh[e])
          /\ IF ShouldReschedule(e) THEN Reschedule(e) ELSE RemoveExecuted(e)
  /\ UNCHANGED <<wheelVars, paused, executed, client, info, cur, seen,
                 runningTasks, ran>>

Finish(e) ==
  /\ pc[e] = "finish"
  /\ Leave(e) /\ ReleaseToken
  /\ Quiet /\ UNCHANGED <<nodeVars, staleActed, ran>>
-----------------------------------------------------------------------------
Worker(e) ==
  \/ AcquireSemaphore(e) \/ SkipExecution(e) \/ CheckTaskState(e)
  \/ CopyTaskInfo(e) \/ RunTask(e) \/ CallRun(e) \/ RunReturns(e)
  \/ RunPanics(e) \/ LoadExecuted(e) \/ StoreExecuted(e) \/ Recheck(e)
  \/ HandleTaskScheduling(e) \/ Finish(e)

Lifecycle == Start \/ StopBegin \/ LoopExit \/ LoopAwaited \/ StopEnd

Call(c) ==
  \/ \E t \in Task : AddTask(c, t) \/ UpdateTask(c, t)
  \/ Prepare(c) \/ AddRejected(c) \/ AddCommit(c)
  \/ UpdateRemove(c) \/ UpdateAdd(c) \/ UpdateRollback(c)

Control(id) ==
  RemoveTask(id) \/ ClearAllTasks(id) \/ PauseTask(id) \/ ResumeTask(id)

Next ==
  \/ Lifecycle
  \/ Tick
  \/ \E c \in Client : Call(c)
  \/ \E id \in TaskID : Control(id)
  \/ \E n \in Node : TimePasses(n)
  \/ \E e \in Exec : Worker(e)

Spec == Init /\ [][Next]_vars
-----------------------------------------------------------------------------
(* Every variable has its type: a pointer is a node or nil, a local of     *)
(* executeTask is set while it is needed, counts stay below their caps.    *)
PC == {"idle", "start", "check", "copy", "context", "call", "running", "load",
       "store", "recheck", "schedule", "finish"}
CallState ==
  [op : {"idle", "prepare", "commit", "updateRemove", "updateAdd", "rollback"},
   task : Task \cup {NULL}, node : Node \cup {NULL}, old : Task \cup {NULL}]

TypeOK ==
  /\ phase \in {"stopped", "running", "stopping", "draining"}
  /\ loop \in BOOLEAN
  /\ currentSlot \in Slot
  /\ slots \in [Slot -> Node \cup {NULL}]
  /\ next \in [Node -> Node \cup {NULL}]
  /\ prev \in [Node -> Node \cup {NULL}]
  /\ slotIndex \in [Node -> Slot]
  /\ task \in [Node -> Task \cup {NULL}]
  /\ ctx \in [Node -> {"live", "cancelled", NULL}]
  /\ due \in [Node -> BOOLEAN]
  /\ paused \in [Node -> BOOLEAN]
  /\ executed \in [Node -> 0 .. CountCap]
  /\ shard \in [TaskID -> Node \cup {NULL}]
  /\ taskPool \subseteq Node
  /\ client \in [Client -> CallState]
  /\ pc \in [Exec -> PC]
  /\ info \in [Exec -> Task \cup {NULL}]
  /\ cur \in [Exec -> Slot]
  /\ seen \in [Exec -> 0 .. CountCap]
  /\ runningTasks \in Int
  /\ fresh \in [Exec -> BOOLEAN]
  /\ staleActed \in BOOLEAN
  /\ ran \in [Node -> 0 .. CountCap]

(* The lists partition the nodes of L by slot: head, next and prev agree   *)
(* with each other and with the slot written in the nodes, no node outside *)
(* L is linked, and no node of L is off the walk from its head (Lost).     *)
WellLinked(L, hd, nx, pv, si) ==
  /\ \A s \in Slot : hd[s] # NULL =>
        hd[s] \in L /\ si[hd[s]] = s /\ pv[hd[s]] = NULL
  /\ \A n \in L :
        /\ pv[n] = NULL => hd[si[n]] = n
        /\ pv[n] # NULL => pv[n] \in L /\ nx[pv[n]] = n /\ si[pv[n]] = si[n]
        /\ nx[n] # NULL => nx[n] \in L /\ pv[nx[n]] = n
  /\ \A n \in Node \ L : nx[n] = NULL /\ pv[n] = NULL

Reachable(L, hd, nx) ==
  \A S \in SUBSET Node :
    /\ \A s \in Slot : hd[s] # NULL => hd[s] \in S
    /\ \A n \in S : nx[n] # NULL => nx[n] \in S
    => L \subseteq S

(* As long as no stale execution has written a node, however API calls,    *)
(* rotation and workers interleave, the slots are well-formed doubly       *)
(* linked lists of exactly the registered nodes.                           *)
ListsIntact ==
  ~staleActed => WellLinked(Registered, slots, next, prev, slotIndex)

(* ... and no registered task is off the list tick walks: a task in the    *)
(* map is reached in the rotation.                                         *)
NoTaskLost == ~staleActed => Reachable(Registered, slots, next)

EntriesRight ==
  \A id \in TaskID : shard[id] # NULL =>
    /\ task[shard[id]] # NULL
    /\ task[shard[id]].ID = id
    /\ shard[id] \notin taskPool

Adding == {c \in Client : client[c].op = "commit"}
PreparedPrivate ==
  /\ \A c \in Adding : /\ client[c].node \notin Registered \cup taskPool
                       /\ task[client[c].node] = client[c].task
  /\ \A c, d \in Adding : client[c].node = client[d].node => c = d

(* ... and the map is right: a node is registered under the ID of the task *)
(* it holds, never while it is in the pool or being prepared, and no two   *)
(* calls prepare the same node (printStatus and GetAllTasks read node.task *)
(* of every registered node without a nil check).                          *)
MapIntact == ~staleActed => EntriesRight /\ PreparedPrivate

(* A task function runs no more often than its mode says (Once: 1,         *)
(* FixedTimes: Times), provided a run never outlasts a rotation            *)
(* (Overlap = 1) and no task function panics.                              *)
Limit(t) == CASE t.Mode = "Once" -> 1 [] t.Mode = "FixedTimes" -> t.Times
              [] OTHER -> CountCap
RunsBounded ==
  (Overlap = 1 /\ ~Panics /\ ~staleActed) =>
    \A n \in Registered : ran[n] <= Limit(task[n])

(* ... and the wheel retires a FixedTimes task without a timeout only when *)
(* its function has been called Times times: neither a lost increment of   *)
(* executed, nor the count of the node's last task, nor a run that was     *)
(* skipped ends it early.                                                  *)
RetiredAfterTimes ==
  [][\A e \in Exec :
       (/\ ~staleActed
        /\ pc[e] = "schedule" /\ fresh[e] /\ pc'[e] = "finish"
        /\ info[e].Mode = "FixedTimes" /\ ~info[e].Timeout
        /\ task'[NodeOf(e)] = NULL)
       => ran[NodeOf(e)] >= info[e].Times]_vars

(* UpdateTask never loses its task while the wheel runs: once it has       *)
(* removed the old task, the call ends with the ID registered, by the new  *)
(* task, by the copy put back, or by a task another caller added.          *)
UpdateKeepsTask ==
  [][\A c \in Client :
       LET id == client[c].task.ID
       IN (/\ client[c].op \in {"updateAdd", "rollback", "commit"}
           /\ client'[c].op = "idle"
           /\ phase = "running" /\ ~staleActed)
          => shard'[id] # NULL]_vars

(* The semaphore is never over-committed and no path out of executeTask    *)
(* (skipped, paused, removed, panicked) keeps or doubles a token.          *)
Holders == {e \in Exec : pc[e] \notin {"idle", "start"}}
SemaphoreSound ==
  MaxConcurrent > 0 => /\ runningTasks = Cardinality(Holders)
                       /\ runningTasks <= MaxConcurrent

(* From when Stop waits for taskWg, no execution is added to it, so that   *)
(* none is in flight when the pools are released and the semaphore is      *)
(* replaced, and none starts before the next Start: tick adds to taskWg in *)
(* the rotation goroutine, which outlives the cancelled context by a turn. *)
StopQuiesces ==
  [][/\ phase \in {"draining", "stopped"} => Active' \subseteq Active
     /\ phase' = "stopped" => Active' = {} /\ ~loop']_vars
-----------------------------------------------------------------------------
(* The goroutines the runtime schedules are fair; callers and task panics  *)
(* are not.  A channel send waits in FIFO order, so AcquireSemaphore is    *)
(* strongly fair; RunReturns is fair because task functions return.        *)
Fairness ==
  /\ WF_vars(Tick) /\ WF_vars(LoopExit) /\ WF_vars(LoopAwaited) /\ WF_vars(StopEnd)
  /\ \A c \in Client : WF_vars(client[c].op # "idle" /\ Call(c))
  /\ \A e \in Exec : /\ SF_vars(AcquireSemaphore(e))
                     /\ WF_vars(Worker(e) /\ pc[e] # "running")
                     /\ WF_vars(RunReturns(e))

FairSpec == Spec /\ Fairness

(* A registered task that is due and not paused is run, unless it leaves   *)
(* the wheel, is paused, or the wheel is stopped first (or a stale         *)
(* execution damages the lists).                                           *)
DueTaskRuns ==
  \A id \in TaskID, n \in Node :
    (shard[id] = n /\ due[n] /\ ~paused[n] /\ phase = "running")
    ~> (\/ \E k \in 1 .. Overlap : pc[<<n, k>>] = "running"
        \/ shard[id] # n \/ paused[n] \/ ~due[n] \/ phase # "running"
        \/ staleActed)

(* Stop returns, whatever was in flight when it was called.                *)
StopReturns == phase = "stopping" ~> phase = "stopped"
-----------------------------------------------------------------------------
(* Claims of the code's comments that its steps do not keep.               *)

(* types.go:118, on taskSlot: "atomic operations guarantee concurrency     *)
(* safety": no interleaving takes a registered task off its list.          *)
TasksAlwaysReachable == Reachable(Registered, slots, next)

(* types.go:16, "Once: executed only once", scheduling.go:33, "executed    *)
(* once, not scheduled again whether it succeeds or fails".                *)
OnceRunsOnce ==
  ~staleActed => \A n \in Registered : task[n].Mode = "Once" => ran[n] <= 1
=============================================================================
