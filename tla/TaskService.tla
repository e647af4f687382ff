---------------------------- MODULE TaskService ----------------------------
(***************************************************************************)
(* task_service_atomic.go: an operation on a task changes its row in the   *)
(* database and then the wheels, and changes the row back if the wheels    *)
(* refuse.  The operations on a task take turns by a lock, but read the    *)
(* row before they have it.  RepairInconsistentState takes no lock.        *)
(*                                                                         *)
(* One task: the locks, rows and entries of tasks are separate.  Of its    *)
(* definition only the priority is kept, which is the wheel it is put in;  *)
(* what a wheel does with an entry is TimeWheel's.                         *)
(*                                                                         *)
(* A definition whose comment starts with "Mutant:" is a faulty variant of *)
(* the definition below it; no specification uses it.                      *)
(***************************************************************************)
EXTENDS Integers, Sequences, FiniteSetsExt

CONSTANTS
  Caller,       \* requests at a time
  Levels,       \* priorities, 1 the highest
  MaxOps,       \* bound: operations that get the lock
  MaxFailures,  \* bound: failures of the database and refusals of the wheels
  MaxRestarts,  \* bound: crashes
  MaxRepairs    \* bound: repairs begun

ASSUME TaskServiceAssumption ==
  /\ Levels \in Nat \ {0} /\ MaxOps \in Nat /\ MaxFailures \in Nat /\ MaxRestarts \in Nat /\ MaxRepairs \in Nat

Level == 1 .. Levels
Kind == {"create", "delete", "enable", "disable", "pause", "resume", "update"}

(* What List and GetEnabled find: a deleted row is kept, and found by its  *)
(* key only.                                                               *)
Listed(r) == r.state = "live" /\ r.enabled

VARIABLES
  row,       \* [state, enabled, paused, level], state "absent", "live" or "deleted"
  wheel,     \* the entry in each wheel: "none", "on" or "paused"
  dirty,     \* wheels with a free node that is still marked paused
  pc,        \* of each caller: "idle", "read", "logged", "written", "refused" or "ending"
  op,        \* of each caller: [kind, seen, level, enabled], seen the row as read
  outcome,   \* of each caller: the status its log is to get
  logs,      \* status of each operation log
  repair,    \* [at, row, past, wheel]: what RepairInconsistentState has read
  failures, restarts, repairs,
  lapse,     \* history: the first thing that may have row and wheels disagree
  alone      \* history: nothing happened since the repair began

vars == <<row, wheel, dirty, pc, op, outcome, logs, repair, failures, restarts, repairs, lapse, alone>>

Holder == {c \in Caller : pc[c] \in {"logged", "written", "refused", "ending"}}
-----------------------------------------------------------------------------
Present(w) == {l \in Level : w[l] # "none"}
Empty == [l \in Level |-> "none"]
NoOp == [kind |-> "create", seen |-> [state |-> "absent", enabled |-> FALSE, paused |-> FALSE, level |-> 1],
         level |-> 1, enabled |-> FALSE]
Due(r) == Listed(r) /\ ~r.paused

(* AddTask takes a free node, if there is one, without its mark removed.   *)
Added(w, l, marked) == [w EXCEPT ![l] = IF marked THEN "paused" ELSE "on"]

NoRepair == [at |-> "idle", row |-> NoOp.seen, past |-> FALSE, wheel |-> Empty]

(* The start of the server: restoreTasks adds what is due.                 *)
Init ==
  /\ row \in {NoOp.seen} \cup [state : {"live", "deleted"}, enabled : BOOLEAN, paused : BOOLEAN, level : Level]
  /\ wheel = (IF Due(row) THEN Added(Empty, row.level, FALSE) ELSE Empty) /\ dirty = {}
  /\ pc = [c \in Caller |-> "idle"] /\ op = [c \in Caller |-> NoOp]
  /\ outcome = [c \in Caller |-> "pending"] /\ logs = <<>>
  /\ repair = NoRepair
  /\ failures = 0 /\ restarts = 0 /\ repairs = 0 /\ lapse = "none" /\ alone = FALSE

(* A failure that was not forced by the state.                             *)
Fails == failures < MaxFailures /\ failures' = failures + 1

Lapse(what) == lapse' = IF lapse = "none" THEN what ELSE lapse

(* The removal from the first wheel that has it; a paused node stays so.   *)
Removed(w) == [w EXCEPT ![Min(Present(w))] = "none"]
Dirtied(w) == IF w[Min(Present(w))] = "paused" THEN dirty \cup {Min(Present(w))} ELSE dirty
-----------------------------------------------------------------------------
(* GetByID and the early returns.                                          *)
Applies(kind, r) ==
  IF kind = "create" THEN r.state # "live"
  ELSE /\ r.state = "live"
       /\ kind = "enable" => ~r.enabled
       /\ kind = "disable" => r.enabled
       /\ kind = "pause" => ~r.paused
       /\ kind = "resume" => r.paused

Read(c, kind, level, enabled) ==
  /\ pc[c] = "idle" /\ Len(logs) < MaxOps /\ Applies(kind, row)
  /\ pc' = [pc EXCEPT ![c] = "read"]
  /\ op' = [op EXCEPT ![c] = [kind |-> kind, seen |-> row, level |-> level, enabled |-> enabled]]
  /\ UNCHANGED <<row, wheel, dirty, outcome, logs, repair, failures, restarts, lapse, alone, repairs>>

(* The lock, and the operation log; without it the operation ends.         *)
LogOp(c) ==
  /\ pc[c] = "read" /\ Holder = {} /\ Len(logs) < MaxOps
  /\ \/ /\ pc' = [pc EXCEPT ![c] = "logged"] /\ logs' = Append(logs, "pending")
        /\ Lapse(IF row = op[c].seen THEN "none" ELSE "stale read")
        /\ UNCHANGED failures
     \/ Fails /\ pc' = [pc EXCEPT ![c] = "idle"] /\ UNCHANGED <<logs, lapse>>
  /\ alone' = FALSE
  /\ UNCHANGED <<row, wheel, dirty, op, outcome, repair, restarts, repairs>>

SetStatus(r, enabled, paused) ==
  IF r.state = "live" THEN [r EXCEPT !.enabled = enabled, !.paused = paused] ELSE r

(* dbOp; Save writes the row even if it is deleted.                        *)
Written(o, r) ==
  CASE o.kind = "create" -> [state |-> "live", enabled |-> o.enabled, paused |-> FALSE, level |-> o.level]
    [] o.kind = "delete" -> IF r.state = "live" THEN [r EXCEPT !.state = "deleted"] ELSE r
    [] o.kind = "enable" -> SetStatus(r, TRUE, o.seen.paused)
    [] o.kind = "disable" -> SetStatus(r, FALSE, o.seen.paused)
    [] o.kind = "pause" -> SetStatus(r, o.seen.enabled, TRUE)
    [] o.kind = "resume" -> SetStatus(r, o.seen.enabled, FALSE)
    [] OTHER -> [o.seen EXCEPT !.level = o.level]

(* Mutant: the row stays as it was written.                                *)
RolledBackNot(o, r) == r
(* rollbackDB                                                              *)
RolledBack(o, r) ==
  CASE o.kind = "create" -> IF r.state = "live" THEN [r EXCEPT !.state = "deleted"] ELSE r
    [] o.kind = "delete" -> IF r.state = "deleted" THEN [r EXCEPT !.state = "live"] ELSE r
    [] o.kind = "enable" -> SetStatus(r, FALSE, o.seen.paused)
    [] o.kind = "disable" -> SetStatus(r, TRUE, o.seen.paused)
    [] o.kind = "pause" -> SetStatus(r, o.seen.enabled, FALSE)
    [] o.kind = "resume" -> SetStatus(r, o.seen.enabled, TRUE)
    [] OTHER -> o.seen

(* The key of a deleted row cannot be created again.                       *)
WriteRow(c) ==
  /\ pc[c] = "logged"
  /\ \/ /\ op[c].kind = "create" => row.state = "absent"
        /\ row' = Written(op[c], row) /\ pc' = [pc EXCEPT ![c] = "written"]
        /\ UNCHANGED <<outcome, failures>>
     \/ /\ IF op[c].kind = "create" /\ row.state # "absent" THEN UNCHANGED failures ELSE Fails
        /\ pc' = [pc EXCEPT ![c] = "ending"] /\ outcome' = [outcome EXCEPT ![c] = "failed"]
        /\ UNCHANGED row
  /\ alone' = FALSE
  /\ UNCHANGED <<wheel, dirty, op, logs, repair, restarts, lapse, repairs>>

(* What twOp asks of the wheels: "keep" is nothing.                        *)
Wanted(o, w) ==
  CASE o.kind = "create" -> IF o.enabled THEN "add" ELSE "keep"
    [] o.kind \in {"delete", "disable"} -> "remove"
    [] o.kind = "enable" -> IF o.seen.paused THEN "keep" ELSE "add"
    [] o.kind = "pause" -> "pause"
    [] o.kind = "resume" -> IF ~o.seen.enabled THEN "keep" ELSE IF Present(w) = {} THEN "add" ELSE "resume"
    [] OTHER -> IF o.seen.enabled /\ ~o.seen.paused THEN "replace" ELSE "keep"

NewLevel(o) == IF o.kind \in {"create", "update"} THEN o.level ELSE o.seen.level

TurnWheel(c, w, used, what) ==
  /\ pc' = [pc EXCEPT ![c] = "ending"] /\ outcome' = [outcome EXCEPT ![c] = "completed"]
  /\ wheel' = w /\ dirty' = used
  /\ Lapse(what) /\ UNCHANGED failures

(* Refused: what was removed before stays removed.                         *)
RefuseWheel(c, w, used) ==
  /\ pc' = [pc EXCEPT ![c] = "refused"] /\ wheel' = w /\ dirty' = used
  /\ Lapse(IF w = wheel THEN "none" ELSE "update refused")
  /\ UNCHANGED outcome

AddEntry(c, w, used) ==
  LET l == NewLevel(op[c])
  IN \/ /\ w[l] = "none"
        /\ \/ TurnWheel(c, Added(w, l, FALSE), used, "none")
           \/ l \in used /\ TurnWheel(c, Added(w, l, TRUE), used, "paused node")
           \/ Fails /\ RefuseWheel(c, w, used)
     \/ w[l] # "none" /\ RefuseWheel(c, w, used) /\ UNCHANGED failures

(* twOp; a change of a paused task does not reach its entry.               *)
ChangeWheel(c) ==
  LET o == op[c]
      want == Wanted(o, wheel)
      found == Present(wheel) # {}
      first == Min(Present(wheel))
  IN /\ pc[c] = "written"
     /\ \/ /\ want = "keep"
           /\ TurnWheel(c, wheel, dirty, IF o.kind = "update" /\ found THEN "paused update" ELSE "none")
        \/ want = "add" /\ AddEntry(c, wheel, dirty)
        \/ /\ want = "replace"
           /\ IF found THEN AddEntry(c, Removed(wheel), Dirtied(wheel)) ELSE AddEntry(c, wheel, dirty)
        \/ want = "remove" /\ found /\ TurnWheel(c, Removed(wheel), Dirtied(wheel), "none")
        \/ want = "pause" /\ found /\ TurnWheel(c, [wheel EXCEPT ![first] = "paused"], dirty, "none")
        \/ want = "resume" /\ TurnWheel(c, [wheel EXCEPT ![first] = "on"], dirty, "none")
        \/ want \in {"remove", "pause"} /\ ~found /\ RefuseWheel(c, wheel, dirty) /\ UNCHANGED failures
     /\ alone' = FALSE
     /\ UNCHANGED <<row, op, logs, repair, restarts, repairs>>

RollBack(c) ==
  /\ pc[c] = "refused"
  /\ pc' = [pc EXCEPT ![c] = "ending"]
  /\ \/ /\ row' = RolledBack(op[c], row) /\ outcome' = [outcome EXCEPT ![c] = "failed"]
        /\ UNCHANGED failures
     \/ /\ Fails /\ outcome' = [outcome EXCEPT ![c] = "rollback_failed"] /\ UNCHANGED row
  /\ alone' = FALSE
  /\ UNCHANGED <<wheel, dirty, op, logs, repair, restarts, lapse, repairs>>

(* The status of the log, whose failure is ignored, and the lock.          *)
EndOp(c) ==
  /\ pc[c] = "ending"
  /\ pc' = [pc EXCEPT ![c] = "idle"] /\ op' = [op EXCEPT ![c] = NoOp]
  /\ outcome' = [outcome EXCEPT ![c] = "pending"]
  /\ \/ logs' = [logs EXCEPT ![Len(logs)] = outcome[c]] /\ UNCHANGED <<failures, lapse>>
     \/ Fails /\ UNCHANGED logs /\ Lapse(IF outcome[c] = "rollback_failed" THEN "log lost" ELSE "none")
  /\ alone' = FALSE
  /\ UNCHANGED <<row, wheel, dirty, repair, restarts, repairs>>
-----------------------------------------------------------------------------
(* A wheel removes a task that has run as often as it should.              *)
TaskEnds(l) ==
  /\ wheel[l] = "on" /\ wheel' = [wheel EXCEPT ![l] = "none"]
  /\ Lapse("ended") /\ alone' = FALSE
  /\ UNCHANGED <<row, dirty, pc, op, outcome, logs, repair, failures, restarts, repairs>>

(* A crash, at any step, and restoreTasks at the next start.               *)
Restart ==
  /\ restarts < MaxRestarts /\ restarts' = restarts + 1
  /\ pc' = [c \in Caller |-> "idle"] /\ op' = [c \in Caller |-> NoOp]
  /\ outcome' = [c \in Caller |-> "pending"]
  /\ repair' = NoRepair /\ dirty' = {} /\ alone' = FALSE
  /\ \/ wheel' = (IF Due(row) THEN Added(Empty, row.level, FALSE) ELSE Empty)
        /\ lapse' = "none" /\ UNCHANGED failures
     \/ Due(row) /\ Fails /\ wheel' = Empty /\ lapse' = "restore refused"
  /\ UNCHANGED <<row, logs, repairs>>
-----------------------------------------------------------------------------
(* RepairInconsistentState: the rows, the wheels, what is missing, what is *)
(* too much.                                                               *)
RepairStep(from, to) == repair.at = from /\ repair' = [repair EXCEPT !.at = to]
AfterRepair == Lapse(IF ~alone' THEN "repaired meanwhile" ELSE IF repair.past THEN "past the page" ELSE "none")

(* One page of the enabled rows is read, the 10000 last created.  To the   *)
(* repair a task past it has no row.                                       *)
PageOf(r, past) == IF past THEN NoOp.seen ELSE r

RepairList ==
  /\ repair.at \in {"idle", "done"} /\ repairs < MaxRepairs /\ repairs' = repairs + 1
  /\ \E past \in BOOLEAN :
       /\ past => Listed(row)
       /\ repair' = [repair EXCEPT !.at = "listed", !.row = PageOf(row, past), !.past = past]
  /\ alone' = (Holder = {})
  /\ UNCHANGED <<row, wheel, dirty, pc, op, outcome, logs, failures, restarts, lapse>>

RepairWheels ==
  /\ repair.at = "listed" /\ repair' = [repair EXCEPT !.at = "known", !.wheel = wheel]
  /\ UNCHANGED <<row, wheel, dirty, pc, op, outcome, logs, failures, restarts, lapse, alone, repairs>>

(* A task it cannot add is passed over, as one that has come up meanwhile. *)
RepairAdd ==
  /\ RepairStep("known", "added")
  /\ LET r == repair.row
         need == Due(r) /\ Present(repair.wheel) = {}
     IN \/ /\ need /\ wheel[r.level] = "none"
           /\ \/ wheel' = Added(wheel, r.level, FALSE) /\ UNCHANGED <<failures, alone>> /\ AfterRepair
              \/ /\ r.level \in dirty /\ wheel' = Added(wheel, r.level, TRUE) /\ UNCHANGED <<failures, alone>>
                 /\ Lapse("paused node")
              \/ Fails /\ alone' = FALSE /\ UNCHANGED <<wheel, lapse>>
        \/ /\ need => wheel[r.level] # "none"
           /\ UNCHANGED <<wheel, failures, lapse, alone>>
  /\ UNCHANGED <<row, dirty, pc, op, outcome, logs, restarts, repairs>>

(* Mutant: the entry of a disabled task stays.                             *)
SurplusOfDeleted(r, w) == r.state # "live" /\ Present(w) # {}
Surplus(r, w) == ~Listed(r) /\ Present(w) # {}

(* Each listed entry is removed by the ID of its task.                     *)
RepairRemove ==
  /\ repair.at = "added" /\ UNCHANGED alone
  /\ IF Surplus(repair.row, repair.wheel)
     THEN /\ repair' = [repair EXCEPT !.wheel[Min(Present(repair.wheel))] = "none"]
          /\ IF Present(wheel) # {} THEN wheel' = Removed(wheel) /\ dirty' = Dirtied(wheel)
                                    ELSE UNCHANGED <<wheel, dirty>>
          /\ AfterRepair
     ELSE repair' = [NoRepair EXCEPT !.at = "done", !.past = repair.past] /\ UNCHANGED <<wheel, dirty, lapse>>
  /\ UNCHANGED <<row, pc, op, outcome, logs, failures, restarts, repairs>>

Repair == RepairList \/ RepairWheels \/ RepairAdd \/ RepairRemove

Next ==
  \/ \E c \in Caller :
       \/ \E kind \in Kind, level \in Level, enabled \in BOOLEAN :
            /\ kind \notin {"create", "update"} => level = 1
            /\ kind # "create" => ~enabled
            /\ Read(c, kind, level, enabled)
       \/ LogOp(c) \/ WriteRow(c) \/ ChangeWheel(c) \/ RollBack(c) \/ EndOp(c)
  \/ \E l \in Level : TaskEnds(l)
  \/ Restart \/ Repair

Spec == Init /\ [][Next]_vars
-----------------------------------------------------------------------------
(* What the wheels have of a task with this row.                           *)
Agree(r, w) ==
  IF Due(r) THEN w = Added(Empty, r.level, FALSE)
  ELSE IF Listed(r) THEN w \in {Empty, Added(Empty, r.level, TRUE)}
  ELSE w = Empty

(* When no operation is under way, a task that is enabled and not paused   *)
(* is in the wheel of its priority, a paused one there or nowhere, another *)
(* one nowhere, or a log asks for a repair: whichever side failed, and     *)
(* after a crash at any step.  What breaks this without a trace: a row     *)
(* that changed between its reading and the lock, an update that is        *)
(* refused when the old entry is removed, or does not reach a paused       *)
(* entry, a free node that was left paused, a repair at the same time, a   *)
(* repair that has more tasks to read than its page holds, a log that is   *)
(* not written, a task not restored, or one that ended itself.             *)
RowAndWheelAgree ==
  Holder = {} /\ ~Agree(row, wheel) =>
    lapse # "none" \/ \E k \in DOMAIN logs : logs[k] = "rollback_failed"

(* A repair that nothing happens beside leaves the task in some wheel if   *)
(* it should run and its row is on the page that was read, and in none if  *)
(* its row is not enabled, not there or past that page, even if it was in  *)
(* several; whatever led to that.                                          *)
RepairMends ==
  repair.at = "done" /\ alone =>
    /\ Due(row) /\ ~repair.past => Present(wheel) # {}
    /\ ~Listed(row) \/ repair.past => wheel = Empty
=============================================================================
