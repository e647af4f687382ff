-------------------------- MODULE TaskServiceProofs --------------------------
(***************************************************************************)
(* Theorems about TaskService, for every number of requests, priorities,   *)
(* failures, crashes and repairs.                                          *)
(***************************************************************************)
EXTENDS TaskService, TLAPS, SequenceTheorems

Row == [state : {"absent", "live", "deleted"}, enabled : BOOLEAN, paused : BOOLEAN, level : Level]
Wheels == [Level -> {"none", "on", "paused"}]
Op == [kind : Kind, seen : Row, level : Level, enabled : BOOLEAN]
Status == {"pending", "completed", "failed", "rollback_failed"}
Lapses == {"none", "stale read", "paused update", "update refused", "paused node", "log lost", "ended",
           "restore refused", "repaired meanwhile", "past the page"}
Repairs == [at : {"idle", "listed", "known", "added", "done"}, row : Row, past : BOOLEAN, wheel : Wheels]

Typed ==
  /\ row \in Row /\ wheel \in Wheels
  /\ pc \in [Caller -> {"idle", "read", "logged", "written", "refused", "ending"}]
  /\ op \in [Caller -> Op] /\ outcome \in [Caller -> Status]
  /\ logs \in Seq(Status) /\ lapse \in Lapses /\ alone \in BOOLEAN
  /\ repair \in Repairs

(* One caller at a time holds the lock, and the last log is its own.       *)
Locked ==
  /\ \A c, d \in Holder : c = d
  /\ Holder # {} => logs # <<>> /\ logs[Len(logs)] = "pending"
  /\ \A c \in Caller : pc[c] # "idle" => Applies(op[c].kind, op[c].seen)

(* Nothing happened that may have row and wheels disagree.                 *)
Steady == lapse = "none" /\ \A k \in DOMAIN logs : logs[k] # "rollback_failed"

(* How far row and wheels agree at each step of an operation.              *)
Underway(c) ==
  /\ pc[c] = "logged" => Agree(row, wheel) /\ row = op[c].seen
  /\ pc[c] \in {"written", "refused"} =>
       /\ Agree(op[c].seen, wheel) /\ row = Written(op[c], op[c].seen)
       /\ op[c].kind = "create" => op[c].seen.state = "absent"
  /\ pc[c] = "ending" => outcome[c] = "rollback_failed" \/ Agree(row, wheel)

Consistent ==
  Steady => (Holder = {} => Agree(row, wheel)) /\ \A c \in Caller : Underway(c)

(* What an undisturbed repair knows is so still.                           *)
Undisturbed ==
  alone =>
    /\ Holder = {}
    /\ repair.at \in {"listed", "known", "added"} => repair.row = PageOf(row, repair.past)
    /\ repair.at = "known" => repair.wheel = wheel
    /\ repair.at = "added" => /\ ~Listed(repair.row) => repair.wheel = wheel
                              /\ Due(row) /\ ~repair.past => Present(wheel) # {}
    /\ RepairMends

Inv == Typed /\ Locked /\ Consistent /\ Undisturbed
-----------------------------------------------------------------------------
LEMMA EmptyTyped == Empty \in Wheels /\ 1 \in Level /\ NoOp.seen \in Row /\ NoOp \in Op
BY TaskServiceAssumption DEF Empty, Wheels, NoOp, Row, Op, Level, Kind

(* A wheel without an entry is the empty one.                              *)
LEMMA NoEntry ==
  ASSUME NEW w \in Wheels, Present(w) = {}
  PROVE  w = Empty
BY DEF Wheels, Present, Empty

LEMMA AddedTyped ==
  ASSUME NEW w \in Wheels, NEW l, NEW marked
  PROVE  Added(w, l, marked) \in Wheels
BY DEF Added, Wheels

LEMMA RemovedTyped ==
  ASSUME NEW w \in Wheels
  PROVE  Removed(w) \in Wheels
BY DEF Removed, Wheels

(* A row by its fields: the provers follow them better than EXCEPT.        *)
Fields(state, enabled, paused, level) ==
  [state |-> state, enabled |-> enabled, paused |-> paused, level |-> level]

LEMMA RowFields ==
  ASSUME NEW r \in Row
  PROVE  /\ r.state \in {"absent", "live", "deleted"} /\ r.enabled \in BOOLEAN /\ r.paused \in BOOLEAN
         /\ r.level \in Level
         /\ r = Fields(r.state, r.enabled, r.paused, r.level)
BY DEF Row, Fields

LEMMA RowChanged ==
  ASSUME NEW r \in Row, NEW state, NEW enabled, NEW paused, NEW level
  PROVE  /\ [r EXCEPT !.state = state] = Fields(state, r.enabled, r.paused, r.level)
         /\ [r EXCEPT !.level = level] = Fields(r.state, r.enabled, r.paused, level)
         /\ SetStatus(r, enabled, paused) = IF r.state = "live" THEN Fields("live", enabled, paused, r.level) ELSE r
<1>1. [r EXCEPT !.state = state] = Fields(state, r.enabled, r.paused, r.level)
  BY DEF Row, Fields
<1>2. [r EXCEPT !.level = level] = Fields(r.state, r.enabled, r.paused, level)
  BY DEF Row, Fields
<1>3. [r EXCEPT !.enabled = enabled] = Fields(r.state, enabled, r.paused, r.level)
  BY DEF Row, Fields
<1>4. [Fields(r.state, enabled, r.paused, r.level) EXCEPT !.paused = paused] = Fields(r.state, enabled, paused, r.level)
  BY DEF Fields
<1>5. [r EXCEPT !.enabled = enabled, !.paused = paused] = Fields(r.state, enabled, paused, r.level)
  <2>1. [r EXCEPT !.enabled = enabled, !.paused = paused] = [[r EXCEPT !.enabled = enabled] EXCEPT !.paused = paused]
    BY Zenon
  <2> QED BY <1>3, <1>4, <2>1, Zenon
<1>6. SetStatus(r, enabled, paused) = IF r.state = "live" THEN Fields("live", enabled, paused, r.level) ELSE r
  BY <1>5, Zenon DEF SetStatus
<1> QED BY <1>1, <1>2, <1>6

(* What dbOp and rollbackDB make of the row, operation by operation.       *)
LEMMA WrittenIs ==
  ASSUME NEW o \in Op, NEW r \in Row
  PROVE  /\ o.kind = "create" => Written(o, r) = Fields("live", o.enabled, FALSE, o.level)
         /\ o.kind = "delete" =>
              Written(o, r) = IF r.state = "live" THEN Fields("deleted", r.enabled, r.paused, r.level) ELSE r
         /\ o.kind = "enable" =>
              Written(o, r) = IF r.state = "live" THEN Fields("live", TRUE, o.seen.paused, r.level) ELSE r
         /\ o.kind = "disable" =>
              Written(o, r) = IF r.state = "live" THEN Fields("live", FALSE, o.seen.paused, r.level) ELSE r
         /\ o.kind = "pause" =>
              Written(o, r) = IF r.state = "live" THEN Fields("live", o.seen.enabled, TRUE, r.level) ELSE r
         /\ o.kind = "resume" =>
              Written(o, r) = IF r.state = "live" THEN Fields("live", o.seen.enabled, FALSE, r.level) ELSE r
         /\ o.kind = "update" => Written(o, r) = Fields(o.seen.state, o.seen.enabled, o.seen.paused, o.level)
<1>1. o.kind = "create" => Written(o, r) = Fields("live", o.enabled, FALSE, o.level)
  BY Zenon DEF Written, Fields
<1>2. o.kind = "delete" => Written(o, r) = IF r.state = "live" THEN [r EXCEPT !.state = "deleted"] ELSE r
  BY Zenon DEF Written
<1>3. /\ o.kind = "enable" => Written(o, r) = SetStatus(r, TRUE, o.seen.paused)
      /\ o.kind = "disable" => Written(o, r) = SetStatus(r, FALSE, o.seen.paused)
      /\ o.kind = "pause" => Written(o, r) = SetStatus(r, o.seen.enabled, TRUE)
      /\ o.kind = "resume" => Written(o, r) = SetStatus(r, o.seen.enabled, FALSE)
  BY Zenon DEF Written
<1>4. o.kind = "update" => Written(o, r) = [o.seen EXCEPT !.level = o.level]
  BY Zenon DEF Written
<1>5. o.seen \in Row
  BY DEF Op
<1>6. o.kind = "delete" =>
        Written(o, r) = IF r.state = "live" THEN Fields("deleted", r.enabled, r.paused, r.level) ELSE r
  BY <1>2, RowChanged, Zenon
<1>7. o.kind = "update" => Written(o, r) = Fields(o.seen.state, o.seen.enabled, o.seen.paused, o.level)
  BY <1>4, <1>5, RowChanged, Zenon
<1>8. \A e, q : SetStatus(r, e, q) = IF r.state = "live" THEN Fields("live", e, q, r.level) ELSE r
  BY RowChanged, Zenon
<1> QED BY <1>1, <1>3, <1>6, <1>7, <1>8

LEMMA RolledBackIs ==
  ASSUME NEW o \in Op, NEW r \in Row
  PROVE  /\ o.kind = "create" =>
              RolledBack(o, r) = IF r.state = "live" THEN Fields("deleted", r.enabled, r.paused, r.level) ELSE r
         /\ o.kind = "delete" =>
              RolledBack(o, r) = IF r.state = "deleted" THEN Fields("live", r.enabled, r.paused, r.level) ELSE r
         /\ o.kind = "enable" =>
              RolledBack(o, r) = IF r.state = "live" THEN Fields("live", FALSE, o.seen.paused, r.level) ELSE r
         /\ o.kind = "disable" =>
              RolledBack(o, r) = IF r.state = "live" THEN Fields("live", TRUE, o.seen.paused, r.level) ELSE r
         /\ o.kind = "pause" =>
              RolledBack(o, r) = IF r.state = "live" THEN Fields("live", o.seen.enabled, FALSE, r.level) ELSE r
         /\ o.kind = "resume" =>
              RolledBack(o, r) = IF r.state = "live" THEN Fields("live", o.seen.enabled, TRUE, r.level) ELSE r
         /\ o.kind = "update" => RolledBack(o, r) = o.seen
<1>1. /\ o.kind = "create" => RolledBack(o, r) = IF r.state = "live" THEN [r EXCEPT !.state = "deleted"] ELSE r
      /\ o.kind = "delete" => RolledBack(o, r) = IF r.state = "deleted" THEN [r EXCEPT !.state = "live"] ELSE r
  BY Zenon DEF RolledBack
<1>2. /\ o.kind = "enable" => RolledBack(o, r) = SetStatus(r, FALSE, o.seen.paused)
      /\ o.kind = "disable" => RolledBack(o, r) = SetStatus(r, TRUE, o.seen.paused)
      /\ o.kind = "pause" => RolledBack(o, r) = SetStatus(r, o.seen.enabled, FALSE)
      /\ o.kind = "resume" => RolledBack(o, r) = SetStatus(r, o.seen.enabled, TRUE)
  BY Zenon DEF RolledBack
<1>3. o.kind = "update" => RolledBack(o, r) = o.seen
  BY Zenon DEF RolledBack
<1>4. \A s : [r EXCEPT !.state = s] = Fields(s, r.enabled, r.paused, r.level)
  BY RowChanged, Zenon
<1>5. /\ o.kind = "create" =>
           RolledBack(o, r) = IF r.state = "live" THEN Fields("deleted", r.enabled, r.paused, r.level) ELSE r
      /\ o.kind = "delete" =>
           RolledBack(o, r) = IF r.state = "deleted" THEN Fields("live", r.enabled, r.paused, r.level) ELSE r
  BY <1>1, <1>4, Zenon
<1>6. \A e, q : SetStatus(r, e, q) = IF r.state = "live" THEN Fields("live", e, q, r.level) ELSE r
  BY RowChanged, Zenon
<1> QED BY <1>2, <1>3, <1>5, <1>6

LEMMA WantedIs ==
  ASSUME NEW o, NEW w
  PROVE  /\ o.kind = "create" => Wanted(o, w) = IF o.enabled THEN "add" ELSE "keep"
         /\ o.kind \in {"delete", "disable"} => Wanted(o, w) = "remove"
         /\ o.kind = "enable" => Wanted(o, w) = IF o.seen.paused THEN "keep" ELSE "add"
         /\ o.kind = "pause" => Wanted(o, w) = "pause"
         /\ o.kind = "resume" =>
              Wanted(o, w) = IF ~o.seen.enabled THEN "keep" ELSE IF Present(w) = {} THEN "add" ELSE "resume"
         /\ o.kind = "update" => Wanted(o, w) = IF o.seen.enabled /\ ~o.seen.paused THEN "replace" ELSE "keep"
<1>1. o.kind \in {"delete", "disable"} => Wanted(o, w) = "remove"
  BY Zenon DEF Wanted
<1>2. /\ o.kind = "create" => Wanted(o, w) = IF o.enabled THEN "add" ELSE "keep"
      /\ o.kind = "enable" => Wanted(o, w) = IF o.seen.paused THEN "keep" ELSE "add"
      /\ o.kind = "pause" => Wanted(o, w) = "pause"
  BY Zenon DEF Wanted
<1>3. o.kind = "resume" =>
        Wanted(o, w) = IF ~o.seen.enabled THEN "keep" ELSE IF Present(w) = {} THEN "add" ELSE "resume"
  BY Zenon DEF Wanted
<1>4. o.kind = "update" => Wanted(o, w) = IF o.seen.enabled /\ ~o.seen.paused THEN "replace" ELSE "keep"
  BY Zenon DEF Wanted
<1> QED BY <1>1, <1>2, <1>3, <1>4

LEMMA WrittenTyped ==
  ASSUME NEW o \in Op, NEW r \in Row
  PROVE  Written(o, r) \in Row
<1>1. o.kind \in Kind /\ o.seen \in Row /\ o.level \in Level /\ o.enabled \in BOOLEAN
  BY DEF Op
<1>2. CASE o.kind = "create"
  <2>1. Written(o, r) = Fields("live", o.enabled, FALSE, o.level)
    BY <1>2, WrittenIs, Zenon
  <2> QED BY <1>1, <2>1 DEF Row, Fields
<1>3. CASE o.kind = "delete"
  <2>1. Written(o, r) = IF r.state = "live" THEN Fields("deleted", r.enabled, r.paused, r.level) ELSE r
    BY <1>3, WrittenIs, Zenon
  <2> QED BY <1>1, <2>1 DEF Row, Fields
<1>4. CASE o.kind = "enable"
  <2>1. Written(o, r) = IF r.state = "live" THEN Fields("live", TRUE, o.seen.paused, r.level) ELSE r
    BY <1>4, WrittenIs, Zenon
  <2> QED BY <1>1, <2>1 DEF Row, Fields
<1>5. CASE o.kind = "disable"
  <2>1. Written(o, r) = IF r.state = "live" THEN Fields("live", FALSE, o.seen.paused, r.level) ELSE r
    BY <1>5, WrittenIs, Zenon
  <2> QED BY <1>1, <2>1 DEF Row, Fields
<1>6. CASE o.kind = "pause"
  <2>1. Written(o, r) = IF r.state = "live" THEN Fields("live", o.seen.enabled, TRUE, r.level) ELSE r
    BY <1>6, WrittenIs, Zenon
  <2> QED BY <1>1, <2>1 DEF Row, Fields
<1>7. CASE o.kind = "resume"
  <2>1. Written(o, r) = IF r.state = "live" THEN Fields("live", o.seen.enabled, FALSE, r.level) ELSE r
    BY <1>7, WrittenIs, Zenon
  <2> QED BY <1>1, <2>1 DEF Row, Fields
<1>8. CASE o.kind = "update"
  <2>1. Written(o, r) = Fields(o.seen.state, o.seen.enabled, o.seen.paused, o.level)
    BY <1>8, WrittenIs, Zenon
  <2> QED BY <1>1, <2>1 DEF Row, Fields
<1> QED BY <1>1, <1>2, <1>3, <1>4, <1>5, <1>6, <1>7, <1>8 DEF Kind

LEMMA RolledBackTyped ==
  ASSUME NEW o \in Op, NEW r \in Row
  PROVE  RolledBack(o, r) \in Row
<1>1. o.kind \in Kind /\ o.seen \in Row
  BY DEF Op
<1>2. CASE o.kind = "create"
  <2>1. RolledBack(o, r) = IF r.state = "live" THEN Fields("deleted", r.enabled, r.paused, r.level) ELSE r
    BY <1>2, RolledBackIs, Zenon
  <2> QED BY <1>1, <2>1 DEF Row, Fields
<1>3. CASE o.kind = "delete"
  <2>1. RolledBack(o, r) = IF r.state = "deleted" THEN Fields("live", r.enabled, r.paused, r.level) ELSE r
    BY <1>3, RolledBackIs, Zenon
  <2> QED BY <1>1, <2>1 DEF Row, Fields
<1>4. CASE o.kind = "enable"
  <2>1. RolledBack(o, r) = IF r.state = "live" THEN Fields("live", FALSE, o.seen.paused, r.level) ELSE r
    BY <1>4, RolledBackIs, Zenon
  <2> QED BY <1>1, <2>1 DEF Row, Fields
<1>5. CASE o.kind = "disable"
  <2>1. RolledBack(o, r) = IF r.state = "live" THEN Fields("live", TRUE, o.seen.paused, r.level) ELSE r
    BY <1>5, RolledBackIs, Zenon
  <2> QED BY <1>1, <2>1 DEF Row, Fields
<1>6. CASE o.kind = "pause"
  <2>1. RolledBack(o, r) = IF r.state = "live" THEN Fields("live", o.seen.enabled, FALSE, r.level) ELSE r
    BY <1>6, RolledBackIs, Zenon
  <2> QED BY <1>1, <2>1 DEF Row, Fields
<1>7. CASE o.kind = "resume"
  <2>1. RolledBack(o, r) = IF r.state = "live" THEN Fields("live", o.seen.enabled, TRUE, r.level) ELSE r
    BY <1>7, RolledBackIs, Zenon
  <2> QED BY <1>1, <2>1 DEF Row, Fields
<1>8. CASE o.kind = "update"
  BY <1>1, <1>8, RolledBackIs, Zenon
<1> QED BY <1>1, <1>2, <1>3, <1>4, <1>5, <1>6, <1>7, <1>8 DEF Kind

(* The first entry of a wheel with one entry is that entry.                *)
LEMMA OnlyEntry ==
  ASSUME NEW l \in Level, NEW marked \in BOOLEAN
  PROVE  /\ Present(Added(Empty, l, marked)) = {l}
         /\ Min(Present(Added(Empty, l, marked))) = l
         /\ Removed(Added(Empty, l, marked)) = Empty
<1>1. Present(Added(Empty, l, marked)) = {l}
  BY DEF Present, Added, Empty
<1>2. Min({l}) = l
  BY DEF Min, Level
<1>3. Removed(Added(Empty, l, marked)) = Empty
  BY <1>1, <1>2 DEF Removed, Added, Empty
<1> QED BY <1>1, <1>2, <1>3

(* The rollback of an operation undoes its write, but for a create: what   *)
(* was not there is deleted, which the wheels cannot tell apart.           *)
LEMMA WriteUndone ==
  ASSUME NEW o \in Op, Applies(o.kind, o.seen), o.kind = "create" => o.seen.state = "absent"
  PROVE  IF o.kind = "create"
         THEN RolledBack(o, Written(o, o.seen)).state = "deleted"
         ELSE RolledBack(o, Written(o, o.seen)) = o.seen
<1> DEFINE r == o.seen
           v == Written(o, o.seen)
<1>1. o.kind \in Kind /\ r \in Row /\ v \in Row /\ o.level \in Level /\ o.enabled \in BOOLEAN
  BY WrittenTyped DEF Op
<1>2. /\ r.enabled \in BOOLEAN /\ r.paused \in BOOLEAN /\ r.level \in Level
      /\ r = Fields(r.state, r.enabled, r.paused, r.level)
  BY <1>1, RowFields
<1>3. CASE o.kind = "create"
  <2>1. v.state = "live"
    <3>1. v = Fields("live", o.enabled, FALSE, o.level)
      BY <1>1, <1>3, WrittenIs, Zenon
    <3> QED BY <3>1 DEF Fields
  <2>2. RolledBack(o, v) = Fields("deleted", v.enabled, v.paused, v.level)
    BY <1>1, <1>3, <2>1, RolledBackIs, Zenon
  <2> QED BY <1>3, <2>2 DEF Fields
<1>4. CASE o.kind = "delete"
  <2>1. r.state = "live"
    BY <1>1, <1>4 DEF Applies, Row
  <2>2. v = Fields("deleted", r.enabled, r.paused, r.level)
    BY <1>1, <1>4, <2>1, WrittenIs, Zenon
  <2>3. v.state = "deleted" /\ v.level = r.level /\ v.enabled = r.enabled /\ v.paused = r.paused
    BY <2>2 DEF Fields
  <2>4. RolledBack(o, v) = Fields("live", v.enabled, v.paused, v.level)
    BY <1>1, <1>4, <2>3, RolledBackIs, Zenon
  <2> QED BY <1>2, <1>4, <2>1, <2>3, <2>4
<1>5. CASE o.kind = "enable"
  <2>1. r.state = "live" /\ r.enabled = FALSE
    BY <1>1, <1>5 DEF Applies, Row
  <2>2. v = Fields("live", TRUE, r.paused, r.level)
    BY <1>1, <1>5, <2>1, WrittenIs, Zenon
  <2>3. v.state = "live" /\ v.level = r.level /\ v.enabled = TRUE /\ v.paused = r.paused
    BY <2>2 DEF Fields
  <2>4. RolledBack(o, v) = Fields("live", FALSE, r.paused, v.level)
    BY <1>1, <1>5, <2>3, RolledBackIs, Zenon
  <2> QED BY <1>2, <1>5, <2>1, <2>3, <2>4
<1>6. CASE o.kind = "disable"
  <2>1. r.state = "live" /\ r.enabled = TRUE
    BY <1>1, <1>6 DEF Applies, Row
  <2>2. v = Fields("live", FALSE, r.paused, r.level)
    BY <1>1, <1>6, <2>1, WrittenIs, Zenon
  <2>3. v.state = "live" /\ v.level = r.level /\ v.enabled = FALSE /\ v.paused = r.paused
    BY <2>2 DEF Fields
  <2>4. RolledBack(o, v) = Fields("live", TRUE, r.paused, v.level)
    BY <1>1, <1>6, <2>3, RolledBackIs, Zenon
  <2> QED BY <1>2, <1>6, <2>1, <2>3, <2>4
<1>7. CASE o.kind = "pause"
  <2>1. r.state = "live" /\ r.paused = FALSE
    BY <1>1, <1>7 DEF Applies, Row
  <2>2. v = Fields("live", r.enabled, TRUE, r.level)
    BY <1>1, <1>7, <2>1, WrittenIs, Zenon
  <2>3. v.state = "live" /\ v.level = r.level /\ v.enabled = r.enabled /\ v.paused = TRUE
    BY <2>2 DEF Fields
  <2>4. RolledBack(o, v) = Fields("live", r.enabled, FALSE, v.level)
    BY <1>1, <1>7, <2>3, RolledBackIs, Zenon
  <2> QED BY <1>2, <1>7, <2>1, <2>3, <2>4
<1>8. CASE o.kind = "resume"
  <2>1. r.state = "live" /\ r.paused = TRUE
    BY <1>1, <1>8 DEF Applies, Row
  <2>2. v = Fields("live", r.enabled, FALSE, r.level)
    BY <1>1, <1>8, <2>1, WrittenIs, Zenon
  <2>3. v.state = "live" /\ v.level = r.level /\ v.enabled = r.enabled /\ v.paused = FALSE
    BY <2>2 DEF Fields
  <2>4. RolledBack(o, v) = Fields("live", r.enabled, TRUE, v.level)
    BY <1>1, <1>8, <2>3, RolledBackIs, Zenon
  <2> QED BY <1>2, <1>8, <2>1, <2>3, <2>4
<1>9. CASE o.kind = "update"
  BY <1>1, <1>9, RolledBackIs, Zenon
<1> QED BY <1>1, <1>3, <1>4, <1>5, <1>6, <1>7, <1>8, <1>9 DEF Kind

LEMMA UndoneAgrees ==
  ASSUME NEW o \in Op, Applies(o.kind, o.seen), o.kind = "create" => o.seen.state = "absent",
         NEW w \in Wheels, Agree(o.seen, w)
  PROVE  Agree(RolledBack(o, Written(o, o.seen)), w)
<1>1. CASE o.kind = "create"
  <2>1. w = Empty
    BY <1>1 DEF Agree, Due, Listed
  <2>2. RolledBack(o, Written(o, o.seen)).state = "deleted"
    BY <1>1, WriteUndone
  <2> QED BY <2>1, <2>2 DEF Agree, Due, Listed
<1>2. CASE o.kind # "create"
  BY <1>2, WriteUndone
<1> QED BY <1>1, <1>2

(* What the wheels have of a task by its row, in the three cases.          *)
LEMMA AgreeIs ==
  ASSUME NEW r \in Row, NEW w
  PROVE  /\ r.state = "live" /\ r.enabled /\ ~r.paused => (Agree(r, w) <=> w = Added(Empty, r.level, FALSE))
         /\ r.state = "live" /\ r.enabled /\ r.paused =>
              (Agree(r, w) <=> w = Empty \/ w = Added(Empty, r.level, TRUE))
         /\ r.state # "live" \/ ~r.enabled => (Agree(r, w) <=> w = Empty)
BY DEF Agree, Due, Listed
-----------------------------------------------------------------------------
LEMMA InitInv == Init => Inv
<1> SUFFICES ASSUME Init PROVE Inv
  OBVIOUS
<1>1. Typed
  <2>1. row \in Row
    <3>1. [state : {"live", "deleted"}, enabled : BOOLEAN, paused : BOOLEAN, level : Level] \subseteq Row
      BY DEF Row
    <3> QED BY <3>1, EmptyTyped DEF Init
  <2>2. wheel \in Wheels
    BY EmptyTyped, AddedTyped DEF Init
  <2>3. repair \in Repairs
    BY EmptyTyped DEF Init, NoRepair, Repairs
  <2>4. op \in [Caller -> Op] /\ outcome \in [Caller -> Status] /\ logs \in Seq(Status)
    BY EmptyTyped DEF Init, Status
  <2>5. /\ pc \in [Caller -> {"idle", "read", "logged", "written", "refused", "ending"}]
        /\ lapse \in Lapses /\ alone \in BOOLEAN
    BY DEF Init, Lapses
  <2> QED BY <2>1, <2>2, <2>3, <2>4, <2>5 DEF Typed
<1>2. Holder = {} /\ \A c \in Caller : pc[c] = "idle"
  BY DEF Init, Holder
<1>3. Locked
  BY <1>2 DEF Locked
<1>4. Agree(row, wheel)
  BY DEF Init, Agree, Due, Listed
<1>5. Consistent
  BY <1>2, <1>4 DEF Consistent, Underway
<1>6. Undisturbed
  BY DEF Init, Undisturbed
<1> QED BY <1>1, <1>3, <1>5, <1>6 DEF Inv
-----------------------------------------------------------------------------
(* The caller that holds the lock is alone with it.                        *)
LEMMA OneHolder ==
  ASSUME Typed, Locked, NEW c \in Caller, pc[c] \in {"logged", "written", "refused", "ending"}
  PROVE  /\ Holder = {c} /\ logs # <<>> /\ logs[Len(logs)] = "pending" /\ Applies(op[c].kind, op[c].seen)
         /\ \A d \in Caller : d # c => pc[d] \in {"idle", "read"}
<1>1. c \in Holder
  BY DEF Holder
<1>2. Holder = {c}
  BY <1>1 DEF Locked, Holder
<1>3. \A d \in Caller : d # c => pc[d] \in {"idle", "read"}
  BY <1>2 DEF Holder, Typed
<1>4. logs # <<>> /\ logs[Len(logs)] = "pending" /\ Applies(op[c].kind, op[c].seen)
  BY <1>1 DEF Locked
<1> QED BY <1>2, <1>3, <1>4

(* An operation that was only read leaves everything else as it is.        *)
LEMMA ReadInv ==
  ASSUME Inv, NEW c \in Caller, NEW kind \in Kind, NEW level \in Level, NEW enabled \in BOOLEAN,
         Read(c, kind, level, enabled)
  PROVE  Inv'
<1>1. Typed'
  <2>1. [kind |-> kind, seen |-> row, level |-> level, enabled |-> enabled] \in Op
    BY DEF Inv, Typed, Op
  <2> QED BY <2>1 DEF Inv, Typed, Read
<1>2. /\ \A d \in Caller : d # c => pc'[d] = pc[d] /\ op'[d] = op[d]
      /\ pc'[c] = "read" /\ pc[c] = "idle" /\ op'[c].kind = kind /\ op'[c].seen = row
      /\ UNCHANGED <<row, wheel, outcome, logs, repair, lapse, alone>> /\ Applies(kind, row)
  BY DEF Inv, Typed, Read
<1>3. Holder' = Holder
  BY <1>2 DEF Holder
<1>4. Locked'
  <2>1. \A d \in Caller : pc'[d] # "idle" => Applies(op'[d].kind, op'[d].seen)
    BY <1>2 DEF Inv, Locked
  <2> QED BY <1>2, <1>3, <2>1 DEF Inv, Locked
<1>5. ASSUME NEW d \in Caller, Underway(d) PROVE Underway(d)'
  BY <1>2, <1>5 DEF Underway
<1>6. Consistent'
  BY <1>2, <1>3, <1>5 DEF Inv, Consistent, Steady
<1>7. Undisturbed'
  BY <1>2, <1>3 DEF Inv, Undisturbed, RepairMends
<1> QED BY <1>1, <1>4, <1>6, <1>7 DEF Inv

LEMMA Appended ==
  ASSUME NEW S, NEW s \in Seq(S), NEW e \in S
  PROVE  /\ Append(s, e) \in Seq(S) /\ Append(s, e) # <<>> /\ Append(s, e)[Len(Append(s, e))] = e
         /\ \A k \in DOMAIN s : k \in DOMAIN Append(s, e) /\ Append(s, e)[k] = s[k]
OBVIOUS

LEMMA LastReplaced ==
  ASSUME NEW S, NEW s \in Seq(S), NEW e \in S
  PROVE  s # <<>> => [s EXCEPT ![Len(s)] = e] \in Seq(S)
<1> HAVE s # <<>>
<1>1. Len(s) \in 1 .. Len(s)
  OBVIOUS
<1> QED BY <1>1, ExceptSeq

LEMMA LogOpInv ==
  ASSUME Inv, NEW c \in Caller, LogOp(c)
  PROVE  Inv'
<1>1. pc[c] = "read" /\ Holder = {} /\ UNCHANGED <<row, wheel, op, outcome, repair>> /\ alone' = FALSE
  BY DEF LogOp
<1>2. Undisturbed'
  BY <1>1 DEF Undisturbed
<1>3. \A d \in Caller : pc[d] \in {"idle", "read"}
  BY <1>1 DEF Holder, Inv, Typed
<1>4. Applies(op[c].kind, op[c].seen)
  BY <1>1 DEF Inv, Locked
<1>5. CASE pc' = [pc EXCEPT ![c] = "idle"] /\ UNCHANGED <<logs, lapse>>
  <2>1. Typed'
    BY <1>1, <1>5 DEF Inv, Typed
  <2>2. \A d \in Caller : pc'[d] \in {"idle", "read"} /\ (pc'[d] # "idle" => pc[d] # "idle")
    BY <1>3, <1>5 DEF Inv, Typed
  <2>3. Holder' = {}
    BY <2>2 DEF Holder
  <2>4. Locked'
    BY <1>1, <2>2, <2>3 DEF Inv, Locked
  <2>5. Consistent'
    BY <1>1, <1>5, <2>2, <2>3 DEF Inv, Consistent, Underway, Steady
  <2> QED BY <1>2, <2>1, <2>4, <2>5 DEF Inv
<1>6. CASE /\ pc' = [pc EXCEPT ![c] = "logged"] /\ logs' = Append(logs, "pending")
           /\ Lapse(IF row = op[c].seen THEN "none" ELSE "stale read")
  <2> logs \in Seq(Status) /\ "pending" \in Status
    BY DEF Inv, Typed, Status
  <2>1. Typed'
    <3>1. logs' \in Seq(Status)
      BY <1>6, Appended, Zenon
    <3>2. lapse' \in Lapses
      BY <1>6 DEF Inv, Typed, Lapse, Lapses
    <3>3. pc' \in [Caller -> {"idle", "read", "logged", "written", "refused", "ending"}]
      BY <1>6 DEF Inv, Typed
    <3> QED BY <1>1, <3>1, <3>2, <3>3 DEF Inv, Typed
  <2>2. pc'[c] = "logged" /\ \A d \in Caller : d # c => pc'[d] \in {"idle", "read"} /\ pc'[d] = pc[d]
    BY <1>3, <1>6 DEF Inv, Typed
  <2>3. Holder' = {c}
    BY <2>2 DEF Holder
  <2>4. logs' # <<>> /\ logs'[Len(logs')] = "pending" /\ \A k \in DOMAIN logs : k \in DOMAIN logs' /\ logs'[k] = logs[k]
    <3>1. /\ Append(logs, "pending") # <<>> /\ Append(logs, "pending")[Len(Append(logs, "pending"))] = "pending"
          /\ \A k \in DOMAIN logs : k \in DOMAIN Append(logs, "pending") /\ Append(logs, "pending")[k] = logs[k]
      BY Appended
    <3>2. logs' = Append(logs, "pending")
      BY <1>6
    <3> QED BY <3>1, <3>2
  <2>5. Locked'
    <3>1. \A d \in Caller : pc'[d] # "idle" => Applies(op'[d].kind, op'[d].seen)
      BY <1>1, <1>4, <2>2 DEF Inv, Locked
    <3> QED BY <2>3, <2>4, <3>1 DEF Locked
  <2>6. Consistent'
    <3>1. Steady' => Steady /\ row = op[c].seen
      BY <1>6, <2>4 DEF Steady, Lapse
    <3>2. Steady' => Underway(c)'
      BY <1>1, <2>2, <3>1 DEF Inv, Consistent, Underway
    <3>3. \A d \in Caller : d # c => Underway(d)'
      BY <2>2 DEF Underway
    <3> QED BY <2>3, <3>2, <3>3 DEF Consistent
  <2> QED BY <1>2, <2>1, <2>5, <2>6 DEF Inv
<1> QED BY <1>5, <1>6 DEF LogOp

(* What a step of the holder has to show.                                  *)
LEMMA HolderInv ==
  ASSUME Inv, NEW c \in Caller, pc[c] \in {"logged", "written", "refused"},
         Typed', alone' = FALSE, UNCHANGED <<op, logs>>,
         NEW to \in {"written", "refused", "ending"}, pc' = [pc EXCEPT ![c] = to],
         Steady' => Underway(c)'
  PROVE  Inv'
<1>1. /\ Holder = {c} /\ logs # <<>> /\ logs[Len(logs)] = "pending" /\ Applies(op[c].kind, op[c].seen)
      /\ \A d \in Caller : d # c => pc[d] \in {"idle", "read"}
  BY OneHolder DEF Inv
<1>2. pc'[c] = to /\ \A d \in Caller : d # c => pc'[d] = pc[d] /\ pc'[d] \in {"idle", "read"}
  BY <1>1 DEF Inv, Typed
<1>3. Holder' = {c}
  BY <1>2 DEF Holder
<1>4. Locked'
  <2>1. \A d \in Caller : pc'[d] # "idle" => Applies(op'[d].kind, op'[d].seen)
    BY <1>1, <1>2 DEF Inv, Locked
  <2> QED BY <1>1, <1>3, <2>1 DEF Locked
<1>5. \A d \in Caller : d # c => Underway(d)'
  BY <1>2 DEF Underway
<1>6. Consistent'
  BY <1>3, <1>5 DEF Consistent
<1>7. Undisturbed'
  BY DEF Undisturbed
<1> QED BY <1>4, <1>6, <1>7 DEF Inv

LEMMA WriteRowInv ==
  ASSUME Inv, NEW c \in Caller, WriteRow(c)
  PROVE  Inv'
<1>1. pc[c] = "logged" /\ alone' = FALSE /\ UNCHANGED <<wheel, op, logs, repair, lapse>> /\ op[c] \in Op
  BY DEF WriteRow, Inv, Typed
<1>2. Steady' => Agree(row, wheel) /\ row = op[c].seen
  BY <1>1 DEF Inv, Consistent, Underway, Steady
<1>3. CASE /\ op[c].kind = "create" => row.state = "absent"
           /\ row' = Written(op[c], row) /\ pc' = [pc EXCEPT ![c] = "written"] /\ UNCHANGED outcome
  <2>1. row' \in Row
    BY <1>1, <1>3, WrittenTyped DEF Inv, Typed
  <2>2. Typed'
    BY <1>1, <1>3, <2>1 DEF Inv, Typed
  <2>3. pc'[c] = "written"
    BY <1>3 DEF Inv, Typed
  <2>4. Steady' => Underway(c)'
    BY <1>1, <1>2, <1>3, <2>3 DEF Underway
  <2> QED BY <1>1, <1>3, <2>2, <2>4, HolderInv
<1>4. CASE /\ pc' = [pc EXCEPT ![c] = "ending"] /\ outcome' = [outcome EXCEPT ![c] = "failed"] /\ UNCHANGED row
  <2>1. Typed'
    BY <1>1, <1>4 DEF Inv, Typed, Status
  <2>2. pc'[c] = "ending"
    BY <1>4 DEF Inv, Typed
  <2>3. Steady' => Underway(c)'
    BY <1>1, <1>2, <1>4, <2>2 DEF Underway
  <2> QED BY <1>1, <1>4, <2>1, <2>3, HolderInv
<1> QED BY <1>3, <1>4 DEF WriteRow

LEMMA RollBackInv ==
  ASSUME Inv, NEW c \in Caller, RollBack(c)
  PROVE  Inv'
<1>1. /\ pc[c] = "refused" /\ alone' = FALSE /\ UNCHANGED <<wheel, op, logs, repair, lapse>> /\ op[c] \in Op
      /\ pc' = [pc EXCEPT ![c] = "ending"] /\ wheel \in Wheels /\ pc'[c] = "ending"
  BY DEF RollBack, Inv, Typed
<1>2. Applies(op[c].kind, op[c].seen)
  BY <1>1 DEF Inv, Locked
<1>3. Steady' => /\ Agree(op[c].seen, wheel) /\ row = Written(op[c], op[c].seen)
                 /\ op[c].kind = "create" => op[c].seen.state = "absent"
  BY <1>1 DEF Inv, Consistent, Underway, Steady
<1>4. CASE row' = RolledBack(op[c], row) /\ outcome' = [outcome EXCEPT ![c] = "failed"]
  <2>1. row' \in Row
    BY <1>1, <1>4, RolledBackTyped DEF Inv, Typed
  <2>2. Typed'
    BY <1>1, <1>4, <2>1 DEF Inv, Typed, Status
  <2>3. Steady' => Agree(row', wheel)
    BY <1>1, <1>2, <1>3, <1>4, UndoneAgrees
  <2>4. Steady' => Underway(c)'
    BY <1>1, <2>3 DEF Underway
  <2> QED BY <1>1, <2>2, <2>4, HolderInv
<1>5. CASE outcome' = [outcome EXCEPT ![c] = "rollback_failed"] /\ UNCHANGED row
  <2>1. Typed'
    BY <1>1, <1>5 DEF Inv, Typed, Status
  <2>2. Underway(c)'
    BY <1>1, <1>5 DEF Underway, Inv, Typed
  <2> QED BY <1>1, <2>1, <2>2, HolderInv
<1> QED BY <1>4, <1>5 DEF RollBack

LEMMA EndOpInv ==
  ASSUME Inv, NEW c \in Caller, EndOp(c)
  PROVE  Inv'
<1>1. /\ pc[c] = "ending" /\ alone' = FALSE /\ UNCHANGED <<row, wheel, repair>>
      /\ pc' = [pc EXCEPT ![c] = "idle"] /\ op' = [op EXCEPT ![c] = NoOp]
      /\ outcome' = [outcome EXCEPT ![c] = "pending"]
      /\ logs \in Seq(Status) /\ outcome[c] \in Status
  BY DEF EndOp, Inv, Typed
<1>2. /\ Holder = {c} /\ logs # <<>> /\ logs[Len(logs)] = "pending"
      /\ \A d \in Caller : d # c => pc[d] \in {"idle", "read"}
  BY <1>1, OneHolder DEF Inv
<1>3. /\ \A d \in Caller : d # c => pc'[d] = pc[d] /\ op'[d] = op[d] /\ pc'[d] \in {"idle", "read"}
      /\ pc'[c] = "idle"
  BY <1>1, <1>2 DEF Inv, Typed
<1>4. Holder' = {}
  BY <1>3 DEF Holder
<1>5. Locked'
  <2>1. \A d \in Caller : pc'[d] # "idle" => Applies(op'[d].kind, op'[d].seen)
    BY <1>3 DEF Inv, Locked
  <2> QED BY <1>4, <2>1 DEF Locked
<1>6. Undisturbed'
  BY <1>1 DEF Undisturbed
<1>7. (/\ op' \in [Caller -> Op] /\ outcome' \in [Caller -> Status]
       /\ pc' \in [Caller -> {"idle", "read", "logged", "written", "refused", "ending"}])
  BY <1>1, EmptyTyped DEF Inv, Typed, Status
<1>8. \A d \in Caller : Underway(d)'
  BY <1>3 DEF Underway
<1>9. CASE logs' = [logs EXCEPT ![Len(logs)] = outcome[c]] /\ UNCHANGED lapse
  <2>1. logs' \in Seq(Status)
    BY <1>1, <1>2, <1>9, LastReplaced
  <2>2. Typed'
    BY <1>1, <1>7, <1>9, <2>1 DEF Inv, Typed
  <2>3. Steady' => Steady /\ outcome[c] # "rollback_failed"
    <3>1. Len(logs) \in DOMAIN logs /\ DOMAIN logs' = DOMAIN logs /\ logs'[Len(logs)] = outcome[c]
      BY <1>1, <1>2, <1>9
    <3>2. \A k \in DOMAIN logs : k # Len(logs) => logs'[k] = logs[k]
      BY <1>1, <1>9
    <3> QED BY <1>2, <1>9, <3>1, <3>2 DEF Steady
  <2>4. Steady' => Agree(row, wheel)
    BY <1>1, <2>3 DEF Inv, Consistent, Underway
  <2>5. Consistent'
    BY <1>1, <1>8, <2>4 DEF Consistent
  <2> QED BY <1>5, <1>6, <2>2, <2>5 DEF Inv
<1>10. CASE UNCHANGED logs /\ Lapse(IF outcome[c] = "rollback_failed" THEN "log lost" ELSE "none")
  <2>1. lapse' \in Lapses
    BY <1>10 DEF Inv, Typed, Lapse, Lapses
  <2>2. Typed'
    BY <1>1, <1>7, <1>10, <2>1 DEF Inv, Typed
  <2>3. Steady' => Steady /\ outcome[c] # "rollback_failed"
    BY <1>10 DEF Steady, Lapse
  <2>4. Steady' => Agree(row, wheel)
    BY <1>1, <2>3 DEF Inv, Consistent, Underway
  <2>5. Consistent'
    BY <1>1, <1>8, <2>4 DEF Consistent
  <2> QED BY <1>5, <1>6, <2>2, <2>5 DEF Inv
<1> QED BY <1>9, <1>10 DEF EndOp
-----------------------------------------------------------------------------
(* What twOp leaves in the wheels agrees with what dbOp wrote in the row,  *)
(* for each thing it may ask for.                                          *)
LEMMA KeptAgrees ==
  ASSUME NEW o \in Op, NEW w \in Wheels, Applies(o.kind, o.seen), Agree(o.seen, w),
         Wanted(o, w) = "keep", o.kind = "update" => Present(w) = {}
  PROVE  Agree(Written(o, o.seen), w)
<1> DEFINE r == o.seen
           v == Written(o, o.seen)
<1>1. o.kind \in Kind /\ r \in Row /\ v \in Row /\ o.level \in Level /\ o.enabled \in BOOLEAN
  BY WrittenTyped DEF Op
<1>2. /\ o.kind \in {"create", "enable", "resume", "update"}
      /\ o.kind = "create" => ~o.enabled
      /\ o.kind = "enable" => r.paused
      /\ o.kind = "resume" => ~r.enabled
      /\ o.kind = "update" => ~(r.enabled /\ ~r.paused)
  <2>1. o.kind \notin {"delete", "disable", "pause"}
    BY WantedIs
  <2> QED BY <1>1, <2>1, WantedIs DEF Kind
<1>3. CASE o.kind = "create"
  <2>1. w = Empty
    BY <1>1, <1>3, AgreeIs DEF Applies
  <2>2. v = Fields("live", o.enabled, FALSE, o.level)
    BY <1>1, <1>3, WrittenIs, Zenon
  <2>3. ~v.enabled
    BY <1>2, <1>3, <2>2 DEF Fields
  <2> QED BY <1>1, <2>1, <2>3, AgreeIs
<1>4. CASE o.kind = "enable"
  <2>1. r.state = "live" /\ ~r.enabled
    BY <1>4 DEF Applies
  <2>2. w = Empty
    BY <1>1, <2>1, AgreeIs
  <2>3. v = Fields("live", TRUE, r.paused, r.level)
    BY <1>1, <1>4, <2>1, WrittenIs, Zenon
  <2>4. v.paused
    BY <1>2, <1>4, <2>3 DEF Fields
  <2> QED BY <1>1, <2>2, <2>4, AgreeIs
<1>5. CASE o.kind = "resume"
  <2>1. r.state = "live" /\ ~r.enabled
    BY <1>2, <1>5 DEF Applies
  <2>2. w = Empty
    BY <1>1, <2>1, AgreeIs
  <2>3. v = Fields("live", r.enabled, FALSE, r.level)
    BY <1>1, <1>5, <2>1, WrittenIs, Zenon
  <2>4. ~v.enabled
    BY <2>1, <2>3 DEF Fields
  <2> QED BY <1>1, <2>2, <2>4, AgreeIs
<1>6. CASE o.kind = "update"
  <2>1. w = Empty
    BY <1>6, NoEntry
  <2>2. v = Fields(r.state, r.enabled, r.paused, o.level)
    BY <1>1, <1>6, WrittenIs, Zenon
  <2>3. ~v.enabled \/ v.paused
    BY <1>2, <1>6, <2>2 DEF Fields
  <2> QED BY <1>1, <2>1, <2>3, AgreeIs
<1> QED BY <1>2, <1>3, <1>4, <1>5, <1>6

LEMMA AddedAgrees ==
  ASSUME NEW o \in Op, NEW w \in Wheels, Applies(o.kind, o.seen), Agree(o.seen, w),
         Wanted(o, w) = "add" \/ Wanted(o, w) = "replace"
  PROVE  /\ Agree(Written(o, o.seen), Added(Empty, NewLevel(o), FALSE))
         /\ Present(w) = {} \/ (Wanted(o, w) = "replace" /\ Removed(w) = Empty)
<1> DEFINE r == o.seen
           v == Written(o, o.seen)
<1>1. o.kind \in Kind /\ r \in Row /\ v \in Row /\ o.level \in Level /\ o.enabled \in BOOLEAN
  BY WrittenTyped DEF Op
<1>2. /\ o.kind \in {"create", "enable", "resume", "update"}
      /\ o.kind = "create" => o.enabled
      /\ o.kind = "enable" => ~r.paused
      /\ o.kind = "resume" => r.enabled /\ Present(w) = {}
      /\ o.kind = "update" => r.enabled /\ ~r.paused /\ Wanted(o, w) = "replace"
  <2>1. o.kind \notin {"delete", "disable", "pause"}
    BY WantedIs
  <2> QED BY <1>1, <2>1, WantedIs DEF Kind
<1>3. Present(Empty) = {}
  BY DEF Present, Empty
<1>4. CASE o.kind = "create"
  <2>1. w = Empty
    BY <1>1, <1>4, AgreeIs DEF Applies
  <2>2. v = Fields("live", o.enabled, FALSE, o.level)
    BY <1>1, <1>4, WrittenIs, Zenon
  <2>3. v.state = "live" /\ v.enabled /\ ~v.paused /\ v.level = NewLevel(o)
    BY <1>2, <1>4, <2>2 DEF Fields, NewLevel
  <2>8. Agree(v, Added(Empty, NewLevel(o), FALSE))
    BY <1>1, <2>3, AgreeIs
  <2> QED BY <1>3, <2>1, <2>8
<1>5. CASE o.kind = "enable"
  <2>1. r.state = "live" /\ ~r.enabled
    BY <1>5 DEF Applies
  <2>2. w = Empty
    BY <1>1, <2>1, AgreeIs
  <2>3. v = Fields("live", TRUE, r.paused, r.level)
    BY <1>1, <1>5, <2>1, WrittenIs, Zenon
  <2>4. v.state = "live" /\ v.enabled /\ ~v.paused /\ v.level = NewLevel(o)
    BY <1>2, <1>5, <2>3 DEF Fields, NewLevel
  <2>8. Agree(v, Added(Empty, NewLevel(o), FALSE))
    BY <1>1, <2>4, AgreeIs
  <2> QED BY <1>3, <2>2, <2>8
<1>6. CASE o.kind = "resume"
  <2>1. r.state = "live"
    BY <1>6 DEF Applies
  <2>2. v = Fields("live", r.enabled, FALSE, r.level)
    BY <1>1, <1>6, <2>1, WrittenIs, Zenon
  <2>3. v.state = "live" /\ v.enabled /\ ~v.paused /\ v.level = NewLevel(o)
    BY <1>2, <1>6, <2>2 DEF Fields, NewLevel
  <2>8. Agree(v, Added(Empty, NewLevel(o), FALSE))
    BY <1>1, <2>3, AgreeIs
  <2> QED BY <1>2, <1>6, <2>8
<1>7. CASE o.kind = "update"
  <2>1. r.state = "live" /\ r.enabled /\ ~r.paused
    BY <1>2, <1>7 DEF Applies
  <2>2. w = Added(Empty, r.level, FALSE)
    BY <1>1, <2>1, AgreeIs
  <2>3. r.level \in Level
    BY <1>1 DEF Row
  <2>4. Removed(w) = Empty
    BY <2>2, <2>3, OnlyEntry
  <2>5. v = Fields(r.state, r.enabled, r.paused, o.level)
    BY <1>1, <1>7, WrittenIs, Zenon
  <2>6. v.state = "live" /\ v.enabled /\ ~v.paused /\ v.level = NewLevel(o)
    BY <1>7, <2>1, <2>5 DEF Fields, NewLevel
  <2> QED BY <1>1, <1>2, <1>7, <2>4, <2>6, AgreeIs
<1> QED BY <1>2, <1>4, <1>5, <1>6, <1>7

LEMMA RemovedAgrees ==
  ASSUME NEW o \in Op, NEW w \in Wheels, Applies(o.kind, o.seen), Agree(o.seen, w),
         Wanted(o, w) = "remove", Present(w) # {}
  PROVE  Agree(Written(o, o.seen), Removed(w))
<1> DEFINE r == o.seen
           v == Written(o, o.seen)
<1>1. o.kind \in Kind /\ r \in Row /\ v \in Row /\ r.level \in Level
  BY WrittenTyped DEF Op, Row
<1>2. o.kind \in {"delete", "disable"}
  <2>1. o.kind \notin {"create", "enable", "pause", "resume", "update"}
    BY WantedIs
  <2> QED BY <1>1, <2>1 DEF Kind
<1>3. r.state = "live"
  BY <1>2 DEF Applies
<1>4. Removed(w) = Empty
  <2>1. Present(Empty) = {}
    BY DEF Present, Empty
  <2>2. w # Empty
    BY <2>1
  <2>3. w = Added(Empty, r.level, FALSE) \/ w = Added(Empty, r.level, TRUE)
    BY <1>1, <2>2 DEF Agree, Due, Listed
  <2> QED BY <1>1, <2>3, OnlyEntry
<1>5. CASE o.kind = "delete"
  <2>1. v = Fields("deleted", r.enabled, r.paused, r.level)
    BY <1>1, <1>3, <1>5, WrittenIs, Zenon
  <2>2. v.state # "live"
    BY <2>1 DEF Fields
  <2> QED BY <1>1, <1>4, <2>2, AgreeIs
<1>6. CASE o.kind = "disable"
  <2>1. v = Fields("live", FALSE, r.paused, r.level)
    BY <1>1, <1>3, <1>6, WrittenIs, Zenon
  <2>2. ~v.enabled
    BY <2>1 DEF Fields
  <2> QED BY <1>1, <1>4, <2>2, AgreeIs
<1> QED BY <1>2, <1>5, <1>6

LEMMA PausedAgrees ==
  ASSUME NEW o \in Op, NEW w \in Wheels, Applies(o.kind, o.seen), Agree(o.seen, w),
         Wanted(o, w) = "pause", Present(w) # {}
  PROVE  Agree(Written(o, o.seen), [w EXCEPT ![Min(Present(w))] = "paused"])
<1> DEFINE r == o.seen
           v == Written(o, o.seen)
<1>1. o.kind \in Kind /\ r \in Row /\ v \in Row /\ r.level \in Level
  BY WrittenTyped DEF Op, Row
<1>2. o.kind = "pause"
  <2>1. o.kind \notin {"create", "enable", "disable", "delete", "resume", "update"}
    BY WantedIs
  <2> QED BY <1>1, <2>1 DEF Kind
<1>3. r.state = "live" /\ ~r.paused
  BY <1>2 DEF Applies
<1>4. Present(Empty) = {}
  BY DEF Present, Empty
<1>5. r.enabled /\ w = Added(Empty, r.level, FALSE)
  BY <1>1, <1>3, <1>4, AgreeIs
<1>6. Min(Present(w)) = r.level
  BY <1>1, <1>5, OnlyEntry
<1>7. [w EXCEPT ![r.level] = "paused"] = Added(Empty, r.level, TRUE)
  BY <1>1, <1>5 DEF Added, Empty
<1>8. v = Fields("live", r.enabled, TRUE, r.level)
  BY <1>1, <1>2, <1>3, WrittenIs, Zenon
<1>9. v.state = "live" /\ v.enabled /\ v.paused /\ v.level = r.level
  BY <1>5, <1>8 DEF Fields
<1>10. Agree(v, Added(Empty, r.level, TRUE))
  BY <1>1, <1>9, AgreeIs
<1> QED BY <1>6, <1>7, <1>10, Zenon

LEMMA ResumedAgrees ==
  ASSUME NEW o \in Op, NEW w \in Wheels, Applies(o.kind, o.seen), Agree(o.seen, w),
         Wanted(o, w) = "resume"
  PROVE  Agree(Written(o, o.seen), [w EXCEPT ![Min(Present(w))] = "on"])
<1> DEFINE r == o.seen
           v == Written(o, o.seen)
<1>1. o.kind \in Kind /\ r \in Row /\ v \in Row /\ r.level \in Level
  BY WrittenTyped DEF Op, Row
<1>2. o.kind = "resume" /\ r.enabled /\ Present(w) # {}
  <2>1. o.kind \notin {"create", "enable", "disable", "delete", "pause", "update"}
    BY WantedIs
  <2> QED BY <1>1, <2>1, WantedIs DEF Kind
<1>3. r.state = "live" /\ r.paused
  BY <1>2 DEF Applies
<1>4. Present(Empty) = {}
  BY DEF Present, Empty
<1>5. w = Added(Empty, r.level, TRUE)
  BY <1>1, <1>2, <1>3, <1>4, AgreeIs
<1>6. Min(Present(w)) = r.level
  BY <1>1, <1>5, OnlyEntry
<1>7. [w EXCEPT ![r.level] = "on"] = Added(Empty, r.level, FALSE)
  BY <1>1, <1>5 DEF Added, Empty
<1>8. v = Fields("live", r.enabled, FALSE, r.level)
  BY <1>1, <1>2, <1>3, WrittenIs, Zenon
<1>9. v.state = "live" /\ v.enabled /\ ~v.paused /\ v.level = r.level
  BY <1>2, <1>8 DEF Fields
<1>10. Agree(v, Added(Empty, r.level, FALSE))
  BY <1>1, <1>9, AgreeIs
<1> QED BY <1>6, <1>7, <1>10, Zenon
-----------------------------------------------------------------------------
(* The two ways in which twOp ends.                                        *)
LEMMA TurnInv ==
  ASSUME Inv, NEW c \in Caller, NEW w \in Wheels, NEW used, NEW what \in Lapses,
         pc[c] = "written", alone' = FALSE, UNCHANGED <<row, op, logs, repair>>,
         TurnWheel(c, w, used, what),
         what = "none" => (Agree(op[c].seen, wheel) => Agree(Written(op[c], op[c].seen), w))
  PROVE  Inv'
<1>1. /\ pc' = [pc EXCEPT ![c] = "ending"] /\ outcome' = [outcome EXCEPT ![c] = "completed"]
      /\ wheel' = w /\ lapse' = (IF lapse = "none" THEN what ELSE lapse)
  BY DEF TurnWheel, Lapse
<1>2. Typed'
  BY <1>1 DEF Inv, Typed, Status
<1>3. Steady' => Steady /\ what = "none"
  BY <1>1 DEF Steady
<1>4. Steady' => Agree(row, w)
  BY <1>3 DEF Inv, Consistent, Underway
<1>5. Steady' => Underway(c)'
  BY <1>1, <1>4 DEF Underway, Inv, Typed
<1> QED BY <1>1, <1>2, <1>5, HolderInv

LEMMA RefuseInv ==
  ASSUME Inv, NEW c \in Caller, NEW w \in Wheels, NEW used,
         pc[c] = "written", alone' = FALSE, UNCHANGED <<row, op, logs, repair>>,
         RefuseWheel(c, w, used)
  PROVE  Inv'
<1>1. /\ pc' = [pc EXCEPT ![c] = "refused"] /\ UNCHANGED outcome /\ wheel' = w
      /\ lapse' = (IF lapse = "none" THEN (IF w = wheel THEN "none" ELSE "update refused") ELSE lapse)
  BY DEF RefuseWheel, Lapse
<1>2. Typed'
  BY <1>1 DEF Inv, Typed, Lapses
<1>3. Steady' => Steady /\ w = wheel
  BY <1>1 DEF Steady
<1>4. Steady' => Underway(c)'
  BY <1>1, <1>3 DEF Underway, Inv, Consistent, Typed
<1> QED BY <1>1, <1>2, <1>4, HolderInv

LEMMA AddEntryInv ==
  ASSUME Inv, NEW c \in Caller, NEW w \in Wheels, NEW used,
         pc[c] = "written", alone' = FALSE, UNCHANGED <<row, op, logs, repair>>,
         AddEntry(c, w, used),
         Agree(op[c].seen, wheel) => Agree(Written(op[c], op[c].seen), Added(w, NewLevel(op[c]), FALSE))
  PROVE  Inv'
<1> DEFINE l == NewLevel(op[c])
<1>1. CASE TurnWheel(c, Added(w, l, FALSE), used, "none")
  BY <1>1, AddedTyped, TurnInv DEF Lapses
<1>2. CASE TurnWheel(c, Added(w, l, TRUE), used, "paused node")
  BY <1>2, AddedTyped, TurnInv DEF Lapses
<1>3. CASE RefuseWheel(c, w, used)
  BY <1>3, RefuseInv
<1> QED BY <1>1, <1>2, <1>3 DEF AddEntry

LEMMA ChangeWheelInv ==
  ASSUME Inv, NEW c \in Caller, ChangeWheel(c)
  PROVE  Inv'
<1> DEFINE o == op[c]
           want == Wanted(o, wheel)
           first == Min(Present(wheel))
<1>1. pc[c] = "written" /\ alone' = FALSE /\ UNCHANGED <<row, op, logs, repair>>
  BY DEF ChangeWheel
<1>2. o \in Op /\ wheel \in Wheels /\ Removed(wheel) \in Wheels
  BY RemovedTyped DEF Inv, Typed
<1>3. Applies(o.kind, o.seen)
  BY <1>1, OneHolder DEF Inv
<1>4. CASE /\ want = "keep"
           /\ TurnWheel(c, wheel, dirty, IF o.kind = "update" /\ Present(wheel) # {} THEN "paused update" ELSE "none")
  <2> DEFINE what == IF o.kind = "update" /\ Present(wheel) # {} THEN "paused update" ELSE "none"
  <2>1. what \in Lapses
    BY DEF Lapses
  <2>2. what = "none" => (Agree(o.seen, wheel) => Agree(Written(o, o.seen), wheel))
    BY <1>2, <1>3, <1>4, KeptAgrees
  <2>3. TurnWheel(c, wheel, dirty, what)
    BY <1>4
  <2> HIDE DEF what
  <2> QED BY <1>1, <1>2, <2>1, <2>2, <2>3, TurnInv
<1>5. CASE (want = "add" \/ (want = "replace" /\ Present(wheel) = {})) /\ AddEntry(c, wheel, dirty)
  <2>1. Agree(o.seen, wheel) => Agree(Written(o, o.seen), Added(wheel, NewLevel(o), FALSE))
    <3>1. Agree(o.seen, wheel) =>
            /\ Agree(Written(o, o.seen), Added(Empty, NewLevel(o), FALSE))
            /\ Present(wheel) = {} \/ (want = "replace" /\ Removed(wheel) = Empty)
      BY <1>2, <1>3, <1>5, AddedAgrees
    <3>2. Agree(o.seen, wheel) => wheel = Empty
      BY <1>2, <1>5, <3>1, NoEntry
    <3> QED BY <3>1, <3>2
  <2> QED BY <1>1, <1>2, <1>5, <2>1, AddEntryInv
<1>6. CASE want = "replace" /\ Present(wheel) # {} /\ AddEntry(c, Removed(wheel), Dirtied(wheel))
  <2>1. Agree(o.seen, wheel) => Agree(Written(o, o.seen), Added(Removed(wheel), NewLevel(o), FALSE))
    BY <1>2, <1>3, <1>6, AddedAgrees
  <2> QED BY <1>1, <1>2, <1>6, <2>1, AddEntryInv
<1>7. CASE want = "remove" /\ Present(wheel) # {} /\ TurnWheel(c, Removed(wheel), Dirtied(wheel), "none")
  <2>1. Agree(o.seen, wheel) => Agree(Written(o, o.seen), Removed(wheel))
    BY <1>2, <1>3, <1>7, RemovedAgrees
  <2> QED BY <1>1, <1>2, <1>7, <2>1, TurnInv DEF Lapses
<1>8. CASE want = "pause" /\ Present(wheel) # {} /\ TurnWheel(c, [wheel EXCEPT ![first] = "paused"], dirty, "none")
  <2>1. Agree(o.seen, wheel) => Agree(Written(o, o.seen), [wheel EXCEPT ![first] = "paused"])
    BY <1>2, <1>3, <1>8, PausedAgrees
  <2>2. [wheel EXCEPT ![first] = "paused"] \in Wheels
    BY <1>2 DEF Wheels
  <2> QED BY <1>1, <1>8, <2>1, <2>2, TurnInv DEF Lapses
<1>9. CASE want = "resume" /\ TurnWheel(c, [wheel EXCEPT ![first] = "on"], dirty, "none")
  <2>1. Agree(o.seen, wheel) => Agree(Written(o, o.seen), [wheel EXCEPT ![first] = "on"])
    BY <1>2, <1>3, <1>9, ResumedAgrees
  <2>2. [wheel EXCEPT ![first] = "on"] \in Wheels
    BY <1>2 DEF Wheels
  <2> QED BY <1>1, <1>9, <2>1, <2>2, TurnInv DEF Lapses
<1>10. CASE RefuseWheel(c, wheel, dirty)
  BY <1>1, <1>2, <1>10, RefuseInv
<1> QED BY <1>4, <1>5, <1>6, <1>7, <1>8, <1>9, <1>10, Zenon DEF ChangeWheel
-----------------------------------------------------------------------------
(* A step beside the operations, after which either a lapse is noted or    *)
(* the wheels are as before.                                               *)
LEMMA BesideInv ==
  ASSUME Inv, UNCHANGED <<row, pc, op, outcome, logs>>, wheel' \in Wheels, lapse' \in Lapses,
         lapse' = "none" => lapse = "none", Steady' => UNCHANGED wheel
  PROVE  Locked' /\ Consistent' /\ Holder' = Holder
<1>1. Holder' = Holder
  BY DEF Holder
<1>2. Locked'
  BY <1>1 DEF Inv, Locked
<1>3. Steady' => Steady /\ UNCHANGED wheel
  BY DEF Steady
<1>4. ASSUME NEW c \in Caller, Underway(c), UNCHANGED wheel PROVE Underway(c)'
  BY <1>4 DEF Underway
<1>5. Consistent'
  BY <1>1, <1>3, <1>4 DEF Inv, Consistent
<1> QED BY <1>1, <1>2, <1>5

LEMMA TaskEndsInv ==
  ASSUME Inv, NEW l \in Level, TaskEnds(l)
  PROVE  Inv'
<1>1. /\ wheel' = [wheel EXCEPT ![l] = "none"] /\ alone' = FALSE
      /\ UNCHANGED <<row, pc, op, outcome, logs, repair>>
      /\ lapse' = (IF lapse = "none" THEN "ended" ELSE lapse)
  BY DEF TaskEnds, Lapse
<1>2. wheel' \in Wheels
  BY <1>1 DEF Inv, Typed, Wheels
<1>3. lapse' \in Lapses /\ lapse' # "none"
  BY <1>1 DEF Inv, Typed, Lapses
<1>4. Typed'
  BY <1>1, <1>2, <1>3 DEF Inv, Typed
<1>5. Locked' /\ Consistent'
  BY <1>1, <1>2, <1>3, BesideInv DEF Steady
<1>6. Undisturbed'
  BY <1>1 DEF Undisturbed
<1> QED BY <1>4, <1>5, <1>6 DEF Inv

(* A start finds nobody at work, and the wheels as the row asks.           *)
LEMMA RestartInv ==
  ASSUME Inv, Restart
  PROVE  Inv'
<1>1. /\ pc' = [c \in Caller |-> "idle"] /\ op' = [c \in Caller |-> NoOp]
      /\ outcome' = [c \in Caller |-> "pending"]
      /\ repair' = NoRepair /\ alone' = FALSE /\ UNCHANGED <<row, logs>>
  BY DEF Restart
<1>2. Holder' = {} /\ \A c \in Caller : pc'[c] = "idle"
  BY <1>1 DEF Holder
<1>3. Locked'
  BY <1>2 DEF Locked
<1>4. Undisturbed'
  BY <1>1 DEF Undisturbed
<1>5. \A c \in Caller : Underway(c)'
  BY <1>2 DEF Underway
<1>6. wheel' \in Wheels /\ lapse' \in Lapses
  <2>1. wheel' = (IF Due(row) THEN Added(Empty, row.level, FALSE) ELSE Empty) \/ wheel' = Empty
    BY DEF Restart
  <2>2. lapse' \in Lapses
    BY DEF Restart, Lapses
  <2> QED BY <2>1, <2>2, EmptyTyped, AddedTyped
<1>7. NoRepair \in Repairs
  BY EmptyTyped DEF NoRepair, Repairs
<1>8. (/\ op' \in [Caller -> Op] /\ outcome' \in [Caller -> Status]
       /\ pc' \in [Caller -> {"idle", "read", "logged", "written", "refused", "ending"}])
  BY <1>1, EmptyTyped DEF Status
<1>9. Typed'
  BY <1>1, <1>6, <1>7, <1>8 DEF Inv, Typed
<1>10. Steady' => Agree(row, wheel')
  <2>1. lapse' = "none" => wheel' = (IF Due(row) THEN Added(Empty, row.level, FALSE) ELSE Empty)
    BY DEF Restart
  <2> QED BY <2>1 DEF Steady, Agree, Due
<1>11. Consistent'
  BY <1>1, <1>5, <1>10 DEF Consistent
<1> QED BY <1>3, <1>4, <1>9, <1>11 DEF Inv
-----------------------------------------------------------------------------
(* A row past the page is not listed to the repair.                        *)
LEMMA PageIs ==
  ASSUME NEW r \in Row, NEW past \in BOOLEAN
  PROVE  /\ PageOf(r, past) \in Row
         /\ past => ~Listed(PageOf(r, past)) /\ ~Due(PageOf(r, past))
         /\ ~past => PageOf(r, past) = r
BY EmptyTyped DEF PageOf, NoOp, Listed, Due

(* What is repaired beside nothing else was not in agreement before.       *)
LEMMA RepairListInv ==
  ASSUME Inv, RepairList
  PROVE  Inv'
<1>0. PICK past \in BOOLEAN : repair' = [repair EXCEPT !.at = "listed", !.row = PageOf(row, past), !.past = past]
  BY DEF RepairList
<1>1. alone' = (Holder = {}) /\ UNCHANGED <<row, wheel, pc, op, outcome, logs, lapse>>
  BY DEF RepairList
<1>2. repair'.at = "listed" /\ repair'.row = PageOf(row, repair'.past) /\ repair' \in Repairs
  BY <1>0, PageIs DEF Inv, Typed, Repairs
<1>3. Typed'
  BY <1>1, <1>2 DEF Inv, Typed
<1>4. Locked' /\ Consistent' /\ Holder' = Holder
  BY <1>1, BesideInv DEF Inv, Typed
<1>5. Undisturbed'
  BY <1>1, <1>2, <1>4 DEF Undisturbed, RepairMends
<1> QED BY <1>3, <1>4, <1>5 DEF Inv

LEMMA RepairWheelsInv ==
  ASSUME Inv, RepairWheels
  PROVE  Inv'
<1>1. /\ repair.at = "listed" /\ repair' = [repair EXCEPT !.at = "known", !.wheel = wheel]
      /\ UNCHANGED <<row, wheel, pc, op, outcome, logs, lapse, alone>>
  BY DEF RepairWheels
<1>2. /\ repair'.at = "known" /\ repair'.row = repair.row /\ repair'.wheel = wheel
      /\ repair'.past = repair.past /\ repair' \in Repairs
  BY <1>1 DEF Inv, Typed, Repairs
<1>3. Typed'
  BY <1>1, <1>2 DEF Inv, Typed
<1>4. Locked' /\ Consistent' /\ Holder' = Holder
  BY <1>1, BesideInv DEF Inv, Typed
<1>5. Undisturbed'
  BY <1>1, <1>2, <1>4 DEF Inv, Undisturbed, RepairMends
<1> QED BY <1>3, <1>4, <1>5 DEF Inv

LEMMA RepairAddInv ==
  ASSUME Inv, RepairAdd
  PROVE  Inv'
<1> DEFINE r == repair.row
           need == Due(r) /\ Present(repair.wheel) = {}
<1>1. /\ repair.at = "known" /\ repair' = [repair EXCEPT !.at = "added"]
      /\ UNCHANGED <<row, pc, op, outcome, logs>>
  BY DEF RepairAdd, RepairStep
<1>2. /\ repair'.at = "added" /\ repair'.row = r /\ repair'.wheel = repair.wheel
      /\ repair'.past = repair.past /\ repair' \in Repairs
      /\ r \in Row /\ r.level \in Level /\ wheel \in Wheels
  BY <1>1 DEF Inv, Typed, Row, Repairs
<1>3. alone => /\ Holder = {} /\ r = PageOf(row, repair.past) /\ repair.wheel = wheel
               /\ repair.past => ~Listed(r) /\ ~Due(r)
               /\ ~repair.past => r = row
  BY <1>1, PageIs DEF Inv, Undisturbed, Typed, Repairs
<1>4. CASE need /\ wheel' = Added(wheel, r.level, FALSE) /\ UNCHANGED alone /\ AfterRepair
  <2>1. lapse' = IF lapse # "none" THEN lapse ELSE IF ~alone THEN "repaired meanwhile"
                 ELSE IF repair.past THEN "past the page" ELSE "none"
    BY <1>4 DEF AfterRepair, Lapse
  <2>2. wheel' \in Wheels /\ lapse' \in Lapses
    BY <1>2, <1>4, <2>1, AddedTyped DEF Inv, Typed, Lapses
  <2>3. Typed'
    BY <1>1, <1>2, <1>4, <2>2 DEF Inv, Typed
  <2>4. ~Steady'
    <3>1. Steady' => Steady /\ alone /\ ~repair.past
      BY <1>1, <2>1 DEF Steady
    <3>2. Steady' => Agree(row, wheel) /\ Due(row) /\ Present(wheel) = {}
      BY <1>3, <1>4, <3>1 DEF Inv, Consistent
    <3>3. Steady' => row.level \in Level /\ Present(Added(Empty, row.level, FALSE)) = {}
      BY <1>2, <1>3, <3>1, <3>2 DEF Agree
    <3> QED BY <3>3, OnlyEntry
  <2>5. Locked' /\ Consistent' /\ Holder' = Holder
    BY <1>1, <2>1, <2>2, <2>4, BesideInv
  <2>6. Present(wheel') # {}
    BY <1>2, <1>4 DEF Present, Added, Wheels
  <2>7. Undisturbed'
    BY <1>1, <1>2, <1>3, <1>4, <2>5, <2>6 DEF Undisturbed, RepairMends, Due
  <2> QED BY <2>3, <2>5, <2>7 DEF Inv
<1>5. CASE need /\ wheel' = Added(wheel, r.level, TRUE) /\ UNCHANGED alone /\ Lapse("paused node")
  <2>1. lapse' = (IF lapse = "none" THEN "paused node" ELSE lapse)
    BY <1>5 DEF Lapse
  <2>2. wheel' \in Wheels /\ lapse' \in Lapses /\ lapse' # "none"
    BY <1>2, <1>5, <2>1, AddedTyped DEF Inv, Typed, Lapses
  <2>3. Typed'
    BY <1>1, <1>2, <1>5, <2>2 DEF Inv, Typed
  <2>4. Locked' /\ Consistent' /\ Holder' = Holder
    BY <1>1, <2>2, BesideInv DEF Steady
  <2>5. Present(wheel') # {}
    BY <1>2, <1>5, ZenonT(40) DEF Present, Added, Wheels
  <2>6. Undisturbed'
    BY <1>1, <1>2, <1>3, <1>5, <2>4, <2>5 DEF Undisturbed, RepairMends, Due
  <2> QED BY <2>3, <2>4, <2>6 DEF Inv
<1>6. CASE UNCHANGED <<wheel, lapse>> /\ (alone' = FALSE \/ (UNCHANGED alone /\ (need => wheel[r.level] # "none")))
  <2>1. alone' \in BOOLEAN
    BY <1>6 DEF Inv, Typed
  <2>2. Typed'
    BY <1>1, <1>2, <1>6, <2>1 DEF Inv, Typed
  <2>3. Locked' /\ Consistent' /\ Holder' = Holder
    BY <1>1, <1>6, BesideInv DEF Inv, Typed
  <2>4. alone' => alone /\ (Due(row) /\ ~repair.past => Present(wheel) # {})
    BY <1>2, <1>3, <1>6 DEF Present
  <2>5. Undisturbed'
    BY <1>1, <1>2, <1>3, <1>6, <2>3, <2>4 DEF Undisturbed, RepairMends
  <2> QED BY <2>2, <2>3, <2>5 DEF Inv
<1> QED BY <1>4, <1>5, <1>6 DEF RepairAdd

LEMMA RepairRemoveInv ==
  ASSUME Inv, RepairRemove
  PROVE  Inv'
<1>1. repair.at = "added" /\ UNCHANGED <<alone, row, pc, op, outcome, logs>>
  BY DEF RepairRemove
<1>2. /\ repair \in Repairs
      /\ wheel \in Wheels /\ repair.wheel \in Wheels /\ repair.row \in Row
  BY DEF Inv, Typed, Repairs
<1>3. alone => /\ Holder = {} /\ repair.row = PageOf(row, repair.past)
               /\ ~Listed(repair.row) => repair.wheel = wheel
               /\ Due(row) /\ ~repair.past => Present(wheel) # {}
               /\ repair.past => ~Listed(repair.row)
               /\ ~repair.past => repair.row = row
  BY <1>1, <1>2, PageIs DEF Inv, Typed, Undisturbed, Repairs
<1>4. CASE Surplus(repair.row, repair.wheel)
  <2> DEFINE w == repair.wheel
             i == Min(Present(w))
  <2>1. /\ repair' = [repair EXCEPT !.wheel[i] = "none"] /\ AfterRepair
        /\ wheel' = (IF Present(wheel) # {} THEN Removed(wheel) ELSE wheel)
    BY <1>4 DEF RepairRemove
  <2>2. /\ repair'.at = "added" /\ repair'.row = repair.row /\ repair'.wheel = Removed(w)
        /\ repair'.past = repair.past /\ repair' \in Repairs
    BY <1>1, <1>2, <2>1, RemovedTyped DEF Removed, Repairs
  <2>3. lapse' = IF lapse # "none" THEN lapse ELSE IF ~alone THEN "repaired meanwhile"
                 ELSE IF repair.past THEN "past the page" ELSE "none"
    BY <1>1, <2>1 DEF AfterRepair, Lapse
  <2>4. wheel' \in Wheels /\ lapse' \in Lapses
    BY <1>2, <2>1, <2>3, RemovedTyped DEF Inv, Typed, Lapses
  <2>5. Typed'
    BY <1>1, <2>2, <2>4 DEF Inv, Typed
  <2>6. ~Listed(repair.row) /\ Present(w) # {}
    BY <1>4 DEF Surplus
  <2>7. ~Steady'
    <3>1. Steady' => Steady /\ alone /\ ~repair.past
      BY <1>1, <2>3 DEF Steady
    <3>2. Steady' => Agree(row, wheel) /\ ~Listed(row) /\ Present(wheel) # {}
      BY <1>3, <2>6, <3>1 DEF Inv, Consistent
    <3>3. Steady' => Present(Empty) # {}
      BY <3>2 DEF Agree, Due
    <3> QED BY <3>3 DEF Present, Empty
  <2>8. Locked' /\ Consistent' /\ Holder' = Holder
    BY <1>1, <2>3, <2>4, <2>7, BesideInv
  <2>9. alone => (repair.past \/ ~Due(row)) /\ repair'.wheel = wheel'
    BY <1>3, <2>1, <2>2, <2>6 DEF Due
  <2>10. Undisturbed'
    BY <1>1, <1>3, <2>2, <2>8, <2>9 DEF Undisturbed, RepairMends
  <2> QED BY <2>5, <2>8, <2>10 DEF Inv
<1>5. CASE ~Surplus(repair.row, repair.wheel)
  <2>1. repair' = [NoRepair EXCEPT !.at = "done", !.past = repair.past] /\ UNCHANGED <<wheel, lapse>>
    BY <1>5 DEF RepairRemove
  <2>2. repair'.at = "done" /\ repair'.past = repair.past /\ repair' \in Repairs
    BY <1>2, <2>1, EmptyTyped DEF NoRepair, Repairs
  <2>3. Typed'
    BY <1>1, <2>1, <2>2 DEF Inv, Typed
  <2>4. Locked' /\ Consistent' /\ Holder' = Holder
    BY <1>1, <2>1, BesideInv DEF Inv, Typed
  <2>5. alone /\ (~Listed(row) \/ repair.past) => wheel = Empty
    BY <1>2, <1>3, <1>5, NoEntry DEF Surplus
  <2>6. Undisturbed'
    BY <1>1, <1>3, <2>1, <2>2, <2>4, <2>5 DEF Undisturbed, RepairMends
  <2> QED BY <2>3, <2>4, <2>6 DEF Inv
<1> QED BY <1>4, <1>5
-----------------------------------------------------------------------------
LEMMA NextInv == Inv /\ [Next]_vars => Inv'
<1> SUFFICES ASSUME Inv, [Next]_vars PROVE Inv'
  OBVIOUS
<1>1. ASSUME NEW c \in Caller, NEW kind \in Kind, NEW level \in Level, NEW enabled \in BOOLEAN,
             Read(c, kind, level, enabled)
      PROVE  Inv'
  BY <1>1, ReadInv
<1>2. ASSUME NEW c \in Caller, LogOp(c) \/ WriteRow(c) \/ ChangeWheel(c) \/ RollBack(c) \/ EndOp(c)
      PROVE  Inv'
  BY <1>2, LogOpInv, WriteRowInv, ChangeWheelInv, RollBackInv, EndOpInv
<1>3. CASE \E l \in Level : TaskEnds(l)
  BY <1>3, TaskEndsInv
<1>4. CASE Restart
  BY <1>4, RestartInv
<1>5. CASE Repair
  BY <1>5, RepairListInv, RepairWheelsInv, RepairAddInv, RepairRemoveInv DEF Repair
<1>6. CASE UNCHANGED vars
  <2>1. Holder' = Holder
    BY <1>6 DEF vars, Holder
  <2>2. Typed'
    BY <1>6 DEF Inv, Typed, vars
  <2>3. Locked' /\ Consistent'
    BY <1>6, BesideInv DEF Inv, Typed, vars
  <2>4. Undisturbed'
    BY <1>6, <2>1 DEF Inv, Undisturbed, RepairMends, vars
  <2> QED BY <2>2, <2>3, <2>4 DEF Inv
<1> QED BY <1>1, <1>2, <1>3, <1>4, <1>5, <1>6 DEF Next

(* Whatever operations run, interleave and fail, and wherever the server   *)
(* crashes, the row of a task and the wheels agree when nobody works on    *)
(* it, or a log or one of the named lapses says why not.                   *)
THEOREM RowAndWheelStayAgreed == Spec => []RowAndWheelAgree
<1>1. Inv => RowAndWheelAgree
  BY DEF Inv, Consistent, Steady, RowAndWheelAgree
<1> QED BY <1>1, InitInv, NextInv, PTL DEF Spec

(* RepairInconsistentState, if nothing happens beside it, mends whatever   *)
(* it finds, with any number of wheels and entries.                        *)
THEOREM UndisturbedRepairMends == Spec => []RepairMends
<1>1. Inv => RepairMends
  BY DEF Inv, Undisturbed, RepairMends
<1> QED BY <1>1, InitInv, NextInv, PTL DEF Spec
=============================================================================
