# TLA+ models of timewheel and its skills

TLA+ modules, TLC runs and TLAPS proofs for this repository: the time wheel
scheduler of `src/timewheel` (Go) with the service that keeps its tasks in a
database, and the programs under `src/skills` (Python): the tools that edit
Office files, and those with which a skill is developed and tested.
`src/pkg`, `src/internal` and `src/cmd` hold an older copy of the scheduler;
all references to Go files below are to `src/timewheel`.

## 1. The system

### The scheduler

| Component | State | Operations | Hard behaviour | What makes it correct |
|---|---|---|---|---|
| Time wheel, `pkg/timewheel/{timewheel,task,scheduling,pool,types}.go` | slots with doubly linked lists of `taskSlot` (`slotsMu`), 64-shard task map (`shard.mu`), `sync.Pool` of nodes, semaphore, `running`, `ctx` | AddTask, RemoveTask, UpdateTask, batch forms, ClearAllTasks, PauseTask, ResumeTask, Start, Stop; the rotation (`runLoop`, `tick`); `executeTask` on pool goroutines | executions keep a node across the user's function while callers remove and reuse it; `executed++` without a lock; panics; Stop against everything | lists, map and pool agree; no task is lost or run too often; the semaphore is balanced; Stop leaves nothing running and returns |
| Alert state machine, `alert.go` | `alertState`, `pendingSince`, `lastFiredAt` of a node | `computeAlertState`, `handleAlertStateLocked` | results out of order, callback under the shard lock | legal transitions only, Firing only after For, repeats not closer than RepeatInterval |
| Multi-level wheel, `multi_level_timewheel.go` | three wheels, one pool manager | AddTask by priority, UpdateTask across wheels, Start, Stop | one ID in two wheels, shared pool released by the first Stop | an ID is in at most one wheel |
| Pool manager, `pool_manager.go` | pools by priority | Execute, Release | Execute after Release | each accepted execution runs |
| History manager and SQLite store, `history.go`, `store_sqlite.go` | bounded list, bounded channel, batch | Record, persist, Close | full channel, Close with records queued | accepted records reach the store |
| Task service, `internal/service/task_service.go` | rows of the database, the wheel | Create, Update, Delete, Enable, Disable, Pause, Resume | two stores changed one after the other, no lock | enabled rows = tasks of the wheel |
| Atomic task service, `task_service_atomic.go`, `operation_log_repository.go` | the same, operation log, lock per task | `executeAtomically`, RepairInconsistentState | rollback, crash between writes, repair against live calls, more tasks than the repair's page | after repair, rows and wheel agree |
| Distributed lock, `pkg/distributed/lock.go` | redis key, local map | TryLock, Unlock, Renew, cleanup | expiry, Unlock by a former holder | one holder |
| Snowflake, `pkg/snowflake/snowflake.go` | last time, sequence | Generate, ParseID | sequence overflow, clock moved back, restart | IDs are unique and grow |
| Webhook, `pkg/webhook/webhook.go` | queue, batch | SendWithRetry, Enqueue, Start, Stop | full queue, Stop with a batch left | accepted alerts are sent |
| HTTP middleware, `internal/server/middleware` | rate limiter map | RateLimit | map shared by requests | limit per client and window |

Handlers, repositories, configuration, logging, options, health and the
process's main translate, query or print; they keep no state that interleaves.

How they interact: handlers call a task service; a task service writes a row
through a repository and calls the wheel; the wheel calls the user's function,
then the alert state machine, which calls the history manager, the store and
the callback (the webhook). The multi-level wheel calls three single wheels
that share a pool manager.

### The skills

Every directory of `src/skills` with scripts is a tool of its own. `docx`,
`pptx` and `xlsx` carry three equal copies of `scripts/office` (unpacking,
packing, validators); the map names the copy of the format it models.

| Component | State | Operations | Hard behaviour | What makes it correct |
|---|---|---|---|---|
| Presentation tools, `pptx/scripts/{add_slide,clean}.py`, `office/validators/{pptx,base}.py`, `office/pack.py` | the unpacked directory: parts, their relationships, content types, the slide list in `presentation.xml` | add a slide from a layout or a copy, clean, pack; the author edits files by hand between | cleaning is a fixed point over references, may be interrupted, and runs at any moment of the author's work | cleaning removes exactly what is not needed; what is packed opens |
| Document tools, `docx/scripts/office/**` | `document.xml` (runs, tracked changes), the original file | unpack (merge runs, simplify redlines), validate, repair, pack (condense) | four passes over the text, each with its own idea of white space | no text is lost; rejecting the changes gives the original back |
| Comments, `docx/scripts/comment.py` | five parts, markers in the body | add a comment or a reply; repair IDs | a call that fails after some of the parts were written | the parts agree |
| Workbook recalculation, `xlsx/scripts/recalc.py` | cached values, the user's macro | recalc | a time-out whose exit code is accepted, values that were never stored | a report of success is of the formulas, which the code does not ensure (section 10) |
| Trigger evaluation and description loop, `skill-creator/scripts/{run_eval,run_loop,improve_description,quick_validate,package_skill}.py` | command files, `claude` processes, streams; train and test results, history | evaluate queries in a pool, improve, choose the best, package | runs share the command directory; timeouts, early returns, a dead worker | only the run's own command counts; held-out queries stay unseen; nothing is left behind; it ends |
| Review and benchmark, `eval-viewer/generate_review.py` and its page, `aggregate_benchmark.py` | `feedback.json`, the page's copy, runs on disk | serve, load, save, submit, next iteration; aggregate | a page that loaded before a save or a run; a save that fails; order of directories | feedback that was saved is not lost; the delta is the skill's, up to its rounding |
| Test servers and MCP evaluation, `with_server.py`, `mcp-builder/scripts/evaluation.py` | processes and ports; questions and scores | start, wait, run, stop; ask, call a tool, score | failures and interrupts in the middle | no server is left |
| Other scripts (pdf, gifs, thumbnails, reports) | none between calls | one pass over a file | | |

They interact through files only: the author (a person or an agent that follows
SKILL.md) and the scripts take turns on one unpacked directory; the loop, the
viewer and the aggregation read what runs wrote.

The hazards of each component, at their lines, are in `PROJECT.json`.

## 2. Modules and plan

| Modules | Model | Composition | Proofs |
|---|---|---|---|
| `TimeWheel` | the single wheel | | `TimeWheelProofs`, `TimeWheelListProofs` |
| `Alert` | the alert state of one task | | `AlertProofs` |
| `TaskService` | rows, wheels, logs and repair for one task | | `TaskServiceProofs` |
| `Deck` (abstract), `Slides`, `Editing` | presentations | `Office` | `SlidesProofs` |
| `Redline`, `Document`, `Editing` | documents and comments | `Office` | `RedlineProofs` (lemmas), `OfficeProofs` (comments, types, texts, careful authors) |
| `Workbook` | recalculation | `Office` | `OfficeProofs` |
| `Trigger`, `SkillLoop` | runs of queries inside the loop that improves | `SkillTools` | `SkillProofs` |
| `Review`, `Benchmark`, `WithServer`, `Evaluation` | the other tools | `SkillTools` | `SkillProofs` |

`Office` composes what shares a directory and an author: the suffix of the file
picks the format, and with it what `unpack.py`, `pack.py` and `validate.py` do.
`SkillTools` puts tools side by side that share nothing but the directory of
skills. `MC*` modules give the constants their values.

Still to do, in this order: `MultiLevel` and the pool manager over the abstract
wheels of `TaskService`, with Start during Stop; `WheelClock`, the arithmetic of
slots, runAt and Resume, against "executed within one rotation of runAt";
`Snowflake` with uniqueness proved; `HistoryStore` and `Webhook` (bounded queue,
batch, stop).

## 3. The core: `TimeWheel.tla`

### State

`slots`, `next`, `prev`, `slotIndex`, `task`, `ctx`, `paused`, `executed` are
the fields of the same names; `shard` is the task map, all shards together;
`taskPool` are the nodes `sync.Pool` may return, a finite supply, since Get may
hand out any node put back or a new one. `due[n]` says that `now >= runAt`.
`phase` and `loop` are `running` and the goroutine of `runLoop`; a Stop waits for
it (`wg`) while `stopping` and for the executions (`taskWg`) while `draining`. `client[c]` is how far a caller is in AddTask or UpdateTask,
with the copies it holds. `pc[e]`, `info[e]`, `cur[e]`, `seen[e]` are the
program counter and locals of one `executeTask` call; `<<n, k>>` is the k-th
simultaneous execution of node n.

Three history variables state properties: `ran[n]` counts the calls of the task
function since the node was prepared; `fresh[e]` is true while the node of e has
been neither unlinked, moved nor recycled since `tick` collected it;
`staleActed` becomes true when an execution that is not fresh writes to a node
that holds a task: its count (`StoreExecuted`), or its place in lists and map
(`HandleTaskScheduling`).

### Actions and the code

Everything done under one lock is one action: `Remove` (RemoveTask whole),
`AddCommit` and `AddRejected` (AddTask from `shard.mu.Lock`),
`HandleTaskScheduling` (the locked end of `executeTask`), `PauseTask`,
`ResumeTask`, and `Tick`. What runs without a lock is split where another
goroutine can come between: AddTask is `Admit` (validation and the running
check), `Prepare` (Get and filling the node) and the locked end; UpdateTask is
the copy under the read lock, `UpdateRemove`, `UpdateAdd` and
`UpdateRollback`, each AddTask in it again in its three steps; `executeTask` is
`AcquireSemaphore`, `SkipExecution`, `CheckTaskState`, `CopyTaskInfo`,
`RunTask`, `CallRun`, `RunReturns` or `RunPanics`, `LoadExecuted`,
`StoreExecuted`, `Recheck`, `HandleTaskScheduling`, `Finish`. Batch calls loop over
the single ones. ClearAllTasks is one action per task, which allows more
interleavings than its lock per shard does.

Abstractions, each named at its place:

- time: a slot index computed from the clock is any slot, `due` becomes true at
  any moment (`TimePasses`). `tick` collects by slot and due bit as the code does.
- `executeTask`'s locked end locks the shard of `info.ID`; after a stale
  execution acted this need not be the shard of the node's task. The section
  stays one action there; nothing but `TasksAlwaysReachable` is claimed of those
  states, and its counterexample does not use it.
- a node put into the pool twice (only a stale execution does that) is in the
  set once.
- the pool accepts every submission and runs it; the alert machine is in `Alert`;
  cache, store and callbacks are not in this module (a callback is assumed not to
  panic, since it would leave `shard.mu` locked).
- Start is called when no Stop is waiting.
- contexts are `live`, `cancelled` or nil. A context is a child of the
  `tw.ctx` of the moment; Stop cancels it, so that a task that has a timeout and
  survived a Stop returns ErrContextCanceled from then on (`RunTask`).

### Bounds

`Overlap` bounds the simultaneous executions of one node, `MaxInFlight` all of
them, `CountCap` the counters (above it a count is not distinguished; every
`Times` is below it), and `Node` the pool. `Tick` waits when a bound is reached,
which postpones a rotation and leaves no action out.

### Properties

- `ListsIntact`, `NoTaskLost`, `MapIntact` (until `staleActed`): lists, map and
  pool agree, and a walk from a slot's head reaches every registered task of it.
- `RunsBounded`: no more calls than the mode allows. It assumes that a run does
  not outlast a rotation (`Overlap = 1`): `tick` does not look whether a task is
  already being executed, and two executions of a Once task are both run.
- `RetiredAfterTimes` (until `staleActed`): a FixedTimes task is retired only
  after Times calls. Increments of `executed` are lost when executions overlap,
  which prolongs the task; a run skipped on a cancelled context is counted, which
  is why the property is about tasks without a timeout. A stale execution's
  increment would be counted for the node's next task and end it early.
- `UpdateKeepsTask` (until `staleActed`): UpdateTask leaves the ID registered, whatever fails in
  between and whoever adds it meanwhile, unless the wheel is being stopped.
- `SemaphoreSound`: tokens in the channel are exactly the executions that
  acquired one and have not run their deferred function.
- `StopQuiesces`: from when Stop waits for the executions none is added, and none
  is left when it returns. The rotation goes on after the cancellation, by a turn,
  and adds executions: it must have ended before the second wait begins. Stop is
  `StopBegin`, `LoopAwaited` and `StopEnd`, and the mutant swaps the two waits.
- `StopReturns`, `DueTaskRuns`.

## 4. The alert state machine: `Alert.tla`

`HandleAlertState(now, isFiring)` is `handleAlertStateLocked` whole: the new
state and `pendingSince` of `computeAlertState` (`NewState`, `NewSince`), the
repetition (`Repeats`), `lastFiredAt`, and what the history manager and the
callback (`records`, called at the same places), the store (`stored`) and the
counter get. `now` is the time of the rotation that started the execution, so
executions that overlap may hand in an older time after a newer one: `Tick`
starts an execution or none, `inflight` are those in progress, and any of them
may be next. `NoResult` is an execution that ends without reaching the state
machine (paused, panicked, removed). `AddTask` reuses the node: `ResetAlertState` is
the reset in the code. `log` is a history variable, the results handled.

Executions end with their task here. One that outlives it writes the alert
state of the node's next task; that is the stale execution of `TimeWheel`.

- `StateFollowsResults` compares the state, which the code keeps with one
  `pendingSince`, with `Expected`, which is read off the whole log.
- `HeldThroughout` is the README's promise: Firing only after the condition held
  continuously for For. `HeldWhenInOrder` is what is left of it: it holds when
  results are handled in the order of their times.
- `RepeatsSpaced`: repetitions are RepeatInterval apart in any order of results.
- `HistoryAgrees`: a change of state is stored, recorded and notified together, a repetition
  recorded and notified but not stored, and the counter counts both. The records that
  are changes are named by their positions (`Changes`): they are as many as the stored
  states, in the same order.

## 5. The task service: `TaskService.tla`

One task of `task_service_atomic.go`. `row` is its row, soft deletion included;
`wheel` has its entry in each of the wheels, of which a priority picks one;
`dirty` are the wheels whose pool has a node that is still marked paused
(task.go:307). What a wheel does with its entry is `TimeWheel`'s.

An operation is `Read` (GetByID and the early returns, without the lock),
`LogOp` (the lock of the task, the operation log), `WriteRow` (dbOp),
`ChangeWheel` (twOp; `Wanted` says which call), `RollBack` (rollbackDB) and
`EndOp` (the status, the unlock), so that a failure, a crash or another caller
can come between any two. `Written` and `RolledBack` are the seven operations'
own. `Restart` is a crash with `restoreTasks` at the next start; `TaskEnds` is a
wheel that removes a finished task. `RepairInconsistentState` is four steps,
because it reads rows, then wheels, and then acts on both lists without a lock.
The rows it reads are one page of the 10000 enabled tasks created last
(task_service_atomic.go:491-496, task_repository.go:111). The other tasks are not
in the model, so that the task is on that page or past it, as it may be; past it
the repair sees no row (`PageOf`).

`lapse` and `alone` are history variables. `lapse` keeps the first of the things
by which the code lets row and wheels part without a trace; each is a line of
the code, found as a counterexample of the property without it:

- the row changed between the read and the lock (:358);
- an update that the wheel refuses has removed the old entry already, and the
  log says only `failed` (:418-428);
- an update of a paused task does not reach its entry;
- a node that was left paused;
- a repair beside an operation;
- a repair whose page the task is past: its entry is removed as an orphan's;
- a status update that fails is ignored, so that a `rollback_failed` is lost;
- `restoreTasks` passes over a task that is refused;
- a task that ended itself.

- `RowAndWheelAgree`: between operations they agree, or a log asks for a repair,
  or one of these happened.
- `RepairMends`: a repair that nothing happens beside leaves a task of its page that
  is due in some wheel, and one that is not enabled in none, even an entry in two
  wheels. It leaves an enabled task past its page in none, too.

## 6. Office files: `Office.tla`

The scripts run one at a time. Between them the author edits, and is modelled
with what SKILL.md and editing.md ask for and with the usual mistakes; `lapses`
(history) names the mistakes, and what was wrong with a document before any edit
(`DocumentLapses`: it would have been refused as it was, or lost xml:space when it
was unpacked), so that `CarefulAuthorPacks` can say that whoever has none is never
refused. One mistake SKILL.md does not name, a newline at the end of a text without
xml:space, which the repair does not know, is a lapse wherever an edit writes it
(`NewlineLapse`): in what is left of a run, or in a deletion that is restored. Only clean.py is split: it may be interrupted.

**`Slides`** has the parts as numbers (slides) and model values (layouts, notes,
pictures, charts, drawings, diagrams, themes, trash, and `Unswept`: comments,
ActiveX controls and what else is in no directory that clean.py:172 names);
`relsOf[p]` is `p`'s `.rels` file,
`presRels` that of presentation.xml, `sldIdLst` its list of slides, `overrides`
the content types, `uses[p]` what the XML of p refers to. `CreateSlideFromLayout`
and `DuplicateSlide` are add_slide.py whole; the printed `<p:sldId>` is pasted by
the author (`PasteSldId`), who may add another slide first. clean.py is
`RemoveOrphanedSlides`, `RemoveOrphanedFiles` (one turn of the loop, which ends
when a turn deletes nothing), `UpdateContentTypes` and `CleanFails`. A slide that
it removes may be the last that leads to an unswept part, which then stays and
which pack.py refuses as an unreferenced file (base.py:361): this is the lapse
`stranded`, the only one that is clean.py's and not the author's.
`PackPresentation` is validate and pack; `PresentationValid` has one conjunct
for each check of the validator. `RelationshipIds` looks at r:id, r:embed and
r:link only (base.py:424), so that it says nothing of the r:dm, r:lo, r:qs and
r:cs by which a slide refers to the parts of a diagram.

**`Deck`** is the abstract specification: a deck is what its listed slides show,
in a package of slides, with the turn of who is at work. In the author's turn a
slide is inserted, removed or trimmed of what it shows (`Insert`, `Remove`, `Trim`),
or nothing of it changes (`Touch`). `Provide` is add_slide.py: one slide more in the
package, which is listed at once only if an entry already waits for its
relationship ID, and nothing else changes. `Clean` is clean.py: slides that are not listed leave the
package, and nothing of the deck changes. `Judge` is pack.py and validate.py, which
change neither. `DeckSpec` is `Deck`'s Spec under the mapping "the listed slides,
and what each reaches through relationships", with `Turn` "cleaning" from clean.py's
first step to its last: a cleaning that takes a listed slide, or a part that one
shows, is no step of `Deck`, since none that removes is allowed in its turn. A picture that only a
chart of a drawing refers to is not among what a slide shows: clean.py does remove it.

**`Redline`** has the pure part of documents, a body of paragraphs of runs,
texts with `xml:space` and changes by author: `Simplify` (simplify_redlines.py),
`MergeRuns` (merge_runs.py), `RepairWhitespace`, `WhitespacePreserved`,
`DeletionsValid`, `InsertionsValid` (validators), `Redlined` (redlining.py),
`Condense` (pack.py). A text is a sequence of letters, since white space at its
ends is what these functions differ about. The constants `Char`, `Format` and
`Person` are what letters, formats and authors may be, and `Body` is the type of
all bodies over them. `AllTexts` lists the texts of a body, each with its format
and the authors that inserted and deleted it: `Letters` and `TextContent` (what
redlining.py compares) read that list.

**`Document`** has the author's edits, comment.py (`AddComment`, with the reply
that fails after comments.xml was written) and `PackDocument`, `ValidateDocument`.

**`Workbook`** is recalc.py; the formulas come to a value or to an error, the values
are stored or not whatever the exit code is, and some text cell may spell an error.
Its types are checked; no property binds the report to the formulas, since the code
does not (section 10).

- `NothingLeftBehind`: what a cleaning that ended leaves is reached from a listed
  slide, a layout or an unswept part in some number of steps. It is stated with sets
  of files that hold these roots and are closed under relationships: none but the
  set of all files is one. The exit of clean.py's loop says less: that each file has
  a referrer, which a cycle of orphans would have as well. It is enough
  because charts and drawings keep relationships only while a slide leads to them,
  and notes lead back to their own slide.
- `DeclaredPartsExist`, `CleanEnds`, `DeckSpec`: cleaning is consistent, ends, and
  touches nothing that is shown.
- `PackedOpens`: the slides of a packed file are there, once each, and so is whatever
  a part of the package refers to in its XML, by a relationship. Not covered, because
  pack.py does not look: diagrams, and what a chart or drawing that is on no slide
  itself refers to, whose `.rels` clean.py removed.
- `CarefulAuthorPacks`; `UnpackKeepsText` (letters, formats and authors survive
  unpacking); `PackedRestores` (rejecting Claude's changes in the packed file,
  as Word would read it, gives exactly the text of the original); `CommentsAgree`.

## 7. Skill tools: `SkillTools.tla`

**`Trigger`** is run_eval.py: `Begin` writes the command file of a run and starts
claude, `BlockStart`, `BlockStop`, `NoSkill`, `AssistantMessage` are the events of its
stream, `CutShort` the timeout or the end of the output, `Returns` the `finally`;
`WorkerDies` breaks the pool: every run not ended yet counts as not triggered,
and the command files and claudes of the terminated workers stay (`leftovers`),
which `NoRunLeftBehind` excepts. `picked[t]` is the command claude named. All runs
share `.claude/commands`, and a claude is offered (`Offered`) what is there now or
was there since it started: its own command, one of a run beside it (`beside`), or
one that a run which is over left, if there is any.

**`SkillLoop`** is run_loop.py around it: `SplitEvalSet`, `Evaluate`, `Judge`
(the split of the results by text, the history), `Improve` (with `Blinded`
history, and one shortening of what is too long), `ImproveFails`,
`PackageSkill`. A description is fit or not: too long, or with angle brackets.

**`Review`** has feedback.json, the page's `feedbackMap`, what the reviewer typed and
what the page told them is saved (`typed`, `said`, history) and the next iteration.
A save is `Answered`, by 200 with the file written or by 500 with the file as it was
or emptied (write_text truncates first), and the page says Saved of both; or it is
`Unanswered`, when the server is down or dies while it writes, of which the page
tells, except for the final dialog. `unsaved` is that the last save failed.

**`Benchmark`** has the directories that aggregate_benchmark.py reads, passes and
runs as counts, the means rounded to four digits and the delta rounded to two. A half is
rounded either way, since the floats are not modelled.

**`WithServer`** has the shells, the ports and the children a shell leaves. The script
may be interrupted before its `finally` (`Interrupt`, which may come between the start
of a server and its entry in the list), and killed, or interrupted again, anywhere
(`CutOff`); `cut` keeps the uses that ended so.

**`Evaluation`** has the pairs that parse_evaluation_file reads, all or fewer or none,
and for each the tool calls, their failures and the score. It is typed only: that a
report has a score for each pair read is the loop itself, and whether all pairs of
the file are read the code does not ensure (section 10).

- `CountedAsTriggered`: what counts is the run's own command. A call is missed if it
  was cut short, or was for the command of a run beside this one; a call for the
  command of a run that is over cannot be, as long as its file is removed.
- `NoRunLeftBehind`: no command file and no claude outlives its run, unless a worker died.
- `ServersStopped`: no server outlives its use of the script, and a port is held
  by one that is alive. Excepted are compound commands (terminate() reaches the
  shell alone) and the uses in `cut`. Otherwise the next use would take what
  answers for its own.
- `HeldOutUnseen`, `PackagedIsBest`, `LoopEnds`.
- `FeedbackKept`: what the page said is saved is in the file, but after a failed save
  until the next one, and not after a page was loaded that did not show it.
- `DeltaIsOfSkill`: the delta is within 0.0051 of the difference of the two shares,
  half a unit of each of the digits that are rounded.

## 8. Runs

| Run | Instance | Shows |
|---|---|---|
| `lists` | 2 IDs (Once, priority 0; Repeated, priority 1), 2 nodes, 2 slots, 1 caller, 1 execution in flight | TypeOK and the list and map invariants with both tasks in one list, in two lists, moved and retired |
| `callers` | 1 ID, a valid and an invalid task, 3 nodes, 2 callers, 1 slot | two callers in AddTask and UpdateTask, each with a node of its own while a third is registered; rejection, rollback, Stop in between |
| `counts` | 1 ID, Once and FixedTimes(2), 2 nodes, 2 executions in flight | counts across recycled and reused nodes |
| `overlap` | 1 ID, FixedTimes(2), 1 node, 2 executions of it at once, 2 slots, no semaphore, panics | overlapping executions of one node, in the lists and in the count |
| `live` | 1 Repeated task, 1 node, 2 executions of it, 1 token, panics, pausing, `FairSpec` | the contended semaphore, and liveness; stale executions included |
| `stale` | as `lists`, without the restriction to fresh executions | violation of TasksAlwaysReachable |
| `once` | 1 Once task that panics | violation of OnceRunsOnce |
| `alert` | 4 kinds of task on one node, 5 rotations, any results in any order | the state, the repetitions and the records follow the results |
| `alertorder` | For = 2, 4 rotations | violation of HeldThroughout |
| `service` | 2 callers (symmetric), 2 priorities, 2 operations under the lock, 1 failure, 1 crash, 1 repair | two requests that read the same row, with a failure, a crash and a repair, on its page or past it, at any step |
| `office` | 3 slides, 2 layouts, notes, a picture, a chart, a drawing, a diagram, a comment, a theme, trash, 3 decks, 3 edits; 4 documents, 2 comment numbers, 2 edits; a workbook | every script and check of the three formats in every order |
| `skills` | 2 workers, 1 death, 2 iterations, 5 evaluation sets; 2 runs and one text to say of them, 2 reviews; 3 evaluations with 1 run each; 2 servers, 2 uses; 2 questions with 2 calls | each skill tool with its failures |

Why these are enough: the list operations write a node and its two neighbours,
so a wrong link shows with two nodes in one list and a neighbour that moves; the
proofs below cover lists of any length. Two executions of one node are the
fewest that overlap. Three nodes are the most two callers and one registration
hold. Two slots tell the slot of the rotation from the slot of the node; a run
about counts or callers needs one. Five rotations hold two streaks of firing
results with a For of 2 and a result that is not firing between them.

Why the instances of the last three are enough. `service`: the disagreements need
a read, another operation whole, and the locked end of the first, that is two
operations by two callers; one fault of each kind at any step is what the code
means to survive. Callers are interchangeable, so the symmetry is sound (no
liveness is checked). `office`: of the three decks, one has slides with notes
and a shared picture, one a comment and a diagram, and one a trash file and a chain
of slide, drawing, chart and picture, which takes clean.py more than one turn; three slides are two to be
confused and one to be added between; two edits of a document are a change and
a change of that change, or a comment and its reply. The four documents have
blanks of each kind at edges, a deletion that cannot be restored as it stands,
changes by two authors, a durable ID too large, and a deletion whose text was
never renamed. `MaxIds = 6` is the IDs of the largest document, two comments and a
repair. `skills`: the five evaluation sets are a split with queries of both
kinds, no hold-out with repeated runs, one text with two expectations, one text
in both sets, and an empty train set. Two runs are what a save of one can cost the
other, and one text is told from none. Three evaluations make shares of thirds, which
are rounded twice.

`service` and `skills` say CHECK_DEADLOCK FALSE: the bound on operations stops
the one, and the tools of the other end. `office` is checked for deadlock.

Fairness of these: `WF(CleanTurn)`, since clean.py, once started, goes on (it
waits for nobody, and an interruption ends the loop as well), and
`WF(LoopGoesOn)`, since the operating system schedules the pool, each run has its
timeout (run_eval.py:99-101), and requests to the API come back or fail. The
author, the reviewer and claude itself are under no fairness.

Constraints: `BeforeStale` stops at the first step of a stale execution, where
all the invariants say nothing. `NonePaused` keeps pausing out of all the
safety runs: it writes nothing but `paused` and `due`, which the worker reads
once; `live`, `stale` and `once` have it, and the proofs. The views leave out fields
no step reads before it writes them: those of a node without a task, and the
locals of an execution past their last use.

`stale` finds: a task is removed while its function runs; its node goes to the
pool and is prepared for another task; the old execution returns, sees
`node.task != nil` and reschedules or recycles the node. `once` finds: the panic
of a Once task skips its removal, so the next rotation runs it again.
`alertorder` finds: the result of rotation 2 (not firing) is handled first, then the
late one of rotation 1 (firing) starts the wait, then the one of rotation 3 ends it.

Fairness (`FairSpec`): the goroutines of the wheel are scheduled (weak fairness
of the rotation, of a started API call, of each execution), the ticker keeps
firing, and task functions return. A send on the semaphore channel is strongly
fair since Go queues blocked senders in order. Calls of the API, the clock
reaching a runAt, and panics are not fair. `DueTaskRuns` starts from a due task.

## 9. Proofs

The theorems about `TimeWheel` are about its `Spec` for every value of the constants under
`TaskAssumption` (tasks are records, Times below CountCap, and above 0 where
AddTask accepts a FixedTimes task), `NullAssumption`
(nil is none of the values) and `BoundAssumption` (finite nodes, at least one
slot, natural bounds).

`TimeWheelProofs` has the type invariant and the lemmas about lists.
`TypeInv` is TypeOK with `ClientOK`: which fields of a call, and which locals
of an execution, are set at each label; without it the records read by
`AddCommit` or `ShouldReschedule` could be NULL. `TypeCorrect` is
`Spec => []TypeOK`. The lemmas say of each list operation, for any set of
listed nodes: unlinking, inserting at the head, inserting after a node of the
same slot keeps `WellLinked` and `Reachable` for the set without, or with, the
node. Reachability is stated with closed sets of nodes, not with paths: L is
reachable when every set that holds the heads and is closed under `next`
contains L. This makes the lemmas provable without induction over lists.

`TimeWheelListProofs` proves `ListsStayIntact`, `TasksAreNotLost` and
`MapStaysIntact` from one inductive invariant, `ListInv` = TypeInv and, until
`staleActed`, `Sound`:

- `Lists`: WellLinked and Reachable for the registered nodes;
- `EntriesRight`, `PreparedPrivate`: each entry's node holds a task of that ID
  and is not pooled; the nodes of different AddTask calls differ, and are
  neither registered nor pooled;
- `FreshOK`: a fresh execution's node is registered, in the slot `cur[e]` its
  locals name, and holds the task copied. This is what makes
  `slots[currentSlot]` in rescheduleTask and removeTask the right head, and
  `delete(shard.tasks, info.ID)` the right entry; it is exactly what a stale
  execution lacks.

Three more theorems of the module rest on `ListInv`, each with a part of its own
that speaks of the state until `staleActed`. `UpdatesKeepTheirTask` needs
`OldKept`: a call that is about to remove or has just removed the old task holds
a copy of it. `RunsStayBounded` (runs of a node do not overlap, none panics) needs
`CountsRight`: `ran` is ahead of `executed` by one at most and only between the
call and the store, and `executed` reaches the limit only in the execution that
retires the task. `RetiredOnlyAfterTimes` (any overlap, panics too) needs
`AllCovered`: `executed`, and every value loaded from it, plus the number of fresh
runs that have not stored yet is at most `ran`, so that racing increments are lost
but never made up. All three read a node only while it is in use, which makes
them hold on nodes that are recycled.

It also proves `StoppedIsQuiet`, from `StopStrong` (the rotation has ended once Stop
waits for the executions, and these are over when it has stopped) and
`OnlyTickStarts` (no other step adds an execution), and `SemaphoreStaysSound`
(each action adds the holder and the token together, by the cardinality
theorems of finite sets).

`AlertProofs` assumes `AlertAssumption` (For and RepeatInterval are naturals).
`StateIsRight` needs `AlertInv`, which adds to TypeOK and StateFollowsResults
that `pendingSince` is the time of the first result of the current streak
(`SinceRight`): without it the step from Pending to Firing says nothing about
the log. The lemmas say how appending one result changes `Streak` and `Held`:
`NotFiring` ends the streak, `Lengthened` and `GoesOn` prolong it, `Reaches`
says when it first holds; no induction over the log is needed. `FiringHeldThroughout`
follows from the same invariant. `RepeatsAreSpaced` needs `LastRight`: while
Firing, `lastFiredAt` is the time of the last record. `HistoryStaysInStep`
is inductive with the types (`HistoryInv`): a step appends one record, and the
cardinality theorems say what that does to the positions of changes and of Firing.

`TaskServiceProofs` (assumption: at least one priority, natural bounds) proves
`RowAndWheelStayAgreed` and `UndisturbedRepairMends`, for tasks on the repair's page
and past it, from `Inv` = `Typed`,
`Locked` (only one caller is past the lock, and the last log is its own),
`Consistent` (row and wheels agree when nobody holds the lock; `Underway` says,
for each label of an operation, which row the wheels agree with: the one that was
read until the wheels have changed) and `Undisturbed` (while a repair is alone, the lists it read are
still those of the row, or of none if it is past the page, and of the wheels). Without the part for each label, a step
under the lock says nothing about the state it ends in.

`SlidesProofs` assumes `SlidesAssumption`: kinds of parts are disjoint,
relationships of presentation.xml lead to one slide each. `ScriptsKeepDeck` is
the refinement `Spec => DeckSpec`, with one lemma for each script and edit that gives
its step of `Deck` in its turn. The invariant is `Connected` (relationship IDs
are unique and bounded, and lead to slides that are there), `Wired` (each `.rels`
file is of a part that is there, or of a chart or drawing, and those that are not
slides' are as in the original) and `Tidy` (while clean.py is at work every slide is listed
and nothing was judged; what is gone and what is declared). That the new slide number
and relationship ID are fresh is `BoundedHasMax`: a bounded set of naturals has
the maximum that `Max` chooses, by the well-founded order of the naturals.
`NoDeadDeclarations` follows from `Tidy`; `CleanIsThorough` is `ThoroughReaches`: when
a turn removes nothing, what is left has a referrer that is left, which is a root, or a
chart or drawing on a slide, or notes or a theme, whose referrers are roots or these.
`PackedDeckOpens` takes from `Wired` that what has references has a `.rels` file,
without which pack.py would check nothing of it.
`CarefulAuthorIsPacked` (in `OfficeProofs`) needs, for presentations,
`OriginalAssumption` (a file that is unpacked would pass the validators, but for
what is in [trash]; its slides lead to listed slides only, and comments and
controls are on slides) and the invariant `Sound`, which for an author whose only lapses are what
clean.py mends consists of `ListSound` (slide IDs are unique and lead to
relationships, one printed element waits at most, with an ID of its own),
`LinksSound` (what a part leads to is there and stays: slides lead to listed slides,
and only notes lead to their slide), `PartsSound` (parts have relationships for what
they use, diagrams excepted, one layout, notes of their own, no new error),
`UnsweptSound` (comments and controls are on some slide, or `stranded` is among the
lapses) and, when nothing is left to clean, `Clear` (every other file is referred to). Without `LinksSound` a removal by
clean.py could break a reference of a slide that stays; `Loose` excepts the notes of a
slide that clean.py has just removed and which it will remove in its next turn.

`OfficeProofs` proves `CommentPartsAgree` under `DocumentAssumption` (the parts
of the file that is unpacked agree) from `CommentsInv`: the properties with
`Drawn`, that no ID is above the last one drawn, by which a reply's ID is above
its parent's; `RepairKeepsIds` is the lemma about repair_durableId. It also
proves `OfficeIsTyped`, from `FormatTyped`: each format has its own types, to which
presentations add that relationship IDs are bounded (`SlidesTyped`) and documents
that bodies are bodies, that the paragraphs are as many as at first and that only
a repaired durable ID is above the bound (`DocumentTyped`).

It proves `UnpackingKeepsText` and `PackingRestores` as well, for every document
over any letters, formats and authors, from `TextInv`, whose part `Packed` says that
what was packed is `Condense` of a body that kept its white space and was
redlined. The assumptions are DocumentAssumption (the file's body is a body; Claude,
the format and the letter the author writes with are among the constants) and
RedlineAssumption (blanks are letters, and nobody is no person). The lemmas are
those of `RedlineProofs`. `FlattenSeq` and the folds of the functions that merge are
unfolded as functions on 0 .. n, so that appending one element is a step of an
ordinary induction (`SeqInduction` comes from the minimum of a set of naturals).
`Each(g, s)` joins what g gives for the elements of s. A g that reads a list of
texts and for which joined texts read as the two one after the other (`Additive`)
reads the same before and after each function of unpacking: `ConsolidateKeeps`
(one run), `RunsMergeKeeps` (two runs), `TrackedMergeKeeps` (two changes), then at
each depth up to `UnpackKeeps`. Letters are additive, hence the first theorem.
`OnTsReads` says that changing every text of a body by f and reading it by g is
reading it by `After(f, g)`: for f that repairs, condenses or reads as Word does,
After reads the same as g where white space is preserved, hence the second.

For documents `CarefulAuthorIsPacked` assumes nothing more: that the file was valid is
part of having no lapse. `DocumentSound` is the invariant. While there is no lapse, it
keeps the comments (`CommentsSound`: numbered once, all their parts or none, marked
whole) and the body (`BodySound`), of which two things are read. `LeftOf("Claude")`,
what is left without Claude's changes, reads in each paragraph what it read in the
original. `WrongOf` reads nothing: it gives something for a text that the validators
would refuse after the repair (`Right`: its ends are kept or can be repaired, a
deleted text is a `w:delText`, an inserted one is not). Each edit puts nodes
for one node of a paragraph (`SoundEdit`), and without a lapse they are `SoundFor` it:
they say what it did and have nothing wrong if it had not; `ReplacedReads`
carries that to the body. It is shown edit by edit, from what is read of a run, of a
change around runs, and of a deletion within an insertion, with After for
the texts that are deleted or restored. A repair leaves what `LeftOf` reads
and what is right (`RepairedBody`); that unpacking does is `UnpackKeeps` again
(`UnpackedIsRight`), its readings being additive. PackDocument then finds each
conjunct of `DocumentValid` true.

`SkillProofs` uses the assumptions of the tools' modules (workers and servers are at
least one, bounds are naturals). Its `Inv` has a part for each tool: `RunsInv` (command files and
claudes are those of running runs, unless a worker died; all running runs are beside
each other; what was picked was offered; who has not returned has not answered),
`LearntFromTrain` (what was shown is of the train set, and so is what the history will
show), `ServersInv` (the servers of the use under way are among the started ones, and
those it has yet to stop, but for the named exceptions), `ReviewInv` (until a page is
loaded that does not show what was saved: the file says what the reviewer was told is
saved, unless the last save failed, an open page says what the reviewer typed, and a
page that has yet to ask knows every run of the file), `BenchmarkInv` and
`EvaluationInv`. With the bounds of the loop (`LoopBounds`) they give `SkillToolsTyped`, `OwnCommandCounts`,
`NoRunStaysBehind`, `ServersAreStopped`, `FeedbackStays` and `TestSetStaysBlind`.
`BestDescriptionWins` needs `BestInv`: the queries that run are those of the items, each
entry of the history has the results of queries of the train set apart from the
others (`EntryRight`), and `best` is `Best(history)` once the loop ended. `DeltaIsNear`
rests on `ResultsAre`, an induction on the evaluations read: nothing is listed before
the first one with a run, and both configurations, in their order, with what was
counted so far, from it on; and on a lemma that adds up the errors of three roundings.

The prover does not reach liveness under fairness (DueTaskRuns, StopReturns,
CleanEnds, LoopEnds): these are model-checked only. Every other property that a
passing run checks is stated by a theorem.

## 10. What the models show and no property claims

These are what the code does, found while modelling it. Where a property would
fail, it names the case as an exception.

Wheel: a node put back by RemoveTask keeps `paused`, so a task added on it may be
born paused; after a rescheduling a list is no longer in priority order, although
README.md:138 calls it sorted; an AddTask that passed the running check before a
Stop may register its task, with a live context, after Stop returned.

Task service: delete and disable of a task that no wheel has always fail and roll
back; a create that fails leaves a deleted row whose ID can never be created
again; GetPendingRepairs selects only `rollback_failed`; the service is not wired
into server.go; the repair's comment says all enabled tasks (:490, 获取数据库中所有启用的任务)
where it reads a page of 10000, and those past it are removed from their wheels (:527-531).

Presentations: two slides added before either is pasted are printed with one id
(add_slide.py:158-162); cleaning before pasting deletes the added slide; targets
with an absolute path are deleted by clean.py (:40, :119, :162) although the
validator accepts them (base.py:332); slides, notes and layouts have no schema to
be checked against (base.py:685-701); a slide that links to a removed slide keeps
a broken reference; a chart that only a drawing refers to loses its relationships
(clean.py:128-150); parts without a `.rels` are not checked, nor are the r:dm, r:lo, r:qs and
r:cs of a diagram (base.py:424); comments and controls of a slide that clean.py removes
stay (clean.py:172), and pack.py refuses them as unreferenced (base.py:361).

Documents: merge_runs.py:192-196 drops xml:space where a newline is at an edge,
the repair (base.py:124) puts it back for spaces and tabs only, and the validator
(docx.py:80) then refuses a document nobody changed; pack.py:108-128 drops a
`w:delText` of blanks only; with no change by Claude left, nothing is compared
(redlining.py:51-54); a failed reply leaves a comment without IDs (comment.py:239
before 256-258) and, as the first comment, relationships to parts that are not
there; repair_durableId (docx.py:391-442) parts commentsIds from
commentsExtensible; validate.py:12 says paraIds are repaired, and they are not.

Workbooks: exit code 124 is accepted (recalc.py:96), and with 0 nobody asks whether
values were stored; cells that were never computed count as cells without errors, and
text cells that contain `#N/A` as errors (:119-121); a Module1 of the user is overwritten (:62).

Skills: duplicate queries are merged and the item that ends last decides
what was expected (run_eval.py:213-225); a text may be in both sets
(run_loop.py:106-108); an empty train set counts as all passed (:180); output not
read when claude exits is dropped (run_eval.py:102-106); an error of the API
loses the loop's results; a description may stay too long after one shortening.
`run_single_query` is to return whether the skill was triggered (run_eval.py:4, :43), and a call for
the command of a parallel run, the same skill with the same description, counts as
not triggered.
A page reloaded in iteration 2 or later does not load what was saved
(viewer.html:658-671), and its first save overwrites the rest. It says Saved of any answer,
an error 500 too (viewer.html:1016 against generate_review.py:372-374), and the final dialog
says the feedback has been saved (:637) when there is no server; write_text truncates the
file before it writes. The order in which
configurations come up may flip the sign of the delta, and one without a graded
run counts 0; shares of 14/15 and 13/14 differ, and the delta is written +0.00
(aggregate_benchmark.py:60, :219). All servers are to be stopped (with_server.py:4, :102),
but those of a killed script, of one interrupted in its `finally`, and of compound
commands are not: terminate() reaches the shell and not its children
(with_server.py:69, 96), and such a child answers the next use. Only the first
tool call of a response is answered (evaluation.py:110), and a response without
text ends the evaluation (:168). A pair without an answer is passed over and a file that
does not parse has none (:67, :74-76): the report then has fewer scores, and says so only in
its count.

## 11. Not modelled

See `components` in `PROJECT.json` for each part and its reason. In short:
handlers, repositories, configuration, logging, options, health and the root
copy translate or repeat; the multi-level wheel is modelled only as far as
`TaskService` uses it; the history store, the webhook queue, the snowflake
generator and the caches are left for later; the distributed lock is imported
nowhere; pdf, gif, thumbnail and report scripts are one pass over a file.

Within the wheel: the clock arithmetic, Start during Stop, restoreTasks,
statusLoop, failing pool submissions, the task cache, an alert callback that
panics, a task function that calls Stop (it would wait for itself in `taskWg`).
Within the Office tools: XML itself, namespaces, encodings, tables and fields.
Within the skill tools: what is rendered, a second tab of the page, the markdown
report. The Word document of PackedRestores is compared as text; formatting is not.
