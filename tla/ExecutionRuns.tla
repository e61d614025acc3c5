----------------------------- MODULE ExecutionRuns -----------------------------
(***************************************************************************)
(* Execution results of one project: the tables execution_runs and         *)
(* execution_result_items (result_store.py), the synchronous executions    *)
(* that overwrite the last result of their scope, the background tasks     *)
(* (execute_runs_service.py), the restart of the server (run.py) and the   *)
(* retention clean-up, which is a process of its own.                      *)
(*                                                                         *)
(* What an execution found is one value, named after the execution: a run  *)
(* row tells whose findings it counts, an item row whose finding it is. An *)
(* execution may find nothing: it counts zero and writes no item.          *)
(***************************************************************************)
EXTENDS Naturals, FiniteSets

CONSTANTS
  Scopes,        \* whose results they are: a user's workbench, the fixed rules
  SyncRequests,  \* synchronous executions, each one request
  Tasks,         \* background executions, each one request and its task
  MaxRuns,       \* bound: run rows that exist at the same time
  MaxOverlap,    \* synchronous executions of one scope served at the same time
  OnlineCleanup, \* whether the clean-up may run beside the server, or only without
  MaxCrashes,    \* bound: crashes of the server
  MaxErrors,     \* bound: failed writes that end a task
  NoRun,         \* an id without a run row
  NoResult,      \* a run row that counts no findings
  NoScope        \* a request before it runs

RunIds == 1..MaxRuns
Executions == SyncRequests \cup Tasks

Statuses == {"pending", "running", "success", "failed"}

\* One row of execution_runs; "old" is past the retention period.
Runs == [mode : {"sync", "async"}, scope : Scopes, status : Statuses,
         result : Executions \cup {NoResult}, old : BOOLEAN]

\* One row of execution_result_items.
Items == [run : RunIds, from : Executions]

SyncStates == [pc : {"new", "executed", "persist", "done"},
               scope : Scopes \cup {NoScope}, seen : SUBSET RunIds]

\* A request that was answered, or died with the server, keeps nothing.
Answered == [pc |-> "done", scope |-> NoScope, seen |-> {}]

\* Each write of a task is a reading of its row, then the statements that change
\* it; in between its session holds what the row said: its status, and whether it
\* counted no findings.
TaskStates == [pc : {"new", "queued", "starting", "running", "completing",
                     "failing", "settling", "done"},
               run : RunIds \cup {0}, holds : Statuses \cup {"none"}, holdsEmpty : BOOLEAN]

\* A task whose session holds no row.
At(pc, id) == [pc |-> pc, run |-> id, holds |-> "none", holdsEmpty |-> FALSE]

Ended == At("done", 0)

ASSUME ExecutionRunsAssumption ==
  /\ MaxRuns \in Nat \ {0} /\ MaxOverlap \in Nat /\ OnlineCleanup \in BOOLEAN
  /\ MaxCrashes \in Nat /\ MaxErrors \in Nat
  /\ NoRun \notin Runs /\ NoResult \notin Executions /\ NoScope \notin Scopes
  /\ SyncRequests \cap Tasks = {}

VARIABLES
  runs,       \* execution_runs, by id
  items,      \* execution_result_items
  syncs,      \* the synchronous requests and the run ids they read
  tasks,      \* the background tasks, the run each one writes, and what its session
              \* holds of that row
  collected,  \* ids the clean-up found and has yet to delete
  up,         \* whether the server runs
  crashes,    \* crashes so far
  errors      \* writes so far whose failure ended a task

vars == <<runs, items, syncs, tasks, collected, up, crashes, errors>>

-----------------------------------------------------------------------------
(* The tables *)

LiveRuns == {id \in RunIds : runs[id] # NoRun}

Finished == {"success", "failed"}

\* Async runs whose task has not written an outcome.
Unfinished ==
  {id \in LiveRuns : runs[id].mode = "async" /\ runs[id].status \notin Finished}

\* Fault: the lookup of earlier results forgets the execution mode.
SyncRunsOfAnyMode(scope) == {id \in LiveRuns : runs[id].scope = scope}

\* _load_scope_run_ids with execution_mode = "sync".
SyncRunsOf(scope) == {id \in LiveRuns : runs[id].scope = scope /\ runs[id].mode = "sync"}

\* SQLite hands out the largest rowid in use plus one, here after the rows in
\* "gone" are deleted by the same transaction.
IsNextId(id, gone) == /\ \A j \in LiveRuns \ gone : j < id
                      /\ id = 1 \/ id - 1 \in LiveRuns \ gone

ItemsOf(ids) == {it \in items : it.run \in ids}

\* The items _add_result_items writes for the findings a run counts.
ItemOf(id, result) == IF result = NoResult THEN {} ELSE {[run |-> id, from |-> result]}

NewRun(mode, scope, status, result) ==
  [mode |-> mode, scope |-> scope, status |-> status, result |-> result, old |-> FALSE]

-----------------------------------------------------------------------------
(* Synchronous executions *)

Overlapping(scope) ==
  {s \in SyncRequests : syncs[s].pc \in {"executed", "persist"} /\ syncs[s].scope = scope}

\* The rules have run and produced a summary; one that raises answers 400 and
\* leaves nothing behind (SyncEnds).
SyncExecutes(s) ==
  /\ up /\ syncs[s].pc = "new"
  /\ \E scope \in Scopes :
       /\ Cardinality(Overlapping(scope)) < MaxOverlap
       /\ syncs' = [syncs EXCEPT ![s] = [pc |-> "executed", scope |-> scope, seen |-> {}]]
  /\ UNCHANGED <<runs, items, tasks, collected, up, crashes, errors>>

SyncReadsPrevious(s) ==
  /\ up /\ syncs[s].pc = "executed"
  /\ syncs' = [syncs EXCEPT ![s].pc = "persist", ![s].seen = SyncRunsOf(syncs[s].scope)]
  /\ UNCHANGED <<runs, items, tasks, collected, up, crashes, errors>>

\* Fault: the items of the earlier results are left to ON DELETE CASCADE.
SyncPersistsRunsOnly(s) ==
  /\ up /\ syncs[s].pc = "persist"
  /\ \E id \in RunIds, result \in {s, NoResult} :
       /\ IsNextId(id, syncs[s].seen)
       /\ runs' = [j \in RunIds |->
                     IF j = id THEN NewRun("sync", syncs[s].scope, "success", result)
                     ELSE IF j \in syncs[s].seen THEN NoRun ELSE runs[j]]
       /\ items' = items \cup ItemOf(id, result)
  /\ syncs' = [syncs EXCEPT ![s] = Answered]
  /\ UNCHANGED <<tasks, collected, up, crashes, errors>>

\* Fault: the items of the earlier results are deleted last.
SyncPersistsThenDeletes(s) ==
  /\ up /\ syncs[s].pc = "persist"
  /\ \E id \in RunIds, result \in {s, NoResult} :
       /\ IsNextId(id, syncs[s].seen)
       /\ runs' = [j \in RunIds |->
                     IF j = id THEN NewRun("sync", syncs[s].scope, "success", result)
                     ELSE IF j \in syncs[s].seen THEN NoRun ELSE runs[j]]
       /\ items' = {it \in items \cup ItemOf(id, result) : it.run \notin syncs[s].seen}
  /\ syncs' = [syncs EXCEPT ![s] = Answered]
  /\ UNCHANGED <<tasks, collected, up, crashes, errors>>

\* Fault: the earlier results are not deleted.
SyncPersistsBesides(s) ==
  /\ up /\ syncs[s].pc = "persist"
  /\ \E id \in RunIds, result \in {s, NoResult} :
       /\ IsNextId(id, {})
       /\ runs' = [runs EXCEPT ![id] = NewRun("sync", syncs[s].scope, "success", result)]
       /\ items' = items \cup ItemOf(id, result)
  /\ syncs' = [syncs EXCEPT ![s] = Answered]
  /\ UNCHANGED <<tasks, collected, up, crashes, errors>>

\* One transaction: the rows the request read before are deleted, whether or not
\* they are still there, and its own run and items are inserted.
SyncPersists(s) ==
  /\ up /\ syncs[s].pc = "persist"
  /\ \E id \in RunIds, result \in {s, NoResult} :
       /\ IsNextId(id, syncs[s].seen)
       /\ runs' = [j \in RunIds |->
                     IF j = id THEN NewRun("sync", syncs[s].scope, "success", result)
                     ELSE IF j \in syncs[s].seen THEN NoRun ELSE runs[j]]
       /\ items' = (items \ ItemsOf(syncs[s].seen)) \cup ItemOf(id, result)
  /\ syncs' = [syncs EXCEPT ![s] = Answered]
  /\ UNCHANGED <<tasks, collected, up, crashes, errors>>

\* A request that fails before its commit: the transaction rolls back.
SyncEnds(s) ==
  /\ up /\ syncs[s].pc # "done"
  /\ syncs' = [syncs EXCEPT ![s] = Answered]
  /\ UNCHANGED <<runs, items, tasks, collected, up, crashes, errors>>

-----------------------------------------------------------------------------
(* Background tasks *)

\* The row is committed as pending, then the task is queued with the answer.
CreateTask(t) ==
  /\ up /\ tasks[t].pc = "new"
  /\ \E id \in RunIds, scope \in Scopes :
       /\ IsNextId(id, {})
       /\ runs' = [runs EXCEPT ![id] = NewRun("async", scope, "pending", NoResult)]
       /\ tasks' = [tasks EXCEPT ![t] = At("queued", id)]
  /\ UNCHANGED <<items, syncs, collected, up, crashes, errors>>

\* The row a task is about to start, complete or fail, as it is now: nothing keeps
\* the row of an earlier write in the session, which holds its rows weakly.
LoadRow(t) ==
  LET id == tasks[t].run
  IN  /\ up /\ id \in LiveRuns
      /\ \E step \in {<<"queued", "starting">>, <<"running", "completing">>,
                      <<"failing", "settling">>} :
           /\ tasks[t].pc = step[1]
           /\ tasks' = [tasks EXCEPT ![t] =
                          [pc |-> step[2], run |-> id, holds |-> runs[id].status,
                           holdsEmpty |-> runs[id].result = NoResult]]
      /\ UNCHANGED <<runs, items, syncs, collected, up, crashes, errors>>

\* Without a row there is nothing to write: the start returns and the task executes,
\* the completion and the failure return and the task ends.
FindNoRow(t) ==
  /\ up /\ tasks[t].run \notin LiveRuns
  /\ \/ tasks[t].pc = "queued" /\ tasks' = [tasks EXCEPT ![t].pc = "running"]
     \/ tasks[t].pc \in {"running", "failing"} /\ tasks' = [tasks EXCEPT ![t] = Ended]
  /\ UNCHANGED <<runs, items, syncs, collected, up, crashes, errors>>

\* A column set to the value it was loaded with is left out of the UPDATE.
Written(loaded, value, current) == IF loaded = value THEN current ELSE value

WriteStatus(t, status) ==
  runs' = [runs EXCEPT ![tasks[t].run].status = Written(tasks[t].holds, status, @)]

\* mark_execution_run_started leaves the other columns alone. An UPDATE that finds
\* no row raises, outside the try block of the task.
StartTask(t) ==
  LET id == tasks[t].run
  IN  /\ up /\ tasks[t].pc = "starting"
      /\ \/ /\ id \in LiveRuns /\ WriteStatus(t, "running")
            /\ tasks' = [tasks EXCEPT ![t] = At("running", id)]
         \/ id \notin LiveRuns /\ tasks' = [tasks EXCEPT ![t] = Ended] /\ UNCHANGED runs
      /\ UNCHANGED <<items, syncs, collected, up, crashes, errors>>

\* What the row counts after "result" is set: the findings of the task are new to
\* it, but no findings may be what the loaded row counted already.
Counted(t, result) ==
  IF result = NoResult /\ tasks[t].holdsEmpty THEN runs[tasks[t].run].result ELSE result

\* Fault: the outcome is written with a status no reader knows.
WriteRunFinished(t, result) ==
  runs' = [runs EXCEPT ![tasks[t].run].status = "finished",
                       ![tasks[t].run].result = Counted(t, result)]

\* A task writes the row of the id it was created for, whose row that is by now.
WriteRun(t, result) ==
  runs' = [runs EXCEPT ![tasks[t].run].status = Written(tasks[t].holds, "success", @),
                       ![tasks[t].run].result = Counted(t, result)]

\* Fault: the task ends without waiting for its result to be committed.
CompleteTaskLater(t) ==
  /\ up /\ tasks[t].pc = "completing" /\ tasks[t].run \in LiveRuns
  /\ tasks' = [tasks EXCEPT ![t] = Ended]
  /\ UNCHANGED <<runs, items, syncs, collected, up, crashes, errors>>

\* One transaction; if the row is gone its UPDATE raises (TaskRaises).
CompleteTask(t) ==
  LET id == tasks[t].run
  IN  /\ up /\ tasks[t].pc = "completing" /\ id \in LiveRuns
      /\ \E result \in {t, NoResult} :
           /\ WriteRun(t, result)
           /\ items' = (items \ ItemsOf({id})) \cup ItemOf(id, result)
      /\ tasks' = [tasks EXCEPT ![t] = Ended]
      /\ UNCHANGED <<syncs, collected, up, crashes, errors>>

\* The execution or the write of its result raises; the session rolls back.
TaskRaises(t) ==
  /\ up /\ tasks[t].pc \in {"running", "completing"}
  /\ tasks' = [tasks EXCEPT ![t] = At("failing", @.run)]
  /\ UNCHANGED <<runs, items, syncs, collected, up, crashes, errors>>

\* fail_execution_run keeps what the row says of its result; without a row it raises
\* out of the task.
FailTask(t) ==
  /\ up /\ tasks[t].pc = "settling"
  /\ \/ tasks[t].run \in LiveRuns /\ WriteStatus(t, "failed")
     \/ tasks[t].run \notin LiveRuns /\ UNCHANGED runs
  /\ tasks' = [tasks EXCEPT ![t] = Ended]
  /\ UNCHANGED <<items, syncs, collected, up, crashes, errors>>

\* Outside the try block of the task nothing handles a failed write: neither the
\* one that starts the run nor the one that fails it.
LoseTask(t) ==
  /\ up /\ tasks[t].pc \in {"queued", "starting", "failing", "settling"}
  /\ errors < MaxErrors
  /\ errors' = errors + 1
  /\ tasks' = [tasks EXCEPT ![t] = Ended]
  /\ UNCHANGED <<runs, items, syncs, collected, up, crashes>>

-----------------------------------------------------------------------------
(* Crash, restart, retention *)

Crash ==
  /\ up /\ crashes < MaxCrashes
  /\ up' = FALSE
  /\ crashes' = crashes + 1
  /\ syncs' = [s \in SyncRequests |->
                 IF syncs[s].pc = "new" THEN syncs[s] ELSE Answered]
  /\ tasks' = [t \in Tasks |->
                 IF tasks[t].pc = "new" THEN tasks[t] ELSE Ended]
  /\ UNCHANGED <<runs, items, collected, errors>>

\* Fault: only runs that had started are taken for interrupted.
RestartFailsRunning ==
  /\ ~up /\ (OnlineCleanup \/ collected = {})
  /\ up' = TRUE
  /\ runs' = [id \in RunIds |->
                IF id \in Unfinished /\ runs[id].status = "running"
                THEN [runs[id] EXCEPT !.status = "failed"] ELSE runs[id]]
  /\ UNCHANGED <<items, syncs, tasks, collected, crashes, errors>>

\* mark_interrupted_execution_runs, before the server accepts requests.
Restart ==
  /\ ~up /\ (OnlineCleanup \/ collected = {})
  /\ up' = TRUE
  /\ runs' = [id \in RunIds |->
                IF id \in Unfinished THEN [runs[id] EXCEPT !.status = "failed"] ELSE runs[id]]
  /\ UNCHANGED <<items, syncs, tasks, collected, crashes, errors>>

\* A run row passes the retention period (created_at < cutoff).
Age(id) ==
  /\ id \in LiveRuns /\ ~runs[id].old
  /\ runs' = [runs EXCEPT ![id].old = TRUE]
  /\ UNCHANGED <<items, syncs, tasks, collected, up, crashes, errors>>

\* Runs the retention period no longer protects.
Disposable == {id \in LiveRuns : runs[id].status \in Finished /\ runs[id].old}

\* Between finding the runs and deleting them the clean-up removes files.
CollectOld ==
  /\ OnlineCleanup \/ ~up
  /\ collected = {} /\ Disposable # {}
  /\ collected' = Disposable
  /\ UNCHANGED <<runs, items, syncs, tasks, up, crashes, errors>>

DeleteCollected ==
  /\ collected # {}
  /\ runs' = [id \in RunIds |-> IF id \in collected THEN NoRun ELSE runs[id]]
  /\ items' = items \ ItemsOf(collected)
  /\ collected' = {}
  /\ UNCHANGED <<syncs, tasks, up, crashes, errors>>

-----------------------------------------------------------------------------
Init ==
  /\ runs = [id \in RunIds |-> NoRun]
  /\ items = {}
  /\ syncs = [s \in SyncRequests |-> [pc |-> "new", scope |-> NoScope, seen |-> {}]]
  /\ tasks = [t \in Tasks |-> At("new", 0)]
  /\ collected = {}
  /\ up = TRUE /\ crashes = 0 /\ errors = 0

\* What the task's coroutine does next.
TaskRuns(t) ==
  LoadRow(t) \/ FindNoRow(t) \/ StartTask(t) \/ CompleteTask(t) \/ TaskRaises(t) \/ FailTask(t)

Next ==
  \/ \E s \in SyncRequests :
       SyncExecutes(s) \/ SyncReadsPrevious(s) \/ SyncPersists(s) \/ SyncEnds(s)
  \/ \E t \in Tasks : CreateTask(t) \/ TaskRuns(t) \/ LoseTask(t)
  \/ Crash \/ Restart
  \/ \E id \in RunIds : Age(id)
  \/ CollectOld \/ DeleteCollected

\* The event loop runs a queued task on, an execution ends (its loaders have
\* timeouts), and a server that went down is started again.
Fairness == (\A t \in Tasks : WF_vars(TaskRuns(t))) /\ WF_vars(Restart)

Spec == Init /\ [][Next]_vars

FairSpec == Spec /\ Fairness

-----------------------------------------------------------------------------
(* Properties *)

\* Every variable holds values of its type; a request that ran has a scope.
TypeOK ==
  /\ runs \in [RunIds -> Runs \cup {NoRun}]
  /\ items \in SUBSET Items
  /\ syncs \in [SyncRequests -> SyncStates]
  /\ \A s \in SyncRequests :
       syncs[s].pc \in {"executed", "persist"} => syncs[s].scope \in Scopes
  /\ tasks \in [Tasks -> TaskStates]
  /\ collected \in SUBSET RunIds
  /\ up \in BOOLEAN /\ crashes \in 0..MaxCrashes /\ errors \in 0..MaxErrors

\* An item belongs to a run that exists and counts the findings of the execution
\* the item comes from: no item outlives its run or shows up among those of a
\* later run that got the same id.
ItemsBelongToRuns ==
  \A it \in items : it.run \in LiveRuns /\ runs[it.run].result = it.from

\* While the server runs, an unfinished run has a task that will finish it,
\* unless a write failed where the task does not handle it.
NoStrandedRun ==
  up /\ errors = 0 =>
    \A id \in Unfinished :
      \E t \in Tasks : tasks[t].run = id /\ tasks[t].pc \notin {"new", "done"}

\* A background run ends, through crashes and restarts, unless such a write
\* failed: the client that polls it gets an outcome.
RunsEnd ==
  \A id \in RunIds : id \in Unfinished ~> (id \notin Unfinished \/ errors > 0)

-----------------------------------------------------------------------------
(* Properties that hold while the synchronous executions of a scope do not   *)
(* overlap (MaxOverlap = 1) and the clean-up runs only without the server:   *)
(* otherwise an id that was read can name another run when it is deleted.    *)

\* A scope keeps one synchronous result, the last one.
OneResultPerScope ==
  \A scope \in Scopes : Cardinality(SyncRunsOf(scope)) <= 1

\* A run that counts findings lists them.
FindingsAreListed ==
  \A id \in LiveRuns : runs[id].result # NoResult => ItemOf(id, runs[id].result) \subseteq items

\* The statuses a status may be followed by.
After(status) ==
  CASE status = "pending" -> {"pending", "running", "failed"}
    [] status = "running" -> {"running", "success", "failed"}
    [] OTHER -> {status}

\* A background run only moves forward, and only the clean-up removes it, once
\* it has ended: neither a synchronous execution of its scope nor the clean-up of
\* an id that came back takes it away.
BackgroundRunsMoveForward ==
  [][\A id \in LiveRuns : runs[id].mode = "async" =>
       \/ /\ id \in LiveRuns'
          /\ runs'[id].mode = "async" /\ runs'[id].scope = runs[id].scope
          /\ runs'[id].status \in After(runs[id].status)
       \/ id \notin LiveRuns' /\ id \in Disposable /\ id \in collected]_vars

\* What a reader finds of a run: the count in its row, and its item rows.
PageOf(id) == [counted |-> runs[id].result, listed |-> {it.from : it \in ItemsOf({id})}]

JobOf(id) == [scope |-> runs[id].scope, status |-> runs[id].status, page |-> PageOf(id)]

Board == INSTANCE ResultBoard WITH
  Ids <- RunIds, open <- up,
  board <- [scope \in Scopes |-> {PageOf(id) : id \in SyncRunsOf(scope)}],
  jobs <- [id \in {j \in LiveRuns : runs[j].mode = "async"} |-> JobOf(id)]

\* Readers find what ResultBoard promises, although a result is two tables, ids
\* come back, and requests, tasks and the clean-up write by ids read earlier: an
\* execution replaces the last result of its scope and nothing else, a background
\* run is changed by its own task or a restart only.
KeepsBoard == Board!Spec

\* The clean-up deletes only results past the retention period.
CleanupSparesFreshResults ==
  [][collected # {} /\ collected' = {} =>
       \A id \in LiveRuns : id \notin LiveRuns' => runs[id].old]_vars

=============================================================================
