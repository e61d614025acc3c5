-------------------------- MODULE ExecutionRunsProofs --------------------------
(***************************************************************************)
(* Proofs about ExecutionRuns for any number of scopes, requests, tasks,   *)
(* crashes and failed writes, with any overlap and with or without the     *)
(* clean-up beside the server.                                             *)
(*                                                                         *)
(* ItemsBelongToRuns is inductive given TypeOK. NoStrandedRun is not: that *)
(* a task is still at work on a run is not enough when the row it loaded   *)
(* had ended, for then it may leave the status of the row alone; Owned     *)
(* asks for a task that will write it.                                     *)
(***************************************************************************)
EXTENDS ExecutionRuns, TLAPS

USE ExecutionRunsAssumption

SyncStep(s) ==
  SyncExecutes(s) \/ SyncReadsPrevious(s) \/ SyncPersists(s) \/ SyncEnds(s)

TaskStep(t) ==
  \/ CreateTask(t) \/ LoadRow(t) \/ FindNoRow(t) \/ StartTask(t) \/ CompleteTask(t)
  \/ TaskRaises(t) \/ FailTask(t) \/ LoseTask(t)

ServerStep == Crash \/ Restart \/ (\E id \in RunIds : Age(id)) \/ CollectOld \/ DeleteCollected

-----------------------------------------------------------------------------
(* Types *)

LEMMA AtType ==
  ASSUME NEW pc \in {"new", "queued", "running", "failing", "done"}, NEW id \in RunIds \cup {0}
  PROVE  At(pc, id) \in TaskStates /\ At(pc, id).pc = pc /\ At(pc, id).run = id
BY DEF At, TaskStates

LEMMA TypeInit == Init => TypeOK
<1> SUFFICES ASSUME Init PROVE TypeOK
  OBVIOUS
<1>1. tasks \in [Tasks -> TaskStates]
  BY AtType DEF Init
<1> QED
  BY <1>1 DEF Init, TypeOK, SyncStates, RunIds

\* A step of a task from one state to another.
LEMMA TaskMoves ==
  ASSUME TypeOK, NEW t \in Tasks, NEW task \in TaskStates, tasks' = [tasks EXCEPT ![t] = task]
  PROVE  /\ tasks' \in [Tasks -> TaskStates] /\ tasks'[t] = task
         /\ \A u \in Tasks \ {t} : tasks'[u] = tasks[u]
BY DEF TypeOK

\* The rows the program inserts are rows.
LEMMA NewRunType ==
  ASSUME NEW mode \in {"sync", "async"}, NEW scope \in Scopes,
         NEW status \in {"pending", "running", "success", "failed"},
         NEW result \in Executions \cup {NoResult}
  PROVE  NewRun(mode, scope, status, result) \in Runs
BY DEF NewRun, Runs, Statuses

\* A task whose row there is holds, after loading, what the row says.
LEMMA Loads ==
  ASSUME TypeOK, NEW t \in Tasks, LoadRow(t)
  PROVE  /\ up /\ tasks[t].run \in LiveRuns /\ UNCHANGED <<runs, items, syncs, collected, up, errors>>
         /\ \E task \in TaskStates :
              /\ tasks' = [tasks EXCEPT ![t] = task] /\ task.run = tasks[t].run
              /\ task.holds = runs[task.run].status
              /\ task.holdsEmpty <=> runs[task.run].result = NoResult
              /\ \/ tasks[t].pc = "queued" /\ task.pc = "starting"
                 \/ tasks[t].pc = "running" /\ task.pc = "completing"
                 \/ tasks[t].pc = "failing" /\ task.pc = "settling"
<1> PICK id : id = tasks[t].run
  OBVIOUS
<1>1. PICK step \in {<<"queued", "starting">>, <<"running", "completing">>,
                     <<"failing", "settling">>} :
        /\ tasks[t].pc = step[1]
        /\ tasks' = [tasks EXCEPT ![t] =
                       [pc |-> step[2], run |-> id, holds |-> runs[id].status,
                        holdsEmpty |-> runs[id].result = NoResult]]
  BY DEF LoadRow
<1>2. id \in LiveRuns /\ id \in RunIds /\ runs[id].status \in Statuses
  BY DEF LoadRow, LiveRuns, TypeOK, Runs
<1>3. PICK empty \in BOOLEAN : empty <=> runs[id].result = NoResult
  OBVIOUS
<1>4. PICK task : task = [pc |-> step[2], run |-> id, holds |-> runs[id].status,
                          holdsEmpty |-> empty]
  OBVIOUS
<1>5. (runs[id].result = NoResult) = empty
  BY <1>3
<1>6. tasks' = [tasks EXCEPT ![t] = task]
  BY <1>1, <1>4, <1>5
<1>7. step[2] \in {"starting", "completing", "settling"}
  BY <1>1
<1>8. task \in TaskStates
  BY <1>2, <1>4, <1>7 DEF TaskStates
<1>9. /\ task.pc = step[2] /\ task.run = id /\ task.holds = runs[id].status
      /\ task.holdsEmpty <=> runs[id].result = NoResult
  BY <1>3, <1>4
<1>10. \/ tasks[t].pc = "queued" /\ task.pc = "starting"
       \/ tasks[t].pc = "running" /\ task.pc = "completing"
       \/ tasks[t].pc = "failing" /\ task.pc = "settling"
  BY <1>1, <1>9
<1> QED
  BY <1>2, <1>6, <1>8, <1>9, <1>10 DEF LoadRow

\* The row after a task set its status.
LEMMA StatusWritten ==
  ASSUME TypeOK, NEW t \in Tasks, NEW status \in Statuses,
         NEW id \in LiveRuns, id = tasks[t].run, WriteStatus(t, status)
  PROVE  \E row \in Runs :
           /\ runs' = [runs EXCEPT ![id] = row]
           /\ row.mode = runs[id].mode /\ row.scope = runs[id].scope
           /\ row.result = runs[id].result /\ row.old = runs[id].old
           /\ row.status \in {status, runs[id].status}
           /\ tasks[t].holds # status => row.status = status
<1>1. id \in RunIds /\ runs[id] \in Runs
  BY DEF LiveRuns, TypeOK
<1>2. PICK written : written = Written(tasks[t].holds, status, runs[id].status)
  OBVIOUS
<1>3. /\ written \in {status, runs[id].status} /\ written \in Statuses
      /\ tasks[t].holds # status => written = status
  BY <1>1, <1>2 DEF Written, Runs
<1>4. PICK row : row = [runs[id] EXCEPT !.status = written]
  OBVIOUS
<1>5. runs' = [runs EXCEPT ![id] = row]
  BY <1>1, <1>2, <1>4 DEF WriteStatus
<1>6. /\ row \in Runs /\ row.mode = runs[id].mode /\ row.scope = runs[id].scope
      /\ row.result = runs[id].result /\ row.old = runs[id].old /\ row.status = written
  BY <1>1, <1>3, <1>4 DEF Runs
<1> QED
  BY <1>3, <1>5, <1>6

\* The row after a task completed it.
LEMMA RunWritten ==
  ASSUME TypeOK, NEW t \in Tasks, NEW result \in {t, NoResult},
         NEW id \in LiveRuns, id = tasks[t].run, WriteRun(t, result)
  PROVE  \E row \in Runs :
           /\ runs' = [runs EXCEPT ![id] = row]
           /\ row.mode = runs[id].mode /\ row.scope = runs[id].scope
           /\ row.status \in {"success", runs[id].status}
           /\ tasks[t].holds # "success" => row.status = "success"
           /\ \/ row.result = result
              \/ result = NoResult /\ row.result = runs[id].result
<1>1. id \in RunIds /\ runs[id] \in Runs
  BY DEF LiveRuns, TypeOK
<1>2. PICK written : written = Written(tasks[t].holds, "success", runs[id].status)
  OBVIOUS
<1>3. /\ written \in {"success", runs[id].status} /\ written \in Statuses
      /\ tasks[t].holds # "success" => written = "success"
  BY <1>1, <1>2 DEF Written, Runs, Statuses
<1>4. PICK counted : counted = Counted(t, result)
  OBVIOUS
<1>5. /\ counted \in Executions \cup {NoResult}
      /\ counted = result \/ (result = NoResult /\ counted = runs[id].result)
  BY <1>1, <1>4 DEF Counted, Executions, Runs
<1>6. PICK row : row = [runs[id] EXCEPT !.status = written, !.result = counted]
  OBVIOUS
<1>7. runs' = [runs EXCEPT ![id] = row]
  BY <1>1, <1>2, <1>4, <1>6 DEF WriteRun
<1>8. /\ row \in Runs /\ row.mode = runs[id].mode /\ row.scope = runs[id].scope
      /\ row.status = written /\ row.result = counted
  BY <1>1, <1>3, <1>5, <1>6 DEF Runs
<1> QED
  BY <1>3, <1>5, <1>7, <1>8

LEMMA SyncKeepsType ==
  ASSUME TypeOK, NEW s \in SyncRequests, SyncStep(s)
  PROVE  TypeOK'
<1>1. CASE SyncExecutes(s)
  BY <1>1 DEF SyncExecutes, TypeOK, SyncStates
<1>2. CASE SyncReadsPrevious(s)
  <2>1. SyncRunsOf(syncs[s].scope) \in SUBSET RunIds
    BY DEF SyncRunsOf, LiveRuns
  <2> QED
    BY <1>2, <2>1 DEF SyncReadsPrevious, TypeOK, SyncStates
<1>3. CASE SyncPersists(s)
  <2>1. PICK id \in RunIds, result \in {s, NoResult} :
          /\ runs' = [j \in RunIds |->
                        IF j = id THEN NewRun("sync", syncs[s].scope, "success", result)
                        ELSE IF j \in syncs[s].seen THEN NoRun ELSE runs[j]]
          /\ items' = (items \ ItemsOf(syncs[s].seen)) \cup ItemOf(id, result)
    BY <1>3 DEF SyncPersists
  <2>2. NewRun("sync", syncs[s].scope, "success", result) \in Runs
    BY <1>3, NewRunType DEF SyncPersists, TypeOK, Executions
  <2>3. runs' \in [RunIds -> Runs \cup {NoRun}]
    BY <2>1, <2>2 DEF TypeOK
  <2>4. items' \in SUBSET Items
    BY <2>1 DEF TypeOK, Items, ItemOf, Executions
  <2> QED
    BY <1>3, <2>3, <2>4 DEF SyncPersists, TypeOK, SyncStates, Answered
<1>4. CASE SyncEnds(s)
  BY <1>4 DEF SyncEnds, TypeOK, SyncStates, Answered
<1> QED
  BY <1>1, <1>2, <1>3, <1>4 DEF SyncStep

\* Writing a row that is there.
LEMMA RowType ==
  ASSUME TypeOK, NEW id \in LiveRuns, NEW row \in Runs, runs' = [runs EXCEPT ![id] = row]
  PROVE  runs' \in [RunIds -> Runs \cup {NoRun}]
BY DEF TypeOK, LiveRuns

LEMMA CompleteTaskType ==
  ASSUME TypeOK, NEW t \in Tasks, CompleteTask(t)
  PROVE  TypeOK'
<1> PICK id \in LiveRuns : id = tasks[t].run
  BY DEF CompleteTask
<1>1. PICK result \in {t, NoResult} :
        /\ WriteRun(t, result)
        /\ items' = (items \ ItemsOf({id})) \cup ItemOf(id, result)
  BY DEF CompleteTask
<1>2. runs' \in [RunIds -> Runs \cup {NoRun}]
  BY <1>1, RunWritten, RowType
<1>3. items' \in SUBSET Items
  BY <1>1 DEF TypeOK, Items, ItemOf, LiveRuns, Executions
<1>4. tasks' \in [Tasks -> TaskStates]
  BY AtType, TaskMoves DEF CompleteTask, Ended
<1> QED
  BY <1>2, <1>3, <1>4 DEF CompleteTask, TypeOK

\* A step that changes one task and one row that is there, or no row.
LEMMA TaskWritesType ==
  ASSUME TypeOK, NEW t \in Tasks, NEW task \in TaskStates, tasks' = [tasks EXCEPT ![t] = task],
         runs' \in [RunIds -> Runs \cup {NoRun}],
         UNCHANGED <<items, syncs, collected, up, crashes>>, errors' \in 0..MaxErrors
  PROVE  TypeOK'
BY TaskMoves DEF TypeOK

LEMMA TaskKeepsType ==
  ASSUME TypeOK, NEW t \in Tasks, TaskStep(t)
  PROVE  TypeOK'
<1>1. tasks[t] \in TaskStates /\ tasks[t].run \in RunIds \cup {0}
  BY DEF TypeOK, TaskStates
<1>2. runs \in [RunIds -> Runs \cup {NoRun}] /\ errors \in 0..MaxErrors
  BY DEF TypeOK
<1>3. Ended \in TaskStates
  BY AtType DEF Ended
<1>4. CASE CreateTask(t)
  <2>1. PICK id \in RunIds, scope \in Scopes :
          /\ runs' = [runs EXCEPT ![id] = NewRun("async", scope, "pending", NoResult)]
          /\ tasks' = [tasks EXCEPT ![t] = At("queued", id)]
    BY <1>4 DEF CreateTask
  <2>2. NewRun("async", scope, "pending", NoResult) \in Runs
    BY NewRunType
  <2>3. runs' \in [RunIds -> Runs \cup {NoRun}]
    BY <1>2, <2>1, <2>2
  <2>4. At("queued", id) \in TaskStates
    BY AtType
  <2> QED
    BY <1>2, <1>4, <2>1, <2>3, <2>4, TaskWritesType DEF CreateTask
<1>5. CASE LoadRow(t)
  <2>1. PICK task \in TaskStates : tasks' = [tasks EXCEPT ![t] = task]
    BY <1>5, Loads
  <2> QED
    BY <1>2, <1>5, <2>1, TaskWritesType DEF LoadRow
<1>6. CASE FindNoRow(t)
  <2>1. PICK task \in TaskStates : tasks' = [tasks EXCEPT ![t] = task]
    <3>1. [tasks[t] EXCEPT !.pc = "running"] \in TaskStates
      BY <1>1 DEF TaskStates
    <3> QED
      BY <1>3, <1>6, <3>1 DEF FindNoRow
  <2> QED
    BY <1>2, <1>6, <2>1, TaskWritesType DEF FindNoRow
<1>7. CASE StartTask(t)
  <2>1. PICK task \in TaskStates : tasks' = [tasks EXCEPT ![t] = task]
    BY <1>1, <1>3, <1>7, AtType DEF StartTask
  <2>2. runs' \in [RunIds -> Runs \cup {NoRun}]
    BY <1>2, <1>7, StatusWritten, RowType DEF StartTask, Statuses
  <2> QED
    BY <1>2, <1>7, <2>1, <2>2, TaskWritesType DEF StartTask
<1>8. CASE CompleteTask(t)
  BY <1>8, CompleteTaskType
<1>9. CASE TaskRaises(t)
  <2>1. PICK task \in TaskStates : tasks' = [tasks EXCEPT ![t] = task]
    BY <1>1, <1>9, AtType DEF TaskRaises
  <2> QED
    BY <1>2, <1>9, <2>1, TaskWritesType DEF TaskRaises
<1>10. CASE FailTask(t)
  <2>1. runs' \in [RunIds -> Runs \cup {NoRun}]
    BY <1>2, <1>10, StatusWritten, RowType DEF FailTask, Statuses
  <2> QED
    BY <1>2, <1>3, <1>10, <2>1, TaskWritesType DEF FailTask
<1>11. CASE LoseTask(t)
  <2>1. errors' \in 0..MaxErrors
    BY <1>2, <1>11 DEF LoseTask
  <2> QED
    BY <1>2, <1>3, <1>11, <2>1, TaskWritesType DEF LoseTask
<1> QED
  BY <1>4, <1>5, <1>6, <1>7, <1>8, <1>9, <1>10, <1>11 DEF TaskStep

LEMMA ServerKeepsType ==
  ASSUME TypeOK, ServerStep
  PROVE  TypeOK'
<1>1. CASE Crash
  <2>1. /\ syncs' \in [SyncRequests -> SyncStates]
        /\ \A s \in SyncRequests :
             syncs'[s].pc \in {"executed", "persist"} => syncs'[s].scope \in Scopes
    <3>1. ASSUME NEW s \in SyncRequests
          PROVE  /\ syncs'[s] \in SyncStates
                 /\ syncs'[s].pc \in {"executed", "persist"} => syncs'[s].scope \in Scopes
      BY <1>1 DEF Crash, TypeOK, SyncStates, Answered
    <3> QED
      BY <1>1, <3>1 DEF Crash
  <2>2. tasks' \in [Tasks -> TaskStates]
    <3>1. Ended \in TaskStates
      BY AtType DEF Ended
    <3> QED
      BY <1>1, <3>1 DEF Crash, TypeOK
  <2>3. crashes' \in 0..MaxCrashes
    <3>1. crashes \in 0..MaxCrashes /\ crashes < MaxCrashes /\ crashes' = crashes + 1
      BY <1>1 DEF Crash, TypeOK
    <3> QED
      BY <3>1
  <2>4. up' \in BOOLEAN
    BY <1>1 DEF Crash
  <2> QED
    BY <1>1, <2>1, <2>2, <2>3, <2>4 DEF Crash, TypeOK
<1>2. CASE Restart
  BY <1>2 DEF Restart, Unfinished, LiveRuns, TypeOK, Runs, Statuses
<1>3. ASSUME NEW id \in RunIds, Age(id)
      PROVE  TypeOK'
  BY <1>3 DEF Age, LiveRuns, TypeOK, Runs
<1>4. CASE CollectOld
  BY <1>4 DEF CollectOld, Disposable, LiveRuns, TypeOK
<1>5. CASE DeleteCollected
  BY <1>5 DEF DeleteCollected, TypeOK
<1> QED
  BY <1>1, <1>2, <1>3, <1>4, <1>5 DEF ServerStep

LEMMA TypeStep == TypeOK /\ [Next]_vars => TypeOK'
<1>1. TypeOK /\ UNCHANGED vars => TypeOK'
  BY DEF TypeOK, vars
<1> QED
  BY <1>1, SyncKeepsType, TaskKeepsType, ServerKeepsType
     DEF Next, SyncStep, TaskStep, TaskRuns, ServerStep

\* Every state of every behaviour is well typed.
THEOREM TypeCorrect == Spec => []TypeOK
BY TypeInit, TypeStep, PTL DEF Spec

-----------------------------------------------------------------------------
(* Items belong to runs *)

LEMMA ItemsInit == Init => ItemsBelongToRuns
BY DEF Init, ItemsBelongToRuns

\* A step that writes no item and no result, and removes no run.
LEMMA ItemsUnchanged ==
  ASSUME ItemsBelongToRuns, items' = items,
         \A id \in LiveRuns : id \in LiveRuns' /\ runs'[id].result = runs[id].result
  PROVE  ItemsBelongToRuns'
BY DEF ItemsBelongToRuns

\* Writing a row so that it counts what it counted.
LEMMA RowWrites ==
  ASSUME TypeOK, NEW id \in LiveRuns, NEW row \in Runs,
         runs' = [runs EXCEPT ![id] = row], row.result = runs[id].result
  PROVE  \A j \in LiveRuns : j \in LiveRuns' /\ runs'[j].result = runs[j].result
<1>1. runs \in [RunIds -> Runs \cup {NoRun}] /\ id \in RunIds
  BY DEF TypeOK, LiveRuns
<1>2. runs'[id] = row /\ \A j \in RunIds \ {id} : runs'[j] = runs[j]
  BY <1>1
<1> QED
  BY <1>1, <1>2 DEF LiveRuns

\* The rows a synchronous execution replaces lose their items in the commit that
\* brings its own, even when its new run takes one of their ids.
LEMMA SyncPersistsItems ==
  ASSUME TypeOK, ItemsBelongToRuns, NEW s \in SyncRequests, SyncPersists(s)
  PROVE  ItemsBelongToRuns'
<1> DEFINE seen == syncs[s].seen
<1>1. PICK id \in RunIds, result \in {s, NoResult} :
        /\ IsNextId(id, seen)
        /\ runs' = [j \in RunIds |->
                      IF j = id THEN NewRun("sync", syncs[s].scope, "success", result)
                      ELSE IF j \in seen THEN NoRun ELSE runs[j]]
        /\ items' = (items \ ItemsOf(seen)) \cup ItemOf(id, result)
  BY DEF SyncPersists
<1> DEFINE new == NewRun("sync", syncs[s].scope, "success", result)
<1>2. new \in Runs /\ new.result = result
  BY NewRunType DEF SyncPersists, TypeOK, Executions, NewRun
<1> HIDE DEF new, seen
<1>3. id \notin LiveRuns \ seen
  BY <1>1 DEF IsNextId, RunIds
<1>4. id \in LiveRuns' /\ runs'[id].result = result
  BY <1>1, <1>2 DEF LiveRuns, new
<1>5. \A j \in LiveRuns \ seen : j \in LiveRuns' /\ runs'[j] = runs[j]
  BY <1>1, <1>3 DEF LiveRuns
<1> SUFFICES ASSUME NEW it \in items'
             PROVE  it.run \in LiveRuns' /\ runs'[it.run].result = it.from
  BY DEF ItemsBelongToRuns
<1>6. CASE it \in items \ ItemsOf(seen)
  BY <1>5, <1>6 DEF ItemsBelongToRuns, ItemsOf
<1>7. CASE it \in ItemOf(id, result)
  BY <1>4, <1>7 DEF ItemOf
<1> QED
  BY <1>1, <1>6, <1>7

\* A completed task replaces the items of its run, whatever they were.
LEMMA CompleteTaskItems ==
  ASSUME TypeOK, ItemsBelongToRuns, NEW t \in Tasks, CompleteTask(t)
  PROVE  ItemsBelongToRuns'
<1> PICK id \in LiveRuns : id = tasks[t].run
  BY DEF CompleteTask
<1>1. PICK result \in {t, NoResult} :
        /\ WriteRun(t, result)
        /\ items' = (items \ ItemsOf({id})) \cup ItemOf(id, result)
  BY DEF CompleteTask
<1>2. id \in RunIds /\ runs \in [RunIds -> Runs \cup {NoRun}]
  BY DEF LiveRuns, TypeOK
<1>3. PICK row \in Runs : /\ runs' = [runs EXCEPT ![id] = row]
                          /\ result = NoResult \/ row.result = result
  BY <1>1, RunWritten
<1>4. runs'[id] = row /\ \A j \in RunIds \ {id} : runs'[j] = runs[j]
  BY <1>2, <1>3
<1>5. id \in LiveRuns' /\ \A j \in LiveRuns : j \in LiveRuns'
  BY <1>2, <1>4 DEF LiveRuns
<1> SUFFICES ASSUME NEW it \in items'
             PROVE  it.run \in LiveRuns' /\ runs'[it.run].result = it.from
  BY DEF ItemsBelongToRuns
<1>6. CASE it \in items \ ItemsOf({id})
  <2>1. it \in items /\ it.run # id
    BY <1>6 DEF ItemsOf
  <2>2. it.run \in LiveRuns /\ runs[it.run].result = it.from
    BY <2>1 DEF ItemsBelongToRuns
  <2> QED
    BY <1>4, <1>5, <2>1, <2>2 DEF LiveRuns
<1>7. CASE it \in ItemOf(id, result)
  <2>1. it.run = id /\ it.from = result /\ result # NoResult
    BY <1>7 DEF ItemOf
  <2> QED
    BY <1>3, <1>4, <1>5, <2>1
<1> QED
  BY <1>1, <1>6, <1>7

LEMMA SyncKeepsItems ==
  ASSUME TypeOK, ItemsBelongToRuns, NEW s \in SyncRequests, SyncStep(s)
  PROVE  ItemsBelongToRuns'
<1>1. CASE SyncPersists(s)
  BY <1>1, SyncPersistsItems
<1>2. CASE SyncExecutes(s) \/ SyncReadsPrevious(s) \/ SyncEnds(s)
  BY <1>2, ItemsUnchanged DEF SyncExecutes, SyncReadsPrevious, SyncEnds, LiveRuns
<1> QED
  BY <1>1, <1>2 DEF SyncStep

LEMMA TaskKeepsItems ==
  ASSUME TypeOK, ItemsBelongToRuns, NEW t \in Tasks, TaskStep(t)
  PROVE  ItemsBelongToRuns'
<1>1. CASE CreateTask(t)
  <2>1. PICK id \in RunIds, scope \in Scopes :
          /\ IsNextId(id, {})
          /\ runs' = [runs EXCEPT ![id] = NewRun("async", scope, "pending", NoResult)]
    BY <1>1 DEF CreateTask
  <2>2. id \notin LiveRuns
    BY <2>1 DEF IsNextId, RunIds
  <2>3. \A j \in LiveRuns : j \in LiveRuns' /\ runs'[j].result = runs[j].result
    BY <2>1, <2>2 DEF LiveRuns, TypeOK
  <2> QED
    BY <1>1, <2>3, ItemsUnchanged DEF CreateTask
<1>2. CASE StartTask(t) \/ FailTask(t)
  <2>1. items' = items
    BY <1>2 DEF StartTask, FailTask
  <2>2. CASE UNCHANGED runs
    BY <2>1, <2>2, ItemsUnchanged DEF LiveRuns
  <2>3. CASE tasks[t].run \in LiveRuns /\ \E status \in Statuses : WriteStatus(t, status)
    BY <2>1, <2>3, StatusWritten, RowWrites, ItemsUnchanged
  <2> QED
    BY <1>2, <2>2, <2>3 DEF StartTask, FailTask, Statuses
<1>3. CASE CompleteTask(t)
  BY <1>3, CompleteTaskItems
<1>4. CASE LoadRow(t) \/ FindNoRow(t) \/ TaskRaises(t) \/ LoseTask(t)
  BY <1>4, ItemsUnchanged DEF LoadRow, FindNoRow, TaskRaises, LoseTask, LiveRuns
<1> QED
  BY <1>1, <1>2, <1>3, <1>4 DEF TaskStep

LEMMA ServerKeepsItems ==
  ASSUME TypeOK, ItemsBelongToRuns, ServerStep
  PROVE  ItemsBelongToRuns'
<1>1. CASE Crash \/ CollectOld
  BY <1>1, ItemsUnchanged DEF Crash, CollectOld, LiveRuns
<1>2. CASE Restart
  <2>1. ASSUME NEW id \in LiveRuns
        PROVE  id \in LiveRuns' /\ runs'[id].result = runs[id].result
    <3>1. PICK row : row = [runs[id] EXCEPT !.status = "failed"]
      OBVIOUS
    <3>2. id \in RunIds /\ runs[id] \in Runs /\ runs'[id] \in {runs[id], row}
      BY <1>2, <3>1 DEF Restart, LiveRuns, TypeOK
    <3>3. row \in Runs /\ row.result = runs[id].result
      BY <3>1, <3>2 DEF Runs, Statuses
    <3> QED
      BY <3>2, <3>3 DEF LiveRuns
  <2> QED
    BY <1>2, <2>1, ItemsUnchanged DEF Restart
<1>3. ASSUME NEW id \in RunIds, Age(id)
      PROVE  ItemsBelongToRuns'
  <2>1. PICK row : row = [runs[id] EXCEPT !.old = TRUE]
    OBVIOUS
  <2>2. /\ id \in LiveRuns /\ runs[id] \in Runs /\ items' = items
        /\ runs' = [runs EXCEPT ![id] = row]
    BY <1>3, <2>1 DEF Age, TypeOK, LiveRuns
  <2>3. row \in Runs /\ row.result = runs[id].result
    BY <2>1, <2>2 DEF Runs
  <2> QED
    BY <2>2, <2>3, RowWrites, ItemsUnchanged
<1>4. CASE DeleteCollected
  <2>1. \A j \in LiveRuns \ collected : j \in LiveRuns' /\ runs'[j] = runs[j]
    BY <1>4 DEF DeleteCollected, LiveRuns
  <2>2. items' = {it \in items : it.run \notin collected}
    BY <1>4 DEF DeleteCollected, ItemsOf
  <2> QED
    BY <2>1, <2>2 DEF ItemsBelongToRuns
<1> QED
  BY <1>1, <1>2, <1>3, <1>4 DEF ServerStep

\* In every behaviour the items of a run come from the execution its row counts,
\* whatever overlaps and whichever ids come back.
THEOREM ItemsNeverMix == Spec => []ItemsBelongToRuns
<1>1. TypeOK /\ ItemsBelongToRuns /\ [Next]_vars => ItemsBelongToRuns'
  <2>1. ItemsBelongToRuns /\ UNCHANGED vars => ItemsBelongToRuns'
    BY DEF ItemsBelongToRuns, vars, LiveRuns
  <2> QED
    BY <2>1, SyncKeepsItems, TaskKeepsItems, ServerKeepsItems
       DEF Next, SyncStep, TaskStep, TaskRuns, ServerStep
<1> QED
  BY <1>1, TypeCorrect, ItemsInit, PTL DEF Spec

-----------------------------------------------------------------------------
(* No stranded run *)

\* A task that will still write an outcome to its run: one about to write it must
\* have loaded the row before it ended.
Owns(t, id) ==
  /\ tasks[t].run = id
  /\ \/ tasks[t].pc \in {"queued", "starting", "running", "failing"}
     \/ tasks[t].pc \in {"completing", "settling"} /\ tasks[t].holds \notin Finished

Owned == \A id \in Unfinished : \E t \in Tasks : Owns(t, id)

\* Steps that leave every task its run and make no run unfinished.
LEMMA OwnedShrinks ==
  ASSUME Owned, Unfinished' \subseteq Unfinished, tasks' = tasks
  PROVE  Owned'
BY DEF Owned, Owns

LEMMA SyncKeepsUnfinished ==
  ASSUME TypeOK, NEW s \in SyncRequests, SyncStep(s)
  PROVE  Unfinished' \subseteq Unfinished /\ tasks' = tasks
<1>1. CASE SyncPersists(s)
  <2>1. PICK id \in RunIds, result \in {s, NoResult} :
          runs' = [j \in RunIds |->
                     IF j = id THEN NewRun("sync", syncs[s].scope, "success", result)
                     ELSE IF j \in syncs[s].seen THEN NoRun ELSE runs[j]]
    BY <1>1 DEF SyncPersists
  <2>2. \A j \in RunIds : \/ runs'[j] = runs[j]
                          \/ runs'[j] = NoRun
                          \/ runs'[j].mode = "sync"
    BY <2>1 DEF NewRun
  <2> QED
    BY <1>1, <2>2 DEF SyncPersists, Unfinished, LiveRuns
<1>2. CASE SyncExecutes(s) \/ SyncReadsPrevious(s) \/ SyncEnds(s)
  BY <1>2 DEF SyncExecutes, SyncReadsPrevious, SyncEnds, Unfinished, LiveRuns
<1> QED
  BY <1>1, <1>2 DEF SyncStep

\* Steps of a task that keep for it what it owns and is unfinished, or leave that
\* run finished; and make no other run unfinished.
LEMMA OwnedKept ==
  ASSUME TypeOK, Owned, NEW t \in Tasks, NEW task \in TaskStates,
         tasks' = [tasks EXCEPT ![t] = task],
         \A j \in Unfinished' : j \in Unfinished \/ Owns(t, j)',
         \A j \in Unfinished' : Owns(t, j) => Owns(t, j)'
  PROVE  Owned'
<1> SUFFICES ASSUME NEW j \in Unfinished', ~Owns(t, j)'
             PROVE  \E u \in Tasks : Owns(u, j)'
  BY DEF Owned
<1>1. PICK u \in Tasks : Owns(u, j)
  BY DEF Owned
<1>2. u # t /\ tasks'[u] = tasks[u]
  BY <1>1, TaskMoves
<1>3. Owns(u, j)'
  BY <1>1, <1>2 DEF Owns
<1> QED
  BY <1>3

\* The task that ends its run is the only one that may lose it.
LEMMA TaskKeepsOwned ==
  ASSUME TypeOK, Owned, NEW t \in Tasks, TaskStep(t), errors' = 0
  PROVE  Owned'
<1> PICK id : id = tasks[t].run
  OBVIOUS
<1>0. /\ tasks[t] \in TaskStates /\ runs \in [RunIds -> Runs \cup {NoRun}]
      /\ Ended \in TaskStates /\ id \in RunIds \cup {0}
  BY AtType DEF TypeOK, Ended, TaskStates
<1>1. CASE CreateTask(t)
  <2>1. PICK j \in RunIds :
          /\ \A k \in RunIds \ {j} : runs'[k] = runs[k]
          /\ tasks' = [tasks EXCEPT ![t] = At("queued", j)]
    BY <1>1 DEF CreateTask, TypeOK
  <2>2. PICK task \in TaskStates : task = At("queued", j) /\ task.pc = "queued" /\ task.run = j
    BY AtType
  <2>3. tasks'[t] = task
    BY <2>1, <2>2, TaskMoves
  <2>4. Owns(t, j)' /\ \A k : ~Owns(t, k)
    BY <1>1, <2>2, <2>3 DEF Owns, CreateTask
  <2>5. \A k \in Unfinished' : k \in Unfinished \/ k = j
    BY <2>1 DEF Unfinished, LiveRuns
  <2> QED
    BY <2>1, <2>2, <2>4, <2>5, OwnedKept
<1>2. CASE LoadRow(t)
  <2>1. PICK task \in TaskStates :
          /\ tasks' = [tasks EXCEPT ![t] = task] /\ task.run = id
          /\ task.holds = runs[id].status
          /\ task.pc \in {"starting", "completing", "settling"}
    BY <1>2, Loads
  <2>2. runs' = runs /\ Unfinished' = Unfinished
    BY <1>2 DEF LoadRow, Unfinished, LiveRuns
  <2>3. tasks'[t] = task
    BY <2>1, TaskMoves
  <2>4. \A j \in Unfinished : Owns(t, j) => Owns(t, j)'
    BY <2>1, <2>3 DEF Owns, Unfinished
  <2> QED
    BY <2>1, <2>2, <2>4, OwnedKept
<1>3. CASE FindNoRow(t)
  <2>1. PICK task \in TaskStates : tasks' = [tasks EXCEPT ![t] = task]
    <3>1. [tasks[t] EXCEPT !.pc = "running"] \in TaskStates
      BY <1>0 DEF TaskStates
    <3> QED
      BY <1>0, <1>3, <3>1 DEF FindNoRow
  <2>2. Unfinished' = Unfinished
    BY <1>3 DEF FindNoRow, Unfinished, LiveRuns
  <2>3. \A j \in Unfinished : ~Owns(t, j)
    BY <1>3 DEF FindNoRow, Owns, Unfinished
  <2> QED
    BY <2>1, <2>2, <2>3, OwnedKept
<1>4. CASE StartTask(t)
  \* The row may be another, finished run that got the id: then t owns that one.
  <2>1. CASE id \in LiveRuns
    <3>1. WriteStatus(t, "running") /\ tasks' = [tasks EXCEPT ![t] = At("running", id)]
      BY <1>4, <2>1 DEF StartTask
    <3>2. PICK row \in Runs : runs' = [runs EXCEPT ![id] = row]
      BY <2>1, <3>1, StatusWritten DEF Statuses
    <3>3. \A j \in RunIds \ {id} : runs'[j] = runs[j]
      BY <1>0, <3>2
    <3>4. PICK task \in TaskStates : task = At("running", id) /\ task.pc = "running" /\ task.run = id
      BY <1>0, AtType
    <3>5. tasks'[t] = task
      BY <3>1, <3>4, TaskMoves
    <3>6. Owns(t, id)' /\ \A j : Owns(t, j) => j = id
      BY <3>4, <3>5 DEF Owns
    <3>7. \A j \in Unfinished' : j \in Unfinished \/ j = id
      BY <3>3 DEF Unfinished, LiveRuns
    <3> QED
      BY <3>1, <3>4, <3>6, <3>7, OwnedKept
  <2>2. CASE id \notin LiveRuns
    <3>1. tasks' = [tasks EXCEPT ![t] = Ended] /\ Unfinished' = Unfinished
      BY <1>4, <2>2 DEF StartTask, Unfinished, LiveRuns
    <3>2. \A j \in Unfinished : ~Owns(t, j)
      BY <2>2 DEF Owns, Unfinished
    <3> QED
      BY <1>0, <3>1, <3>2, OwnedKept
  <2> QED
    BY <2>1, <2>2
<1>5. CASE CompleteTask(t) \/ FailTask(t)
  <2>1. tasks' = [tasks EXCEPT ![t] = Ended] /\ tasks[t].pc \in {"completing", "settling"}
    BY <1>5 DEF CompleteTask, FailTask
  <2>2. CASE id \in LiveRuns
    <3>1. PICK row \in Runs : /\ runs' = [runs EXCEPT ![id] = row] /\ row.mode = runs[id].mode
                              /\ row.status \in Finished \cup {runs[id].status}
                              /\ tasks[t].holds \notin Finished => row.status \in Finished
      <4>1. CASE CompleteTask(t)
        BY <2>2, <4>1, RunWritten DEF CompleteTask, Finished
      <4>2. CASE FailTask(t)
        BY <2>2, <4>2, StatusWritten DEF FailTask, Finished, Statuses
      <4> QED
        BY <1>5, <4>1, <4>2
    <3>2. id \in RunIds /\ runs'[id] = row /\ \A j \in RunIds \ {id} : runs'[j] = runs[j]
      BY <1>0, <2>2, <3>1 DEF LiveRuns
    <3>3. \A j \in Unfinished' : j \in Unfinished
      BY <2>2, <3>1, <3>2 DEF Unfinished, LiveRuns
    <3>4. \A j \in Unfinished' : ~Owns(t, j)
      BY <2>1, <3>1, <3>2 DEF Owns, Unfinished
    <3> QED
      BY <1>0, <2>1, <3>3, <3>4, OwnedKept
  <2>3. CASE id \notin LiveRuns
    <3>1. Unfinished' = Unfinished
      BY <1>5, <2>3 DEF CompleteTask, FailTask, Unfinished, LiveRuns
    <3>2. \A j \in Unfinished : ~Owns(t, j)
      BY <2>3 DEF Owns, Unfinished
    <3> QED
      BY <1>0, <2>1, <3>1, <3>2, OwnedKept
  <2> QED
    BY <2>2, <2>3
<1>6. CASE TaskRaises(t)
  <2>1. PICK task \in TaskStates : task = At("failing", id) /\ task.pc = "failing" /\ task.run = id
    BY <1>0, AtType
  <2>2. tasks' = [tasks EXCEPT ![t] = task] /\ tasks'[t] = task
    BY <1>6, <2>1, TaskMoves DEF TaskRaises
  <2>3. Unfinished' = Unfinished
    BY <1>6 DEF TaskRaises, Unfinished, LiveRuns
  <2>4. \A j \in Unfinished : Owns(t, j) => Owns(t, j)'
    BY <2>1, <2>2 DEF Owns
  <2> QED
    BY <2>2, <2>3, <2>4, OwnedKept
<1>7. CASE LoseTask(t)
  BY <1>7 DEF LoseTask, TypeOK
<1> QED
  BY <1>1, <1>2, <1>3, <1>4, <1>5, <1>6, <1>7 DEF TaskStep

LEMMA ServerKeepsOwned ==
  ASSUME TypeOK, up => Owned, ServerStep, up'
  PROVE  Owned'
<1>1. CASE Crash
  BY <1>1 DEF Crash
<1>2. CASE Restart
  <2>1. \A id \in Unfinished : runs'[id].status = "failed"
    BY <1>2 DEF Restart, Unfinished, LiveRuns, TypeOK, Runs
  <2>2. \A id \in RunIds \ Unfinished : runs'[id] = runs[id]
    BY <1>2 DEF Restart
  <2>3. Unfinished' = {}
    BY <2>1, <2>2 DEF Unfinished, LiveRuns, Finished
  <2> QED
    BY <2>3 DEF Owned
<1>3. ASSUME NEW id \in RunIds, Age(id)
      PROVE  Owned'
  <2>1. Unfinished' \subseteq Unfinished
    BY <1>3 DEF Age, Unfinished, LiveRuns, TypeOK, Runs
  <2> QED
    BY <1>3, <2>1, OwnedShrinks DEF Age
<1>4. CASE CollectOld
  <2>1. Unfinished' \subseteq Unfinished
    BY <1>4 DEF CollectOld, Unfinished, LiveRuns
  <2> QED
    BY <1>4, <2>1, OwnedShrinks DEF CollectOld
<1>5. CASE DeleteCollected
  <2>1. Unfinished' \subseteq Unfinished
    BY <1>5 DEF DeleteCollected, Unfinished, LiveRuns
  <2> QED
    BY <1>5, <2>1, OwnedShrinks DEF DeleteCollected
<1> QED
  BY <1>1, <1>2, <1>3, <1>4, <1>5 DEF ServerStep

\* While the server runs and no unhandled write failed, every unfinished
\* background run has a task that will finish it, however many requests,
\* crashes and clean-ups there are.
THEOREM RunsHaveTheirTask == Spec => []NoStrandedRun
<1> DEFINE Inv == up /\ errors = 0 => Owned
<1>1. Init => Inv
  BY DEF Init, Owned, Unfinished, LiveRuns
<1>2. TypeOK /\ Inv /\ [Next]_vars => Inv'
  <2> SUFFICES ASSUME TypeOK, Inv, [Next]_vars, up', errors' = 0 PROVE Owned'
    OBVIOUS
  <2>1. CASE UNCHANGED vars
    <3>1. Unfinished' = Unfinished
      BY <2>1 DEF vars, Unfinished, LiveRuns
    <3> QED
      BY <2>1, <3>1, OwnedShrinks DEF vars
  <2>2. ASSUME NEW s \in SyncRequests, SyncStep(s) PROVE Owned'
    <3>1. up /\ errors = 0
      BY <2>2 DEF SyncStep, SyncExecutes, SyncReadsPrevious, SyncPersists, SyncEnds
    <3> QED
      BY <2>2, <3>1, SyncKeepsUnfinished, OwnedShrinks
  <2>3. ASSUME NEW t \in Tasks, TaskStep(t) PROVE Owned'
    <3>1. up /\ errors = 0
      <4>1. up /\ (errors' = errors \/ errors' = errors + 1)
        BY <2>3 DEF TaskStep, CreateTask, LoadRow, FindNoRow, StartTask, CompleteTask,
                    TaskRaises, FailTask, LoseTask
      <4>2. errors \in Nat
        BY DEF TypeOK
      <4> QED
        BY <4>1, <4>2
    <3> QED
      BY <2>3, <3>1, TaskKeepsOwned
  <2>4. CASE ServerStep
    <3>1. errors = 0
      BY <2>4 DEF ServerStep, Crash, Restart, Age, CollectOld, DeleteCollected
    <3> QED
      BY <2>4, <3>1, ServerKeepsOwned
  <2> QED
    BY <2>1, <2>2, <2>3, <2>4 DEF Next, SyncStep, TaskStep, TaskRuns, ServerStep
<1>3. Inv => NoStrandedRun
  BY DEF Owned, Owns, NoStrandedRun
<1> HIDE DEF Inv
<1> QED
  BY <1>1, <1>2, <1>3, TypeCorrect, PTL DEF Spec

=============================================================================
