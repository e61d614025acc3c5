----------------------- MODULE ExecutionRunsSerialProofs -----------------------
(***************************************************************************)
(* What holds of the result tables when the synchronous executions of one  *)
(* scope do not overlap and the clean-up runs only while the server is     *)
(* down, for any number of scopes, requests, tasks, crashes and failed     *)
(* writes, and although ids come back.                                     *)
(*                                                                         *)
(* Serial is inductive with TypeOK: under the two conditions an id that a  *)
(* request, a task or the clean-up holds still names the run it was read   *)
(* for.                                                                    *)
(*                                                                         *)
(* The refinement of ResultBoard rests on Serial, Spent (what a row counts *)
(* is of an execution that has ended, so a new result is new to readers)   *)
(* and RowsTell (the items of a run are the findings its row counts).      *)
(***************************************************************************)
EXTENDS ExecutionRunsProofs, FiniteSetTheorems

USE ExecutionRunsAssumption

InProgress(s) == syncs[s].pc \in {"executed", "persist"}
Active(t) == tasks[t].pc \notin {"new", "done"}

\* The synchronous executions in progress are of different scopes.
ScopesAlone ==
  \A s, r \in SyncRequests :
    InProgress(s) /\ InProgress(r) /\ syncs[s].scope = syncs[r].scope => s = r

\* The clean-up is at work only without the server, on runs it may delete.
CleanupAlone == collected # {} => ~up /\ collected \subseteq Disposable

DownIsIdle ==
  ~up => (\A s \in SyncRequests : ~InProgress(s)) /\ (\A t \in Tasks : ~Active(t))

\* What a request read of its scope is what there is when it commits.
SeesPrevious ==
  \A s \in SyncRequests :
    syncs[s].pc = "persist" => syncs[s].seen = SyncRunsOf(syncs[s].scope)

OnePerScope ==
  \A id, j \in LiveRuns :
    runs[id].mode = "sync" /\ runs[j].mode = "sync" /\ runs[id].scope = runs[j].scope
      => id = j

\* A row as the task that works on it left it.
IsRowOf(row, task) ==
  /\ row.mode = "async" /\ row.result = NoResult
  /\ row.status = IF task.pc \in {"queued", "starting"} THEN "pending" ELSE "running"
  /\ task.pc \in {"starting", "completing", "settling"} => task.holds = row.status
  /\ task.pc = "completing" => task.holdsEmpty

\* A task's run is there, and as the task left it.
TasksHoldTheirRun ==
  \A t \in Tasks : Active(t) =>
    tasks[t].run \in LiveRuns /\ IsRowOf(runs[tasks[t].run], tasks[t])

RunsHaveOneTask ==
  \A t, u \in Tasks : Active(t) /\ Active(u) /\ tasks[t].run = tasks[u].run => t = u

Serial ==
  /\ ScopesAlone /\ CleanupAlone /\ DownIsIdle /\ SeesPrevious /\ OnePerScope
  /\ TasksHoldTheirRun /\ RunsHaveOneTask /\ FindingsAreListed

LEMMA SerialInit == Init => Serial
BY DEF Init, Serial, ScopesAlone, CleanupAlone, DownIsIdle, SeesPrevious, OnePerScope,
       TasksHoldTheirRun, RunsHaveOneTask, FindingsAreListed, InProgress, Active, LiveRuns, At

-----------------------------------------------------------------------------
(* Steps that change one kind of actor *)

\* A step of request s that leaves the tables alone.
LEMMA RequestSerial ==
  ASSUME TypeOK, Serial, NEW s \in SyncRequests, up,
         UNCHANGED <<runs, items, tasks, collected, up>>,
         \A q \in SyncRequests \ {s} : syncs'[q] = syncs[q],
         InProgress(s)' =>
           \A q \in SyncRequests \ {s} : InProgress(q) => syncs[q].scope # syncs'[s].scope,
         syncs'[s].pc = "persist" => syncs'[s].seen = SyncRunsOf(syncs'[s].scope)
  PROVE  Serial'
<1>1. \A scope : SyncRunsOf(scope)' = SyncRunsOf(scope)
  BY DEF SyncRunsOf, LiveRuns
<1>2. LiveRuns' = LiveRuns /\ Disposable' = Disposable
  BY DEF LiveRuns, Disposable
<1>3. ScopesAlone'
  BY DEF Serial, ScopesAlone, InProgress
<1>4. SeesPrevious'
  BY <1>1, <1>2 DEF Serial, SeesPrevious, SyncRunsOf
<1>5. CleanupAlone' /\ DownIsIdle'
  BY <1>2 DEF Serial, CleanupAlone, DownIsIdle
<1>6. OnePerScope' /\ TasksHoldTheirRun' /\ RunsHaveOneTask' /\ FindingsAreListed'
  BY <1>2 DEF Serial, OnePerScope, TasksHoldTheirRun, RunsHaveOneTask, FindingsAreListed, Active
<1> QED
  BY <1>3, <1>4, <1>5, <1>6 DEF Serial

\* A step of task t writes the row of its run, which no other task has.
Wrote(t, id, row, task) ==
  /\ runs' = [runs EXCEPT ![id] = row] /\ tasks' = [tasks EXCEPT ![t] = task]
  /\ row \in Runs /\ task \in TaskStates /\ row.mode = "async"
  /\ id \in LiveRuns => runs[id].mode = "async"
  /\ \A u \in Tasks \ {t} : Active(u) => tasks[u].run # id
  /\ task.pc \notin {"new", "done"} => task.run = id /\ IsRowOf(row, task)
  /\ ItemOf(id, row.result) \subseteq items'
  /\ \A it \in items : it.run # id => it \in items'

LEMMA TaskSerial ==
  ASSUME TypeOK, Serial, up, UNCHANGED <<syncs, collected, up>>,
         NEW t \in Tasks, NEW id \in RunIds, NEW row, NEW task,
         Wrote(t, id, row, task)
  PROVE  Serial'
<1> USE DEF Wrote
<1>1. /\ runs'[id] = row /\ \A j \in RunIds \ {id} : runs'[j] = runs[j]
      /\ tasks'[t] = task /\ \A u \in Tasks \ {t} : tasks'[u] = tasks[u]
  BY DEF TypeOK
<1>2. LiveRuns' = LiveRuns \cup {id}
  BY <1>1 DEF LiveRuns
<1>3. \A scope \in Scopes : SyncRunsOf(scope)' = SyncRunsOf(scope)
  BY <1>1, <1>2 DEF SyncRunsOf, LiveRuns
<1>4. ScopesAlone' /\ DownIsIdle'
  BY DEF Serial, ScopesAlone, DownIsIdle, InProgress
<1>5. CleanupAlone'
  BY DEF Serial, CleanupAlone
<1>6. SeesPrevious'
  BY <1>3 DEF Serial, SeesPrevious, TypeOK
<1>7. OnePerScope'
  BY <1>1, <1>2 DEF Serial, OnePerScope, LiveRuns
<1>8. TasksHoldTheirRun'
  <2>1. ASSUME NEW u \in Tasks \ {t}, Active(u)
        PROVE  /\ tasks'[u] = tasks[u] /\ tasks[u].run \in LiveRuns
               /\ runs'[tasks[u].run] = runs[tasks[u].run]
               /\ IsRowOf(runs[tasks[u].run], tasks[u])
    BY <1>1, <2>1 DEF Serial, TasksHoldTheirRun, LiveRuns
  <2>2. Active(t)' => tasks'[t].run \in LiveRuns' /\ IsRowOf(runs'[tasks'[t].run], tasks'[t])
    BY <1>1, <1>2 DEF Active
  <2> QED
    BY <1>1, <1>2, <2>1, <2>2 DEF TasksHoldTheirRun, Active, IsRowOf
<1>9. RunsHaveOneTask'
  BY <1>1 DEF Serial, RunsHaveOneTask, Active
<1>10. FindingsAreListed'
  <2> SUFFICES ASSUME NEW j \in LiveRuns', runs'[j].result # NoResult
               PROVE  ItemOf(j, runs'[j].result) \subseteq items'
    BY DEF FindingsAreListed, ItemOf
  <2>1. CASE j = id
    BY <1>1, <2>1
  <2>2. CASE j # id
    <3>1. j \in LiveRuns /\ runs'[j] = runs[j] /\ ItemOf(j, runs[j].result) \subseteq items
      BY <1>1, <1>2, <2>2 DEF Serial, FindingsAreListed, LiveRuns
    <3>2. \A it \in ItemOf(j, runs[j].result) : it.run = j
      BY DEF ItemOf
    <3> QED
      BY <2>2, <3>1, <3>2
  <2> QED
    BY <2>1, <2>2
<1> QED
  BY <1>4, <1>5, <1>6, <1>7, <1>8, <1>9, <1>10 DEF Serial

-----------------------------------------------------------------------------
(* Synchronous executions *)

\* A request runs only when no other of its scope does.
LEMMA ExecutesAlone ==
  ASSUME MaxOverlap <= 1, IsFiniteSet(SyncRequests), NEW scope \in Scopes,
         Cardinality(Overlapping(scope)) < MaxOverlap
  PROVE  \A q \in SyncRequests : InProgress(q) => syncs[q].scope # scope
<1>1. IsFiniteSet(Overlapping(scope)) /\ Cardinality(Overlapping(scope)) \in Nat
  BY FS_Subset, FS_CardinalityType DEF Overlapping
<1>2. Cardinality(Overlapping(scope)) = 0
  BY <1>1
<1>3. Overlapping(scope) = {}
  BY <1>1, <1>2, FS_EmptySet
<1> QED
  BY <1>3 DEF Overlapping, InProgress

\* The commit replaces the results of its scope: all of them, and nothing else.
LEMMA PersistSerial ==
  ASSUME TypeOK, Serial, NEW s \in SyncRequests, SyncPersists(s)
  PROVE  Serial'
<1> DEFINE seen == syncs[s].seen
           scope == syncs[s].scope
<1>1. PICK id \in RunIds, result \in {s, NoResult} :
        /\ IsNextId(id, seen)
        /\ runs' = [j \in RunIds |->
                      IF j = id THEN NewRun("sync", scope, "success", result)
                      ELSE IF j \in seen THEN NoRun ELSE runs[j]]
        /\ items' = (items \ ItemsOf(seen)) \cup ItemOf(id, result)
  BY DEF SyncPersists
<1> DEFINE new == NewRun("sync", scope, "success", result)
<1>2. new \in Runs /\ new.mode = "sync" /\ new.scope = scope /\ new.result = result
  BY NewRunType DEF SyncPersists, TypeOK, Executions, NewRun
<1>3. /\ scope \in Scopes /\ InProgress(s) /\ up /\ collected = {} /\ seen = SyncRunsOf(scope)
      /\ syncs' = [syncs EXCEPT ![s] = Answered]
      /\ UNCHANGED <<tasks, collected, up>>
  BY DEF SyncPersists, TypeOK, Serial, InProgress, CleanupAlone, SeesPrevious
<1>4. ~InProgress(s)' /\ \A q \in SyncRequests \ {s} : syncs'[q] = syncs[q]
  BY <1>3 DEF TypeOK, InProgress, Answered
<1> HIDE DEF new, seen, scope
<1>5. id \notin LiveRuns \ seen
  BY <1>1 DEF IsNextId, RunIds
<1>6. /\ id \in LiveRuns' /\ runs'[id] = new
      /\ \A j \in LiveRuns \ seen : j \in LiveRuns' /\ runs'[j] = runs[j]
      /\ \A j \in LiveRuns' \ {id} : j \in LiveRuns \ seen
  BY <1>1, <1>2, <1>5 DEF LiveRuns, new
<1>7. ScopesAlone'
  BY <1>4 DEF Serial, ScopesAlone, InProgress
<1>8. CleanupAlone' /\ DownIsIdle'
  BY <1>3 DEF CleanupAlone, DownIsIdle
<1>9. SeesPrevious'
  <2> SUFFICES ASSUME NEW q \in SyncRequests \ {s}, syncs[q].pc = "persist"
               PROVE  SyncRunsOf(syncs[q].scope)' = SyncRunsOf(syncs[q].scope)
    <3>1. \A q \in SyncRequests : syncs'[q].pc = "persist" => q # s
      BY <1>4 DEF InProgress
    <3> QED
      BY <1>4, <3>1 DEF Serial, SeesPrevious, SyncRunsOf, LiveRuns
  <2>1. syncs[q].scope # scope
    BY <1>3 DEF Serial, ScopesAlone, InProgress, scope
  <2>2. \A j \in seen : j \in LiveRuns /\ runs[j].scope = scope
    BY <1>3 DEF SyncRunsOf
  <2>3. \A j \in LiveRuns' \ {id} : runs'[j] = runs[j]
    BY <1>6
  <2>4. syncs'[q].scope = syncs[q].scope
    BY <1>4
  <2> QED
    BY <1>2, <1>6, <2>1, <2>2, <2>3, <2>4 DEF SyncRunsOf
<1>10. OnePerScope'
  <2>1. \A j \in LiveRuns' \ {id} :
          /\ j \in LiveRuns /\ runs'[j] = runs[j]
          /\ runs[j].mode = "sync" => runs[j].scope # scope
    BY <1>3, <1>6 DEF SyncRunsOf
  <2> QED
    BY <1>2, <1>6, <2>1 DEF Serial, OnePerScope
<1>11. TasksHoldTheirRun'
  <2>1. \A t \in Tasks : Active(t) => tasks[t].run \in LiveRuns \ seen
    BY <1>3 DEF Serial, TasksHoldTheirRun, IsRowOf, SyncRunsOf
  <2> QED
    BY <1>3, <1>6, <2>1 DEF Serial, TasksHoldTheirRun, Active
<1>12. RunsHaveOneTask'
  BY <1>3 DEF Serial, RunsHaveOneTask, Active
<1>13. FindingsAreListed'
  <2> SUFFICES ASSUME NEW j \in LiveRuns', runs'[j].result # NoResult
               PROVE  ItemOf(j, runs'[j].result) \subseteq items'
    BY DEF FindingsAreListed, ItemOf
  <2>1. CASE j = id
    BY <1>1, <1>2, <1>6, <2>1
  <2>2. CASE j # id
    <3>1. j \in LiveRuns \ seen /\ runs'[j] = runs[j]
      BY <1>6, <2>2
    <3>2. ItemOf(j, runs[j].result) \subseteq items
      BY <3>1 DEF Serial, FindingsAreListed
    <3>3. \A it \in ItemOf(j, runs[j].result) : it \notin ItemsOf(seen)
      BY <3>1 DEF ItemOf, ItemsOf
    <3> QED
      BY <1>1, <3>1, <3>2, <3>3
  <2> QED
    BY <2>1, <2>2
<1> QED
  BY <1>7, <1>8, <1>9, <1>10, <1>11, <1>12, <1>13 DEF Serial

LEMMA SyncSerial ==
  ASSUME MaxOverlap <= 1, IsFiniteSet(SyncRequests),
         TypeOK, Serial, NEW s \in SyncRequests, SyncStep(s)
  PROVE  Serial'
<1>1. CASE SyncExecutes(s)
  <2>1. PICK scope \in Scopes :
          /\ Cardinality(Overlapping(scope)) < MaxOverlap
          /\ syncs' = [syncs EXCEPT ![s] = [pc |-> "executed", scope |-> scope, seen |-> {}]]
    BY <1>1 DEF SyncExecutes
  <2>2. /\ syncs'[s].pc = "executed" /\ syncs'[s].scope = scope
        /\ \A q \in SyncRequests \ {s} : syncs'[q] = syncs[q]
    BY <2>1 DEF TypeOK
  <2>3. \A q \in SyncRequests : InProgress(q) => syncs[q].scope # scope
    BY <2>1, ExecutesAlone
  <2> QED
    BY <1>1, <2>2, <2>3, RequestSerial DEF SyncExecutes
<1>2. CASE SyncReadsPrevious(s)
  <2>1. /\ InProgress(s) /\ syncs'[s].scope = syncs[s].scope
        /\ syncs'[s].seen = SyncRunsOf(syncs[s].scope)
        /\ \A q \in SyncRequests \ {s} : syncs'[q] = syncs[q]
    BY <1>2 DEF SyncReadsPrevious, TypeOK, SyncStates, InProgress
  <2>2. \A q \in SyncRequests \ {s} : InProgress(q) => syncs[q].scope # syncs[s].scope
    BY <2>1 DEF Serial, ScopesAlone
  <2> QED
    BY <1>2, <2>1, <2>2, RequestSerial DEF SyncReadsPrevious
<1>3. CASE SyncPersists(s)
  BY <1>3, PersistSerial
<1>4. CASE SyncEnds(s)
  <2>1. syncs'[s].pc = "done" /\ \A q \in SyncRequests \ {s} : syncs'[q] = syncs[q]
    BY <1>4 DEF SyncEnds, Answered, TypeOK
  <2>2. ~InProgress(s)'
    BY <2>1 DEF InProgress
  <2> QED
    BY <1>4, <2>1, <2>2, RequestSerial DEF SyncEnds
<1> QED
  BY <1>1, <1>2, <1>3, <1>4 DEF SyncStep

-----------------------------------------------------------------------------
(* Background tasks *)

LEMMA TasksSerial ==
  ASSUME TypeOK, Serial, NEW t \in Tasks, TaskStep(t)
  PROVE  Serial'
<1>1. CASE CreateTask(t)
  <2>1. PICK id \in RunIds, scope \in Scopes :
          /\ IsNextId(id, {})
          /\ runs' = [runs EXCEPT ![id] = NewRun("async", scope, "pending", NoResult)]
          /\ tasks' = [tasks EXCEPT ![t] = At("queued", id)]
    BY <1>1 DEF CreateTask
  <2>2. PICK new \in Runs : new = NewRun("async", scope, "pending", NoResult)
    BY NewRunType
  <2>3. PICK task \in TaskStates : task = At("queued", id) /\ task.pc = "queued" /\ task.run = id
    BY AtType
  <2>4. new.mode = "async" /\ new.result = NoResult /\ IsRowOf(new, task)
    BY <2>2, <2>3 DEF NewRun, IsRowOf
  <2>5. id \notin LiveRuns
    BY <2>1 DEF IsNextId, RunIds
  <2>6. \A u \in Tasks : Active(u) => tasks[u].run # id
    BY <2>5 DEF Serial, TasksHoldTheirRun
  <2>7. ItemOf(id, new.result) = {}
    BY <2>4 DEF ItemOf
  <2>8. up /\ UNCHANGED <<items, syncs, collected, up>>
    BY <1>1 DEF CreateTask
  <2>9. Wrote(t, id, new, task)
    BY <2>1, <2>2, <2>3, <2>4, <2>5, <2>6, <2>7, <2>8 DEF Wrote
  <2> QED
    BY <2>8, <2>9, TaskSerial
<1>2. CASE ~CreateTask(t)
  <2>0. PICK id : id = tasks[t].run
    OBVIOUS
  <2>1. /\ up /\ Active(t) /\ tasks[t] \in TaskStates
        /\ UNCHANGED <<syncs, collected, up>>
    BY <1>2 DEF TaskStep, LoadRow, FindNoRow, StartTask, CompleteTask, TaskRaises, FailTask,
                LoseTask, TypeOK, Active
  <2>2. /\ id \in LiveRuns /\ id \in RunIds /\ runs[id] \in Runs /\ IsRowOf(runs[id], tasks[t])
        /\ runs[id].mode = "async" /\ runs[id].result = NoResult
        /\ \A u \in Tasks \ {t} : Active(u) => tasks[u].run # id
    BY <2>0, <2>1 DEF Serial, TasksHoldTheirRun, RunsHaveOneTask, LiveRuns, TypeOK, IsRowOf
  <2>3. ASSUME NEW row, NEW task, Wrote(t, id, row, task)
        PROVE  Serial'
    BY <2>1, <2>2, <2>3, TaskSerial
  <2>4. Ended \in TaskStates /\ Ended.pc = "done" /\ ItemOf(id, NoResult) = {}
    BY AtType DEF Ended, ItemOf
  \* A step that leaves the row alone and the task active, or ends it.
  <2>5. ASSUME NEW task \in TaskStates, tasks' = [tasks EXCEPT ![t] = task],
               UNCHANGED <<runs, items>>,
               task.pc \notin {"new", "done"} => task.run = id /\ IsRowOf(runs[id], task)
        PROVE  Serial'
    <3>1. runs' = [runs EXCEPT ![id] = runs[id]]
      BY <2>5 DEF TypeOK
    <3>2. Wrote(t, id, runs[id], task)
      BY <2>2, <2>4, <2>5, <3>1 DEF Wrote
    <3> QED
      BY <2>3, <3>2
  <2>6. CASE LoadRow(t)
    <3>1. PICK task \in TaskStates :
            /\ tasks' = [tasks EXCEPT ![t] = task] /\ task.run = id
            /\ task.holds = runs[id].status
            /\ task.holdsEmpty <=> runs[id].result = NoResult
            /\ \/ tasks[t].pc = "queued" /\ task.pc = "starting"
               \/ tasks[t].pc = "running" /\ task.pc = "completing"
               \/ tasks[t].pc = "failing" /\ task.pc = "settling"
      BY <2>0, <2>6, Loads
    <3>2. IsRowOf(runs[id], task)
      BY <2>2, <3>1 DEF IsRowOf
    <3> QED
      BY <2>5, <2>6, <3>1, <3>2 DEF LoadRow
  <2>7. CASE StartTask(t)
    <3>1. tasks[t].pc = "starting" /\ runs[id].status = "pending" /\ tasks[t].holds = "pending"
      BY <2>2, <2>7 DEF StartTask, IsRowOf
    <3>2. WriteStatus(t, "running") /\ tasks' = [tasks EXCEPT ![t] = At("running", id)]
          /\ items' = items
      BY <2>0, <2>2, <2>7 DEF StartTask
    <3>3. PICK row \in Runs : /\ runs' = [runs EXCEPT ![id] = row] /\ row.mode = "async"
                              /\ row.result = NoResult /\ row.status = "running"
      BY <2>0, <2>2, <3>1, <3>2, StatusWritten DEF Statuses
    <3>4. PICK task \in TaskStates : task = At("running", id) /\ task.pc = "running" /\ task.run = id
      BY <2>2, AtType
    <3>5. IsRowOf(row, task)
      BY <3>3, <3>4 DEF IsRowOf
    <3>6. Wrote(t, id, row, task)
      BY <2>2, <2>4, <3>2, <3>3, <3>4, <3>5 DEF Wrote
    <3> QED
      BY <2>3, <3>6
  <2>8. CASE CompleteTask(t)
    <3>1. PICK result \in {t, NoResult} :
            /\ WriteRun(t, result)
            /\ items' = (items \ ItemsOf({id})) \cup ItemOf(id, result)
      BY <2>0, <2>8 DEF CompleteTask
    <3>2. PICK row \in Runs : /\ runs' = [runs EXCEPT ![id] = row] /\ row.mode = "async"
                              /\ row.result = result
      BY <2>0, <2>2, <3>1, RunWritten
    <3>3. tasks' = [tasks EXCEPT ![t] = Ended]
      BY <2>8 DEF CompleteTask
    <3>4. \A it \in items : it.run # id => it \in items'
      BY <3>1 DEF ItemsOf
    <3>5. Wrote(t, id, row, Ended)
      BY <2>2, <2>4, <3>1, <3>2, <3>3, <3>4 DEF Wrote
    <3> QED
      BY <2>3, <3>5
  <2>9. CASE TaskRaises(t)
    <3>1. PICK task \in TaskStates : task = At("failing", id) /\ task.pc = "failing" /\ task.run = id
      BY <2>2, AtType
    <3>2. IsRowOf(runs[id], task)
      BY <2>2, <2>9, <3>1 DEF IsRowOf, TaskRaises
    <3> QED
      BY <2>0, <2>5, <2>9, <3>1, <3>2 DEF TaskRaises
  <2>10. CASE FailTask(t)
    <3>1. WriteStatus(t, "failed") /\ tasks' = [tasks EXCEPT ![t] = Ended] /\ items' = items
      BY <2>0, <2>2, <2>10 DEF FailTask
    <3>2. PICK row \in Runs : /\ runs' = [runs EXCEPT ![id] = row] /\ row.mode = "async"
                              /\ row.result = NoResult
      BY <2>0, <2>2, <3>1, StatusWritten DEF Statuses
    <3>3. Wrote(t, id, row, Ended)
      BY <2>2, <2>4, <3>1, <3>2 DEF Wrote
    <3> QED
      BY <2>3, <3>3
  <2>11. CASE LoseTask(t)
    BY <2>4, <2>5, <2>11 DEF LoseTask
  <2>12. ~FindNoRow(t)
    BY <2>0, <2>2 DEF FindNoRow
  <2> QED
    BY <1>2, <2>6, <2>7, <2>8, <2>9, <2>10, <2>11, <2>12 DEF TaskStep
<1> QED
  BY <1>1, <1>2

-----------------------------------------------------------------------------
(* Crash, restart, retention *)

\* A step that leaves the actors alone and of the rows only changes statuses and
\* ages, the statuses while no task works on them.
LEMMA RowsKeptSerial ==
  ASSUME TypeOK, Serial, UNCHANGED <<items, syncs, tasks>>,
         LiveRuns' = LiveRuns,
         \A id \in LiveRuns :
           /\ runs'[id].mode = runs[id].mode /\ runs'[id].scope = runs[id].scope
           /\ runs'[id].result = runs[id].result,
         \A t \in Tasks, id \in LiveRuns :
           Active(t) /\ tasks[t].run = id => runs'[id].status = runs[id].status,
         CleanupAlone', DownIsIdle'
  PROVE  Serial'
<1>1. ScopesAlone' /\ RunsHaveOneTask'
  BY DEF Serial, ScopesAlone, RunsHaveOneTask, InProgress, Active
<1>2. SeesPrevious'
  BY DEF Serial, SeesPrevious, SyncRunsOf
<1>3. OnePerScope' /\ FindingsAreListed'
  BY DEF Serial, OnePerScope, FindingsAreListed, ItemOf
<1>4. TasksHoldTheirRun'
  BY DEF Serial, TasksHoldTheirRun, Active, IsRowOf
<1> QED
  BY <1>1, <1>2, <1>3, <1>4 DEF Serial

LEMMA ServerSerial ==
  ASSUME ~OnlineCleanup, TypeOK, Serial, ServerStep
  PROVE  Serial'
<1>1. CASE Crash
  <2>1. UNCHANGED <<runs, items, collected>> /\ collected = {} /\ ~up'
    BY <1>1 DEF Crash, Serial, CleanupAlone
  <2>2. (\A s \in SyncRequests : ~InProgress(s)') /\ (\A t \in Tasks : ~Active(t)')
    BY <1>1 DEF Crash, InProgress, Active, Answered, Ended, At
  <2>3. ScopesAlone' /\ SeesPrevious' /\ TasksHoldTheirRun' /\ RunsHaveOneTask' /\ DownIsIdle'
    BY <2>2 DEF ScopesAlone, SeesPrevious, TasksHoldTheirRun, RunsHaveOneTask, DownIsIdle,
                InProgress
  <2>4. CleanupAlone' /\ OnePerScope' /\ FindingsAreListed'
    BY <2>1 DEF Serial, CleanupAlone, OnePerScope, FindingsAreListed, LiveRuns
  <2> QED
    BY <2>3, <2>4 DEF Serial
<1>2. CASE Restart
  <2>1. \A t \in Tasks : ~Active(t)
    BY <1>2 DEF Restart, Serial, DownIsIdle
  <2>2. /\ LiveRuns' = LiveRuns
        /\ \A id \in LiveRuns :
             /\ runs'[id].mode = runs[id].mode /\ runs'[id].scope = runs[id].scope
             /\ runs'[id].result = runs[id].result
    BY <1>2 DEF Restart, Unfinished, LiveRuns, TypeOK, Runs, Statuses
  <2>3. CleanupAlone' /\ DownIsIdle'
    BY <1>2 DEF Restart, CleanupAlone, DownIsIdle
  <2> QED
    BY <1>2, <2>1, <2>2, <2>3, RowsKeptSerial DEF Restart
<1>3. ASSUME NEW id \in RunIds, Age(id)
      PROVE  Serial'
  <2> DEFINE row == [runs[id] EXCEPT !.old = TRUE]
  <2>1. /\ id \in LiveRuns /\ runs[id] \in Runs /\ runs' = [runs EXCEPT ![id] = row]
        /\ UNCHANGED <<items, syncs, tasks, collected, up>>
    BY <1>3 DEF Age, TypeOK, LiveRuns
  <2>2. /\ row \in Runs /\ row.mode = runs[id].mode /\ row.scope = runs[id].scope
        /\ row.result = runs[id].result /\ row.status = runs[id].status /\ row.old
    BY <2>1 DEF Runs
  <2>3. runs'[id] = row /\ \A j \in RunIds \ {id} : runs'[j] = runs[j]
    BY <2>1 DEF TypeOK
  <2> HIDE DEF row
  <2>4. LiveRuns' = LiveRuns /\ Disposable \subseteq Disposable'
    BY <2>1, <2>2, <2>3 DEF LiveRuns, Disposable
  <2>5. CleanupAlone' /\ DownIsIdle'
    BY <2>1, <2>4 DEF Serial, CleanupAlone, DownIsIdle, InProgress, Active
  <2>6. \A j \in LiveRuns :
          /\ runs'[j].mode = runs[j].mode /\ runs'[j].scope = runs[j].scope
          /\ runs'[j].result = runs[j].result /\ runs'[j].status = runs[j].status
    BY <2>2, <2>3 DEF LiveRuns
  <2> QED
    BY <2>1, <2>4, <2>5, <2>6, RowsKeptSerial
<1>4. CASE CollectOld
  <2>1. /\ ~up /\ collected' = Disposable /\ Disposable' = Disposable /\ LiveRuns' = LiveRuns
        /\ UNCHANGED <<runs, items, syncs, tasks, up>>
    BY <1>4 DEF CollectOld, Disposable, LiveRuns
  <2>2. CleanupAlone' /\ DownIsIdle'
    BY <2>1 DEF Serial, CleanupAlone, DownIsIdle, InProgress, Active
  <2> QED
    BY <2>1, <2>2, RowsKeptSerial
<1>5. CASE DeleteCollected
  <2>1. /\ ~up /\ ~up' /\ collected' = {} /\ UNCHANGED <<syncs, tasks>>
        /\ (\A s \in SyncRequests : ~InProgress(s)) /\ (\A t \in Tasks : ~Active(t))
    BY <1>5 DEF DeleteCollected, Serial, CleanupAlone, DownIsIdle
  <2>2. ScopesAlone' /\ SeesPrevious' /\ TasksHoldTheirRun' /\ RunsHaveOneTask'
        /\ DownIsIdle' /\ CleanupAlone'
    BY <2>1 DEF ScopesAlone, SeesPrevious, TasksHoldTheirRun, RunsHaveOneTask, DownIsIdle,
                CleanupAlone, InProgress, Active
  <2>3. \A j \in LiveRuns' : j \in LiveRuns \ collected /\ runs'[j] = runs[j]
    BY <1>5 DEF DeleteCollected, LiveRuns
  <2>4. OnePerScope'
    BY <2>3 DEF Serial, OnePerScope
  <2>5. FindingsAreListed'
    <3> SUFFICES ASSUME NEW j \in LiveRuns', runs'[j].result # NoResult
                 PROVE  ItemOf(j, runs'[j].result) \subseteq items'
      BY DEF FindingsAreListed, ItemOf
    <3>1. ItemOf(j, runs[j].result) \subseteq items
      BY <2>3 DEF Serial, FindingsAreListed
    <3>2. \A it \in ItemOf(j, runs[j].result) : it \notin ItemsOf(collected)
      BY <2>3 DEF ItemOf, ItemsOf
    <3> QED
      BY <1>5, <2>3, <3>1, <3>2 DEF DeleteCollected
  <2> QED
    BY <2>2, <2>4, <2>5 DEF Serial
<1> QED
  BY <1>1, <1>2, <1>3, <1>4, <1>5 DEF ServerStep

LEMMA SerialStep ==
  ASSUME MaxOverlap <= 1, IsFiniteSet(SyncRequests), ~OnlineCleanup,
         TypeOK, Serial, [Next]_vars
  PROVE  Serial'
<1>1. CASE UNCHANGED vars
  <2>1. LiveRuns' = LiveRuns /\ Disposable' = Disposable
    BY <1>1 DEF vars, LiveRuns, Disposable
  <2>2. CleanupAlone' /\ DownIsIdle'
    BY <1>1, <2>1 DEF vars, Serial, CleanupAlone, DownIsIdle, InProgress, Active
  <2> QED
    BY <1>1, <2>1, <2>2, RowsKeptSerial DEF vars
<1> QED
  BY <1>1, SyncSerial, TasksSerial, ServerSerial DEF Next, SyncStep, TaskStep, TaskRuns, ServerStep

-----------------------------------------------------------------------------
(* Theorems *)

\* A scope keeps one synchronous result, although each execution deletes what it
\* read before its commit and ids come back.
THEOREM ScopesKeepOneResult ==
  ASSUME MaxOverlap <= 1, IsFiniteSet(SyncRequests), ~OnlineCleanup
  PROVE  Spec => []OneResultPerScope
<1>1. OnePerScope => OneResultPerScope
  <2> SUFFICES ASSUME OnePerScope, NEW scope \in Scopes
               PROVE  Cardinality(SyncRunsOf(scope)) <= 1
    BY DEF OneResultPerScope
  <2>1. CASE SyncRunsOf(scope) = {}
    BY <2>1, FS_EmptySet
  <2>2. CASE SyncRunsOf(scope) # {}
    <3>1. PICK id \in SyncRunsOf(scope) : TRUE
      BY <2>2
    <3>2. SyncRunsOf(scope) = {id}
      BY <3>1 DEF OnePerScope, SyncRunsOf
    <3>3. Cardinality({id}) = 1
      BY FS_Singleton
    <3> QED
      BY <3>2, <3>3
  <2> QED
    BY <2>1, <2>2
<1>2. TypeOK /\ Serial /\ [Next]_vars => Serial'
  BY SerialStep
<1>3. Serial => OneResultPerScope
  BY <1>1 DEF Serial
<1> QED
  BY <1>2, <1>3, TypeCorrect, SerialInit, PTL DEF Spec

\* A run that counts findings lists them, although a task that finds nothing
\* deletes items without writing the count.
THEOREM CountedFindingsAreListed ==
  ASSUME MaxOverlap <= 1, IsFiniteSet(SyncRequests), ~OnlineCleanup
  PROVE  Spec => []FindingsAreListed
<1>1. TypeOK /\ Serial /\ [Next]_vars => Serial'
  BY SerialStep
<1>2. Serial => FindingsAreListed
  BY DEF Serial
<1> QED
  BY <1>1, <1>2, TypeCorrect, SerialInit, PTL DEF Spec

\* How a step may treat a background run.
MovesForward(id) ==
  \/ /\ id \in LiveRuns'
     /\ runs'[id].mode = "async" /\ runs'[id].scope = runs[id].scope
     /\ runs'[id].status \in After(runs[id].status)
  \/ id \notin LiveRuns' /\ id \in Disposable /\ id \in collected

\* A row that keeps its mode and scope, and its status or takes a later one.
LEMMA StaysForward ==
  ASSUME NEW id \in LiveRuns, runs[id].mode = "async", NEW row \in Runs,
         runs[id] \in Runs, id \in RunIds,
         runs'[id] = row, row.mode = "async", row.scope = runs[id].scope,
         \/ row.status = runs[id].status
         \/ row.status = "running" /\ runs[id].status = "pending"
         \/ row.status = "success" /\ runs[id].status = "running"
         \/ row.status = "failed" /\ runs[id].status \notin Finished
  PROVE  MovesForward(id)
<1>1. row.status \in After(runs[id].status)
  BY DEF After, Runs, Statuses, Finished
<1>2. id \in LiveRuns'
  BY DEF LiveRuns
<1> QED
  BY <1>1, <1>2 DEF MovesForward

LEMMA SyncMovesForward ==
  ASSUME TypeOK, Serial, NEW s \in SyncRequests, SyncStep(s),
         NEW id \in LiveRuns, runs[id].mode = "async"
  PROVE  MovesForward(id)
<1>1. id \in RunIds /\ runs[id] \in Runs
  BY DEF LiveRuns, TypeOK
<1>2. runs'[id] = runs[id]
  <2>1. CASE SyncPersists(s)
    <3>1. PICK j \in RunIds, result \in {s, NoResult} :
            /\ IsNextId(j, syncs[s].seen)
            /\ runs' = [k \in RunIds |->
                          IF k = j THEN NewRun("sync", syncs[s].scope, "success", result)
                          ELSE IF k \in syncs[s].seen THEN NoRun ELSE runs[k]]
      BY <2>1 DEF SyncPersists
    <3>2. id \notin syncs[s].seen
      BY <2>1 DEF SyncPersists, Serial, SeesPrevious, SyncRunsOf
    <3>3. id # j
      BY <3>1, <3>2 DEF IsNextId, RunIds
    <3> QED
      BY <1>1, <3>1, <3>2, <3>3
  <2>2. CASE ~SyncPersists(s)
    BY <2>2 DEF SyncStep, SyncExecutes, SyncReadsPrevious, SyncEnds
  <2> QED
    BY <2>1, <2>2
<1> QED
  BY <1>1, <1>2, StaysForward

LEMMA TaskMovesForward ==
  ASSUME TypeOK, Serial, NEW t \in Tasks, TaskStep(t),
         NEW id \in LiveRuns, runs[id].mode = "async"
  PROVE  MovesForward(id)
<1>1. id \in RunIds /\ runs[id] \in Runs
  BY DEF LiveRuns, TypeOK
<1>2. CASE runs'[id] = runs[id]
  BY <1>1, <1>2, StaysForward
<1>3. CASE CreateTask(t)
  <2>1. PICK j \in RunIds, scope \in Scopes :
          /\ IsNextId(j, {})
          /\ runs' = [runs EXCEPT ![j] = NewRun("async", scope, "pending", NoResult)]
    BY <1>3 DEF CreateTask
  <2>2. id # j
    BY <2>1 DEF IsNextId, RunIds
  <2>3. runs'[id] = runs[id]
    BY <1>1, <2>1, <2>2 DEF TypeOK
  <2> QED
    BY <1>2, <2>3
<1>4. CASE LoadRow(t) \/ FindNoRow(t) \/ TaskRaises(t) \/ LoseTask(t)
  BY <1>2, <1>4 DEF LoadRow, FindNoRow, TaskRaises, LoseTask
<1>5. CASE tasks[t].run # id /\ (StartTask(t) \/ CompleteTask(t) \/ FailTask(t))
  <2>1. CASE UNCHANGED runs
    BY <1>2, <2>1
  <2>2. CASE tasks[t].run \in LiveRuns /\ \E status \in Statuses : WriteStatus(t, status)
    <3>1. PICK row : runs' = [runs EXCEPT ![tasks[t].run] = row]
      BY <2>2, StatusWritten
    <3> QED
      BY <1>1, <1>2, <1>5, <3>1 DEF TypeOK
  <2>3. CASE tasks[t].run \in LiveRuns /\ \E result \in {t, NoResult} : WriteRun(t, result)
    <3>1. PICK row : runs' = [runs EXCEPT ![tasks[t].run] = row]
      BY <2>3, RunWritten
    <3> QED
      BY <1>1, <1>2, <1>5, <3>1 DEF TypeOK
  <2> QED
    BY <1>5, <2>1, <2>2, <2>3 DEF StartTask, CompleteTask, FailTask, Statuses
<1>6. CASE tasks[t].run = id /\ StartTask(t)
  <2>1. runs[id].status = "pending"
    BY <1>6 DEF StartTask, Serial, TasksHoldTheirRun, IsRowOf, Active
  <2>2. WriteStatus(t, "running")
    BY <1>6 DEF StartTask
  <2>3. PICK row \in Runs : /\ runs' = [runs EXCEPT ![id] = row] /\ row.mode = "async"
                            /\ row.scope = runs[id].scope
                            /\ row.status \in {"running", runs[id].status}
    BY <1>6, <2>2, StatusWritten DEF Statuses
  <2>4. runs'[id] = row
    BY <1>1, <2>3 DEF TypeOK
  <2> QED
    BY <1>1, <2>1, <2>3, <2>4, StaysForward
<1>7. CASE tasks[t].run = id /\ CompleteTask(t)
  <2>1. runs[id].status = "running"
    BY <1>7 DEF CompleteTask, Serial, TasksHoldTheirRun, IsRowOf, Active
  <2>2. PICK row \in Runs : /\ runs' = [runs EXCEPT ![id] = row] /\ row.mode = "async"
                            /\ row.scope = runs[id].scope
                            /\ row.status \in {"success", runs[id].status}
    BY <1>7, RunWritten DEF CompleteTask
  <2>3. runs'[id] = row
    BY <1>1, <2>2 DEF TypeOK
  <2> QED
    BY <1>1, <2>1, <2>2, <2>3, StaysForward
<1>8. CASE tasks[t].run = id /\ FailTask(t)
  <2>1. runs[id].status = "running"
    BY <1>8 DEF FailTask, Serial, TasksHoldTheirRun, IsRowOf, Active
  <2>2. WriteStatus(t, "failed")
    BY <1>8 DEF FailTask
  <2>3. PICK row \in Runs : /\ runs' = [runs EXCEPT ![id] = row] /\ row.mode = "async"
                            /\ row.scope = runs[id].scope
                            /\ row.status \in {"failed", runs[id].status}
    BY <1>8, <2>2, StatusWritten DEF Statuses
  <2>4. runs'[id] = row
    BY <1>1, <2>3 DEF TypeOK
  <2> QED
    BY <1>1, <2>1, <2>3, <2>4, StaysForward DEF Finished
<1> QED
  BY <1>3, <1>4, <1>5, <1>6, <1>7, <1>8 DEF TaskStep

LEMMA ServerMovesForward ==
  ASSUME TypeOK, Serial, ServerStep,
         NEW id \in LiveRuns, runs[id].mode = "async"
  PROVE  MovesForward(id)
<1>1. id \in RunIds /\ runs[id] \in Runs
  BY DEF LiveRuns, TypeOK
<1>2. CASE runs'[id] = runs[id]
  BY <1>1, <1>2, StaysForward
<1>3. CASE Crash \/ CollectOld
  BY <1>2, <1>3 DEF Crash, CollectOld
<1>4. CASE Restart /\ id \in Unfinished
  <2>1. runs'[id] = [runs[id] EXCEPT !.status = "failed"] /\ runs[id].status \notin Finished
    BY <1>1, <1>4 DEF Restart, Unfinished
  <2>2. runs'[id] \in Runs /\ runs'[id].mode = "async" /\ runs'[id].scope = runs[id].scope
        /\ runs'[id].status = "failed"
    BY <1>1, <2>1 DEF Runs, Statuses
  <2> QED
    BY <1>1, <2>1, <2>2, StaysForward
<1>5. CASE Restart /\ id \notin Unfinished
  BY <1>1, <1>2, <1>5 DEF Restart
<1>6. ASSUME NEW j \in RunIds, Age(j)
      PROVE  MovesForward(id)
  <2>1. runs'[id] = runs[id] \/ runs'[id] = [runs[id] EXCEPT !.old = TRUE]
    BY <1>1, <1>6 DEF Age, TypeOK
  <2>2. runs'[id] \in Runs /\ runs'[id].mode = "async" /\ runs'[id].scope = runs[id].scope
        /\ runs'[id].status = runs[id].status
    BY <1>1, <2>1 DEF Runs
  <2> QED
    BY <1>1, <2>2, StaysForward
<1>7. CASE DeleteCollected /\ id \in collected
  <2>1. id \notin LiveRuns' /\ id \in Disposable
    BY <1>7 DEF DeleteCollected, LiveRuns, Serial, CleanupAlone
  <2> QED
    BY <1>7, <2>1 DEF MovesForward
<1>8. CASE DeleteCollected /\ id \notin collected
  BY <1>1, <1>2, <1>8 DEF DeleteCollected
<1> QED
  BY <1>3, <1>4, <1>5, <1>6, <1>7, <1>8 DEF ServerStep

\* A background run only moves forward, and only the clean-up removes it, once it
\* has ended.
THEOREM BackgroundRunsAreKept ==
  ASSUME MaxOverlap <= 1, IsFiniteSet(SyncRequests), ~OnlineCleanup
  PROVE  Spec => BackgroundRunsMoveForward
<1> DEFINE Forward == \A id \in LiveRuns : runs[id].mode = "async" => MovesForward(id)
<1>1. ASSUME TypeOK, Serial, [Next]_vars
      PROVE  [Forward]_vars
  BY <1>1, SyncMovesForward, TaskMovesForward, ServerMovesForward
     DEF Next, SyncStep, TaskStep, TaskRuns, ServerStep
<1>2. TypeOK /\ Serial /\ [Next]_vars => Serial'
  BY SerialStep
<1>3. Spec => [][Forward]_vars
  BY <1>1, <1>2, TypeCorrect, SerialInit, PTL DEF Spec
<1> QED
  BY <1>3 DEF MovesForward, BackgroundRunsMoveForward

-----------------------------------------------------------------------------
(* The results as their readers find them *)

\* The result of an execution that has ended names no execution still to write.
Spent ==
  \A id \in LiveRuns :
    /\ runs[id].result \in SyncRequests => syncs[runs[id].result].pc = "done"
    /\ runs[id].result \in Tasks => tasks[runs[id].result].pc = "done"

LEMMA SpentInit == Init => Spent
BY DEF Init, Spent, LiveRuns

\* An ended execution stays ended; a row counts what it counted, or the findings of
\* an execution that has ended with this step, or none.
LEMMA SpentByResults ==
  ASSUME Spent,
         \A s \in SyncRequests : syncs[s].pc = "done" => syncs'[s].pc = "done",
         \A t \in Tasks : tasks[t].pc = "done" => tasks'[t].pc = "done",
         \A id \in LiveRuns' :
           \/ id \in LiveRuns /\ runs'[id].result = runs[id].result
           \/ runs'[id].result = NoResult
           \/ \E s \in SyncRequests : runs'[id].result = s /\ syncs'[s].pc = "done"
           \/ \E t \in Tasks : runs'[id].result = t /\ tasks'[t].pc = "done"
  PROVE  Spent'
BY DEF Spent, Executions

LEMMA SpentStep ==
  ASSUME TypeOK, Spent, [Next]_vars
  PROVE  Spent'
<1>1. CASE UNCHANGED vars
  BY <1>1 DEF vars, Spent, LiveRuns
<1>2. ASSUME NEW s \in SyncRequests, SyncStep(s)
      PROVE  Spent'
  <2>1. /\ tasks' = tasks
        /\ \A q \in SyncRequests : syncs[q].pc = "done" => syncs'[q].pc = "done"
    BY <1>2 DEF SyncStep, SyncExecutes, SyncReadsPrevious, SyncPersists, SyncEnds, Answered, TypeOK
  <2>2. CASE SyncPersists(s)
    <3>1. PICK id \in RunIds, result \in {s, NoResult} :
            runs' = [j \in RunIds |->
                       IF j = id THEN NewRun("sync", syncs[s].scope, "success", result)
                       ELSE IF j \in syncs[s].seen THEN NoRun ELSE runs[j]]
      BY <2>2 DEF SyncPersists
    <3>2. syncs'[s].pc = "done"
      BY <2>2 DEF SyncPersists, Answered, TypeOK
    <3>3. NewRun("sync", syncs[s].scope, "success", result).result = result
      BY DEF NewRun
    <3>4. \A j \in LiveRuns' : \/ j = id /\ runs'[j].result = result
                               \/ j \in LiveRuns /\ runs'[j] = runs[j]
      BY <3>1, <3>3 DEF LiveRuns
    <3> QED
      BY <2>1, <3>2, <3>4, SpentByResults
  <2>3. CASE ~SyncPersists(s)
    <3>1. runs' = runs
      BY <1>2, <2>3 DEF SyncStep, SyncExecutes, SyncReadsPrevious, SyncEnds
    <3> QED
      BY <2>1, <3>1, SpentByResults DEF LiveRuns
  <2> QED
    BY <2>2, <2>3
<1>3. ASSUME NEW t \in Tasks, TaskStep(t)
      PROVE  Spent'
  <2>1. /\ syncs' = syncs
        /\ \A u \in Tasks : tasks[u].pc = "done" => tasks'[u].pc = "done"
    <3>1. /\ syncs' = syncs /\ tasks[t].pc # "done"
          /\ \A u \in Tasks \ {t} : tasks'[u] = tasks[u]
      BY <1>3 DEF TaskStep, CreateTask, LoadRow, FindNoRow, StartTask, CompleteTask, TaskRaises,
                  FailTask, LoseTask, TypeOK
    <3> QED
      BY <3>1
  <2>2. CASE CreateTask(t)
    <3>1. PICK id \in RunIds, scope \in Scopes :
            runs' = [runs EXCEPT ![id] = NewRun("async", scope, "pending", NoResult)]
      BY <2>2 DEF CreateTask
    <3>2. \A j \in LiveRuns' : \/ runs'[j].result = NoResult
                               \/ j \in LiveRuns /\ runs'[j] = runs[j]
      BY <3>1 DEF LiveRuns, TypeOK, NewRun
    <3> QED
      BY <2>1, <3>2, SpentByResults
  <2>3. CASE CompleteTask(t)
    <3>1. PICK result \in {t, NoResult} : WriteRun(t, result)
      BY <2>3 DEF CompleteTask
    <3>2. tasks'[t].pc = "done"
      BY <2>3, AtType DEF CompleteTask, Ended, TypeOK
    <3>3. PICK row \in Runs : /\ runs' = [runs EXCEPT ![tasks[t].run] = row]
                              /\ row.result \in {result, runs[tasks[t].run].result}
      BY <2>3, <3>1, RunWritten DEF CompleteTask
    <3>4. \A j \in LiveRuns' : j \in LiveRuns /\ runs'[j].result \in {result, runs[j].result}
      BY <2>3, <3>3 DEF CompleteTask, LiveRuns, TypeOK
    <3> QED
      BY <2>1, <3>2, <3>4, SpentByResults
  <2>4. CASE ~CreateTask(t) /\ ~CompleteTask(t)
    <3>1. \A j \in LiveRuns' : j \in LiveRuns /\ runs'[j].result = runs[j].result
      <4>1. CASE UNCHANGED runs
        BY <4>1 DEF LiveRuns
      <4>2. CASE tasks[t].run \in LiveRuns /\ \E status \in Statuses : WriteStatus(t, status)
        <5>1. PICK row \in Runs : /\ runs' = [runs EXCEPT ![tasks[t].run] = row]
                                  /\ row.result = runs[tasks[t].run].result
          BY <4>2, StatusWritten
        <5> QED
          BY <4>2, <5>1 DEF LiveRuns, TypeOK
      <4> QED
        BY <1>3, <2>4, <4>1, <4>2
           DEF TaskStep, LoadRow, FindNoRow, StartTask, TaskRaises, FailTask, LoseTask, Statuses
    <3> QED
      BY <2>1, <3>1, SpentByResults
  <2> QED
    BY <2>2, <2>3, <2>4
<1>4. CASE ServerStep
  <2>1. /\ \A q \in SyncRequests : syncs[q].pc = "done" => syncs'[q].pc = "done"
        /\ \A u \in Tasks : tasks[u].pc = "done" => tasks'[u].pc = "done"
    BY <1>4 DEF ServerStep, Crash, Restart, Age, CollectOld, DeleteCollected, Answered, Ended, At
  <2>2. \A j \in LiveRuns' : j \in LiveRuns /\ runs'[j].result = runs[j].result
    <3>1. CASE Crash \/ CollectOld
      BY <3>1 DEF Crash, CollectOld, LiveRuns
    <3>2. CASE Restart
      BY <3>2 DEF Restart, Unfinished, LiveRuns, TypeOK, Runs
    <3>3. CASE \E id \in RunIds : Age(id)
      BY <3>3 DEF Age, LiveRuns, TypeOK, Runs
    <3>4. CASE DeleteCollected
      BY <3>4 DEF DeleteCollected, LiveRuns
    <3> QED
      BY <1>4, <3>1, <3>2, <3>3, <3>4 DEF ServerStep
  <2> QED
    BY <2>1, <2>2, SpentByResults
<1> QED
  BY <1>1, <1>2, <1>3, <1>4 DEF Next, SyncStep, TaskStep, TaskRuns, ServerStep

\* Every reader finds a whole result: the findings listed are those counted.
Whole == \A id \in LiveRuns : PageOf(id) = Board!Page(runs[id].result)

LEMMA ResultsAreWhole == TypeOK /\ ItemsBelongToRuns /\ FindingsAreListed => Whole
<1> SUFFICES ASSUME TypeOK, ItemsBelongToRuns, FindingsAreListed, NEW id \in LiveRuns
             PROVE  PageOf(id) = Board!Page(runs[id].result)
  BY DEF Whole
<1> DEFINE result == runs[id].result
           listed == {it.from : it \in ItemsOf({id})}
<1>1. \A it \in ItemsOf({id}) : it.from = result
  BY DEF ItemsOf, ItemsBelongToRuns
<1>2. \A it \in ItemsOf({id}) : it.from # NoResult
  BY <1>1 DEF ItemsOf, ItemsBelongToRuns, TypeOK, Items, Executions
<1>3. result # NoResult => result \in listed
  <2> SUFFICES ASSUME result # NoResult
               PROVE  result \in listed
    OBVIOUS
  <2>1. PICK it : it = [run |-> id, from |-> result]
    OBVIOUS
  <2>2. it \in ItemsOf({id}) /\ it.from = result
    BY <2>1 DEF FindingsAreListed, ItemOf, ItemsOf
  <2> QED
    BY <2>2
<1>4. listed = {result} \ {NoResult}
  BY <1>1, <1>2, <1>3
<1> QED
  BY <1>4 DEF PageOf, Board!Page

\* What a background run shows, read from its row.
Told(row) ==
  [scope |-> row.scope, status |-> row.status, page |-> Board!Page(row.result)]

AsyncRuns == {j \in LiveRuns : runs[j].mode = "async"}

Boards == [scope \in Scopes |-> {PageOf(id) : id \in SyncRunsOf(scope)}]
Jobs == [id \in {j \in LiveRuns : runs[j].mode = "async"} |-> JobOf(id)]

\* The rows alone tell what there is to read.
RowsTell ==
  /\ Boards = [scope \in Scopes |-> {Board!Page(runs[id].result) : id \in SyncRunsOf(scope)}]
  /\ Jobs = [id \in AsyncRuns |-> Told(runs[id])]

LEMMA WholeRowsTell == Whole => RowsTell
<1> SUFFICES ASSUME Whole
             PROVE  RowsTell
  OBVIOUS
<1>1. \A scope : {PageOf(id) : id \in SyncRunsOf(scope)}
                  = {Board!Page(runs[id].result) : id \in SyncRunsOf(scope)}
  BY DEF Whole, SyncRunsOf
<1>2. \A id \in AsyncRuns : JobOf(id) = Told(runs[id])
  BY DEF AsyncRuns, JobOf, Told, Whole
<1> QED
  BY <1>1, <1>2 DEF RowsTell, Boards, Jobs, AsyncRuns

\* Steps that leave the synchronous results as they are.
LEMMA BoardsStay ==
  ASSUME RowsTell, RowsTell',
         \A scope \in Scopes : SyncRunsOf(scope)' = SyncRunsOf(scope),
         \A id \in LiveRuns : runs[id].mode = "sync" => runs'[id].result = runs[id].result
  PROVE  Boards' = Boards
<1>1. \A scope \in Scopes : {Board!Page(runs'[id].result) : id \in SyncRunsOf(scope)'}
                  = {Board!Page(runs[id].result) : id \in SyncRunsOf(scope)}
  BY DEF SyncRunsOf, Board!Page
<1> QED
  BY <1>1 DEF RowsTell, Board!Page

\* Steps that leave the background runs as they are.
LEMMA JobsStay ==
  ASSUME RowsTell, RowsTell', AsyncRuns' = AsyncRuns,
         \A id \in AsyncRuns :
           /\ runs'[id].scope = runs[id].scope /\ runs'[id].status = runs[id].status
           /\ runs'[id].result = runs[id].result
  PROVE  Jobs' = Jobs
BY DEF RowsTell, Told, Board!Page

\* A step that writes the row of one background run.
LEMMA RowOfJob ==
  ASSUME TypeOK, RowsTell, RowsTell', NEW id \in RunIds, NEW row \in Runs,
         runs' = [runs EXCEPT ![id] = row], row.mode = "async",
         id \in LiveRuns => runs[id].mode = "async"
  PROVE  Boards' = Boards /\ Jobs' = Board!With(id, Told(row))
<1>1. runs'[id] = row /\ \A j \in RunIds \ {id} : runs'[j] = runs[j]
  BY DEF TypeOK
<1>2. LiveRuns' = LiveRuns \cup {id}
  BY <1>1 DEF LiveRuns
<1>3. \A scope \in Scopes : SyncRunsOf(scope)' = SyncRunsOf(scope)
  BY <1>1, <1>2 DEF SyncRunsOf, LiveRuns
<1>4. \A j \in LiveRuns : runs[j].mode = "sync" => runs'[j] = runs[j]
  BY <1>1 DEF LiveRuns
<1>5. AsyncRuns' = AsyncRuns \cup {id} /\ \A j \in AsyncRuns \ {id} : runs'[j] = runs[j]
  BY <1>1, <1>2 DEF AsyncRuns, LiveRuns
<1>6. Jobs' = [j \in AsyncRuns \cup {id} |-> IF j = id THEN Told(row) ELSE Told(runs[j])]
  BY <1>1, <1>5 DEF RowsTell, Told, Board!Page
<1>7. Board!With(id, Told(row))
        = [j \in AsyncRuns \cup {id} |-> IF j = id THEN Told(row) ELSE Told(runs[j])]
  <2>1. Board!Present = AsyncRuns
    BY DEF Board!Present, AsyncRuns
  <2>2. \A j \in AsyncRuns : JobOf(j) = Told(runs[j])
    BY DEF RowsTell, Jobs, AsyncRuns
  <2> QED
    BY <2>1, <2>2 DEF Board!With, AsyncRuns
<1> QED
  BY <1>3, <1>4, <1>6, <1>7, BoardsStay

\* What no row counts, no reader has found.
LEMMA UnfoundIsNew ==
  ASSUME NEW result \in Executions, \A id \in LiveRuns : runs[id].result # result
  PROVE  Board!IsNew(result)
<1>1. \A id \in LiveRuns : PageOf(id).counted # result
  BY DEF PageOf
<1>2. \A scope \in Scopes : \A page \in Boards[scope] : page.counted # result
  BY <1>1 DEF Boards, SyncRunsOf
<1>3. \A id \in AsyncRuns : Jobs[id].page.counted # result
  BY <1>1 DEF Jobs, AsyncRuns, JobOf
<1>4. ~Board!Found(result)
  BY <1>2, <1>3 DEF Board!Found, Board!Present, Boards, Jobs, AsyncRuns
<1> QED
  BY <1>4 DEF Board!IsNew

LEMMA PersistKeepsBoard ==
  ASSUME TypeOK, Serial, Spent, RowsTell, RowsTell', NEW s \in SyncRequests, SyncPersists(s)
  PROVE  Board!Next
<1>a. PICK scope : scope = syncs[s].scope
  OBVIOUS
<1>b. PICK seen : seen = syncs[s].seen
  OBVIOUS
<1>1. PICK id \in RunIds, result \in {s, NoResult} :
        /\ scope = syncs[s].scope /\ seen = syncs[s].seen
        /\ IsNextId(id, seen)
        /\ runs' = [j \in RunIds |->
                      IF j = id THEN NewRun("sync", scope, "success", result)
                      ELSE IF j \in seen THEN NoRun ELSE runs[j]]
  BY <1>a, <1>b DEF SyncPersists
<1>2. /\ scope \in Scopes /\ up /\ up' /\ seen = SyncRunsOf(scope)
      /\ syncs[s].pc = "persist"
  BY <1>1 DEF SyncPersists, TypeOK, Serial, SeesPrevious
<1>3. PICK new \in Runs : new = NewRun("sync", scope, "success", result)
  BY <1>2, NewRunType DEF Executions
<1>4. new.mode = "sync" /\ new.scope = scope /\ new.result = result
  BY <1>3 DEF NewRun
<1>5. id \notin LiveRuns \ seen
  BY <1>1 DEF IsNextId, RunIds
<1>6. /\ id \in LiveRuns' /\ runs'[id] = new
      /\ \A j \in LiveRuns \ seen : j \in LiveRuns' /\ runs'[j] = runs[j] /\ j # id
      /\ \A j \in LiveRuns' \ {id} : j \in LiveRuns \ seen
  BY <1>1, <1>3, <1>5 DEF LiveRuns
<1>7. SyncRunsOf(scope)' = {id}
  BY <1>2, <1>4, <1>6 DEF SyncRunsOf
<1>8. ASSUME NEW other \in Scopes \ {scope}
      PROVE  /\ SyncRunsOf(other)' = SyncRunsOf(other)
             /\ \A j \in SyncRunsOf(other) : runs'[j] = runs[j]
  <2>1. \A j \in seen : runs[j].scope # other
    BY <1>2 DEF SyncRunsOf
  <2> QED
    BY <1>4, <1>6, <2>1 DEF SyncRunsOf
<1>9. AsyncRuns' = AsyncRuns /\ \A j \in AsyncRuns : runs'[j] = runs[j]
  <2>1. \A j \in seen : j \notin AsyncRuns
    BY <1>2 DEF SyncRunsOf, AsyncRuns
  <2> QED
    BY <1>4, <1>6, <2>1 DEF AsyncRuns
<1>10. Jobs' = Jobs
  BY <1>9, JobsStay
<1>11. Boards' = [Boards EXCEPT ![scope] = {Board!Page(result)}]
  <2>1. ASSUME NEW other \in Scopes
        PROVE  Boards'[other] = [Boards EXCEPT ![scope] = {Board!Page(result)}][other]
    <3>0. /\ Boards'[other] = {Board!Page(runs'[j].result) : j \in SyncRunsOf(other)'}
          /\ Boards[other] = {Board!Page(runs[j].result) : j \in SyncRunsOf(other)}
      BY DEF RowsTell, Board!Page
    <3>1. CASE other = scope
      BY <1>2, <1>4, <1>6, <1>7, <3>0, <3>1 DEF Boards
    <3>2. CASE other # scope
      <4>1. /\ SyncRunsOf(other)' = SyncRunsOf(other)
            /\ \A j \in SyncRunsOf(other) : runs'[j] = runs[j]
        BY <1>8, <3>2
      <4>2. Boards'[other] = Boards[other]
        BY <3>0, <4>1
      <4> QED
        BY <3>2, <4>2 DEF Boards
    <3> QED
      BY <3>1, <3>2
  <2>2. /\ Boards' = [other \in Scopes |-> Boards'[other]]
        /\ [Boards EXCEPT ![scope] = {Board!Page(result)}]
             = [other \in Scopes |-> [Boards EXCEPT ![scope] = {Board!Page(result)}][other]]
    BY DEF Boards
  <2> QED
    BY <2>1, <2>2
<1>12. Board!IsNew(result)
  <2>1. CASE result = NoResult
    BY <2>1 DEF Board!IsNew
  <2>2. CASE result = s
    <3>1. \A j \in LiveRuns : runs[j].result # s
      BY <1>2 DEF Spent
    <3> QED
      BY <2>2, <3>1, UnfoundIsNew DEF Executions
  <2> QED
    BY <2>1, <2>2
<1>13. Board!Execute(scope)
  <2>1. result \in Executions \cup {NoResult}
    BY DEF Executions
  <2> QED
    BY <1>2, <1>10, <1>11, <1>12, <2>1 DEF Board!Execute, Boards, Jobs
<1> QED
  BY <1>2, <1>13 DEF Board!Next

Seen == <<Boards, Jobs, up>>

LEMMA SyncKeepsBoard ==
  ASSUME TypeOK, Serial, Spent, RowsTell, RowsTell', NEW s \in SyncRequests, SyncStep(s)
  PROVE  Board!Next \/ UNCHANGED Seen
<1>1. CASE SyncPersists(s)
  BY <1>1, PersistKeepsBoard
<1>2. CASE ~SyncPersists(s)
  <2>1. UNCHANGED <<runs, up>>
    BY <1>2 DEF SyncStep, SyncExecutes, SyncReadsPrevious, SyncEnds
  <2>2. UNCHANGED <<Boards, Jobs>>
    BY <2>1, BoardsStay, JobsStay DEF SyncRunsOf, AsyncRuns, LiveRuns
  <2> QED
    BY <2>1, <2>2 DEF Seen
<1> QED
  BY <1>1, <1>2

\* A task creates the run it will write, moves it on, or leaves it alone.
LEMMA TaskKeepsBoard ==
  ASSUME TypeOK, Serial, Spent, RowsTell, RowsTell', NEW t \in Tasks, TaskStep(t)
  PROVE  Board!Next \/ UNCHANGED Seen
<1>1. CASE CreateTask(t)
  <2>1. PICK id \in RunIds, scope \in Scopes :
          /\ IsNextId(id, {})
          /\ runs' = [runs EXCEPT ![id] = NewRun("async", scope, "pending", NoResult)]
    BY <1>1 DEF CreateTask
  <2>2. PICK new \in Runs : new = NewRun("async", scope, "pending", NoResult)
    BY NewRunType
  <2>3. id \notin LiveRuns
    BY <2>1 DEF IsNextId, RunIds
  <2>4. new.mode = "async" /\ Told(new) = [scope |-> scope, status |-> "pending",
                                           page |-> Board!Page(NoResult)]
    BY <2>2 DEF NewRun, Told
  <2>5. Boards' = Boards /\ Jobs' = Board!With(id, Told(new))
    BY <2>1, <2>2, <2>3, <2>4, RowOfJob
  <2>6. Board!Submit(id)
    BY <1>1, <2>3, <2>4, <2>5 DEF CreateTask, Board!Submit, Board!Present, Boards, Jobs
  <2> QED
    BY <2>6 DEF Board!Next
<1>2. CASE StartTask(t) \/ CompleteTask(t) \/ FailTask(t)
  <2>0. PICK id : id = tasks[t].run
    OBVIOUS
  <2>1. up /\ up' /\ Active(t)
    BY <1>2 DEF StartTask, CompleteTask, FailTask, Active
  <2>2. /\ id \in LiveRuns /\ id \in RunIds /\ runs[id] \in Runs /\ IsRowOf(runs[id], tasks[t])
        /\ runs[id].mode = "async"
    BY <2>0, <2>1 DEF Serial, TasksHoldTheirRun, LiveRuns, TypeOK, IsRowOf
  <2>3. id \in Board!Present /\ Jobs[id] = Told(runs[id])
    BY <2>2 DEF Board!Present, RowsTell, AsyncRuns
  <2>4. CASE StartTask(t)
    <3>1. runs[id].status = "pending" /\ tasks[t].holds = "pending"
      BY <2>0, <2>2, <2>4 DEF StartTask, IsRowOf
    <3>2. PICK row \in Runs : /\ runs' = [runs EXCEPT ![id] = row] /\ row.mode = "async"
                              /\ row.scope = runs[id].scope /\ row.result = runs[id].result
                              /\ row.status = "running"
      <4>1. WriteStatus(t, "running")
        BY <2>0, <2>2, <2>4 DEF StartTask
      <4> QED
        BY <2>0, <2>2, <3>1, <4>1, StatusWritten DEF Statuses
    <3>3. Told(row) = [Told(runs[id]) EXCEPT !.status = "running"]
      BY <3>2 DEF Told
    <3>4. Told(runs[id]).status = "pending"
      BY <3>1 DEF Told
    <3>5. Boards' = Boards /\ Jobs' = Board!With(id, Told(row))
      BY <2>2, <3>2, RowOfJob
    <3>6. Board!Start(id)
      BY <2>1, <2>3, <3>3, <3>4, <3>5 DEF Board!Start, Boards, Jobs
    <3> QED
      BY <2>2, <3>6 DEF Board!Next
  <2>5. CASE CompleteTask(t)
    <3>1. PICK result \in {t, NoResult} : WriteRun(t, result)
      BY <2>5 DEF CompleteTask
    <3>3. /\ runs[id].result = NoResult /\ tasks[t].pc = "completing"
          /\ runs[id].status = "running" /\ tasks[t].holds = "running"
      BY <2>0, <2>2, <2>5 DEF CompleteTask, IsRowOf
    <3>4. PICK row \in Runs : /\ runs' = [runs EXCEPT ![id] = row] /\ row.mode = "async"
                              /\ row.scope = runs[id].scope /\ row.result = result
                              /\ row.status = "success"
      BY <2>0, <2>2, <3>1, <3>3, RunWritten
    <3>5. Told(row) = [scope |-> Told(runs[id]).scope, status |-> "success",
                       page |-> Board!Page(result)]
      BY <3>4 DEF Told
    <3>6. Told(runs[id]).status = "running"
      BY <3>3 DEF Told
    <3>7. Boards' = Boards /\ Jobs' = Board!With(id, Told(row))
      BY <2>2, <3>4, RowOfJob
    <3>8. Board!IsNew(result)
      <4>1. CASE result = NoResult
        BY <4>1 DEF Board!IsNew
      <4>2. CASE result = t
        <5>1. \A j \in LiveRuns : runs[j].result # t
          BY <3>3 DEF Spent
        <5> QED
          BY <4>2, <5>1, UnfoundIsNew DEF Executions
      <4> QED
        BY <4>1, <4>2
    <3>9. Board!Succeed(id)
      <4>1. result \in Executions \cup {NoResult}
        BY DEF Executions
      <4> QED
        BY <2>1, <2>3, <3>5, <3>6, <3>7, <3>8, <4>1 DEF Board!Succeed, Boards, Jobs
    <3> QED
      BY <2>2, <3>9 DEF Board!Next
  <2>6. CASE FailTask(t)
    <3>1. runs[id].status = "running" /\ tasks[t].holds = "running"
      BY <2>0, <2>2, <2>6 DEF FailTask, IsRowOf
    <3>2. PICK row \in Runs : /\ runs' = [runs EXCEPT ![id] = row] /\ row.mode = "async"
                              /\ row.scope = runs[id].scope /\ row.result = runs[id].result
                              /\ row.status = "failed"
      <4>1. WriteStatus(t, "failed")
        BY <2>0, <2>2, <2>6 DEF FailTask
      <4> QED
        BY <2>0, <2>2, <3>1, <4>1, StatusWritten DEF Statuses
    <3>3. Told(row) = [Told(runs[id]) EXCEPT !.status = "failed"]
      BY <3>2 DEF Told
    <3>4. Told(runs[id]).status = "running"
      BY <3>1 DEF Told
    <3>5. Boards' = Boards /\ Jobs' = Board!With(id, Told(row))
      BY <2>2, <3>2, RowOfJob
    <3>6. Board!Fail(id)
      BY <2>1, <2>3, <3>3, <3>4, <3>5 DEF Board!Fail, Boards, Jobs
    <3> QED
      BY <2>2, <3>6 DEF Board!Next
  <2> QED
    BY <1>2, <2>4, <2>5, <2>6
<1>3. CASE LoadRow(t) \/ FindNoRow(t) \/ TaskRaises(t) \/ LoseTask(t)
  <2>1. UNCHANGED <<runs, up>>
    BY <1>3 DEF LoadRow, FindNoRow, TaskRaises, LoseTask
  <2>2. UNCHANGED <<Boards, Jobs>>
    BY <2>1, BoardsStay, JobsStay DEF SyncRunsOf, AsyncRuns, LiveRuns
  <2> QED
    BY <2>1, <2>2 DEF Seen
<1> QED
  BY <1>1, <1>2, <1>3 DEF TaskStep

\* Only a restart and the retention, both without the server, change what there is.
LEMMA ServerKeepsBoard ==
  ASSUME TypeOK, Serial, RowsTell, RowsTell', ServerStep
  PROVE  Board!Next \/ UNCHANGED Seen
<1>1. CASE Crash \/ CollectOld
  <2>1. UNCHANGED runs
    BY <1>1 DEF Crash, CollectOld
  <2>2. UNCHANGED <<Boards, Jobs>>
    BY <2>1, BoardsStay, JobsStay DEF SyncRunsOf, AsyncRuns, LiveRuns
  <2>3. CASE Crash
    <3>1. Board!Stop
      BY <2>2, <2>3 DEF Crash, Board!Stop, Boards, Jobs
    <3> QED
      BY <3>1 DEF Board!Next
  <2>4. CASE CollectOld
    BY <2>2, <2>4 DEF CollectOld, Seen
  <2> QED
    BY <1>1, <2>3, <2>4
<1>2. CASE \E id \in RunIds : Age(id)
  <2>1. PICK id \in LiveRuns : runs' = [runs EXCEPT ![id].old = TRUE]
    BY <1>2 DEF Age
  <2>2. \A j \in LiveRuns :
          /\ runs'[j] # NoRun /\ runs'[j].mode = runs[j].mode
          /\ runs'[j].scope = runs[j].scope /\ runs'[j].status = runs[j].status
          /\ runs'[j].result = runs[j].result
    BY <2>1 DEF LiveRuns, TypeOK, Runs
  <2>3. LiveRuns' = LiveRuns
    BY <2>1, <2>2 DEF LiveRuns, TypeOK
  <2>4. UNCHANGED <<Boards, Jobs>>
    BY <2>2, <2>3, BoardsStay, JobsStay DEF SyncRunsOf, AsyncRuns
  <2> QED
    BY <1>2, <2>4 DEF Age, Seen
<1>3. CASE Restart
  <2>1. \A j \in RunIds :
          runs'[j] = IF j \in Unfinished THEN [runs[j] EXCEPT !.status = "failed"] ELSE runs[j]
    BY <1>3 DEF Restart
  <2>2. \A j \in LiveRuns :
          /\ runs[j] \in Runs
          /\ runs'[j] # NoRun /\ runs'[j].mode = runs[j].mode
          /\ runs'[j].scope = runs[j].scope /\ runs'[j].result = runs[j].result
          /\ runs'[j].status = IF j \in Unfinished THEN "failed" ELSE runs[j].status
    <3> SUFFICES ASSUME NEW j \in LiveRuns
                 PROVE  /\ runs[j] \in Runs
                        /\ runs'[j] # NoRun /\ runs'[j].mode = runs[j].mode
                        /\ runs'[j].scope = runs[j].scope /\ runs'[j].result = runs[j].result
                        /\ runs'[j].status
                             = IF j \in Unfinished THEN "failed" ELSE runs[j].status
      OBVIOUS
    <3>1. j \in RunIds /\ runs[j] \in Runs /\ runs[j] # NoRun
      BY DEF LiveRuns, TypeOK
    <3>2. CASE j \in Unfinished
      <4>1. runs'[j] = [runs[j] EXCEPT !.status = "failed"]
        BY <2>1, <3>1, <3>2
      <4>2. runs'[j] \in Runs
        BY <3>1, <4>1 DEF Runs, Statuses
      <4> QED
        BY <3>1, <3>2, <4>1, <4>2 DEF Runs
    <3>3. CASE j \notin Unfinished
      BY <2>1, <3>1, <3>3
    <3> QED
      BY <3>2, <3>3
  <2>3. LiveRuns' = LiveRuns
    BY <2>1, <2>2 DEF LiveRuns, Unfinished
  <2>4. Boards' = Boards
    BY <2>2, <2>3, BoardsStay DEF SyncRunsOf
  <2>5. AsyncRuns' = AsyncRuns
    BY <2>2, <2>3 DEF AsyncRuns
  <2>6. \A j \in AsyncRuns : j \in Unfinished <=> Told(runs[j]).status \in {"pending", "running"}
    <3>1. \A j \in AsyncRuns : j \in LiveRuns /\ runs[j].mode = "async"
                               /\ runs[j].status \in {"pending", "running", "success", "failed"}
      BY <2>2 DEF AsyncRuns, Runs, Statuses
    <3> QED
      BY <3>1 DEF Unfinished, Finished, Told
  <2>7. Board!Present = AsyncRuns /\ Board!Unended = Unfinished
    <3>1. Board!Present = AsyncRuns
      BY DEF Board!Present, AsyncRuns
    <3>2. \A j \in AsyncRuns : Jobs[j] = Told(runs[j])
      BY DEF RowsTell
    <3>3. Board!Unended = {j \in AsyncRuns : Jobs[j].status \in {"pending", "running"}}
      BY <3>1 DEF Board!Unended, Jobs
    <3>4. Unfinished \subseteq AsyncRuns
      BY DEF Unfinished, AsyncRuns
    <3> QED
      BY <2>6, <3>1, <3>2, <3>3, <3>4
  <2>8. \A j \in AsyncRuns :
          Told(runs[j])' = IF j \in Unfinished THEN [Told(runs[j]) EXCEPT !.status = "failed"]
                           ELSE Told(runs[j])
    <3> SUFFICES ASSUME NEW j \in AsyncRuns
                 PROVE  Told(runs[j])' = IF j \in Unfinished
                                         THEN [Told(runs[j]) EXCEPT !.status = "failed"]
                                         ELSE Told(runs[j])
      OBVIOUS
    <3>1. j \in LiveRuns
      BY DEF AsyncRuns
    <3>2. Told(runs[j])' = [scope |-> runs[j].scope,
                            status |-> IF j \in Unfinished THEN "failed" ELSE runs[j].status,
                            page |-> Board!Page(runs[j].result)]
      BY <2>2, <3>1 DEF Told, Board!Page
    <3> QED
      BY <3>2 DEF Told
  <2>9. Jobs' = [j \in Board!Present |-> IF j \in Board!Unended
                                         THEN [Jobs[j] EXCEPT !.status = "failed"] ELSE Jobs[j]]
    BY <2>5, <2>7, <2>8 DEF RowsTell
  <2>10. Board!Resume
    BY <1>3, <2>4, <2>9 DEF Restart, Board!Resume, Boards, Jobs
  <2> QED
    BY <2>10 DEF Board!Next
<1>4. CASE DeleteCollected
  <2>1. ~up /\ ~up' /\ collected \subseteq Disposable
    BY <1>4 DEF DeleteCollected, Serial, CleanupAlone
  <2>2. /\ LiveRuns' = LiveRuns \ collected
        /\ \A j \in LiveRuns \ collected : runs'[j] = runs[j]
    BY <1>4 DEF DeleteCollected, LiveRuns
  <2>3. PICK scopes : scopes = {scope \in Scopes : SyncRunsOf(scope) \cap collected # {}}
    OBVIOUS
  <2>4. PICK ids : ids = AsyncRuns \cap collected
    OBVIOUS
  <2>5. Boards' = [scope \in Scopes |-> IF scope \in scopes THEN {} ELSE Boards[scope]]
    <3>1. ASSUME NEW scope \in Scopes
          PROVE  Boards'[scope] = IF scope \in scopes THEN {} ELSE Boards[scope]
      <4>1. /\ Boards'[scope] = {Board!Page(runs'[j].result) : j \in SyncRunsOf(scope)'}
            /\ Boards[scope] = {Board!Page(runs[j].result) : j \in SyncRunsOf(scope)}
        BY DEF RowsTell, Board!Page
      <4>2. /\ SyncRunsOf(scope)' = SyncRunsOf(scope) \ collected
            /\ \A j \in SyncRunsOf(scope) \ collected : runs'[j] = runs[j]
        BY <2>2 DEF SyncRunsOf
      <4>3. CASE scope \in scopes
        <5>1. PICK j \in SyncRunsOf(scope) : j \in collected
          BY <2>3, <4>3
        <5>2. \A k \in SyncRunsOf(scope) : k = j
          BY DEF Serial, OnePerScope, SyncRunsOf
        <5>3. SyncRunsOf(scope)' = {}
          BY <4>2, <5>1, <5>2
        <5> QED
          BY <4>1, <4>3, <5>3
      <4>4. CASE scope \notin scopes
        <5>1. /\ SyncRunsOf(scope)' = SyncRunsOf(scope)
              /\ \A j \in SyncRunsOf(scope) : runs'[j] = runs[j]
          BY <2>3, <4>2, <4>4
        <5> QED
          BY <4>1, <4>4, <5>1
      <4> QED
        BY <4>3, <4>4
    <3>2. Boards' = [scope \in Scopes |-> Boards'[scope]]
      BY DEF Boards
    <3> QED
      BY <3>1, <3>2
  <2>6. Jobs' = [j \in Board!Present \ ids |-> Jobs[j]]
    <3>1. Board!Present = AsyncRuns
      BY DEF Board!Present, AsyncRuns
    <3>2. AsyncRuns' = AsyncRuns \ ids /\ \A j \in AsyncRuns \ ids : runs'[j] = runs[j]
      BY <2>2, <2>4 DEF AsyncRuns
    <3>3. Jobs' = [j \in AsyncRuns \ ids |-> Told(runs[j])]
      BY <3>2 DEF RowsTell, Told, Board!Page
    <3> QED
      BY <3>1, <3>3 DEF RowsTell
  <2>7. ids \subseteq Board!Present \ Board!Unended
    <3>1. \A j \in ids : j \in AsyncRuns /\ runs[j].status \in Finished
      BY <2>1, <2>4 DEF Disposable
    <3>2. \A j \in AsyncRuns : Jobs[j].status = runs[j].status
      BY DEF RowsTell, Told
    <3> QED
      BY <3>1, <3>2 DEF Board!Present, Board!Unended, AsyncRuns, Finished, Jobs
  <2>8. scopes \subseteq Scopes
    BY <2>3
  <2>9. Board!Forget
    BY <2>1, <2>5, <2>6, <2>7, <2>8 DEF Board!Forget, Boards, Jobs
  <2> QED
    BY <2>9 DEF Board!Next
<1> QED
  BY <1>1, <1>2, <1>3, <1>4 DEF ServerStep

\* The result store implements ResultBoard while the synchronous executions of a scope
\* do not overlap and the clean-up runs without the server: what readers find changes
\* as if each execution replaced its scope's result, and each background run moved, at once.
THEOREM ImplementsBoard ==
  ASSUME MaxOverlap <= 1, IsFiniteSet(SyncRequests), ~OnlineCleanup
  PROVE  Spec => KeepsBoard
<1>1. Init => Board!Init
  BY DEF Init, Board!Init, LiveRuns, SyncRunsOf
<1>2. ASSUME TypeOK, Serial, Spent, RowsTell, RowsTell', [Next]_vars
      PROVE  Board!Next \/ UNCHANGED Seen
  <2>1. CASE UNCHANGED vars
    <3>1. UNCHANGED <<runs, up>>
      BY <2>1 DEF vars
    <3>2. UNCHANGED <<Boards, Jobs>>
      BY <1>2, <3>1, BoardsStay, JobsStay DEF SyncRunsOf, AsyncRuns, LiveRuns
    <3> QED
      BY <3>1, <3>2 DEF Seen
  <2> QED
    BY <1>2, <2>1, SyncKeepsBoard, TaskKeepsBoard, ServerKeepsBoard
       DEF Next, SyncStep, TaskStep, TaskRuns, ServerStep
<1>3. Board!Next \/ UNCHANGED Seen => [Board!Next]_(Board!vars)
  BY DEF Seen, Boards, Jobs, Board!vars
<1>4. TypeOK /\ Serial /\ [Next]_vars => Serial'
  BY SerialStep
<1>5. Serial => FindingsAreListed
  BY DEF Serial
<1>6. TypeOK /\ Spent /\ [Next]_vars => Spent'
  BY SpentStep
<1> QED
  BY <1>1, <1>2, <1>3, <1>4, <1>5, <1>6, TypeCorrect, ItemsNeverMix, SerialInit, SpentInit,
     ResultsAreWhole, WholeRowsTell, PTL DEF Spec, KeepsBoard, Board!Spec

=============================================================================
