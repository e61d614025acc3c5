----------------------------- MODULE GenerationRuns ----------------------------
(***************************************************************************)
(* One generation run: its row, its chunks, atoms, cases and audit, its    *)
(* files, the background workers that advance it stage by stage            *)
(* (full_generation_orchestrator.py), and the requests and the clean-up    *)
(* that cancel, retry, render and expire it (generation_runs.py,           *)
(* generation_artifacts.py).                                               *)
(*                                                                         *)
(* A transaction reads the run before its first write. The first write     *)
(* takes SQLite's only write lock, and a stage keeps it through its calls  *)
(* of the AI provider until it commits. So a stage is three steps: Look,   *)
(* Acquire and Commit; between Look and Acquire others may commit, between *)
(* Acquire and Commit they wait, and give up after the busy timeout.       *)
(*                                                                         *)
(* A chunk yields at most one official atom, which carries its name and    *)
(* needs coverage; cases are represented by the atoms they cover, files by *)
(* the cases they show. Strict mode, which only withholds files, is off.   *)
(***************************************************************************)
EXTENDS Naturals, FiniteSets

CONSTANTS
  Chunks,       \* the chunks of the planning sheet
  Workers,      \* background workers that may serve the run
  FirstWorker,  \* the one its creation starts
  Clients,      \* requests that may be served at the same time
  StaleViews,   \* whether a page may offer retry and rendering by an old status
  MaxCrashes,   \* bound: crashes of the server
  NoOne,        \* the write lock is free
  NoFiles,      \* nothing was rendered
  NoRun         \* a process that has read nothing

Stages == {"reading", "context", "chunking", "extracting_atoms", "blueprinting",
           "generating_cases", "auditing_coverage", "auditing_quality",
           "rendering_artifacts"}

\* The order in which run_generation_run_orchestrator calls them.
StageAfter == [reading |-> "context", context |-> "chunking",
               chunking |-> "extracting_atoms", extracting_atoms |-> "blueprinting",
               blueprinting |-> "generating_cases",
               generating_cases |-> "auditing_coverage",
               auditing_coverage |-> "auditing_quality",
               auditing_quality |-> "rendering_artifacts"]

\* Stages that call nothing slow: one write, committed at once.
Brief == {"reading", "context"}

\* GENERATION_RUN_STAGE_ORDER; a stage ranks as the first status it sets.
Rank == [queued |-> 1, reading |-> 2, context |-> 2, chunking |-> 3,
         extracting_atoms |-> 4, merging_atoms |-> 5, blueprinting |-> 6,
         generating_cases |-> 7, auditing_coverage |-> 8, auditing_quality |-> 9,
         rendering_artifacts |-> 10]

\* The active statuses some commit leaves; the others are overwritten before it.
Active == {"queued", "reading", "chunking", "merging_atoms", "blueprinting",
           "generating_cases", "auditing_quality", "rendering_artifacts"}
Completed == {"completed", "partial_completed"}
Terminal == Completed \cup {"failed", "cancelled", "expired"}
Verdicts == Completed \cup {"failed"}

\* stage_payload_json, as far as a later stage reads it.
Payloads == [blueprint : BOOLEAN, coverage : Verdicts \cup {"none"},
             quality : Verdicts \cup {"none"}]
NoPayload == [blueprint |-> FALSE, coverage |-> "none", quality |-> "none"]

\* The run row with its detail rows: chunks, atoms, cases and the audit, which
\* remembers when the one supplement pass was spent.
Runs == [status : Active \cup Terminal, cleaned : BOOLEAN,
         chunks : [Chunks -> {"none", "queued", "completed", "failed"}],
         atoms : SUBSET Chunks, cases : SUBSET Chunks,
         audit : {"none", "kept", "spent"}, payload : Payloads]

\* What a process does and what it read; "again" is retry_failed_chunks_only.
Processes == [pc : {"idle", "look", "audit", "late", "render", "recheck", "write",
                    "work", "fail_look", "fail_write", "done"},
              task : Stages \cup {"cancel", "retry", "rerender", "none"},
              again : BOOLEAN, seen : Runs \cup {NoRun}]

Idle == [pc |-> "idle", task |-> "none", again |-> FALSE, seen |-> NoRun]
Done == [Idle EXCEPT !.pc = "done"]

ASSUME GenerationRunsAssumption ==
  /\ FirstWorker \in Workers /\ Workers \cap Clients = {}
  /\ StaleViews \in BOOLEAN /\ MaxCrashes \in Nat
  /\ NoOne \notin Workers /\ NoRun \notin Runs
  /\ \A cases \in SUBSET Chunks : NoFiles # cases

VARIABLES
  run,      \* the committed run
  files,    \* the artefact directory
  lock,     \* the worker whose transaction holds the write lock
  procs,    \* workers and requests
  overdue,  \* whether expires_at has passed
  crossed,  \* whether a write crossed an end of the run its writer had not seen
  crashes   \* crashes so far

vars == <<run, files, lock, procs, overdue, crossed, crashes>>

-----------------------------------------------------------------------------
(* What a stage's transaction makes of the run *)

NewRun == [status |-> "queued", cleaned |-> FALSE,
           chunks |-> [c \in Chunks |-> "none"], atoms |-> {}, cases |-> {},
           audit |-> "none", payload |-> NoPayload]

\* persist_generation_chunks replaces every row.
Chunked(r) == [r EXCEPT !.status = "chunking", !.payload = NoPayload,
                        !.chunks = [c \in Chunks |-> "queued"]]

\* _load_chunk_inputs: every chunk, or those put back into the queue.
Inputs(r, again) ==
  {c \in Chunks : r.chunks[c] \in IF again THEN {"queued"}
                                  ELSE {"queued", "completed", "failed"}}

\* Fault: a failed chunk is recorded under a status nobody reads.
ExtractedWithErrors(r, again) ==
  {[r EXCEPT !.status = "merging_atoms",
             !.chunks = [c \in Chunks |-> IF c \in Inputs(r, again) THEN "error" ELSE @[c]]]}

\* Each call of the provider fails, or yields an atom or none; the atoms of
\* chunks that were not tried are preserved by a retry and deleted otherwise.
Extracted(r, again) ==
  LET tried == Inputs(r, again)
      kept == IF again THEN r.atoms \ tried ELSE {}
  IN {[r EXCEPT !.status = "merging_atoms", !.payload = NoPayload,
                !.atoms = kept \cup {c \in tried : outcome[c] = "atom"},
                !.chunks = [c \in Chunks |->
                  IF c \notin tried THEN r.chunks[c]
                  ELSE IF outcome[c] = "failed" THEN "failed" ELSE "completed"]]
      : outcome \in [tried -> {"failed", "atom", "none"}]}

Blueprinted(r) ==
  IF r.atoms = {} THEN [r EXCEPT !.status = "failed", !.payload = NoPayload]
  ELSE [r EXCEPT !.status = "blueprinting",
                 !.payload = [NoPayload EXCEPT !.blueprint = TRUE]]

\* Blueprint and atoms were read before the lock was taken.
WithCases(r, seen) ==
  IF ~seen.payload.blueprint \/ seen.atoms = {}
  THEN {[r EXCEPT !.status = "failed", !.payload = seen.payload]}
  ELSE {[r EXCEPT !.status = "generating_cases", !.payload = seen.payload,
                  !.cases = covered] : covered \in SUBSET seen.atoms}

\* _collect_audit_snapshot.
Uncovered(r) == r.atoms \ r.cases
FailedChunks(r) == {c \in Chunks : r.chunks[c] = "failed"}

\* Fault: chunks that failed do not count against the run.
CoverageVerdictOfAtoms(r) ==
  IF r.atoms # {} /\ Uncovered(r) = {} THEN "completed"
  ELSE IF r.cases # {} THEN "partial_completed" ELSE "failed"

\* _final_run_status, recommended to the stages that follow.
CoverageVerdict(r) ==
  IF r.atoms # {} /\ Uncovered(r) = {} /\ FailedChunks(r) = {} THEN "completed"
  ELSE IF r.cases # {} THEN "partial_completed" ELSE "failed"

\* _get_or_create_audit.
WithAudit(r) == [r EXCEPT !.audit = IF @ = "none" THEN "kept" ELSE @]

\* One supplement pass in the life of the audit record, for uncovered atoms.
Supplemented(r) ==
  IF Uncovered(r) = {} \/ r.audit = "spent" THEN {WithAudit(r)}
  ELSE {[r EXCEPT !.audit = "spent", !.cases = @ \cup more]
        : more \in SUBSET Uncovered(r)}

CoverageAudited(r) ==
  {[s EXCEPT !.status = "auditing_quality", !.payload.coverage = CoverageVerdict(s)]
   : s \in Supplemented(r)}

\* Fault: the verdict follows the coverage only, not the number of cases.
QualityAuditedEmpty(r, seen) ==
  {[r EXCEPT !.status = "rendering_artifacts",
             !.payload = [seen.payload EXCEPT !.quality = "partial_completed"]]}

\* _recommended_run_status: an audit that left no verdict counts as completed.
QualityAudited(r, seen) ==
  LET fits == seen.payload.coverage \in {"completed", "none"}
      verdicts == IF r.cases = {} THEN {"failed"}
                  ELSE {"partial_completed"} \cup (IF fits THEN {"completed"} ELSE {})
  IN {[r EXCEPT !.status = "rendering_artifacts",
                !.payload = [seen.payload EXCEPT !.quality = v]] : v \in verdicts}

\* What a stage may commit; p is its process, whose "seen" preceded the lock.
Results(p) ==
  CASE p.task = "reading" -> {[run EXCEPT !.status = "reading"]}
    [] p.task = "context" -> {run}
    [] p.task = "chunking" -> {Chunked(run)}
    [] p.task = "extracting_atoms" -> Extracted(run, p.again)
    [] p.task = "blueprinting" -> {Blueprinted(run)}
    [] p.task = "generating_cases" -> WithCases(run, p.seen)
    [] p.task = "auditing_coverage" -> CoverageAudited(run)
    [] p.task = "auditing_quality" -> QualityAudited(run, p.seen)

\* The status a rendering leaves: the recommended one, by default completed.
RenderedStatus(payload) ==
  IF payload.quality = "none" THEN "completed" ELSE payload.quality

\* Fault: the requirement atoms are not among the details deleted.
ExpiredWithAtoms(r) ==
  [NewRun EXCEPT !.status = "expired", !.cleaned = TRUE, !.atoms = r.atoms]

\* mark_generation_run_expired_if_needed with cleanup_generation_run_details,
\* which returns at once when the run was cleaned before.
Expired(r) ==
  IF r.cleaned THEN [r EXCEPT !.status = "expired"]
  ELSE [NewRun EXCEPT !.status = "expired", !.cleaned = TRUE]
ClearedFiles == IF run.cleaned THEN files ELSE NoFiles

\* A reading finds the run overdue and has to expire it first.
Expires == overdue /\ run.status # "expired"

\* update_generation_run_stage refuses ended runs and steps back.
MayAdvance(r, stage) == r.status \in Active /\ Rank[r.status] <= Rank[stage]

\* Under the lock, a stage meets a change made since its reading only if its
\* first write is not its status: chunking deletes rows before it, the coverage
\* audit inserts a missing record, and a status equal to the one read is not sent,
\* so that the refresh reads the real one.
Detects(p) == \/ p.task \in {"chunking", p.seen.status}
              \/ p.task = "auditing_coverage" /\ p.seen.audit = "none"

\* p is about to write across an end of the run that it did not see.
Crosses(p) == /\ p.seen # run
              /\ p.seen.status \in Terminal \/ run.status \in Terminal

-----------------------------------------------------------------------------
(* Steps shared by workers and requests *)

SetProc(p, rec) == procs' = [procs EXCEPT ![p] = rec]
LockFree == lock = NoOne

\* What a process becomes when it ends, and after an exception.
Ended(p) == IF p \in Workers THEN Done ELSE Idle
Failing(p) == IF p \in Workers THEN [procs[p] EXCEPT !.pc = "fail_look", !.seen = NoRun]
              ELSE Idle

\* The files are written before the database: by the cases read, whatever
\* happened since. An ended run is not checked again, an active one is.
RenderFiles(p) ==
  LET proc == procs[p]
  IN /\ proc.pc = "render"
     /\ files' = proc.seen.cases
     /\ crossed' = (crossed \/ Crosses(proc))
     /\ SetProc(p, [proc EXCEPT !.pc =
          IF proc.seen.status \in Completed THEN "write" ELSE "recheck"])
     /\ UNCHANGED <<run, lock, overdue, crashes>>

\* update_generation_run_stage at the end of a rendering reads the run again;
\* what it expires there is rolled back with the rest, the files are gone.
Recheck(p) ==
  LET proc == procs[p]
  IN /\ proc.pc = "recheck"
     /\ IF Expires \/ run.status \in Terminal
        THEN SetProc(p, Failing(p)) /\ files' = (IF Expires THEN ClearedFiles ELSE files)
        ELSE SetProc(p, [proc EXCEPT !.pc = "write"]) /\ UNCHANGED files
     /\ UNCHANGED <<run, lock, overdue, crossed, crashes>>

\* The payload goes back as it was read; an ended run keeps its status.
WriteRendered(p) ==
  LET proc == procs[p]
  IN /\ proc.pc = "write" /\ proc.task \in {"rendering_artifacts", "rerender"} /\ LockFree
     /\ run' = [run EXCEPT !.payload = proc.seen.payload,
                  !.status = IF proc.seen.status \in Completed THEN @
                             ELSE RenderedStatus(proc.seen.payload)]
     /\ crossed' = (crossed \/ Crosses(proc))
     /\ SetProc(p, Ended(p))
     /\ UNCHANGED <<files, lock, overdue, crashes>>

\* The busy timeout passes while another transaction holds the write lock. A
\* worker that cannot even record its failure is lost.
LockTimeout(p) ==
  /\ lock \notin {NoOne, p} /\ procs[p].pc \in {"late", "write", "fail_write"}
  /\ SetProc(p, IF procs[p].pc = "fail_write" THEN Done ELSE Failing(p))
  /\ UNCHANGED <<run, files, lock, overdue, crossed, crashes>>

-----------------------------------------------------------------------------
(* Workers: run_generation_run_orchestrator *)

NextStage(w) == [procs[w] EXCEPT !.pc = "look", !.task = StageAfter[@], !.seen = NoRun]

\* _should_stop and the stage's own reading of the run: whichever finds the run
\* ended, the worker ends. Only the coverage audit goes on with an ended run.
Look(w) ==
  LET proc == procs[w]
  IN /\ proc.pc = "look" /\ ~Expires
     /\ SetProc(w,
          IF run.status \in Terminal THEN Done
          ELSE IF proc.task = "auditing_coverage" THEN [proc EXCEPT !.pc = "audit"]
          ELSE IF proc.task = "rendering_artifacts"
          THEN [proc EXCEPT !.pc = "render", !.seen = run]
          ELSE IF MayAdvance(run, proc.task)
          THEN [proc EXCEPT !.pc = "write", !.seen = run]
          ELSE Failing(w))
     /\ UNCHANGED <<run, files, lock, overdue, crossed, crashes>>

\* The coverage audit's own reading.
LookAudit(w) ==
  LET proc == procs[w]
  IN /\ proc.pc = "audit" /\ ~Expires
     /\ SetProc(w,
          IF run.status \in Terminal THEN [proc EXCEPT !.pc = "late", !.seen = run]
          ELSE IF MayAdvance(run, proc.task)
          THEN [proc EXCEPT !.pc = "write", !.seen = run]
          ELSE Failing(w))
     /\ UNCHANGED <<run, files, lock, overdue, crossed, crashes>>

\* The coverage audit of a run that ended since _should_stop: a record is kept, or
\* inserted, also for a run that was cleaned. Updating a deleted record fails.
LateAudit(w) ==
  LET proc == procs[w]
  IN /\ proc.pc = "late" /\ LockFree
     /\ proc.seen.audit = "none" \/ run.audit # "none"
     /\ run' = WithAudit(run)
     /\ SetProc(w, NextStage(w))
     /\ UNCHANGED <<files, lock, overdue, crossed, crashes>>

\* It finds the run overdue: the expiry is committed together with a new record.
LateAuditExpires(w) ==
  /\ procs[w].pc = "audit" /\ Expires /\ LockFree
  /\ files' = ClearedFiles
  /\ run' = WithAudit(Expired(run))
  /\ SetProc(w, NextStage(w))
  /\ UNCHANGED <<lock, overdue, crossed, crashes>>

\* A worker finds its run overdue. _should_stop ends it with the expiry undone
\* and the files gone; a stage's reading lets the failure path commit it.
LookExpires(w) ==
  /\ procs[w].pc \in {"look", "fail_look"} /\ Expires /\ LockFree
  /\ files' = ClearedFiles
  /\ \/ run' = Expired(run)
     \/ procs[w].pc = "look" /\ UNCHANGED run
  /\ SetProc(w, Done)
  /\ UNCHANGED <<lock, overdue, crossed, crashes>>

\* The first write of a stage that works under the lock.
Acquire(w) ==
  LET proc == procs[w]
  IN /\ proc.pc = "write" /\ proc.task \in Stages \ (Brief \cup {"rendering_artifacts"})
     /\ LockFree
     /\ lock' = w
     /\ SetProc(w, [proc EXCEPT !.pc = "work"])
     /\ UNCHANGED <<run, files, overdue, crossed, crashes>>

\* The stage's last update and commit. It reads the run under its own lock, so
\* it fails instead when the run has become overdue.
Commit(w) ==
  LET proc == procs[w]
  IN /\ \/ proc.pc = "work" /\ ~Expires
        \/ proc.pc = "write" /\ proc.task \in Brief /\ LockFree
     /\ Detects(proc) => MayAdvance(run, proc.task)
     /\ proc.task = "extracting_atoms" => Inputs(run, proc.again) # {}
     /\ run' \in Results(proc)
     /\ crossed' = (crossed \/ Crosses(proc))
     /\ lock' = NoOne
     /\ SetProc(w, NextStage(w))
     /\ UNCHANGED <<files, overdue, crashes>>

\* An exception: the provider or the evidence fails, or the status is refused.
\* The rollback undoes the stage, but not the removal of an overdue run's files.
Raise(w) ==
  LET proc == procs[w]
  IN /\ proc.pc \in {"late", "work", "write"} /\ proc.task \in Stages
     /\ SetProc(w, Failing(w))
     /\ lock' = IF lock = w THEN NoOne ELSE lock
     /\ files' \in IF proc.pc = "work" /\ Expires THEN {files, ClearedFiles} ELSE {files}
     /\ UNCHANGED <<run, overdue, crossed, crashes>>

\* _mark_run_failed leaves a run alone that has ended.
FailLook(w) ==
  LET proc == procs[w]
  IN /\ proc.pc = "fail_look" /\ ~Expires
     /\ SetProc(w, IF run.status \in Terminal THEN Done
                   ELSE [proc EXCEPT !.pc = "fail_write", !.seen = run])
     /\ UNCHANGED <<run, files, lock, overdue, crossed, crashes>>

FailWrite(w) ==
  LET proc == procs[w]
  IN /\ proc.pc = "fail_write" /\ LockFree
     /\ run' = [run EXCEPT !.status = "failed", !.payload = proc.seen.payload]
     /\ crossed' = (crossed \/ Crosses(proc))
     /\ SetProc(w, Done)
     /\ UNCHANGED <<files, lock, overdue, crashes>>

-----------------------------------------------------------------------------
(* Requests *)

Request(c, task) == [Idle EXCEPT !.task = task, !.seen = run,
                      !.pc = IF task = "rerender" THEN "render" ELSE "write"]

CancelLook(c) ==
  /\ procs[c].pc = "idle" /\ ~Expires /\ run.status \in Active
  /\ SetProc(c, Request(c, "cancel"))
  /\ UNCHANGED <<run, files, lock, overdue, crossed, crashes>>

CancelWrite(c) ==
  LET proc == procs[c]
  IN /\ proc.pc = "write" /\ proc.task = "cancel" /\ LockFree
     /\ run' = [run EXCEPT !.status = "cancelled"]
     /\ crossed' = (crossed \/ Crosses(proc))
     /\ SetProc(c, Idle)
     /\ UNCHANGED <<files, lock, overdue, crashes>>

\* retry_failed_generation_chunks refuses every ended run but a partial one, and
\* accepts every active one. The page offers it for partial runs only: StaleViews
\* says whether a request may come from elsewhere, or from a page that is behind.
RetryLook(c) ==
  /\ procs[c].pc = "idle" /\ ~Expires /\ FailedChunks(run) # {}
  /\ run.status \in {"partial_completed"} \cup (IF StaleViews THEN Active ELSE {})
  /\ SetProc(c, Request(c, "retry"))
  /\ UNCHANGED <<run, files, lock, overdue, crossed, crashes>>

\* Each chunk row read as failed is queued again; the background task starts
\* after the commit. Rows that were deleted meanwhile fail the flush.
\* Bound: a retry needs a worker that has not served yet.
RetryWrite(c) ==
  LET proc == procs[c]
      failed == FailedChunks(proc.seen)
  IN /\ proc.pc = "write" /\ proc.task = "retry" /\ LockFree
     /\ \A k \in failed : run.chunks[k] # "none"
     /\ run' = [run EXCEPT
          !.status = IF proc.seen.status = "chunking" THEN @ ELSE "chunking",
          !.chunks = [k \in Chunks |-> IF k \in failed THEN "queued" ELSE @[k]]]
     /\ crossed' = (crossed \/ Crosses(proc))
     /\ \E w \in Workers :
          /\ procs[w].pc = "idle"
          /\ procs' = [procs EXCEPT ![c] = Idle, ![w] =
               [Idle EXCEPT !.pc = "look", !.task = "extracting_atoms", !.again = TRUE]]
     /\ UNCHANGED <<files, lock, overdue, crashes>>

\* render_generation_run_artifacts(allow_terminal=True).
RerenderLook(c) ==
  /\ procs[c].pc = "idle" /\ ~Expires
  /\ run.status \in Completed \cup (IF StaleViews THEN Active ELSE {})
  /\ SetProc(c, Request(c, "rerender"))
  /\ UNCHANGED <<run, files, lock, overdue, crossed, crashes>>

\* A request that fails, or whose client gives up before it wrote.
Abandon(c) ==
  /\ procs[c].pc # "idle"
  /\ SetProc(c, Idle)
  /\ UNCHANGED <<run, files, lock, overdue, crossed, crashes>>

-----------------------------------------------------------------------------
(* Expiry, and the server *)

Tick == ~overdue /\ overdue' = TRUE /\ UNCHANGED <<run, files, lock, procs, crossed, crashes>>

\* Whoever reads the run expires it; a page's reading commits that.
ReadExpires ==
  /\ Expires /\ LockFree
  /\ files' = ClearedFiles
  /\ run' = Expired(run)
  /\ UNCHANGED <<lock, procs, overdue, crossed, crashes>>

\* A request that answers 409 rolls the expiry back; the files are gone.
RequestExpires ==
  /\ Expires /\ LockFree
  /\ files' = ClearedFiles
  /\ UNCHANGED <<run, lock, procs, overdue, crossed, crashes>>

\* Fault: the clean-up leaves runs alone that look active.
CleanupExpiresEnded ==
  /\ Expires /\ ~run.cleaned /\ LockFree /\ run.status \in Terminal
  /\ files' = NoFiles /\ run' = Expired(run)
  /\ UNCHANGED <<lock, procs, overdue, crossed, crashes>>

\* cleanup_expired_generation_runs, in a process of its own.
CleanupExpires ==
  /\ Expires /\ ~run.cleaned /\ LockFree
  /\ files' = NoFiles
  /\ run' = Expired(run)
  /\ UNCHANGED <<lock, procs, overdue, crossed, crashes>>

\* Background tasks die with the server and are not resumed.
Crash ==
  /\ crashes < MaxCrashes
  /\ crashes' = crashes + 1
  /\ procs' = [p \in Workers \cup Clients |->
       IF p \in Workers /\ procs[p].pc # "idle" THEN Done ELSE Idle]
  /\ lock' = NoOne
  /\ UNCHANGED <<run, files, overdue, crossed>>

Proceed(w) ==
  \/ Look(w) \/ LookExpires(w) \/ LookAudit(w) \/ LateAudit(w) \/ LateAuditExpires(w)
  \/ Acquire(w) \/ Commit(w) \/ Raise(w)
  \/ RenderFiles(w) \/ Recheck(w) \/ WriteRendered(w)
  \/ FailLook(w) \/ FailWrite(w) \/ LockTimeout(w)

Serve(c) ==
  \/ CancelLook(c) \/ CancelWrite(c) \/ RetryLook(c) \/ RetryWrite(c)
  \/ RerenderLook(c) \/ RenderFiles(c) \/ Recheck(c) \/ WriteRendered(c)
  \/ LockTimeout(c) \/ Abandon(c)

Init ==
  /\ run = NewRun /\ files = NoFiles /\ lock = NoOne
  /\ procs = [p \in Workers \cup Clients |->
       IF p = FirstWorker THEN [Idle EXCEPT !.pc = "look", !.task = "reading"] ELSE Idle]
  /\ overdue = FALSE /\ crossed = FALSE /\ crashes = 0

Next ==
  \/ \E w \in Workers : Proceed(w)
  \/ \E c \in Clients : Serve(c)
  \/ Tick \/ ReadExpires \/ RequestExpires \/ CleanupExpires \/ Crash

Spec == Init /\ [][Next]_vars

\* A running task is scheduled, time passes, and the clean-up collects overdue
\* runs; nobody has to look at the run, and no request has to be made.
FairSpec ==
  /\ Spec /\ WF_vars(Tick) /\ WF_vars(CleanupExpires)
  /\ \A w \in Workers : WF_vars(Proceed(w))

-----------------------------------------------------------------------------
(* Properties *)

TypeOK ==
  /\ run \in Runs /\ (files = NoFiles \/ files \in SUBSET Chunks)
  /\ lock \in Workers \cup {NoOne}
  /\ procs \in [Workers \cup Clients -> Processes]
  /\ overdue \in BOOLEAN /\ crossed \in BOOLEAN /\ crashes \in 0..MaxCrashes

\* A run called completed is whole: every chunk was read and every atom has a
\* case. The verdicts pass through the payload from stage to stage, and a retry
\* starts in the middle.
CompletedIsWhole ==
  run.status = "completed" /\ ~crossed
  => run.atoms # {} /\ run.cases = run.atoms
     /\ \A c \in Chunks : run.chunks[c] = "completed"

\* What a reader of a result finds: there are cases, each rests on an atom that
\* still exists, and the files offered for download show exactly these cases,
\* also after retries, renderings and failures of either.
ResultsAreGrounded ==
  run.status \in Completed /\ ~crossed /\ ~overdue
  => run.cases # {} /\ run.cases \subseteq run.atoms /\ files = run.cases

\* The status of the run as its readers understand it.
Phase(status) ==
  CASE status \in Active -> "active"
    [] status = "partial_completed" -> "partial"
    [] OTHER -> status

HasDetails ==
  \/ run.chunks # NewRun.chunks \/ run.atoms # {} \/ run.cases # {}
  \/ run.payload # NoPayload \/ files # NoFiles
HasAudit == run.audit # "none"

Lifecycle == INSTANCE RunLifecycle WITH
  phase <- IF crossed THEN "contested" ELSE Phase(run.status),
  details <- crossed \/ HasDetails, audit <- crossed \/ HasAudit

\* The run keeps the promise of RunLifecycle: ends are final, only a partial run
\* is reopened, of an expired one nothing is left but the audit a worker came too
\* late with, and only the retry of chunks, never that audit, reopens a run.
KeepsLifecycle == Lifecycle!Spec

\* Whatever fails or crashes, the run does not stay active for ever.
RunsEnd == <>[](run.status \in Terminal \/ crossed)

-----------------------------------------------------------------------------
(* What the specification of the feature says and the code does not keep: see *)
(* README.md, "Disagreements".                                                *)

\* docs/specs/test-case-generation.md:556, "no audit detail after the clean-up":
\* a late coverage audit leaves one.
ExpiredKeepsNothing ==
  run.status = "expired" /\ ~crossed => ~HasDetails /\ ~HasAudit

\* docs/specs/test-case-generation.md:544, "retry is for partial runs only", so
\* that no two workers advance a run: with StaleViews an active run is retried.
Advancing == {w \in Workers : procs[w].pc \notin {"idle", "done"}}
OneWorker == crossed \/ \A v, w \in Advancing : v = w

=============================================================================
