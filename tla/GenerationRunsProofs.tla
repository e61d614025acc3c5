-------------------------- MODULE GenerationRunsProofs -------------------------
(***************************************************************************)
(* Proofs about GenerationRuns for any chunks, workers, requests and       *)
(* crashes, with and without stale views.                                  *)
(*                                                                         *)
(* TypeOK is inductive together with Prepared, which says what a process   *)
(* has read when it writes. KeepsLifecycle needs Marked beside them. That  *)
(* workers are Alone, and requests Offered, without stale views prepares   *)
(* GenerationVerdictsProofs.                                               *)
(***************************************************************************)
EXTENDS GenerationRuns, TLAPS

USE GenerationRunsAssumption

Procs == Workers \cup Clients
Holding == {"render", "recheck", "write", "work", "fail_write"}

\* What a worker has read is an active run; the slow stages work.
WorkerReady(q) ==
  /\ q.pc \in {"idle", "done", "look", "audit", "late", "fail_look"} \cup Holding
  /\ q.pc \in {"look", "render", "recheck", "write", "work"} => q.task \in Stages
  /\ q.pc \in {"audit", "late"} => q.task = "auditing_coverage"
  /\ q.pc = "late" => q.seen \in Runs /\ q.seen.status \in Terminal
  /\ q.pc = "work" => q.task # "rendering_artifacts"
  /\ q.pc \in Holding => q.seen \in Runs /\ q.seen.status \in Active

\* What a request has read is a run it may write.
ClientReady(q) ==
  /\ q.pc \in {"idle", "render", "recheck", "write"}
  /\ q.pc # "idle" => /\ q.seen \in Runs /\ q.seen.status \in Completed \cup Active
                      /\ q.task \in {"cancel", "retry", "rerender"}
  /\ q.pc \in {"render", "recheck"} => q.task = "rerender"
  /\ q.task = "cancel" => q.seen.status \in Active
  /\ q.task = "retry" => /\ FailedChunks(q.seen) # {}
                         /\ q.seen.status \in Active \cup {"partial_completed"}

Prepared ==
  /\ \A w \in Workers : WorkerReady(procs[w])
  /\ \A c \in Clients : ClientReady(procs[c])

\* Exactly the expired runs are marked as cleaned.
Marked == ~crossed => (run.cleaned <=> run.status = "expired")

-----------------------------------------------------------------------------
(* What the stages' operators return *)

LEMMA NewRunType == NewRun \in Runs
BY DEF NewRun, Runs, Active, NoPayload, Payloads, Verdicts, Completed

LEMMA ExpiredType ==
  ASSUME NEW r \in Runs
  PROVE  Expired(r) \in Runs /\ Expired(r).status = "expired" /\ Expired(r).cleaned
BY NewRunType DEF Expired, NewRun, Runs, Terminal

LEMMA VerdictsType ==
  ASSUME NEW r \in Runs
  PROVE  CoverageVerdict(r) \in Verdicts
BY DEF CoverageVerdict, Verdicts, Completed

LEMMA RenderedType ==
  ASSUME NEW payload \in Payloads
  PROVE  RenderedStatus(payload) \in Verdicts
BY DEF RenderedStatus, Payloads, Verdicts, Completed

LEMMA ChunkedType ==
  ASSUME NEW r \in Runs
  PROVE  /\ Chunked(r) \in Runs
         /\ Chunked(r).status = "chunking" /\ Chunked(r).cleaned = r.cleaned
BY DEF Chunked, Runs, Active, NoPayload, Payloads

LEMMA ExtractedType ==
  ASSUME NEW r \in Runs, NEW again \in BOOLEAN, NEW s \in Extracted(r, again)
  PROVE  s \in Runs /\ s.status = "merging_atoms" /\ s.cleaned = r.cleaned
<1> DEFINE tried == Inputs(r, again)
           kept == IF again THEN r.atoms \ tried ELSE {}
           Atoms(outcome) == kept \cup {c \in tried : outcome[c] = "atom"}
           Tried(outcome) == [c \in Chunks |->
             IF c \notin tried THEN r.chunks[c]
             ELSE IF outcome[c] = "failed" THEN "failed" ELSE "completed"]
<1>1. PICK outcome \in [tried -> {"failed", "atom", "none"}] :
        s = [r EXCEPT !.status = "merging_atoms", !.payload = NoPayload,
                      !.atoms = Atoms(outcome), !.chunks = Tried(outcome)]
  BY DEF Extracted
<1>2. Atoms(outcome) \in SUBSET Chunks
  BY DEF Inputs, Runs
<1>3. Tried(outcome) \in [Chunks -> {"none", "queued", "completed", "failed"}]
  BY DEF Runs
<1>4. NoPayload \in Payloads
  BY DEF NoPayload, Payloads
<1> HIDE DEF Atoms, Tried
<1> QED
  BY <1>1, <1>2, <1>3, <1>4 DEF Runs, Active

LEMMA BlueprintedType ==
  ASSUME NEW r \in Runs
  PROVE  /\ Blueprinted(r) \in Runs
         /\ Blueprinted(r).status \in {"failed", "blueprinting"}
         /\ Blueprinted(r).cleaned = r.cleaned /\ Blueprinted(r).audit = r.audit
BY DEF Blueprinted, Runs, Active, Terminal, NoPayload, Payloads

LEMMA WithCasesType ==
  ASSUME NEW r \in Runs, NEW seen \in Runs, NEW s \in WithCases(r, seen)
  PROVE  /\ s \in Runs /\ s.status \in {"failed", "generating_cases"}
         /\ s.cleaned = r.cleaned /\ s.audit = r.audit
<1>1. seen.payload \in Payloads /\ seen.atoms \in SUBSET Chunks
  BY DEF Runs
<1>2. CASE s = [r EXCEPT !.status = "failed", !.payload = seen.payload]
  BY <1>1, <1>2 DEF Runs, Terminal
<1>3. CASE \E covered \in SUBSET seen.atoms :
             s = [r EXCEPT !.status = "generating_cases", !.payload = seen.payload,
                           !.cases = covered]
  BY <1>1, <1>3 DEF Runs, Active
<1> QED
  BY <1>2, <1>3 DEF WithCases

LEMMA WithAuditType ==
  ASSUME NEW r \in Runs
  PROVE  /\ WithAudit(r) \in Runs /\ WithAudit(r).audit # "none"
         /\ WithAudit(r).status = r.status /\ WithAudit(r).cleaned = r.cleaned
         /\ WithAudit(r).chunks = r.chunks /\ WithAudit(r).atoms = r.atoms
         /\ WithAudit(r).cases = r.cases /\ WithAudit(r).payload = r.payload
<1>1. PICK audit \in {"kept", "spent"} : WithAudit(r) = [r EXCEPT !.audit = audit]
  BY DEF WithAudit, Runs
<1> QED
  BY <1>1 DEF Runs

LEMMA CoverageAuditedType ==
  ASSUME NEW r \in Runs, NEW s \in CoverageAudited(r)
  PROVE  s \in Runs /\ s.status = "auditing_quality" /\ s.cleaned = r.cleaned
<1>1. PICK t \in Supplemented(r) :
        s = [t EXCEPT !.status = "auditing_quality", !.payload.coverage = CoverageVerdict(t)]
  BY DEF CoverageAudited
<1>2. t \in Runs /\ t.cleaned = r.cleaned
  <2>1. CASE t = WithAudit(r)
    BY <2>1, WithAuditType
  <2>2. CASE \E more \in SUBSET Uncovered(r) :
               t = [r EXCEPT !.audit = "spent", !.cases = r.cases \cup more]
    <3>1. PICK more \in SUBSET Uncovered(r) :
            t = [r EXCEPT !.audit = "spent", !.cases = r.cases \cup more]
      BY <2>2
    <3>2. r.cases \cup more \in SUBSET Chunks
      BY DEF Uncovered, Runs
    <3> QED
      BY <3>1, <3>2 DEF Runs
  <2> QED
    BY <1>1, <2>1, <2>2 DEF Supplemented
<1>3. CoverageVerdict(t) \in Verdicts
  BY <1>2, VerdictsType
<1>4. t.payload \in Payloads
  BY <1>2 DEF Runs
<1>5. [t.payload EXCEPT !.coverage = CoverageVerdict(t)] \in Payloads
  BY <1>3, <1>4 DEF Payloads
<1> QED
  BY <1>1, <1>2, <1>5 DEF Runs, Active

LEMMA QualityAuditedType ==
  ASSUME NEW r \in Runs, NEW seen \in Runs, NEW s \in QualityAudited(r, seen)
  PROVE  s \in Runs /\ s.status = "rendering_artifacts" /\ s.cleaned = r.cleaned
<1>1. PICK v \in Verdicts :
        s = [r EXCEPT !.status = "rendering_artifacts",
                      !.payload = [seen.payload EXCEPT !.quality = v]]
  BY DEF QualityAudited, Verdicts, Completed
<1>2. [seen.payload EXCEPT !.quality = v] \in Payloads
  BY DEF Runs, Payloads
<1> QED
  BY <1>1, <1>2 DEF Runs, Active

LEMMA ActiveNotFailed == "failed" \notin Active
BY DEF Active

\* Whatever a stage commits is a run, active or failed, cleaned as before.
LEMMA ResultsType ==
  ASSUME run \in Runs, NEW q \in Processes, q.seen \in Runs,
         q.task \in Stages \ {"rendering_artifacts"},
         NEW s \in Results(q)
  PROVE  /\ s \in Runs /\ s.cleaned = run.cleaned
         /\ s = run \/ s.status \in Active \cup {"failed"}
         /\ s.status = "failed" => s.audit = run.audit
<1>1. q.again \in BOOLEAN
  BY DEF Processes
<1>2. CASE q.task = "reading"
  BY <1>2 DEF Results, Runs, Active
<1>3. CASE q.task = "context"
  BY <1>3 DEF Results
<1> USE ActiveNotFailed
<1>4. CASE q.task = "chunking"
  BY <1>4, ChunkedType DEF Results, Active
<1>5. CASE q.task = "extracting_atoms"
  BY <1>1, <1>5, ExtractedType DEF Results, Active
<1>6. CASE q.task = "blueprinting"
  BY <1>6, BlueprintedType DEF Results, Active
<1>7. CASE q.task = "generating_cases"
  BY <1>7, WithCasesType DEF Results, Active
<1>8. CASE q.task = "auditing_coverage"
  BY <1>8, CoverageAuditedType DEF Results, Active
<1>9. CASE q.task = "auditing_quality"
  BY <1>9, QualityAuditedType DEF Results, Active
<1> QED
  BY <1>2, <1>3, <1>4, <1>5, <1>6, <1>7, <1>8, <1>9 DEF Stages

-----------------------------------------------------------------------------
(* Types, and what processes have read *)

LEMMA InitTypes == Init => TypeOK /\ Prepared
<1> SUFFICES ASSUME Init PROVE TypeOK /\ Prepared
  OBVIOUS
<1>1. run \in Runs
  BY NewRunType DEF Init
<1>2. procs \in [Procs -> Processes]
  BY DEF Init, Procs, Idle, Processes, Stages
<1>3. Prepared
  <2>1. \A w \in Workers : procs[w].pc \in {"idle", "look"} /\ (procs[w].pc = "look" => procs[w].task \in Stages)
    BY DEF Init, Idle, Stages
  <2>2. \A c \in Clients : procs[c] = Idle
    BY DEF Init
  <2> QED
    BY <2>1, <2>2 DEF Prepared, WorkerReady, ClientReady, Idle, Holding
<1>4. crashes \in 0..MaxCrashes
  BY DEF Init
<1>5. /\ files = NoFiles /\ lock \in Workers \cup {NoOne}
      /\ overdue \in BOOLEAN /\ crossed \in BOOLEAN
  BY DEF Init
<1> QED
  BY <1>1, <1>2, <1>3, <1>4, <1>5 DEF TypeOK, Procs

LEMMA ActiveIsNotTerminal == Active \cap Terminal = {}
BY DEF Active, Terminal, Completed

\* A step that writes one process; the rest of the state is typed separately.
LEMMA OneProcess ==
  ASSUME TypeOK, Prepared, NEW p \in Procs, NEW rec \in Processes, SetProc(p, rec),
         p \in Workers => WorkerReady(rec), p \in Clients => ClientReady(rec)
  PROVE  Prepared' /\ procs' \in [Procs -> Processes]
BY DEF TypeOK, Prepared, SetProc, Procs

\* What a process becomes when it ends or fails.
LEMMA EndsReady ==
  ASSUME TypeOK, Prepared, NEW p \in Procs
  PROVE  /\ Ended(p) \in Processes /\ Failing(p) \in Processes
         /\ p \in Workers => WorkerReady(Ended(p)) /\ WorkerReady(Failing(p))
         /\ p \in Clients => ClientReady(Ended(p)) /\ ClientReady(Failing(p))
<1>1. procs[p] \in Processes
  BY DEF TypeOK, Procs
<1>2. /\ Idle \in Processes /\ Done \in Processes
      /\ WorkerReady(Done) /\ ClientReady(Idle)
  BY DEF Idle, Done, Processes, WorkerReady, ClientReady, Holding
<1>3. p \in Workers => Failing(p) \in Processes /\ WorkerReady(Failing(p))
  BY <1>1 DEF Failing, Processes, WorkerReady, Holding
<1>4. p \in Clients => p \notin Workers
  OBVIOUS
<1> QED
  BY <1>2, <1>3, <1>4 DEF Ended, Failing, Procs

\* A process keeps what it read as it moves on.
LEMMA MovesOn ==
  ASSUME NEW q \in Processes, NEW pc \in {"recheck", "write", "work"}
  PROVE  [q EXCEPT !.pc = pc] \in Processes
BY DEF Processes

LEMMA ClearedType == files = NoFiles \/ files \in SUBSET Chunks
                     => ClearedFiles = NoFiles \/ ClearedFiles \in SUBSET Chunks
BY DEF ClearedFiles

FilesOK == files = NoFiles \/ files \in SUBSET Chunks

LEMMA RenderFilesType ==
  ASSUME TypeOK, Prepared, NEW p \in Procs, RenderFiles(p)
  PROVE  TypeOK' /\ Prepared'
<1> DEFINE q == procs[p]
           next == [q EXCEPT !.pc = IF q.seen.status \in Completed THEN "write" ELSE "recheck"]
<1>1. q \in Processes /\ q.pc = "render" /\ q.seen \in Runs
  BY DEF TypeOK, Prepared, WorkerReady, ClientReady, Holding, Procs, RenderFiles
<1>2. next \in Processes
  BY <1>1, MovesOn
<1>3. p \in Workers => WorkerReady(next)
  BY <1>1 DEF Prepared, WorkerReady, Holding, Processes
<1>4. p \in Clients => ClientReady(next)
  BY <1>1 DEF Prepared, ClientReady, Processes
<1>5. SetProc(p, next)
  BY DEF RenderFiles
<1> HIDE DEF next
<1>6. Prepared' /\ procs' \in [Procs -> Processes]
  BY <1>2, <1>3, <1>4, <1>5, OneProcess
<1>7. files' \in SUBSET Chunks
  BY <1>1 DEF RenderFiles, Runs
<1>8. crossed' \in BOOLEAN
  BY DEF RenderFiles, TypeOK
<1> QED
  BY <1>6, <1>7, <1>8 DEF RenderFiles, TypeOK, Procs

LEMMA RecheckType ==
  ASSUME TypeOK, Prepared, NEW p \in Procs, Recheck(p)
  PROVE  TypeOK' /\ Prepared'
<1> DEFINE q == procs[p]
<1>1. q \in Processes /\ q.pc = "recheck"
  BY DEF TypeOK, Procs, Recheck
<1>2. [q EXCEPT !.pc = "write"] \in Processes
  BY <1>1, MovesOn
<1>3. p \in Workers => WorkerReady([q EXCEPT !.pc = "write"])
  BY <1>1 DEF Prepared, WorkerReady, Holding, Processes
<1>4. p \in Clients => ClientReady([q EXCEPT !.pc = "write"])
  BY <1>1 DEF Prepared, ClientReady, Processes
<1>5. Prepared' /\ procs' \in [Procs -> Processes]
  <2>1. CASE SetProc(p, Failing(p))
    BY <2>1, EndsReady, OneProcess
  <2>2. CASE SetProc(p, [q EXCEPT !.pc = "write"])
    BY <1>2, <1>3, <1>4, <2>2, OneProcess
  <2> QED
    BY <2>1, <2>2 DEF Recheck
<1>6. FilesOK'
  BY ClearedType DEF Recheck, TypeOK, FilesOK
<1> QED
  BY <1>5, <1>6 DEF Recheck, TypeOK, Procs, FilesOK

LEMMA WriteRenderedType ==
  ASSUME TypeOK, Prepared, NEW p \in Procs, WriteRendered(p)
  PROVE  TypeOK' /\ Prepared'
<1> DEFINE q == procs[p]
<1>1. q.seen \in Runs /\ q.seen.payload \in Payloads
  BY DEF TypeOK, Prepared, WorkerReady, ClientReady, Holding, Procs, WriteRendered, Runs
<1>2. RenderedStatus(q.seen.payload) \in Verdicts
  BY <1>1, RenderedType
<1>3. run' \in Runs
  BY <1>1, <1>2 DEF WriteRendered, TypeOK, Runs, Verdicts, Terminal
<1>4. Prepared' /\ procs' \in [Procs -> Processes]
  BY EndsReady, OneProcess DEF WriteRendered
<1>5. crossed' \in BOOLEAN
  BY DEF WriteRendered, TypeOK
<1> QED
  BY <1>3, <1>4, <1>5 DEF WriteRendered, TypeOK, Procs

LEMMA LockTimeoutType ==
  ASSUME TypeOK, Prepared, NEW p \in Procs, LockTimeout(p)
  PROVE  TypeOK' /\ Prepared'
<1>1. CASE SetProc(p, Failing(p))
  BY <1>1, EndsReady, OneProcess DEF LockTimeout, TypeOK, Procs
<1>2. CASE SetProc(p, Done) /\ procs[p].pc = "fail_write"
  <2>1. p \in Workers /\ Done = Ended(p)
    BY <1>2 DEF Prepared, ClientReady, Procs, Ended
  <2> QED
    BY <1>2, <2>1, EndsReady, OneProcess DEF LockTimeout, TypeOK, Procs
<1> QED
  BY <1>1, <1>2 DEF LockTimeout

LEMMA LookType ==
  ASSUME TypeOK, Prepared, NEW w \in Workers, Look(w)
  PROVE  TypeOK' /\ Prepared'
<1> DEFINE q == procs[w]
<1>1. q \in Processes /\ q.pc = "look" /\ q.task \in Stages /\ w \in Procs /\ w \notin Clients
  BY DEF TypeOK, Prepared, WorkerReady, Procs, Look
<1>2. Prepared' /\ procs' \in [Procs -> Processes]
  <2>1. CASE SetProc(w, Done)
    BY <1>1, <2>1, EndsReady, OneProcess DEF Ended
  <2>2. CASE SetProc(w, Failing(w))
    BY <1>1, <2>2, EndsReady, OneProcess
  <2>3. ASSUME NEW pc \in {"render", "write"}, run.status \in Active,
               SetProc(w, [q EXCEPT !.pc = pc, !.seen = run])
        PROVE  Prepared' /\ procs' \in [Procs -> Processes]
    <3>1. [q EXCEPT !.pc = pc, !.seen = run] \in Processes
      BY <1>1 DEF Processes, TypeOK
    <3>2. WorkerReady([q EXCEPT !.pc = pc, !.seen = run])
      BY <1>1, <2>3 DEF WorkerReady, Holding, TypeOK, Processes
    <3> QED
      BY <1>1, <2>3, <3>1, <3>2, OneProcess
  <2>4. CASE SetProc(w, [q EXCEPT !.pc = "audit"]) /\ q.task = "auditing_coverage"
    <3>1. [q EXCEPT !.pc = "audit"] \in Processes /\ WorkerReady([q EXCEPT !.pc = "audit"])
      BY <1>1, <2>4 DEF Processes, WorkerReady, Holding
    <3> QED
      BY <1>1, <2>4, <3>1, OneProcess
  <2>5. run.status \in Active \cup Terminal
    BY DEF TypeOK, Runs
  <2> QED
    BY <2>1, <2>2, <2>3, <2>4, <2>5 DEF Look
<1> QED
  BY <1>2 DEF Look, TypeOK, Procs

LEMMA LookAuditType ==
  ASSUME TypeOK, Prepared, NEW w \in Workers, LookAudit(w)
  PROVE  TypeOK' /\ Prepared'
<1> DEFINE q == procs[w]
           next(pc) == [q EXCEPT !.pc = pc, !.seen = run]
<1>1. /\ q \in Processes /\ q.pc = "audit" /\ q.task = "auditing_coverage"
      /\ w \in Procs /\ w \notin Clients /\ run \in Runs
  BY DEF TypeOK, Prepared, WorkerReady, Procs, LookAudit
<1>2. next("late") \in Processes /\ next("write") \in Processes
  BY <1>1 DEF Processes
<1>3. run.status \in Terminal => WorkerReady(next("late"))
  BY <1>1 DEF WorkerReady, Holding, Processes
<1>4. run.status \in Active => WorkerReady(next("write"))
  BY <1>1 DEF WorkerReady, Holding, Processes, Stages
<1>5. run.status \in Active \cup Terminal
  BY <1>1 DEF Runs
<1> HIDE DEF next
<1>6. \/ run.status \in Terminal /\ SetProc(w, next("late"))
      \/ run.status \in Active /\ SetProc(w, next("write"))
      \/ SetProc(w, Failing(w))
  BY <1>5 DEF LookAudit, next
<1>7. Prepared' /\ procs' \in [Procs -> Processes]
  BY <1>1, <1>2, <1>3, <1>4, <1>6, EndsReady, OneProcess
<1> QED
  BY <1>7 DEF LookAudit, TypeOK, Procs

LEMMA LookExpiresType ==
  ASSUME TypeOK, Prepared, NEW w \in Workers, LookExpires(w)
  PROVE  TypeOK' /\ Prepared'
<1>1. Prepared' /\ procs' \in [Procs -> Processes]
  BY EndsReady, OneProcess DEF LookExpires, Procs, Ended
<1>2. run' \in Runs
  BY ExpiredType DEF LookExpires, TypeOK
<1> QED
  BY <1>1, <1>2, ClearedType DEF LookExpires, TypeOK, Procs

LEMMA AcquireType ==
  ASSUME TypeOK, Prepared, NEW w \in Workers, Acquire(w)
  PROVE  TypeOK' /\ Prepared'
<1>1. /\ procs[w] \in Processes /\ procs[w].pc = "write" /\ w \in Procs
      /\ procs[w].task \in Stages \ {"rendering_artifacts"} /\ w \notin Clients
  BY DEF TypeOK, Procs, Acquire
<1>2. [procs[w] EXCEPT !.pc = "work"] \in Processes
  BY <1>1, MovesOn
<1>3. WorkerReady([procs[w] EXCEPT !.pc = "work"])
  BY <1>1 DEF Prepared, WorkerReady, Holding, Processes
<1>4. Prepared' /\ procs' \in [Procs -> Processes]
  BY <1>1, <1>2, <1>3, OneProcess DEF Acquire
<1> QED
  BY <1>4 DEF Acquire, TypeOK, Procs

LEMMA StageAfterType ==
  ASSUME NEW task \in Stages \ {"rendering_artifacts"}
  PROVE  StageAfter[task] \in Stages
BY DEF Stages, StageAfter

\* The run a stage commits, and what its worker had read.
LEMMA CommitRun ==
  ASSUME TypeOK, Prepared, NEW w \in Workers, Commit(w)
  PROVE  /\ run' \in Runs /\ run'.cleaned = run.cleaned
         /\ run' = run \/ run'.status \in Active \cup {"failed"}
         /\ run'.status = "failed" => run'.audit = run.audit
         /\ procs[w].seen.status \in Active
         /\ procs[w] \in Processes /\ procs[w].task \in Stages \ {"rendering_artifacts"}
<1>1. /\ procs[w] \in Processes /\ procs[w].seen \in Runs /\ procs[w].seen.status \in Active
      /\ procs[w].task \in Stages \ {"rendering_artifacts"}
  BY DEF TypeOK, Prepared, WorkerReady, Holding, Commit, Brief, Procs
<1> QED
  BY <1>1, ResultsType DEF Commit, TypeOK

\* A worker that goes on to its next stage has read nothing yet.
LEMMA NextStageReady ==
  ASSUME TypeOK, Prepared, NEW w \in Workers,
         procs[w].task \in Stages \ {"rendering_artifacts"}, SetProc(w, NextStage(w))
  PROVE  Prepared' /\ procs' \in [Procs -> Processes]
<1> DEFINE q == procs[w]
           task == StageAfter[q.task]
           next == [q EXCEPT !.pc = "look", !.task = task, !.seen = NoRun]
<1>1. q \in Processes /\ task \in Stages /\ w \in Procs /\ w \notin Clients
  BY StageAfterType DEF Procs, TypeOK
<1>2. SetProc(w, next)
  BY DEF NextStage
<1> HIDE DEF task
<1>3. next \in Processes
  BY <1>1 DEF Processes
<1>4. WorkerReady(next)
  BY <1>1 DEF WorkerReady, Holding, Processes
<1> QED
  BY <1>1, <1>2, <1>3, <1>4, OneProcess

LEMMA CommitType ==
  ASSUME TypeOK, Prepared, NEW w \in Workers, Commit(w)
  PROVE  TypeOK' /\ Prepared'
<1>1. Prepared' /\ procs' \in [Procs -> Processes]
  BY CommitRun, NextStageReady DEF Commit
<1>2. crossed' \in BOOLEAN
  BY DEF Commit, TypeOK
<1> QED
  BY <1>1, <1>2, CommitRun DEF Commit, TypeOK, Procs

LEMMA LateAuditType ==
  ASSUME TypeOK, Prepared, NEW w \in Workers, LateAudit(w) \/ LateAuditExpires(w)
  PROVE  TypeOK' /\ Prepared'
<1>1. procs[w].task = "auditing_coverage" /\ SetProc(w, NextStage(w))
  BY DEF LateAudit, LateAuditExpires, Prepared, WorkerReady
<1>2. Prepared' /\ procs' \in [Procs -> Processes]
  BY <1>1, NextStageReady DEF Stages
<1>3. CASE LateAudit(w)
  BY <1>2, <1>3, WithAuditType DEF LateAudit, TypeOK, Procs
<1>4. CASE LateAuditExpires(w)
  <2>1. run' \in Runs
    BY <1>4, ExpiredType, WithAuditType DEF LateAuditExpires, TypeOK
  <2> QED
    BY <1>2, <1>4, <2>1, ClearedType DEF LateAuditExpires, TypeOK, Procs
<1> QED
  BY <1>3, <1>4

LEMMA RaiseType ==
  ASSUME TypeOK, Prepared, NEW w \in Workers, Raise(w)
  PROVE  TypeOK' /\ Prepared'
<1>1. Prepared' /\ procs' \in [Procs -> Processes]
  BY EndsReady, OneProcess DEF Raise, Procs
<1>2. FilesOK'
  BY ClearedType DEF Raise, TypeOK, FilesOK
<1> QED
  BY <1>1, <1>2 DEF Raise, TypeOK, Procs, FilesOK

LEMMA FailLookType ==
  ASSUME TypeOK, Prepared, NEW w \in Workers, FailLook(w)
  PROVE  TypeOK' /\ Prepared'
<1> DEFINE next == [procs[w] EXCEPT !.pc = "fail_write", !.seen = run]
<1>1. procs[w] \in Processes /\ w \in Procs /\ w \notin Clients
  BY DEF TypeOK, Procs
<1>2. Prepared' /\ procs' \in [Procs -> Processes]
  <2>1. CASE SetProc(w, Done)
    BY <1>1, <2>1, EndsReady, OneProcess DEF Ended
  <2>2. CASE SetProc(w, next) /\ run.status \in Active
    <3>1. next \in Processes
      BY <1>1 DEF Processes, TypeOK
    <3>2. WorkerReady(next)
      BY <1>1, <2>2 DEF WorkerReady, Holding, TypeOK, Processes
    <3> QED
      BY <1>1, <2>2, <3>1, <3>2, OneProcess
  <2>3. run.status \in Active \cup Terminal
    BY DEF TypeOK, Runs
  <2> QED
    BY <2>1, <2>2, <2>3 DEF FailLook
<1> QED
  BY <1>2 DEF FailLook, TypeOK, Procs

LEMMA FailWriteType ==
  ASSUME TypeOK, Prepared, NEW w \in Workers, FailWrite(w)
  PROVE  TypeOK' /\ Prepared'
<1>1. Prepared' /\ procs' \in [Procs -> Processes]
  BY EndsReady, OneProcess DEF FailWrite, Procs, Ended
<1>2. procs[w].seen \in Runs
  BY DEF Prepared, WorkerReady, Holding, FailWrite
<1>3. run' \in Runs
  BY <1>2 DEF FailWrite, TypeOK, Runs, Terminal
<1>4. crossed' \in BOOLEAN
  BY DEF FailWrite, TypeOK
<1> QED
  BY <1>1, <1>3, <1>4 DEF FailWrite, TypeOK, Procs

\* A request that begins has read the run.
LEMMA RequestBegins ==
  ASSUME TypeOK, Prepared, NEW c \in Clients, NEW task \in {"cancel", "retry", "rerender"},
         run.status \in Completed \cup Active,
         task = "cancel" => run.status \in Active,
         task = "retry" => /\ FailedChunks(run) # {}
                           /\ run.status \in Active \cup {"partial_completed"},
         SetProc(c, Request(c, task)),
         UNCHANGED <<run, files, lock, overdue, crossed, crashes>>
  PROVE  TypeOK' /\ Prepared'
<1>1. Request(c, task) \in Processes
  BY DEF Request, Idle, Processes, TypeOK
<1>2. ClientReady(Request(c, task))
  BY DEF ClientReady, Request, Idle, TypeOK
<1>3. Prepared' /\ procs' \in [Procs -> Processes]
  BY <1>1, <1>2, OneProcess DEF Procs
<1> QED
  BY <1>3 DEF TypeOK, Procs

LEMMA RequestType ==
  ASSUME TypeOK, Prepared, NEW c \in Clients,
         CancelLook(c) \/ RetryLook(c) \/ RerenderLook(c)
  PROVE  TypeOK' /\ Prepared'
<1>1. CASE CancelLook(c)
  BY <1>1, RequestBegins DEF CancelLook
<1>2. CASE RetryLook(c)
  BY <1>2, RequestBegins DEF RetryLook, Completed
<1>3. CASE RerenderLook(c)
  BY <1>3, RequestBegins DEF RerenderLook
<1> QED
  BY <1>1, <1>2, <1>3

LEMMA CancelWriteType ==
  ASSUME TypeOK, Prepared, NEW c \in Clients, CancelWrite(c)
  PROVE  TypeOK' /\ Prepared'
<1>1. Prepared' /\ procs' \in [Procs -> Processes]
  BY EndsReady, OneProcess DEF CancelWrite, Procs, Ended
<1>2. run' \in Runs
  BY DEF CancelWrite, TypeOK, Runs, Terminal
<1>3. crossed' \in BOOLEAN
  BY DEF CancelWrite, TypeOK
<1> QED
  BY <1>1, <1>2, <1>3 DEF CancelWrite, TypeOK, Procs

LEMMA RetryWriteType ==
  ASSUME TypeOK, Prepared, NEW c \in Clients, RetryWrite(c)
  PROVE  TypeOK' /\ Prepared'
<1> DEFINE started == [Idle EXCEPT !.pc = "look", !.task = "extracting_atoms", !.again = TRUE]
           failed == FailedChunks(procs[c].seen)
           queued == [k \in Chunks |-> IF k \in failed THEN "queued" ELSE run.chunks[k]]
<1>1. started \in Processes /\ WorkerReady(started) /\ Idle \in Processes /\ ClientReady(Idle)
  BY DEF Idle, Processes, Stages, WorkerReady, ClientReady, Holding
<1> HIDE DEF started
<1>2. PICK w \in Workers : procs' = [procs EXCEPT ![c] = Idle, ![w] = started]
  BY DEF RetryWrite, started
<1>3. procs' \in [Procs -> Processes]
  BY <1>1, <1>2 DEF TypeOK, Procs
<1>4. Prepared'
  <2>1. \A v \in Workers : procs'[v] \in {procs[v], started}
    BY <1>2 DEF TypeOK
  <2>2. \A d \in Clients : procs'[d] \in {procs[d], Idle}
    BY <1>2 DEF TypeOK
  <2> QED
    BY <1>1, <2>1, <2>2 DEF Prepared
<1>5. queued \in [Chunks -> {"none", "queued", "completed", "failed"}]
  BY DEF TypeOK, Runs
<1>6. PICK status \in {run.status, "chunking"} :
        run' = [run EXCEPT !.status = status, !.chunks = queued]
  BY DEF RetryWrite
<1> HIDE DEF queued
<1>7. run' \in Runs
  BY <1>5, <1>6 DEF TypeOK, Runs, Active
<1>8. crossed' \in BOOLEAN
  BY DEF RetryWrite, TypeOK
<1> QED
  BY <1>3, <1>4, <1>7, <1>8 DEF RetryWrite, TypeOK, Procs

LEMMA ServerType ==
  ASSUME TypeOK, Prepared,
         Tick \/ ReadExpires \/ RequestExpires \/ CleanupExpires \/ Crash
  PROVE  TypeOK' /\ Prepared'
<1>1. CASE Tick
  BY <1>1 DEF Tick, TypeOK, Prepared
<1>2. CASE ReadExpires
  <2>1. run' \in Runs
    BY <1>2, ExpiredType DEF ReadExpires, TypeOK
  <2> QED
    BY <1>2, <2>1, ClearedType DEF ReadExpires, TypeOK, Prepared
<1>3. CASE RequestExpires
  BY <1>3, ClearedType DEF RequestExpires, TypeOK, Prepared
<1>4. CASE CleanupExpires
  <2>1. run' \in Runs
    BY <1>4, ExpiredType DEF CleanupExpires, TypeOK
  <2> QED
    BY <1>4, <2>1 DEF CleanupExpires, TypeOK, Prepared
<1>5. CASE Crash
  <2>1. \A p \in Procs : procs'[p] \in {Idle, Done} /\ (p \in Clients => procs'[p] = Idle)
    BY <1>5 DEF Crash, Procs
  <2>2. Idle \in Processes /\ Done \in Processes
    BY DEF Idle, Done, Processes
  <2>3. WorkerReady(Idle) /\ WorkerReady(Done) /\ ClientReady(Idle)
    BY DEF Idle, Done, WorkerReady, ClientReady, Holding
  <2>4. procs' \in [Procs -> Processes]
    BY <1>5, <2>1, <2>2 DEF Crash, Procs
  <2>5. Prepared'
    BY <2>1, <2>3 DEF Prepared, Procs
  <2>6. crashes' \in 0..MaxCrashes
    <3>1. crashes \in 0..MaxCrashes /\ crashes < MaxCrashes /\ crashes' = crashes + 1
      BY <1>5 DEF Crash, TypeOK
    <3> QED
      BY <3>1
  <2> QED
    BY <1>5, <2>4, <2>5, <2>6 DEF Crash, TypeOK, Procs
<1> QED
  BY <1>1, <1>2, <1>3, <1>4, <1>5

LEMMA StepType ==
  ASSUME TypeOK, Prepared, [Next]_vars
  PROVE  TypeOK' /\ Prepared'
<1>1. ASSUME NEW w \in Workers, Proceed(w)
      PROVE  TypeOK' /\ Prepared'
  BY <1>1, LookType, LookExpiresType, LookAuditType, LateAuditType, AcquireType, CommitType, RaiseType, RenderFilesType,
     RecheckType, WriteRenderedType, FailLookType, FailWriteType, LockTimeoutType
     DEF Proceed, Procs
<1>2. ASSUME NEW c \in Clients, Serve(c)
      PROVE  TypeOK' /\ Prepared'
  <2>1. CASE Abandon(c)
    BY <2>1, EndsReady, OneProcess DEF Abandon, Procs, Ended, TypeOK
  <2> QED
    BY <1>2, <2>1, RequestType, CancelWriteType, RetryWriteType, RenderFilesType,
       RecheckType, WriteRenderedType, LockTimeoutType
       DEF Serve, Procs
<1>3. CASE UNCHANGED vars
  BY <1>3 DEF vars, TypeOK, Prepared
<1> QED
  BY <1>1, <1>2, <1>3, ServerType DEF Next

\* TypeOK: whatever the stages, requests, expiries and crashes do, the rows stay
\* rows, and no stage reads a payload or a status that no stage writes.
THEOREM TypeCorrect == Spec => []TypeOK
<1>1. TypeOK /\ Prepared /\ [Next]_vars => (TypeOK /\ Prepared)'
  BY StepType
<1> QED
  BY InitTypes, <1>1, PTL DEF Spec

-----------------------------------------------------------------------------
(* The run keeps its lifecycle *)

\* How a step of the run appears to its readers, by the statuses before and after.
LEMMA ContestStep ==
  ASSUME crossed'
  PROVE  Lifecycle!Next
BY DEF Lifecycle!Next, Lifecycle!Contest

LEMMA AdvanceStep ==
  ASSUME ~crossed, ~crossed', run.status \in Active, run'.status \in Active
  PROVE  Lifecycle!Next
BY DEF Lifecycle!Next, Lifecycle!Advance, Phase, Active

LEMMA FinishStep ==
  ASSUME ~crossed, ~crossed', run.status \in Active,
         run'.status \in Verdicts \cup {"cancelled"}, run'.audit = run.audit
  PROVE  Lifecycle!Next
BY DEF Lifecycle!Next, Lifecycle!Finish, Lifecycle!Ends, Phase, HasAudit, Active, Verdicts,
       Completed

LEMMA SameStatusStep ==
  ASSUME ~crossed, ~crossed', run \in Runs, run.status # "expired", run'.status = run.status,
         run'.audit = run.audit
  PROVE  Lifecycle!Next
<1>1. CASE run.status \in Active
  BY <1>1, AdvanceStep
<1>2. CASE run.status \in {"completed", "partial_completed", "failed", "cancelled"}
  BY <1>2 DEF Lifecycle!Next, Lifecycle!Rerender, Lifecycle!Ends, Phase, HasAudit, Active
<1> QED
  BY <1>1, <1>2 DEF Runs, Terminal, Completed

LEMMA ExpireStep ==
  ASSUME TypeOK, Marked, Expires, run' \in {Expired(run), WithAudit(Expired(run))},
         files' = NoFiles \/ files' = ClearedFiles, UNCHANGED crossed
  PROVE  Lifecycle!Next
<1>1. CASE crossed
  BY <1>1, ContestStep
<1>2. CASE ~crossed
  <2>1. ~run.cleaned /\ run.status # "expired" /\ ~crossed'
    BY <1>2 DEF Marked, Expires
  <2>2. Expired(run) = [NewRun EXCEPT !.status = "expired", !.cleaned = TRUE] /\ files' = NoFiles
    BY <2>1 DEF Expired, ClearedFiles
  <2>3. /\ Expired(run).status = "expired" /\ Expired(run).audit = "none"
        /\ Expired(run).chunks = NewRun.chunks /\ Expired(run).payload = NoPayload
        /\ Expired(run).atoms = {} /\ Expired(run).cases = {}
    BY <2>2 DEF NewRun
  <2>4. Expired(run) \in Runs
    BY ExpiredType DEF TypeOK
  <2>5. run'.status = "expired" /\ ~HasDetails'
    BY <2>2, <2>3, <2>4, WithAuditType DEF HasDetails
  <2>6. Phase(run.status) \in Lifecycle!Ends \cup {"active"} /\ Phase(run'.status) = "expired"
    BY <2>1, <2>5 DEF Phase, Lifecycle!Ends, TypeOK, Runs, Terminal, Completed, Active
  <2>7. CASE run' = Expired(run)
    BY <1>2, <2>1, <2>3, <2>5, <2>6, <2>7 DEF Lifecycle!Next, Lifecycle!Expire, HasAudit
  <2>8. CASE run' = WithAudit(Expired(run))
    <3>1. HasAudit'
      BY <2>4, <2>8, WithAuditType DEF HasAudit
    <3> QED
      BY <1>2, <2>1, <2>5, <2>6, <3>1 DEF Lifecycle!Next, Lifecycle!ExpireAudited
  <2> QED
    BY <2>7, <2>8
<1> QED
  BY <1>1, <1>2

LEMMA StutterStep ==
  ASSUME UNCHANGED <<run, files, crossed>>
  PROVE  UNCHANGED Lifecycle!vars
BY DEF Lifecycle!vars, HasDetails, HasAudit

\* Files are written or cleared; the row stays.
LEMMA FilesStep ==
  ASSUME TypeOK, run' = run, run.status # "expired" \/ crossed', crossed => crossed'
  PROVE  Lifecycle!Next
BY ContestStep, SameStatusStep DEF TypeOK

\* A row is written by a process that knows whether it has ended.
LEMMA Uncrossed ==
  ASSUME NEW q, ~Crosses(q)
  PROVE  q.seen = run \/ (q.seen.status \notin Terminal /\ run.status \notin Terminal)
BY DEF Crosses

LEMMA ActiveOrEnded ==
  ASSUME NEW r \in Runs
  PROVE  /\ r.status \in Active \/ r.status \in Terminal
         /\ r.status \in Active => r.status \notin Terminal /\ r.status # "expired"
BY DEF Runs, Active, Terminal, Completed

LEMMA CommitKeeps ==
  ASSUME TypeOK, Prepared, Marked, NEW w \in Workers, Commit(w)
  PROVE  /\ Marked'
         /\ Lifecycle!Next \/ UNCHANGED Lifecycle!vars
<1>1. CASE crossed'
  BY <1>1, ContestStep DEF Marked
<1>2. CASE ~crossed' /\ run' = run
  BY <1>2, StutterStep DEF Commit, Marked, TypeOK
<1>3. CASE ~crossed' /\ run' # run
  <2>1. ~crossed /\ run.status \in Active
    BY <1>3, CommitRun, ActiveOrEnded, ActiveIsNotTerminal DEF Commit, Crosses, TypeOK
  <2>2. run'.status \in Active \cup {"failed"} /\ run'.cleaned = run.cleaned /\ run' \in Runs
    BY <1>3, CommitRun
  <2>3. Marked'
    BY <2>1, <2>2, ActiveOrEnded DEF Marked, TypeOK
  <2>4. Lifecycle!Next
    BY <1>3, <2>1, <2>2, CommitRun, AdvanceStep, FinishStep DEF Verdicts
  <2> QED
    BY <2>3, <2>4
<1> QED
  BY <1>1, <1>2, <1>3

LEMMA RenderFilesKeeps ==
  ASSUME TypeOK, Prepared, Marked, NEW p \in Procs, RenderFiles(p)
  PROVE  Marked' /\ Lifecycle!Next
<1>1. procs[p].seen \in Runs /\ procs[p].seen.status \in Completed \cup Active
  BY DEF RenderFiles, Prepared, WorkerReady, ClientReady, Holding, Procs
<1>2. procs[p].seen.status # "expired"
  BY <1>1 DEF Completed, Active
<1>3. run.status # "expired" \/ crossed'
  BY <1>2 DEF RenderFiles, Crosses, Terminal
<1> QED
  BY <1>3, FilesStep DEF RenderFiles, Marked

LEMMA RecheckKeeps ==
  ASSUME TypeOK, Marked, NEW p \in Procs, Recheck(p)
  PROVE  Marked' /\ (Lifecycle!Next \/ UNCHANGED Lifecycle!vars)
BY FilesStep, StutterStep DEF Recheck, Expires, Marked

LEMMA WriteRenderedKeeps ==
  ASSUME TypeOK, Prepared, Marked, NEW p \in Procs, WriteRendered(p)
  PROVE  Marked' /\ Lifecycle!Next
<1> DEFINE seen == procs[p].seen
<1>1. seen \in Runs /\ seen.payload \in Payloads /\ seen.status \in Completed \cup Active
  BY DEF WriteRendered, Prepared, WorkerReady, ClientReady, Holding, Procs, Runs
<1>2. CASE crossed'
  BY <1>2, ContestStep DEF Marked
<1>3. CASE ~crossed' /\ seen.status \in Completed
  <2>1. seen = run /\ ~crossed
    BY <1>3 DEF WriteRendered, Crosses, Terminal
  <2>2. /\ run'.status = run.status /\ run'.cleaned = run.cleaned /\ run.status # "expired"
        /\ run'.audit = run.audit
    BY <1>3, <2>1 DEF WriteRendered, TypeOK, Runs, Completed
  <2> QED
    BY <1>3, <2>1, <2>2, SameStatusStep DEF Marked, TypeOK
<1>4. CASE ~crossed' /\ seen.status \in Active
  <2>1. ~crossed /\ run.status \in Active
    BY <1>1, <1>4, ActiveOrEnded DEF WriteRendered, Crosses, TypeOK
  <2>2. RenderedStatus(seen.payload) \in Verdicts /\ seen.status \notin Completed
    BY <1>1, <1>4, RenderedType DEF Active, Completed
  <2>3. run'.status \in Verdicts /\ run'.cleaned = run.cleaned /\ run'.audit = run.audit
    BY <2>2 DEF WriteRendered, TypeOK, Runs
  <2>4. Marked'
    BY <2>1, <2>3, ActiveOrEnded DEF Marked, TypeOK, Verdicts, Completed
  <2> QED
    BY <1>4, <2>1, <2>3, <2>4, FinishStep
<1> QED
  BY <1>1, <1>2, <1>3, <1>4

LEMMA LateAuditKeeps ==
  ASSUME TypeOK, Marked, NEW w \in Workers, LateAudit(w) \/ LateAuditExpires(w)
  PROVE  Marked' /\ (Lifecycle!Next \/ UNCHANGED Lifecycle!vars)
<1>1. CASE LateAudit(w)
  <2>1. /\ run' = WithAudit(run) /\ run \in Runs /\ files' = files
        /\ (crossed' <=> crossed)
    BY <1>1 DEF LateAudit, TypeOK
  <2>2. /\ run'.status = run.status /\ HasAudit' /\ HasDetails' = HasDetails
    BY <2>1, WithAuditType DEF HasAudit, HasDetails
  <2>3. Marked'
    BY <2>1, WithAuditType DEF Marked
  <2>4. CASE crossed
    BY <2>1, <2>3, <2>4, ContestStep
  <2>5. CASE ~crossed /\ run.status \in Active
    BY <2>1, <2>2, <2>3, <2>5, AdvanceStep
  <2>6. CASE ~crossed /\ run.status \in Terminal
    <3>1. Phase(run.status) \in Lifecycle!Ends \cup {"expired"}
      BY <2>6 DEF Phase, Lifecycle!Ends, Terminal, Completed, Active
    <3> QED
      BY <2>1, <2>2, <2>3, <2>6, <3>1 DEF Lifecycle!Next, Lifecycle!LateAudit
  <2> QED
    BY <2>1, <2>3, <2>4, <2>5, <2>6 DEF Runs
<1>2. CASE LateAuditExpires(w)
  <2>1. /\ Expires /\ run' = WithAudit(Expired(run)) /\ UNCHANGED crossed
        /\ files' = ClearedFiles
    BY <1>2 DEF LateAuditExpires
  <2>2. Marked'
    BY <2>1, ExpiredType, WithAuditType DEF Marked, TypeOK
  <2> QED
    BY <2>1, <2>2, ExpireStep
<1> QED
  BY <1>1, <1>2

LEMMA WorkerKeeps ==
  ASSUME TypeOK, Prepared, Marked, NEW w \in Workers, Proceed(w)
  PROVE  Marked' /\ (Lifecycle!Next \/ UNCHANGED Lifecycle!vars)
<1>1. CASE Look(w) \/ LookAudit(w) \/ Acquire(w) \/ FailLook(w) \/ LockTimeout(w)
  BY <1>1, StutterStep DEF Look, LookAudit, Acquire, FailLook, LockTimeout, Marked
<1>2. CASE LookExpires(w)
  <2>1. CASE run' = Expired(run)
    <3>1. Lifecycle!Next
      BY <1>2, <2>1, ExpireStep DEF LookExpires
    <3>2. Marked'
      BY <1>2, <2>1, ExpiredType DEF LookExpires, Marked, TypeOK
    <3> QED
      BY <3>1, <3>2
  <2>2. CASE run' = run
    BY <1>2, <2>2, FilesStep DEF LookExpires, Expires, Marked
  <2> QED
    BY <1>2, <2>1, <2>2 DEF LookExpires
<1>3. CASE Raise(w)
  <2>1. CASE files' = files
    BY <1>3, <2>1, StutterStep DEF Raise, Marked
  <2>2. CASE Expires
    BY <1>3, <2>2, FilesStep DEF Raise, Expires, Marked
  <2> QED
    BY <1>3, <2>1, <2>2 DEF Raise
<1>4. CASE FailWrite(w)
  <2>1. CASE crossed'
    BY <2>1, ContestStep DEF Marked
  <2>2. CASE ~crossed'
    <3>1. procs[w].seen \in Runs /\ procs[w].seen.status \in Active
      BY <1>4 DEF FailWrite, Prepared, WorkerReady, Holding
    <3>2. ~crossed /\ run.status \in Active
      BY <1>4, <2>2, <3>1, ActiveOrEnded DEF FailWrite, Crosses, TypeOK
    <3>3. run'.status = "failed" /\ run'.cleaned = run.cleaned /\ run'.audit = run.audit
      BY <1>4 DEF FailWrite, TypeOK, Runs
    <3>4. Marked'
      BY <3>2, <3>3, ActiveOrEnded DEF Marked, TypeOK
    <3> QED
      BY <2>2, <3>2, <3>3, <3>4, FinishStep DEF Verdicts
  <2> QED
    BY <2>1, <2>2
<1> QED
  BY <1>1, <1>2, <1>3, <1>4, LateAuditKeeps, CommitKeeps, RenderFilesKeeps, RecheckKeeps, WriteRenderedKeeps
     DEF Proceed, Procs

LEMMA ClientKeeps ==
  ASSUME TypeOK, Prepared, Marked, NEW c \in Clients, Serve(c)
  PROVE  Marked' /\ (Lifecycle!Next \/ UNCHANGED Lifecycle!vars)
<1> DEFINE seen == procs[c].seen
<1>1. CASE CancelLook(c) \/ RetryLook(c) \/ RerenderLook(c) \/ LockTimeout(c) \/ Abandon(c)
  BY <1>1, StutterStep DEF CancelLook, RetryLook, RerenderLook, LockTimeout, Abandon, Marked
<1>2. CASE CancelWrite(c)
  <2>1. CASE crossed'
    BY <2>1, ContestStep DEF Marked
  <2>2. CASE ~crossed'
    <3>1. seen \in Runs /\ seen.status \in Active
      BY <1>2 DEF CancelWrite, Prepared, ClientReady
    <3>2. ~crossed /\ run.status \in Active
      BY <1>2, <2>2, <3>1, ActiveOrEnded DEF CancelWrite, Crosses, TypeOK
    <3>3. run'.status = "cancelled" /\ run'.cleaned = run.cleaned /\ run'.audit = run.audit
      BY <1>2 DEF CancelWrite, TypeOK, Runs
    <3>4. Marked'
      BY <3>2, <3>3, ActiveOrEnded DEF Marked, TypeOK
    <3> QED
      BY <2>2, <3>2, <3>3, <3>4, FinishStep
  <2> QED
    BY <2>1, <2>2
<1>3. CASE RetryWrite(c)
  <2>1. CASE crossed'
    BY <2>1, ContestStep DEF Marked
  <2>2. CASE ~crossed'
    <3>1. /\ seen \in Runs /\ seen.status \in Active \cup {"partial_completed"}
          /\ FailedChunks(seen) # {}
      BY <1>3 DEF RetryWrite, Prepared, ClientReady
    <3>2. /\ ~crossed
          /\ run.status \in Active \/ run = seen
      BY <1>3, <2>2, <3>1, ActiveOrEnded DEF RetryWrite, Crosses, TypeOK
    <3>3. PICK status \in {run.status, "chunking"} :
            /\ run' = [run EXCEPT !.status = status, !.chunks =
                  [k \in Chunks |-> IF k \in FailedChunks(seen) THEN "queued" ELSE run.chunks[k]]]
            /\ seen.status # "chunking" => status = "chunking"
      BY <1>3 DEF RetryWrite
    <3>4. /\ run'.status = status /\ run'.cleaned = run.cleaned /\ run.status # "expired"
          /\ run'.audit = run.audit
      BY <3>1, <3>2, <3>3, ActiveOrEnded DEF TypeOK, Runs
    <3>5. Marked'
      BY <3>2, <3>3, <3>4 DEF Marked
    <3>6. CASE run.status \in Active
      <4>1. run'.status \in Active
        BY <3>4, <3>6 DEF Active
      <4> QED
        BY <2>2, <3>2, <3>5, <3>6, <4>1, AdvanceStep
    <3>7. CASE run = seen /\ run.status = "partial_completed"
      <4>1. status = "chunking"
        BY <3>3, <3>7
      <4>2. PICK k \in Chunks : run.chunks[k] = "failed"
        BY <3>1, <3>7 DEF FailedChunks
      <4>3. run.chunks # NewRun.chunks
        BY <4>2 DEF NewRun
      <4>4. run'.chunks[k] = "queued"
        BY <3>3, <3>7, <4>2 DEF TypeOK, Runs, FailedChunks
      <4>5. run'.chunks # NewRun.chunks
        BY <4>4 DEF NewRun
      <4>6. HasDetails /\ HasDetails' /\ (HasAudit' <=> HasAudit)
        BY <3>4, <4>3, <4>5 DEF HasDetails, HasAudit, NewRun
      <4>7. Phase(run.status) = "partial" /\ Phase(run'.status) = "active"
        BY <3>4, <3>7, <4>1 DEF Phase, Active
      <4> QED
        BY <2>2, <3>2, <3>5, <4>6, <4>7 DEF Lifecycle!Next, Lifecycle!Reopen
    <3> QED
      BY <3>1, <3>2, <3>5, <3>6, <3>7
  <2> QED
    BY <2>1, <2>2
<1> QED
  BY <1>1, <1>2, <1>3, RenderFilesKeeps, RecheckKeeps, WriteRenderedKeeps DEF Serve, Procs

LEMMA ServerKeeps ==
  ASSUME TypeOK, Marked, Tick \/ ReadExpires \/ RequestExpires \/ CleanupExpires \/ Crash
  PROVE  Marked' /\ (Lifecycle!Next \/ UNCHANGED Lifecycle!vars)
<1>1. CASE Tick \/ Crash
  BY <1>1, StutterStep DEF Tick, Crash, Marked
<1>2. CASE ReadExpires \/ CleanupExpires
  <2>1. /\ Expires /\ run' = Expired(run) /\ UNCHANGED crossed
        /\ files' = NoFiles \/ files' = ClearedFiles
    BY <1>2 DEF ReadExpires, CleanupExpires
  <2>2. Marked'
    BY <2>1, ExpiredType DEF Marked, TypeOK
  <2> QED
    BY <2>1, <2>2, ExpireStep
<1>3. CASE RequestExpires
  BY <1>3, FilesStep DEF RequestExpires, Expires, Marked
<1> QED
  BY <1>1, <1>2, <1>3

\* KeepsLifecycle: as long as nobody writes across an end of the run that it did
\* not see, ends are final, only a partial run is reopened, every other run can
\* only expire, and an expired run keeps no chunk, atom, case, payload or file: all
\* that a worker may still leave there is the record of a coverage audit.
THEOREM ImplementsLifecycle == Spec => KeepsLifecycle
<1>1. Init => Lifecycle!Init /\ Marked
  BY DEF Init, Lifecycle!Init, HasDetails, HasAudit, NewRun, Phase, Active, Marked
<1>2. TypeOK /\ Prepared /\ Marked /\ [Next]_vars
      => (TypeOK /\ Prepared /\ Marked)' /\ [Lifecycle!Next]_Lifecycle!vars
  <2> SUFFICES ASSUME TypeOK, Prepared, Marked, [Next]_vars
               PROVE  Marked' /\ (Lifecycle!Next \/ UNCHANGED Lifecycle!vars)
    BY StepType
  <2>1. CASE UNCHANGED vars
    BY <2>1, StutterStep DEF vars, Marked
  <2> QED
    BY <2>1, WorkerKeeps, ClientKeeps, ServerKeeps DEF Next
<1> QED
  BY InitTypes, <1>1, <1>2, PTL DEF Spec, KeepsLifecycle, Lifecycle!Spec

-----------------------------------------------------------------------------
(* One worker at a time *)

\* While nobody has crossed an end of the run, at most one worker advances it,
\* and none once it has a result.
Alone ==
  ~crossed => /\ \A v, w \in Advancing : v = w
              /\ run.status \in Completed => Advancing = {}

\* Without stale views a retry has seen a partial run, and a rendering an ended one.
Offered ==
  \A c \in Clients :
    /\ procs[c].task = "retry" => procs[c].seen.status = "partial_completed"
    /\ procs[c].task = "rerender" => procs[c].seen.status \in Completed

LEMMA FilesStepKeepsRun ==
  ASSUME NEW p, RenderFiles(p) \/ Recheck(p)
  PROVE  run' = run /\ (crossed => crossed')
<1>1. CASE RenderFiles(p)
  BY <1>1 DEF RenderFiles
<1>2. CASE Recheck(p)
  BY <1>2 DEF Recheck
<1> QED
  BY <1>1, <1>2

\* A worker that advances the run goes on or ends; it ends when it leaves a result.
LEMMA WorkerAlone ==
  ASSUME TypeOK, Alone, Offered, NEW w \in Advancing, NEW rec, SetProc(w, rec),
         crossed => crossed',
         ~crossed' => \/ run'.status \notin Completed
                      \/ run'.status = run.status
                      \/ rec.pc = "done"
  PROVE  Alone' /\ Offered'
<1>1. w \in Workers /\ w \notin Clients /\ w \in Procs
  BY DEF Advancing, Procs
<1>2. /\ \A v \in Workers \ {w} : procs'[v] = procs[v]
      /\ procs'[w] = rec /\ \A c \in Clients : procs'[c] = procs[c]
  BY <1>1 DEF SetProc, TypeOK
<1>3. Advancing' \subseteq Advancing \cup {w}
  BY <1>2 DEF Advancing
<1>4. rec.pc = "done" => Advancing' \subseteq Advancing \ {w}
  BY <1>2, <1>3 DEF Advancing
<1>5. Offered'
  BY <1>2 DEF Offered
<1>6. Alone'
  BY <1>3, <1>4 DEF Alone
<1> QED
  BY <1>5, <1>6

LEMMA WorkerKeepsAlone ==
  ASSUME TypeOK, Prepared, Alone, Offered, NEW w \in Workers, Proceed(w)
  PROVE  Alone' /\ Offered'
<1>1. w \in Advancing
  BY DEF Proceed, Look, LookExpires, LookAudit, LateAudit, LateAuditExpires, Acquire, Commit, Raise, RenderFiles, Recheck,
         WriteRendered, FailLook, FailWrite, LockTimeout, Advancing
<1>2. CASE Look(w) \/ LookAudit(w) \/ Acquire(w) \/ Raise(w) \/ FailLook(w) \/ LockTimeout(w)
           \/ RenderFiles(w) \/ Recheck(w)
  <2>1. PICK rec : SetProc(w, rec)
    BY <1>2 DEF Look, LookAudit, Acquire, Raise, FailLook, LockTimeout, RenderFiles, Recheck
  <2>2. run' = run /\ (crossed => crossed')
    BY <1>2, FilesStepKeepsRun DEF Look, LookAudit, Acquire, Raise, FailLook, LockTimeout
  <2> QED
    BY <1>1, <2>1, <2>2, WorkerAlone
<1>3. CASE LookExpires(w)
  <2>1. run' = run \/ run'.status = "expired"
    BY <1>3, ExpiredType DEF LookExpires, TypeOK
  <2>2. SetProc(w, Done) /\ crossed' = crossed
    BY <1>3 DEF LookExpires
  <2> QED
    BY <1>1, <2>1, <2>2, WorkerAlone DEF Completed
<1>4. CASE Commit(w)
  <2>1. run' = run \/ run'.status \notin Completed
    BY <1>4, CommitRun DEF Active, Completed
  <2>2. PICK rec : SetProc(w, rec)
    BY <1>4 DEF Commit
  <2>3. crossed => crossed'
    BY <1>4 DEF Commit
  <2> QED
    BY <1>1, <2>1, <2>2, <2>3, WorkerAlone
<1>5. CASE WriteRendered(w)
  <2>1. SetProc(w, Done) /\ Done.pc = "done" /\ (crossed => crossed')
    BY <1>5 DEF WriteRendered, Ended, Done, Idle
  <2> QED
    BY <1>1, <2>1, WorkerAlone
<1>6. CASE FailWrite(w)
  <2>1. SetProc(w, Done) /\ Done.pc = "done" /\ (crossed => crossed')
    BY <1>6 DEF FailWrite, Done, Idle
  <2> QED
    BY <1>1, <2>1, WorkerAlone
<1>7. CASE LateAudit(w) \/ LateAuditExpires(w)
  <2>1. SetProc(w, NextStage(w)) /\ crossed' = crossed
    BY <1>7 DEF LateAudit, LateAuditExpires
  <2>2. run'.status = run.status \/ run'.status = "expired"
    BY <1>7, ExpiredType, WithAuditType DEF LateAudit, LateAuditExpires, TypeOK
  <2> QED
    BY <1>1, <2>1, <2>2, WorkerAlone DEF Completed
<1> QED
  BY <1>2, <1>3, <1>4, <1>5, <1>6, <1>7 DEF Proceed

\* A request changes no worker, and leaves no result that was not there.
LEMMA RequestAlone ==
  ASSUME TypeOK, Alone, Offered, NEW c \in Clients, NEW rec, SetProc(c, rec),
         crossed => crossed',
         ~crossed' => run'.status \notin Completed \/ run'.status = run.status,
         rec.task = "retry" => rec.seen.status = "partial_completed",
         rec.task = "rerender" => rec.seen.status \in Completed
  PROVE  Alone' /\ Offered'
<1>1. c \notin Workers /\ c \in Procs
  BY DEF Procs
<1>2. /\ \A w \in Workers : procs'[w] = procs[w]
      /\ procs'[c] = rec /\ \A d \in Clients \ {c} : procs'[d] = procs[d]
  BY <1>1 DEF SetProc, TypeOK
<1>3. Advancing' = Advancing
  BY <1>2 DEF Advancing
<1>4. Offered'
  BY <1>2 DEF Offered
<1> QED
  BY <1>3, <1>4 DEF Alone

LEMMA RetryKeepsAlone ==
  ASSUME StaleViews = FALSE, TypeOK, Prepared, Alone, Offered, NEW c \in Clients, RetryWrite(c)
  PROVE  Alone' /\ Offered'
<1> DEFINE started == [Idle EXCEPT !.pc = "look", !.task = "extracting_atoms", !.again = TRUE]
<1>1. PICK w \in Workers : procs[w].pc = "idle" /\ procs' = [procs EXCEPT ![c] = Idle, ![w] = started]
  BY DEF RetryWrite
<1>2. Idle.task = "none"
  BY DEF Idle
<1> HIDE DEF started
<1>3. /\ \A v \in Workers \ {w} : procs'[v] = procs[v]
      /\ \A d \in Clients : procs'[d] \in {procs[d], Idle}
  BY <1>1 DEF TypeOK
<1>4. Offered'
  BY <1>2, <1>3 DEF Offered
<1>5. Alone'
  <2> SUFFICES ASSUME ~crossed' PROVE Alone'
    BY DEF Alone
  <2>1. /\ procs[c].seen.status = "partial_completed" /\ ~Crosses(procs[c]) /\ ~crossed
    BY DEF RetryWrite, Offered
  <2>2. run.status \in Completed
    BY <2>1 DEF Crosses, Terminal, Completed
  <2>3. Advancing' \subseteq {w}
    BY <1>3, <2>1, <2>2 DEF Alone, Advancing
  <2>4. run'.status = "chunking"
    BY <2>1 DEF RetryWrite, TypeOK, Runs
  <2> QED
    BY <2>3, <2>4 DEF Alone, Completed
<1> QED
  BY <1>4, <1>5

LEMMA ClientKeepsAlone ==
  ASSUME StaleViews = FALSE, TypeOK, Prepared, Alone, Offered, NEW c \in Clients, Serve(c)
  PROVE  Alone' /\ Offered'
<1>1. Idle.task = "none" /\ Ended(c) = Idle /\ Failing(c) = Idle
  BY DEF Idle, Ended, Failing
<1>2. CASE CancelLook(c) \/ RetryLook(c) \/ RerenderLook(c)
  <2>1. PICK task \in {"cancel", "retry", "rerender"} :
          /\ SetProc(c, Request(c, task))
          /\ task = "retry" => run.status = "partial_completed"
          /\ task = "rerender" => run.status \in Completed
    BY <1>2 DEF CancelLook, RetryLook, RerenderLook
  <2>2. Request(c, task).task = task /\ Request(c, task).seen = run
    BY DEF Request, Idle
  <2>3. run' = run /\ crossed' = crossed
    BY <1>2 DEF CancelLook, RetryLook, RerenderLook
  <2> QED
    BY <2>1, <2>2, <2>3, RequestAlone
<1>3. CASE CancelWrite(c)
  <2>1. run'.status = "cancelled" /\ SetProc(c, Idle) /\ (crossed => crossed')
    BY <1>3 DEF CancelWrite, TypeOK, Runs
  <2> QED
    BY <1>1, <2>1, RequestAlone DEF Completed
<1>4. CASE RenderFiles(c) \/ Recheck(c)
  <2>1. PICK rec \in {Idle, [procs[c] EXCEPT !.pc = "write"], [procs[c] EXCEPT !.pc = "recheck"]} :
          SetProc(c, rec)
    BY <1>1, <1>4 DEF RenderFiles, Recheck
  <2>2. /\ rec.task = "retry" => rec.seen.status = "partial_completed"
        /\ rec.task = "rerender" => rec.seen.status \in Completed
    BY <1>1, <2>1 DEF Offered, TypeOK, Processes
  <2>3. run' = run /\ (crossed => crossed')
    BY <1>4, FilesStepKeepsRun
  <2> QED
    BY <2>1, <2>2, <2>3, RequestAlone
<1>5. CASE WriteRendered(c)
  <2>1. procs[c].seen.status \in Completed
    BY <1>5 DEF WriteRendered, Offered, Stages, Prepared, ClientReady
  <2>2. run'.status = run.status /\ SetProc(c, Idle) /\ (crossed => crossed')
    BY <1>1, <1>5, <2>1 DEF WriteRendered, TypeOK, Runs
  <2> QED
    BY <1>1, <2>2, RequestAlone
<1>6. CASE LockTimeout(c) \/ Abandon(c)
  <2>1. SetProc(c, Idle) /\ run' = run /\ crossed' = crossed
    BY <1>1, <1>6 DEF LockTimeout, Abandon, Prepared, ClientReady
  <2> QED
    BY <1>1, <2>1, RequestAlone
<1> QED
  BY <1>2, <1>3, <1>4, <1>5, <1>6, RetryKeepsAlone DEF Serve

LEMMA ServerKeepsAlone ==
  ASSUME TypeOK, Alone, Offered,
         Tick \/ ReadExpires \/ RequestExpires \/ CleanupExpires \/ Crash
  PROVE  Alone' /\ Offered'
<1>1. CASE Tick \/ RequestExpires
  BY <1>1 DEF Tick, RequestExpires, Alone, Offered, Advancing
<1>2. CASE ReadExpires \/ CleanupExpires
  <2>1. run'.status = "expired" /\ procs' = procs /\ crossed' = crossed
    BY <1>2, ExpiredType DEF ReadExpires, CleanupExpires, TypeOK
  <2> QED
    BY <2>1 DEF Alone, Offered, Advancing, Completed
<1>3. CASE Crash
  <2>1. /\ \A w \in Workers : procs'[w].pc \in {"idle", "done"}
        /\ \A c \in Clients : procs'[c].task = "none"
    BY <1>3 DEF Crash, Idle, Done
  <2> QED
    BY <2>1 DEF Alone, Offered, Advancing
<1> QED
  BY <1>1, <1>2, <1>3

=============================================================================
