------------------------ MODULE GenerationVerdictsProofs -----------------------
(***************************************************************************)
(* What a generation run says of itself is true, for any chunks, workers,  *)
(* requests and crashes, where pages offer retries and renderings by the   *)
(* status the run has: CompletedIsWhole and ResultsAreGrounded.            *)
(*                                                                         *)
(* Verdicted is inductive with the invariants of GenerationRunsProofs. It  *)
(* says what each stage may rely on (Judged), that a worker in a stage has *)
(* read the run as it is unless that has ended (Fits), and what a result   *)
(* is made of (Resulting).                                                 *)
(***************************************************************************)
EXTENDS GenerationRunsProofs

USE GenerationRunsAssumption

Whole(r) ==
  r.atoms # {} /\ r.cases = r.atoms /\ \A c \in Chunks : r.chunks[c] = "completed"

AllRead(r) == \A c \in Chunks : r.chunks[c] \in {"completed", "failed"}

Audits == {"auditing_coverage", "auditing_quality", "rendering_artifacts"}

\* What the stages before one have made of the run it starts from.
Judged(r, task) ==
  /\ task = "extracting_atoms" => \A c \in Chunks : r.chunks[c] # "none"
  /\ task \in {"blueprinting", "generating_cases"} \cup Audits => AllRead(r)
  /\ task \in Audits => r.cases \subseteq r.atoms
  /\ task = "auditing_quality" =>
       r.payload.coverage # "none" /\ (r.payload.coverage = "completed" => Whole(r))
  /\ task = "rendering_artifacts" =>
       /\ r.payload.quality = "completed" => Whole(r)
       /\ r.payload.quality # "none" /\ (r.payload.quality # "failed" => r.cases # {})

\* A worker at or in a stage, and one that has read the run for it. A late audit
\* is of a run that stays ended.
InStage == {"render", "recheck", "write", "work"}
Going == {"look", "audit"} \cup InStage

Fits(q) ==
  run.status \in Active =>
    /\ q.pc # "late"
    /\ q.pc \in InStage => q.seen = run
    /\ q.pc \in Going => Judged(run, q.task)
    /\ q.pc \in {"recheck", "write"} /\ q.task = "rendering_artifacts"
         => overdue \/ files = run.cases

Resulting ==
  run.status \in Completed =>
    /\ AllRead(run) /\ run.cases # {} /\ run.cases \subseteq run.atoms
    /\ overdue \/ files = run.cases
    /\ run.status = "completed" => Whole(run)

Verdicted == ~crossed => Resulting /\ \A w \in Workers : Fits(procs[w])

-----------------------------------------------------------------------------
(* What a stage leaves to the next *)

\* Every chunk that was tried is read or failed, the others were read before.
LEMMA ExtractedIsRead ==
  ASSUME NEW r \in Runs, NEW again \in BOOLEAN, NEW s \in Extracted(r, again),
         \A c \in Chunks : r.chunks[c] # "none"
  PROVE  AllRead(s)
<1> DEFINE tried == Inputs(r, again)
           Tried(outcome) == [c \in Chunks |->
             IF c \notin tried THEN r.chunks[c]
             ELSE IF outcome[c] = "failed" THEN "failed" ELSE "completed"]
           kept == IF again THEN r.atoms \ tried ELSE {}
           Atoms(outcome) == kept \cup {c \in tried : outcome[c] = "atom"}
<1>1. PICK outcome \in [tried -> {"failed", "atom", "none"}] :
        s = [r EXCEPT !.status = "merging_atoms", !.payload = NoPayload,
                      !.atoms = Atoms(outcome), !.chunks = Tried(outcome)]
  BY DEF Extracted
<1> HIDE DEF Atoms
<1>2. s.chunks = Tried(outcome)
  BY <1>1 DEF Runs
<1>3. ASSUME NEW c \in Chunks
      PROVE  Tried(outcome)[c] \in {"completed", "failed"}
  <2>1. CASE c \in tried
    BY <2>1
  <2>2. CASE c \notin tried
    <3>1. r.chunks[c] \in {"queued", "completed", "failed"}
      BY DEF Runs
    <3>2. r.chunks[c] # "queued"
      BY <2>2, <3>1 DEF Inputs
    <3> QED
      BY <2>2, <3>1, <3>2
  <2> QED
    BY <2>1, <2>2
<1> QED
  BY <1>2, <1>3 DEF AllRead

\* Cases are generated for atoms that were read, and none is left of before.
LEMMA GeneratedCasesHaveAtoms ==
  ASSUME NEW r \in Runs, NEW s \in WithCases(r, r), s.status \in Active
  PROVE  s.cases \subseteq s.atoms /\ s.chunks = r.chunks
<1>1. s # [r EXCEPT !.status = "failed", !.payload = r.payload]
  BY DEF Active, Runs
<1>2. PICK covered \in SUBSET r.atoms :
        s = [r EXCEPT !.status = "generating_cases", !.payload = r.payload, !.cases = covered]
  BY <1>1 DEF WithCases
<1> QED
  BY <1>2 DEF Runs

\* The coverage verdict is of the run as the supplement pass left it.
LEMMA CoverageIsJudged ==
  ASSUME NEW r \in Runs, NEW s \in CoverageAudited(r), AllRead(r), r.cases \subseteq r.atoms
  PROVE  Judged(s, "auditing_quality")
<1>1. PICK t \in Supplemented(r) :
        s = [t EXCEPT !.status = "auditing_quality", !.payload.coverage = CoverageVerdict(t)]
  BY DEF CoverageAudited
<1>2. t \in Runs /\ t.chunks = r.chunks /\ t.atoms = r.atoms /\ t.cases \subseteq t.atoms
  <2>1. CASE t = WithAudit(r)
    BY <2>1, WithAuditType
  <2>2. CASE \E more \in SUBSET Uncovered(r) :
               t = [r EXCEPT !.audit = "spent", !.cases = r.cases \cup more]
    <3>1. PICK more \in SUBSET Uncovered(r) :
            t = [r EXCEPT !.audit = "spent", !.cases = r.cases \cup more]
      BY <2>2
    <3>2. r.cases \cup more \subseteq r.atoms /\ r.cases \cup more \in SUBSET Chunks
      BY DEF Uncovered, Runs
    <3> QED
      BY <3>1, <3>2 DEF Runs
  <2> QED
    BY <1>1, <2>1, <2>2 DEF Supplemented
<1>3. /\ s.chunks = t.chunks /\ s.atoms = t.atoms /\ s.cases = t.cases
      /\ s.payload.coverage = CoverageVerdict(t)
  BY <1>1, <1>2 DEF Runs, Payloads
<1>4. CoverageVerdict(t) # "none"
  BY DEF CoverageVerdict
<1>5. ASSUME CoverageVerdict(t) = "completed"
      PROVE  Whole(t)
  <2>1. t.atoms # {} /\ Uncovered(t) = {} /\ FailedChunks(t) = {}
    BY <1>5 DEF CoverageVerdict
  <2>2. t.cases = t.atoms
    BY <1>2, <2>1 DEF Uncovered
  <2>3. \A c \in Chunks : t.chunks[c] = "completed"
    BY <1>2, <2>1 DEF FailedChunks, AllRead
  <2> QED
    BY <2>1, <2>2, <2>3 DEF Whole
<1> QED
  BY <1>2, <1>3, <1>4, <1>5 DEF Judged, AllRead, Whole, Audits

\* The quality verdict never says more than the coverage verdict did.
LEMMA QualityIsJudged ==
  ASSUME NEW r \in Runs, NEW s \in QualityAudited(r, r), Judged(r, "auditing_quality")
  PROVE  Judged(s, "rendering_artifacts")
<1>1. PICK v \in Verdicts :
        /\ s = [r EXCEPT !.status = "rendering_artifacts",
                         !.payload = [r.payload EXCEPT !.quality = v]]
        /\ r.cases = {} => v = "failed"
        /\ v = "completed" => r.payload.coverage \in {"completed", "none"}
  BY DEF QualityAudited, Verdicts, Completed
<1>2. /\ s.chunks = r.chunks /\ s.atoms = r.atoms /\ s.cases = r.cases
      /\ s.payload.quality = v
  BY <1>1 DEF Runs, Payloads
<1>3. AllRead(r) /\ r.cases \subseteq r.atoms
  BY DEF Judged, Audits
<1>4. v = "completed" => Whole(r)
  BY <1>1 DEF Judged
<1>5. v # "none"
  BY DEF Verdicts, Completed
<1> QED
  BY <1>1, <1>2, <1>3, <1>4, <1>5 DEF Judged, AllRead, Whole, Audits

\* A stage that read the run as it is leaves it fit for the next stage.
LEMMA ResultsAreJudged ==
  ASSUME run \in Runs, NEW q \in Processes, q.seen = run,
         q.task \in Stages \ {"rendering_artifacts"}, Judged(run, q.task),
         NEW s \in Results(q), s.status \in Active
  PROVE  Judged(s, StageAfter[q.task])
<1>1. CASE q.task \in {"reading", "context"}
  <2>1. StageAfter[q.task] \in {"context", "chunking"}
    BY <1>1 DEF StageAfter
  <2> QED
    BY <2>1 DEF Judged, Audits
<1>2. CASE q.task = "chunking"
  <2>1. s = Chunked(run) /\ StageAfter[q.task] = "extracting_atoms"
    BY <1>2 DEF Results, StageAfter
  <2>2. \A c \in Chunks : s.chunks[c] = "queued"
    BY <2>1 DEF Chunked, Runs
  <2> QED
    BY <2>1, <2>2 DEF Judged, Audits
<1>3. CASE q.task = "extracting_atoms"
  <2>1. s \in Extracted(run, q.again) /\ StageAfter[q.task] = "blueprinting"
    BY <1>3 DEF Results, StageAfter
  <2>2. AllRead(s)
    BY <1>3, <2>1, ExtractedIsRead DEF Judged, Processes
  <2> QED
    BY <2>1, <2>2 DEF Judged, Audits
<1>4. CASE q.task = "blueprinting"
  <2>1. s = Blueprinted(run) /\ StageAfter[q.task] = "generating_cases"
    BY <1>4 DEF Results, StageAfter
  <2>2. s.chunks = run.chunks
    BY <2>1 DEF Blueprinted, Runs
  <2>3. AllRead(s)
    BY <1>4, <2>2 DEF Judged, AllRead
  <2> QED
    BY <2>1, <2>3 DEF Judged, Audits
<1>5. CASE q.task = "generating_cases"
  <2>1. s \in WithCases(run, run) /\ StageAfter[q.task] = "auditing_coverage"
    BY <1>5 DEF Results, StageAfter
  <2>2. s.cases \subseteq s.atoms /\ s.chunks = run.chunks
    BY <2>1, GeneratedCasesHaveAtoms
  <2>3. AllRead(s)
    BY <1>5, <2>2 DEF Judged, AllRead
  <2> QED
    BY <2>1, <2>2, <2>3 DEF Judged
<1>6. CASE q.task = "auditing_coverage"
  <2>1. s \in CoverageAudited(run) /\ StageAfter[q.task] = "auditing_quality"
    BY <1>6 DEF Results, StageAfter
  <2>2. AllRead(run) /\ run.cases \subseteq run.atoms
    BY <1>6 DEF Judged, Audits
  <2> QED
    BY <2>1, <2>2, CoverageIsJudged
<1>7. CASE q.task = "auditing_quality"
  <2>1. s \in QualityAudited(run, run) /\ StageAfter[q.task] = "rendering_artifacts"
    BY <1>7 DEF Results, StageAfter
  <2> QED
    BY <1>7, <2>1, QualityIsJudged
<1> QED
  BY <1>1, <1>2, <1>3, <1>4, <1>5, <1>6, <1>7 DEF Stages

-----------------------------------------------------------------------------
(* Kinds of steps *)

\* The run stays as it is, and its files unless it is overdue.
LEMMA RunStays ==
  ASSUME Verdicted, run' = run, crossed => crossed', overdue => overdue',
         overdue \/ files' = files,
         \A w \in Workers : procs'[w] = procs[w] \/ (~crossed => Fits(procs[w])')
  PROVE  Verdicted'
<1> SUFFICES ASSUME ~crossed' PROVE Resulting' /\ \A w \in Workers : Fits(procs[w])'
  BY DEF Verdicted
<1>1. Resulting /\ \A w \in Workers : Fits(procs[w])
  BY DEF Verdicted
<1>2. Resulting'
  BY <1>1 DEF Resulting, AllRead, Whole
<1>3. ASSUME NEW w \in Workers, procs'[w] = procs[w]
      PROVE  Fits(procs[w])'
  BY <1>1, <1>3 DEF Fits, Judged, AllRead, Whole
<1> QED
  BY <1>2, <1>3

\* The run ends without a result.
LEMMA RunEndsWithout ==
  ASSUME run'.status \in Terminal \ Completed
  PROVE  Verdicted'
BY ActiveIsNotTerminal DEF Verdicted, Resulting, Fits

\* No worker is left.
LEMMA NobodyWorks ==
  ASSUME Resulting', \A w \in Workers : procs'[w].pc \notin Going \cup {"late"}
  PROVE  Verdicted'
BY DEF Verdicted, Fits, Going, InStage

\* The process that writes has read the run as it is, unless it crosses an end.
LEMMA WorkerHasSeen ==
  ASSUME TypeOK, Prepared, Verdicted, NEW w \in Workers, procs[w].pc \in InStage,
         ~crossed, ~Crosses(procs[w])
  PROVE  procs[w].seen = run /\ run.status \in Active
<1>1. procs[w].seen.status \in Active
  BY DEF Prepared, WorkerReady, Holding, InStage
<1>2. run.status \in Active
  BY <1>1, ActiveOrEnded DEF Crosses, TypeOK
<1> QED
  BY <1>2 DEF Verdicted, Fits

LEMMA RerenderHasSeen ==
  ASSUME Prepared, Offered, NEW c \in Clients, procs[c].task = "rerender", ~Crosses(procs[c])
  PROVE  procs[c].seen = run /\ run.status \in Completed
BY DEF Offered, Crosses, Terminal

\* Whoever works while the run has a result, or while another works, is nobody.
LEMMA OthersRest ==
  ASSUME Alone, ~crossed, NEW w \in Workers,
         w \notin Advancing
  PROVE  procs[w].pc \notin Going \cup {"late"}
BY DEF Advancing, Going, InStage

-----------------------------------------------------------------------------
(* The steps *)

LEMMA WorkerQuiet ==
  ASSUME TypeOK, Prepared, Verdicted, NEW w \in Workers,
         Look(w) \/ LookAudit(w) \/ Acquire(w) \/ Raise(w) \/ FailLook(w) \/ LockTimeout(w) \/ Recheck(w)
  PROVE  Verdicted'
<1>1. /\ run' = run /\ crossed' = crossed /\ overdue' = overdue
      /\ overdue \/ files' = files
  BY DEF Look, LookAudit, Acquire, Raise, FailLook, LockTimeout, Recheck, Expires
<1>2. procs[w] \in Processes
  BY DEF TypeOK
<1>3. PICK rec : SetProc(w, rec) /\ (~crossed => rec.pc \notin Going \cup {"late"} \/ Fits(rec)')
  <2>1. Done.pc \notin Going \cup {"late"} /\ Failing(w).pc \notin Going \cup {"late"}
    BY <1>2 DEF Done, Idle, Failing, Going, InStage, Processes
  <2>2. ~crossed => Fits(procs[w])
    BY DEF Verdicted
  <2>3. CASE Look(w)
    <3>1. ASSUME NEW pc \in {"render", "write"},
                 pc = "write" => procs[w].task # "rendering_artifacts", ~crossed,
                 NEW rec, rec = [procs[w] EXCEPT !.pc = pc, !.seen = run]
          PROVE  Fits(rec)'
      <4>1. run.status \in Active => Judged(run, procs[w].task)
        BY <2>2, <2>3, <3>1 DEF Look, Fits, Going
      <4>2. rec.pc = pc /\ rec.seen = run /\ rec.task = procs[w].task
        BY <1>2, <3>1 DEF Processes
      <4> QED
        BY <1>1, <3>1, <4>1, <4>2 DEF Fits, Judged, AllRead, Whole
    <3>2. CASE SetProc(w, Done) \/ SetProc(w, Failing(w))
      BY <2>1, <3>2
    <3>3. CASE SetProc(w, [procs[w] EXCEPT !.pc = "render", !.seen = run])
      BY <3>1, <3>3
    <3>4. CASE /\ SetProc(w, [procs[w] EXCEPT !.pc = "write", !.seen = run])
               /\ procs[w].task # "rendering_artifacts"
      BY <3>1, <3>4
    <3>5. CASE SetProc(w, [procs[w] EXCEPT !.pc = "audit"])
      <4>1. PICK rec : rec = [procs[w] EXCEPT !.pc = "audit"]
        OBVIOUS
      <4>2. rec.pc = "audit" /\ rec.task = procs[w].task
        BY <1>2, <4>1 DEF Processes
      <4>3. ~crossed /\ run.status \in Active => Judged(run, procs[w].task)
        BY <2>2, <2>3 DEF Look, Fits, Going
      <4>4. ~crossed => Fits(rec)'
        BY <1>1, <4>2, <4>3 DEF Fits, Judged, AllRead, Whole, InStage
      <4> QED
        BY <3>5, <4>1, <4>4
    <3> QED
      BY <2>3, <3>2, <3>3, <3>4, <3>5 DEF Look
  <2>8. CASE LookAudit(w)
    <3>1. ASSUME ~crossed, NEW rec, rec = [procs[w] EXCEPT !.pc = "write", !.seen = run]
          PROVE  Fits(rec)'
      <4>1. procs[w].task # "rendering_artifacts"
        BY <2>8 DEF LookAudit, Prepared, WorkerReady
      <4>2. run.status \in Active => Judged(run, procs[w].task)
        BY <2>2, <2>8, <3>1 DEF LookAudit, Fits, Going
      <4>3. rec.pc = "write" /\ rec.seen = run /\ rec.task = procs[w].task
        BY <1>2, <3>1 DEF Processes
      <4> QED
        BY <1>1, <4>1, <4>2, <4>3 DEF Fits, Judged, AllRead, Whole
    <3>2. ASSUME run.status \in Terminal, NEW rec
          PROVE  Fits(rec)'
      BY <1>1, <3>2, ActiveIsNotTerminal DEF Fits
    <3>3. CASE SetProc(w, Failing(w))
      BY <2>1, <3>3
    <3>4. CASE SetProc(w, [procs[w] EXCEPT !.pc = "write", !.seen = run])
      BY <3>1, <3>4
    <3>5. CASE /\ SetProc(w, [procs[w] EXCEPT !.pc = "late", !.seen = run])
               /\ run.status \in Terminal
      BY <3>2, <3>5
    <3> QED
      BY <2>8, <3>3, <3>4, <3>5 DEF LookAudit
  <2>4. CASE Acquire(w)
    <3>1. ASSUME ~crossed, NEW rec, rec = [procs[w] EXCEPT !.pc = "work"]
          PROVE  Fits(rec)'
      <4>1. run.status \in Active => Judged(run, procs[w].task) /\ procs[w].seen = run
        BY <2>2, <2>4, <3>1 DEF Acquire, Fits, Going, InStage
      <4>2. rec.pc = "work" /\ rec.seen = procs[w].seen /\ rec.task = procs[w].task
        BY <1>2, <3>1 DEF Processes
      <4> QED
        BY <1>1, <3>1, <4>1, <4>2 DEF Fits, Judged, AllRead, Whole
    <3> QED
      BY <2>4, <3>1 DEF Acquire
  <2>5. CASE Recheck(w)
    <3>1. ASSUME ~crossed, files' = files, NEW rec, rec = [procs[w] EXCEPT !.pc = "write"]
          PROVE  Fits(rec)'
      <4>1. run.status \in Active => /\ Judged(run, procs[w].task) /\ procs[w].seen = run
                                     /\ procs[w].task = "rendering_artifacts"
                                          => overdue \/ files = run.cases
        BY <2>2, <2>5, <3>1 DEF Recheck, Fits, Going, InStage
      <4>2. rec.pc = "write" /\ rec.seen = procs[w].seen /\ rec.task = procs[w].task
        BY <1>2, <3>1 DEF Processes
      <4> QED
        BY <1>1, <3>1, <4>1, <4>2 DEF Fits, Judged, AllRead, Whole
    <3>2. CASE SetProc(w, Failing(w))
      BY <2>1, <3>2
    <3>3. CASE SetProc(w, [procs[w] EXCEPT !.pc = "write"]) /\ UNCHANGED files
      BY <3>1, <3>3
    <3> QED
      BY <2>5, <3>2, <3>3 DEF Recheck
  <2>6. CASE Raise(w) \/ LockTimeout(w)
    BY <2>1, <2>6 DEF Raise, LockTimeout
  <2>7. CASE FailLook(w)
    <3>1. [procs[w] EXCEPT !.pc = "fail_write", !.seen = run].pc \notin Going \cup {"late"}
      BY <1>2 DEF Processes, Going, InStage
    <3> QED
      BY <2>1, <2>7, <3>1 DEF FailLook
  <2> QED
    BY <2>3, <2>4, <2>5, <2>6, <2>7, <2>8
<1>4. \A v \in Workers : procs'[v] = IF v = w THEN rec ELSE procs[v]
  BY <1>3 DEF SetProc, TypeOK
<1>5. \A v \in Workers : procs'[v] = procs[v] \/ (~crossed => Fits(procs[v])')
  BY <1>3, <1>4 DEF Fits, Going, InStage
<1> QED
  BY <1>1, <1>5, RunStays

LEMMA CommitIsSound ==
  ASSUME TypeOK, Prepared, Verdicted, Alone, NEW w \in Workers, Commit(w)
  PROVE  Verdicted'
<1> DEFINE q == procs[w]
           next == [q EXCEPT !.pc = "look", !.task = StageAfter[q.task], !.seen = NoRun]
<1>1. /\ q \in Processes /\ q.task \in Stages \ {"rendering_artifacts"}
      /\ q.pc \in InStage /\ w \in Advancing /\ run' \in Results(q)
      /\ run' \in Runs /\ (run' = run \/ run'.status \in Active \cup {"failed"})
  BY CommitRun DEF Commit, InStage, Advancing
<1>2. /\ next.pc = "look" /\ next.task = StageAfter[q.task]
      /\ \A v \in Workers : procs'[v] = IF v = w THEN next ELSE procs[v]
  BY <1>1 DEF Commit, NextStage, SetProc, TypeOK, Processes
<1> HIDE DEF next
<1> SUFFICES ASSUME ~crossed', run'.status \in Active \cup Completed
             PROVE  Verdicted'
  BY DEF Verdicted, Resulting, Fits
<1>3. ~crossed /\ ~Crosses(q)
  BY DEF Commit
<1>6. q.seen = run /\ run.status \in Active
  BY <1>1, <1>3, WorkerHasSeen
<1>7. run'.status \in Active
  BY <1>1, <1>6 DEF Completed
<1>8. Judged(run, q.task)
  BY <1>1, <1>3, <1>6 DEF Verdicted, Fits, Going
<1>9. Judged(run', next.task)
  BY <1>1, <1>2, <1>6, <1>7, <1>8, ResultsAreJudged DEF TypeOK
<1>10. ASSUME NEW v \in Workers
       PROVE  Fits(procs[v])'
  <2>1. CASE v = w
    BY <1>2, <1>9, <2>1 DEF Fits, Judged, AllRead, Whole, InStage
  <2>2. CASE v # w
    <3>1. v \notin Advancing
      BY <1>1, <1>3, <2>2 DEF Alone
    <3> QED
      BY <1>2, <1>3, <2>2, <3>1, OthersRest DEF Fits, Going, InStage
  <2> QED
    BY <2>1, <2>2
<1>11. Resulting'
  BY <1>7, ActiveIsNotTerminal DEF Resulting, Terminal
<1> QED
  BY <1>10, <1>11 DEF Verdicted

\* Files are written by the cases read; by a worker for its run, by a request
\* for the result that is there.
LEMMA RenderFilesIsSound ==
  ASSUME TypeOK, Prepared, Verdicted, Alone, Offered, NEW p \in Procs, RenderFiles(p)
  PROVE  Verdicted'
<1> SUFFICES ASSUME ~crossed' PROVE Verdicted'
  BY DEF Verdicted
<1> DEFINE q == procs[p]
           next == [q EXCEPT !.pc = IF q.seen.status \in Completed THEN "write" ELSE "recheck"]
<1>1. /\ ~crossed /\ ~Crosses(q) /\ q.pc = "render" /\ q \in Processes
      /\ files' = q.seen.cases /\ run' = run /\ overdue' = overdue
      /\ procs' = [procs EXCEPT ![p] = next]
  BY DEF RenderFiles, SetProc, TypeOK, Procs
<1>2. next.seen = q.seen /\ next.task = q.task /\ next.pc \in {"write", "recheck"}
  BY <1>1 DEF Processes
<1>3. \A v \in Procs : procs'[v] = IF v = p THEN next ELSE procs[v]
  BY <1>1 DEF TypeOK, Procs
<1> HIDE DEF next
<1>4. CASE p \in Workers
  <2>1. q.seen = run /\ run.status \in Active
    BY <1>1, <1>4, WorkerHasSeen DEF InStage
  <2>2. Judged(run, q.task)
    BY <1>1, <1>4, <2>1 DEF Verdicted, Fits, Going, InStage
  <2>3. ASSUME NEW v \in Workers
        PROVE  Fits(procs[v])'
    <3>1. CASE v = p
      BY <1>1, <1>2, <1>3, <2>1, <2>2, <3>1 DEF Fits, Judged, AllRead, Whole, Procs
    <3>2. CASE v # p
      <4>1. p \in Advancing /\ v \notin Advancing
        BY <1>1, <1>4, <3>2 DEF Alone, Advancing
      <4> QED
        BY <1>1, <1>3, <3>2, <4>1, OthersRest DEF Fits, Going, InStage, Procs
    <3> QED
      BY <3>1, <3>2
  <2>4. Resulting'
    BY <1>1, <2>1, ActiveIsNotTerminal DEF Resulting, Terminal
  <2> QED
    BY <2>3, <2>4 DEF Verdicted
<1>5. CASE p \in Clients
  <2>1. q.seen = run /\ run.status \in Completed
    BY <1>1, <1>5, RerenderHasSeen DEF Prepared, ClientReady
  <2>2. Resulting'
    BY <1>1, <2>1 DEF Verdicted, Resulting, AllRead, Whole
  <2>3. \A v \in Workers : procs'[v].pc \notin Going \cup {"late"}
    BY <1>1, <1>3, <1>5, <2>1, OthersRest DEF Alone, Procs
  <2> QED
    BY <2>2, <2>3, NobodyWorks
<1> QED
  BY <1>4, <1>5 DEF Procs

\* A worker's rendering turns the verdict into the status; a request's keeps it.
LEMMA WriteRenderedIsSound ==
  ASSUME TypeOK, Prepared, Verdicted, Alone, Offered, NEW p \in Procs, WriteRendered(p)
  PROVE  Verdicted'
<1> SUFFICES ASSUME ~crossed' PROVE Verdicted'
  BY DEF Verdicted
<1> DEFINE q == procs[p]
<1>1. /\ ~crossed /\ ~Crosses(q) /\ q.pc = "write" /\ q \in Processes
      /\ q.task \in {"rendering_artifacts", "rerender"}
      /\ files' = files /\ overdue' = overdue
      /\ \A v \in Procs : procs'[v] = IF v = p THEN Ended(p) ELSE procs[v]
  BY DEF WriteRendered, SetProc, TypeOK, Procs
<1>2. CASE p \in Workers
  <2>1. q.seen = run /\ run.status \in Active
    BY <1>1, <1>2, WorkerHasSeen DEF InStage
  <2>2. q.task = "rendering_artifacts"
    BY <1>1, <1>2 DEF Prepared, WorkerReady, Stages
  <2>3. Judged(run, "rendering_artifacts") /\ (overdue \/ files = run.cases)
    BY <1>1, <1>2, <2>1, <2>2 DEF Verdicted, Fits, Going, InStage
  <2>4. /\ run'.status = run.payload.quality /\ run'.chunks = run.chunks
        /\ run'.atoms = run.atoms /\ run'.cases = run.cases
    <3>1. run.status \notin Completed
      BY <2>1, ActiveIsNotTerminal DEF Terminal
    <3>2. RenderedStatus(run.payload) = run.payload.quality
      BY <2>3 DEF RenderedStatus, Judged
    <3> QED
      BY <2>1, <3>1, <3>2 DEF WriteRendered, TypeOK, Runs
  <2>5. AllRead(run) /\ run.cases \subseteq run.atoms
    BY <2>3 DEF Judged, Audits
  <2>6. Resulting'
    BY <1>1, <2>3, <2>4, <2>5 DEF Resulting, Judged, AllRead, Whole, Completed
  <2>7. ASSUME NEW v \in Workers
        PROVE  procs'[v].pc \notin Going \cup {"late"}
    <3>1. CASE v = p
      BY <1>1, <3>1 DEF Procs, Ended, Done, Idle, Going, InStage
    <3>2. CASE v # p
      <4>1. v \notin Advancing
        BY <1>1, <1>2, <3>2 DEF Alone, Advancing
      <4> QED
        BY <1>1, <3>2, <4>1, OthersRest DEF Procs
    <3> QED
      BY <3>1, <3>2
  <2> QED
    BY <2>6, <2>7, NobodyWorks
<1>3. CASE p \in Clients
  <2>1. q.task = "rerender"
    BY <1>1, <1>3 DEF Prepared, ClientReady
  <2>2. q.seen = run /\ run.status \in Completed
    BY <1>1, <1>3, <2>1, RerenderHasSeen
  <2>3. /\ run'.status = run.status /\ run'.chunks = run.chunks
        /\ run'.atoms = run.atoms /\ run'.cases = run.cases
    BY <2>2 DEF WriteRendered, TypeOK, Runs
  <2>4. Resulting'
    BY <1>1, <2>3 DEF Verdicted, Resulting, AllRead, Whole
  <2>5. \A v \in Workers : procs'[v].pc \notin Going \cup {"late"}
    BY <1>1, <1>3, <2>2, OthersRest DEF Alone, Procs
  <2> QED
    BY <2>4, <2>5, NobodyWorks
<1> QED
  BY <1>2, <1>3 DEF Procs

\* A retry starts from a result, all of whose chunks were tried.
LEMMA RetryIsSound ==
  ASSUME TypeOK, Prepared, Verdicted, Alone, Offered, NEW c \in Clients, RetryWrite(c)
  PROVE  Verdicted'
<1> SUFFICES ASSUME ~crossed' PROVE Verdicted'
  BY DEF Verdicted
<1> DEFINE q == procs[c]
           started == [Idle EXCEPT !.pc = "look", !.task = "extracting_atoms", !.again = TRUE]
<1>1. ~crossed /\ ~Crosses(q) /\ q.seen.status = "partial_completed"
  BY DEF RetryWrite, Offered
<1>2. q.seen = run /\ run.status \in Completed
  BY <1>1 DEF Crosses, Terminal, Completed
<1>3. PICK w \in Workers : procs' = [procs EXCEPT ![c] = Idle, ![w] = started]
  BY DEF RetryWrite
<1>4. started.pc = "look" /\ started.task = "extracting_atoms"
  BY DEF Idle
<1> HIDE DEF started
<1>5. \A v \in Workers : procs'[v] = IF v = w THEN started ELSE procs[v]
  BY <1>3 DEF TypeOK
<1>6. run'.status = "chunking" /\ \A k \in Chunks : run'.chunks[k] \in {"queued", run.chunks[k]}
  BY <1>1 DEF RetryWrite, TypeOK, Runs
<1>7. AllRead(run)
  BY <1>1, <1>2 DEF Verdicted, Resulting
<1>8. Judged(run', "extracting_atoms")
  BY <1>6, <1>7 DEF Judged, AllRead, Audits
<1>9. ASSUME NEW v \in Workers
      PROVE  Fits(procs[v])'
  <2>1. CASE v = w
    BY <1>4, <1>5, <1>8, <2>1 DEF Fits, Judged, AllRead, Whole, InStage
  <2>2. CASE v # w
    BY <1>1, <1>2, <1>5, <2>2, OthersRest DEF Alone, Fits, Going, InStage
  <2> QED
    BY <2>1, <2>2
<1>10. Resulting'
  BY <1>6 DEF Resulting, Completed
<1> QED
  BY <1>9, <1>10 DEF Verdicted

\* The audit of an ended run changes neither its result nor what is left of it.
LEMMA LateAuditIsSound ==
  ASSUME TypeOK, Prepared, Verdicted, NEW w \in Workers, LateAudit(w) \/ LateAuditExpires(w)
  PROVE  Verdicted'
<1>1. CASE LateAudit(w)
  <2> SUFFICES ASSUME ~crossed' PROVE Verdicted'
    BY DEF Verdicted
  <2>1. /\ ~crossed /\ run' = WithAudit(run) /\ run \in Runs /\ files' = files
        /\ overdue' = overdue /\ procs[w].pc = "late"
    BY <1>1 DEF LateAudit, TypeOK
  <2>2. /\ run'.status = run.status /\ run'.chunks = run.chunks
        /\ run'.atoms = run.atoms /\ run'.cases = run.cases
    BY <2>1, WithAuditType
  <2>3. run.status \notin Active
    BY <2>1 DEF Verdicted, Fits
  <2>4. Resulting'
    BY <2>1, <2>2 DEF Verdicted, Resulting, AllRead, Whole
  <2> QED
    BY <2>2, <2>3, <2>4 DEF Verdicted, Fits
<1>2. CASE LateAuditExpires(w)
  <2>1. run'.status = "expired"
    BY <1>2, ExpiredType, WithAuditType DEF LateAuditExpires, TypeOK
  <2> QED
    BY <2>1, RunEndsWithout DEF Terminal, Completed
<1> QED
  BY <1>1, <1>2

LEMMA WorkerIsSound ==
  ASSUME TypeOK, Prepared, Verdicted, Alone, Offered, NEW w \in Workers, Proceed(w)
  PROVE  Verdicted'
<1>1. CASE LookExpires(w)
  <2>1. CASE run' = Expired(run)
    BY <2>1, ExpiredType, RunEndsWithout DEF TypeOK, Terminal, Completed
  <2>2. CASE UNCHANGED run
    <3>1. /\ overdue /\ overdue' = overdue /\ crossed' = crossed
          /\ \A v \in Workers : procs'[v] = IF v = w THEN Done ELSE procs[v]
      BY <1>1 DEF LookExpires, Expires, SetProc, TypeOK
    <3>2. \A v \in Workers : procs'[v] = procs[v] \/ Fits(procs[v])'
      BY <3>1 DEF Fits, Done, Idle, Going, InStage
    <3> QED
      BY <2>2, <3>1, <3>2, RunStays
  <2> QED
    BY <1>1, <2>1, <2>2 DEF LookExpires
<1>2. CASE FailWrite(w)
  <2>1. run'.status = "failed"
    BY <1>2 DEF FailWrite, TypeOK, Runs
  <2> QED
    BY <2>1, RunEndsWithout DEF Terminal, Completed
<1> QED
  BY <1>1, <1>2, WorkerQuiet, LateAuditIsSound, CommitIsSound, RenderFilesIsSound, WriteRenderedIsSound
     DEF Proceed, Procs

LEMMA ClientIsSound ==
  ASSUME TypeOK, Prepared, Verdicted, Alone, Offered, NEW c \in Clients, Serve(c)
  PROVE  Verdicted'
<1>1. CASE CancelLook(c) \/ RetryLook(c) \/ RerenderLook(c) \/ Recheck(c) \/ LockTimeout(c)
           \/ Abandon(c)
  <2>1. PICK rec : SetProc(c, rec)
    BY <1>1 DEF CancelLook, RetryLook, RerenderLook, Recheck, LockTimeout, Abandon
  <2>2. /\ run' = run /\ crossed' = crossed /\ overdue' = overdue
        /\ overdue \/ files' = files
    BY <1>1 DEF CancelLook, RetryLook, RerenderLook, Recheck, LockTimeout, Abandon, Expires
  <2>3. \A w \in Workers : procs'[w] = procs[w]
    BY <2>1 DEF SetProc, TypeOK
  <2> QED
    BY <2>2, <2>3, RunStays
<1>2. CASE CancelWrite(c)
  <2>1. run'.status = "cancelled"
    BY <1>2 DEF CancelWrite, TypeOK, Runs
  <2> QED
    BY <2>1, RunEndsWithout DEF Terminal, Completed
<1> QED
  BY <1>1, <1>2, RetryIsSound, RenderFilesIsSound, WriteRenderedIsSound DEF Serve, Procs

LEMMA ServerIsSound ==
  ASSUME TypeOK, Verdicted, Tick \/ ReadExpires \/ RequestExpires \/ CleanupExpires \/ Crash
  PROVE  Verdicted'
<1>1. CASE Tick \/ RequestExpires
  BY <1>1, RunStays DEF Tick, RequestExpires, Expires
<1>2. CASE ReadExpires \/ CleanupExpires
  <2>1. run' = Expired(run)
    BY <1>2 DEF ReadExpires, CleanupExpires
  <2> QED
    BY <2>1, ExpiredType, RunEndsWithout DEF TypeOK, Terminal, Completed
<1>3. CASE Crash
  <2>1. \A w \in Workers : procs'[w].pc \in {"idle", "done"}
    BY <1>3 DEF Crash, Idle, Done
  <2>2. \A w \in Workers : Fits(procs[w])'
    BY <2>1 DEF Fits, Going, InStage
  <2> QED
    BY <1>3, <2>2, RunStays DEF Crash
<1> QED
  BY <1>1, <1>2, <1>3

-----------------------------------------------------------------------------
(* The theorems *)

LEMMA VerdictsAreInvariant ==
  ASSUME StaleViews = FALSE
  PROVE  Spec => []Verdicted
<1>1. Init => Alone /\ Offered /\ Verdicted
  <2> SUFFICES ASSUME Init PROVE Alone /\ Offered /\ Verdicted
    OBVIOUS
  <2>1. /\ \A w \in Workers \ {FirstWorker} : procs[w].pc = "idle"
        /\ procs[FirstWorker].pc = "look" /\ procs[FirstWorker].task = "reading"
        /\ \A c \in Clients : procs[c].task = "none"
    BY DEF Init, Idle
  <2>2. run.status \notin Completed
    BY DEF Init, NewRun, Completed
  <2>3. Verdicted
    BY <2>1, <2>2 DEF Verdicted, Resulting, Fits, Judged, Audits, Going, InStage
  <2> QED
    BY <2>1, <2>2, <2>3 DEF Alone, Offered, Advancing
<1>2. TypeOK /\ Prepared /\ Alone /\ Offered /\ Verdicted /\ [Next]_vars
      => (TypeOK /\ Prepared /\ Alone /\ Offered /\ Verdicted)'
  <2> SUFFICES ASSUME TypeOK, Prepared, Alone, Offered, Verdicted, [Next]_vars
               PROVE  Alone' /\ Offered' /\ Verdicted'
    BY StepType
  <2>1. CASE UNCHANGED vars
    BY <2>1, RunStays DEF vars, Alone, Offered, Advancing
  <2> QED
    BY <2>1, WorkerKeepsAlone, ClientKeepsAlone, ServerKeepsAlone,
       WorkerIsSound, ClientIsSound, ServerIsSound DEF Next
<1> QED
  BY InitTypes, <1>1, <1>2, PTL DEF Spec

\* CompletedIsWhole: whatever chunks fail, whoever retries them, renders again,
\* cancels or restarts the server, a run called completed has read every chunk
\* and covers every atom; the verdict that travelled through the payload is true.
THEOREM CompletedRunsAreWhole ==
  ASSUME StaleViews = FALSE
  PROVE  Spec => []CompletedIsWhole
<1>1. Verdicted => CompletedIsWhole
  BY DEF Verdicted, Resulting, CompletedIsWhole, Whole, Completed
<1> QED
  BY <1>1, VerdictsAreInvariant, PTL

\* ResultsAreGrounded: a result has cases, each rests on an atom that exists, and
\* the files show these cases, until the run is overdue.
THEOREM ResultsStayGrounded ==
  ASSUME StaleViews = FALSE
  PROVE  Spec => []ResultsAreGrounded
<1>1. Verdicted => ResultsAreGrounded
  BY DEF Verdicted, Resulting, ResultsAreGrounded
<1> QED
  BY <1>1, VerdictsAreInvariant, PTL

=============================================================================
