------------------------------ MODULE EvidenceRuns ------------------------------
(***************************************************************************)
(* One source evidence run: its row, its resources and the observations of *)
(* their images, the run's directory, the requests that create, retry,     *)
(* observe, adopt and revoke (source_evidence.py, visual_evidence.py), and *)
(* the clean-up that ends it (source_evidence_cleanup.py), which every     *)
(* request also performs when it meets an expired run.                     *)
(*                                                                         *)
(* Files are written and removed at once, rows by a transaction: its first *)
(* write takes SQLite's only write lock, which it keeps while it reads the *)
(* source or writes files, until it commits. A transaction that waits for  *)
(* the lock may give up. The ORM writes the columns that differ from what  *)
(* its session loaded (Put), and fails when a row it updates is gone.      *)
(*                                                                         *)
(* An image is the number of the reading that fetched it. What scrubbing   *)
(* empties in a resource or an observation is represented by its status.   *)
(* Every downloaded image is a selected candidate; the requests that only  *)
(* choose among them are left out.                                         *)
(***************************************************************************)
EXTENDS Naturals, FiniteSets, Functions

CONSTANTS
  Kinds,        \* source types a run may have
  Refs,         \* images and attachments the source may hold
  Images,       \* those of them that can be observed
  Sources,      \* the resource lists a reading may find
  Requests,     \* requests, and scheduled clean-ups, that may run at the same time
  MaxReads,     \* bound: readings of the source
  MaxCrossed,   \* bound: crossings after which requests no longer overlap
  MaxFaults,    \* bound: crashes, and clean-ups that cannot remove the files
  NoOne,        \* the write lock is free
  NoRow,        \* there is no such row
  NoRows        \* a process that has read nothing, or no open transaction

\* A reading numbers its resources in their order.
Ids == 1..Cardinality(Refs)

IsASource(source) == DOMAIN source \subseteq Ids /\ source \in Injection(DOMAIN source, Refs)

ASSUME EvidenceRunsAssumption ==
  /\ Kinds \subseteq {"feishu", "local_file", "svn_file"}
  /\ Images \subseteq Refs /\ IsFiniteSet(Refs)
  /\ \A source \in Sources : IsASource(source)
  /\ NoOne \notin Requests
  /\ MaxReads \in Nat /\ MaxCrossed \in Nat /\ MaxFaults \in Nat

\* "failed" stands for pending_permission too; the row never exists as "none".
Runs == [status : {"none", "reading", "failed", "ready", "cleaned"}, token : BOOLEAN]
Resources == [ref : Refs, status : {"unobserved", "observed", "adopted", "expired"},
              download : {"downloaded", "failed", "expired"}]
Observations == [status : {"observed", "adopted", "cleaned"}, resource : Ids]
Rows == [run : Runs, res : [Ids -> Resources \cup {NoRow}],
         obs : [Images -> Observations \cup {NoRow}]]

\* The images, the images that the observation files describe, and the index of
\* what is adopted.
Files == [upload : BOOLEAN, source : BOOLEAN, index : BOOLEAN,
          image : [Images -> 0..MaxReads], detail : [Images -> 0..MaxReads]]

ASSUME NoRowsAssumption ==
  NoRow \notin Resources \cup Observations /\ NoRows \notin Rows

NoFiles == [upload |-> FALSE, source |-> FALSE, index |-> FALSE,
            image |-> [f \in Images |-> 0], detail |-> [f \in Images |-> 0]]

Tasks == {"create", "retry", "observe", "adopt", "revoke", "clean"}

\* Pairs of tasks that harm when one writes what the other touched unseen.
Harmful == {{"retry"}, {"retry", "observe"}, {"retry", "clean"}, {"observe", "clean"},
            {"adopt", "clean"}, {"revoke", "clean"}, {"observe", "adopt"}}

\* What a process does, what it read, and which tasks touched the run since.
RequestStates ==
  [pc : {"idle", "delete", "read", "store", "respond", "call", "flush", "sweep", "scrub"},
   task : Tasks \cup {"none"}, ref : Images \cup {NoRow},
   image : 0..MaxReads,  \* the image it looks at
   seen : Rows \cup {NoRows}, past : SUBSET Tasks]
Idle == [pc |-> "idle", task |-> "none", ref |-> NoRow, image |-> 0,
         seen |-> NoRows, past |-> {}]

VARIABLES
  kind,      \* the run's source type
  rows,      \* the committed rows
  files,     \* the run's directory
  lock,      \* the process whose transaction holds the write lock
  draft,     \* what that transaction has made of the rows
  procs,     \* the requests and the scheduled clean-up
  overdue,   \* whether expires_at has passed
  reads, faults,   \* readings and faults so far
  approved,  \* images whose observation file is the one its user adopted
  crossed,   \* pairs of tasks of which one wrote what the other had touched unseen
  stuck      \* whether a clean-up failed to remove the files

vars == <<kind, rows, files, lock, draft, procs, overdue, reads, faults,
          approved, crossed, stuck>>

-----------------------------------------------------------------------------
(* Sessions *)

\* The ORM writes a column only when its value differs from the loaded one.
Put(cur, seen, new) == IF new = seen THEN cur ELSE new

\* The rows process r works on: its open transaction's, or the committed ones.
View(r) == IF lock = r THEN draft ELSE rows

\* r goes on as p; whoever is busy will have missed that "task" touched the run.
Goes(r, p, touches) ==
  procs' = [s \in Requests |->
             IF s = r THEN p
             ELSE IF procs[s].pc = "idle" THEN procs[s]
             ELSE [procs[s] EXCEPT !.past = @ \cup {k \in touches : {k, procs[s].task} \in Harmful}]]

\* r writes: it crosses what touched the run unseen, and whoever holds the lock.
Writes(r, task) ==
  crossed' = crossed \cup (Harmful \cap
    {{task, k} : k \in (IF procs[r].pc = "idle" THEN {} ELSE procs[r].past)
                       \cup {procs[s].task : s \in {lock} \ {NoOne, r}}})

Release(r) ==
  /\ lock' = IF lock = r THEN NoOne ELSE lock
  /\ draft' = IF lock = r THEN NoRows ELSE draft

\* The transaction is rolled back; files stay as they are.
RollBack(r) == Goes(r, Idle, {}) /\ Release(r)

\* Fault: the session stays open after its commit.
CommitsRowsOpen(r, new) == rows' = new /\ lock' = NoOne /\ UNCHANGED draft

CommitsRows(r, new) == rows' = new /\ lock' = NoOne /\ draft' = NoRows

-----------------------------------------------------------------------------
(* Reading the source *)

Create(r) ==
  /\ procs[r].pc = "idle" /\ rows.run.status = "none" /\ lock = NoOne
  /\ reads < MaxReads
  /\ lock' = r
  /\ draft' = [rows EXCEPT !.run = [status |-> "reading", token |-> kind = "local_file"]]
  /\ files' = [files EXCEPT !.upload = @ \/ kind = "local_file"]
  /\ Goes(r, [Idle EXCEPT !.pc = "read", !.task = "create", !.seen = draft'], {})
  /\ UNCHANGED <<kind, rows, overdue, reads, faults, approved, crossed, stuck>>

Usable == rows.run.status # "cleaned" /\ ~overdue

\* Once enough has crossed, a request begins only when no other runs.
MayBegin == Cardinality(crossed) < MaxCrossed \/ \A r \in Requests : procs[r].pc = "idle"

HasFailedResource ==
  \E i \in Ids : rows.res[i] # NoRow /\ rows.res[i].download = "failed"
Retryable == rows.run.status = "failed" \/ (rows.run.status = "ready" /\ HasFailedResource)

\* Fault: the files derived from an upload are cleared with the upload.
ClearedWhole == NoFiles

\* Fault: the observations are not taken for derived files.
ClearedKeepsDetails ==
  [NoFiles EXCEPT !.upload = files.upload /\ kind = "local_file", !.detail = files.detail]

\* _clear_local_file_derived_files keeps the upload.
Cleared == [NoFiles EXCEPT !.upload = files.upload /\ kind = "local_file"]

Retry(r) ==
  /\ procs[r].pc = "idle" /\ Usable /\ MayBegin /\ Retryable /\ reads < MaxReads
  /\ files' = Cleared
  /\ Writes(r, "retry")
  /\ Goes(r, [Idle EXCEPT !.pc = "delete", !.task = "retry", !.seen = rows], {"retry"})
  /\ UNCHANGED <<kind, rows, lock, draft, overdue, reads, faults, approved, stuck>>

\* The DELETE of the resources takes the lock, and removes those there are.
DeletesResources(r) ==
  /\ procs[r].pc = "delete" /\ lock = NoOne
  /\ lock' = r
  /\ draft' = [rows EXCEPT !.res = [i \in Ids |-> NoRow]]
  /\ Writes(r, "retry")
  /\ Goes(r, [procs[r] EXCEPT !.pc = "read"], {})
  /\ UNCHANGED <<kind, rows, files, overdue, reads, faults, approved, stuck>>

\* A retry answers with the run as it is then, and cleans it when it expired; a
\* creation ends long before its run expires.
EndsReading(r, new) ==
  /\ CommitsRows(r, new)
  /\ Goes(r, IF procs[r].task = "create" THEN Idle
             ELSE [Idle EXCEPT !.pc = "respond", !.task = "retry"], {"retry"})

\* Feishu refuses or fails: the run says so, and holds nothing.
ReadFails(r) ==
  /\ procs[r].pc = "read" /\ kind = "feishu"
  /\ EndsReading(r, [draft EXCEPT !.run.status = "failed"])
  /\ UNCHANGED <<kind, files, overdue, reads, faults, approved, crossed, stuck>>

\* Other sources raise an error. A creation clears the directory when it is an error
\* it expects; any other leaves the files.
ReadRaises(r) ==
  /\ procs[r].pc = "read" /\ kind # "feishu"
  /\ \/ UNCHANGED files
     \/ procs[r].task = "create" /\ files' = NoFiles
  /\ RollBack(r)
  /\ UNCHANGED <<kind, rows, overdue, reads, faults, approved, crossed, stuck>>

ReadsSource(r) ==
  /\ procs[r].pc = "read" /\ (kind = "local_file" => files.upload) /\ reads < MaxReads
  /\ reads' = reads + 1
  /\ files' = [files EXCEPT !.source = TRUE]
  /\ Writes(r, procs[r].task)
  /\ Goes(r, [procs[r] EXCEPT !.pc = "store"], {})
  /\ UNCHANGED <<kind, rows, lock, draft, overdue, faults, approved, stuck>>

\* One row per resource, downloaded when that succeeds. The ids that the DELETE
\* freed are the last ones, which SQLite hands out again. "reading" has been flushed.
StoresResources(r) ==
  /\ procs[r].pc = "store"
  /\ \E source \in Sources, got \in SUBSET Refs :
       /\ files' = [files EXCEPT !.image = [f \in Images |->
                     IF f \in got \cap Range(source) THEN reads ELSE @[f]]]
       /\ EndsReading(r, [draft EXCEPT
            !.run = [status |-> "ready",
                     token |-> Put(@.token, procs[r].seen.run.token, TRUE)],
            !.res = [i \in Ids |->
              IF i \notin DOMAIN source THEN @[i]
              ELSE [ref |-> source[i], status |-> "unobserved",
                    download |-> IF source[i] \in got THEN "downloaded" ELSE "failed"]]])
  /\ Writes(r, procs[r].task)
  /\ UNCHANGED <<kind, overdue, reads, faults, approved, stuck>>

-----------------------------------------------------------------------------
(* Observing an image and adopting what was observed *)

\* Fault: an adopted image may be observed again.
IsAdoptedNever(f) == FALSE

IsAdopted(f) == rows.obs[f] # NoRow /\ rows.obs[f].status = "adopted"

\* A first observation that is not adopted yet, of an image that is there.
Observe(r, f) ==
  /\ procs[r].pc = "idle" /\ Usable /\ MayBegin /\ rows.run.status # "none"
  /\ files.image[f] > 0
  /\ \E i \in Ids : rows.res[i] # NoRow /\ rows.res[i].ref = f /\ rows.res[i].download = "downloaded"
  /\ ~IsAdopted(f)
  /\ Goes(r, [Idle EXCEPT !.pc = "call", !.task = "observe", !.ref = f, !.seen = rows,
                          !.image = files.image[f]], {})
  /\ UNCHANGED <<kind, rows, files, lock, draft, overdue, reads, faults, approved,
                 crossed, stuck>>

\* The resource of r's image among those it loaded.
Loaded(r) == CHOOSE i \in Ids : procs[r].seen.res[i] # NoRow /\ procs[r].seen.res[i].ref = procs[r].ref

\* The vision model answered. A new row is inserted, for the number of its file;
\* the changes of an old one wait for the flush.
Upserts(r) ==
  /\ procs[r].pc = "call"
  /\ \/ /\ procs[r].seen.obs[procs[r].ref] # NoRow
        /\ UNCHANGED <<lock, draft>>
     \/ /\ procs[r].seen.obs[procs[r].ref] = NoRow
        /\ lock = NoOne /\ rows.obs[procs[r].ref] = NoRow
        /\ lock' = r
        /\ draft' = [rows EXCEPT !.obs[procs[r].ref] =
                       [status |-> "observed", resource |-> Loaded(r)]]
  /\ files' = [files EXCEPT !.detail[procs[r].ref] = procs[r].image]
  /\ approved' = approved \ {procs[r].ref}
  /\ Writes(r, "observe")
  /\ Goes(r, [procs[r] EXCEPT !.pc = "flush"], {"observe"})
  /\ UNCHANGED <<kind, rows, overdue, reads, faults, stuck>>

\* The model fails, or the row has come to exist meanwhile.
CallFails(r) ==
  /\ procs[r].pc = "call"
  /\ RollBack(r)
  /\ UNCHANGED <<kind, rows, files, overdue, reads, faults, approved, crossed, stuck>>

\* Adopting may repeat an adoption, revoking needs one.
Judge(r, f, task) ==
  /\ procs[r].pc = "idle" /\ Usable /\ MayBegin /\ rows.obs[f] # NoRow
  /\ task \in {"adopt", "revoke"}
  /\ rows.obs[f].status \in IF task = "adopt" THEN {"observed", "adopted"} ELSE {"adopted"}
  /\ Goes(r, [Idle EXCEPT !.pc = "flush", !.task = task, !.ref = f, !.seen = rows], {})
  /\ UNCHANGED <<kind, rows, files, lock, draft, overdue, reads, faults, approved,
                 crossed, stuck>>

\* The resource row a request updates along with the observation: the one of the
\* image it observed, or the one the observation it judges is of, if that is there.
Target(r) ==
  LET seen == procs[r].seen
      of == IF procs[r].task = "observe" THEN Loaded(r) ELSE seen.obs[procs[r].ref].resource
  IN {i \in {of} : seen.res[i] # NoRow}

\* Fault: a revocation writes what an adoption does.
FlushedAsAdopted(r) ==
  LET f == procs[r].ref
      new == IF procs[r].task = "observe" THEN "observed" ELSE "adopted"
  IN [View(r) EXCEPT
       !.obs[f] = IF procs[r].seen.obs[f] = NoRow THEN @ ELSE [@ EXCEPT !.status = new],
       !.res = [i \in Ids |-> IF i \in Target(r) THEN [@[i] EXCEPT !.status = new] ELSE @[i]]]

\* The rows once r has flushed its observation and its resource.
Flushed(r) ==
  LET f == procs[r].ref
      seen == procs[r].seen
      view == View(r)
      new == IF procs[r].task = "adopt" THEN "adopted" ELSE "observed"
      old == seen.obs[f]
      resource == IF procs[r].task = "observe" THEN Loaded(r) ELSE view.obs[f].resource
  IN [run |-> view.run,
      obs |-> [view.obs EXCEPT ![f] =
                IF old = NoRow THEN @
                ELSE [status |-> Put(@.status, old.status, new),
                      resource |-> Put(@.resource, old.resource, resource)]],
      res |-> [i \in Ids |->
                IF i \in Target(r)
                THEN [view.res[i] EXCEPT !.status = Put(@, seen.res[i].status, new)]
                ELSE view.res[i]]]

RowsAreThere(r) == \A i \in Target(r) : View(r).res[i] # NoRow

\* A run that has expired meanwhile is cleaned by the same transaction.
Flushes(r) ==
  /\ procs[r].pc = "flush" /\ lock \in {NoOne, r} /\ RowsAreThere(r)
  /\ Writes(r, procs[r].task)
  /\ approved' = CASE procs[r].task = "revoke" -> approved \ {procs[r].ref}
                   [] procs[r].task = "adopt" /\ "observe" \notin procs[r].past ->
                        approved \cup {procs[r].ref}
                   [] OTHER -> approved
  /\ IF overdue
     THEN /\ lock' = r /\ draft' = Flushed(r)
          /\ Goes(r, [procs[r] EXCEPT !.pc = "respond"], {})
          /\ UNCHANGED rows
     ELSE /\ CommitsRows(r, Flushed(r))
          /\ Goes(r, Idle, {procs[r].task})
  /\ files' = [files EXCEPT !.index = @ \/ procs[r].task # "observe"]
  /\ UNCHANGED <<kind, overdue, reads, faults, stuck>>

\* A row is gone, or another image of the same request failed to be observed.
FlushFails(r) ==
  /\ procs[r].pc = "flush" /\ (RowsAreThere(r) => procs[r].task = "observe")
  /\ RollBack(r)
  /\ UNCHANGED <<kind, rows, files, overdue, reads, faults, approved, crossed, stuck>>

-----------------------------------------------------------------------------
(* Cleaning *)

\* cleanup_source_evidence_run loads the rows. The session keeps the run row as it
\* first loaded it.
Gathers(r, run) ==
  /\ Goes(r, [Idle EXCEPT !.pc = "sweep", !.task = "clean",
                          !.past = IF procs[r].pc = "idle" THEN {} ELSE procs[r].past,
                          !.seen = [View(r) EXCEPT !.run = run]], {})
  /\ UNCHANGED <<kind, rows, files, lock, draft, overdue, reads, faults, approved,
                 crossed, stuck>>

\* It removes the files; a removal that fails is only noted.
Sweeps(r) ==
  /\ procs[r].pc = "sweep"
  /\ \/ files' = NoFiles /\ UNCHANGED <<faults, stuck>>
     \/ faults < MaxFaults /\ faults' = faults + 1 /\ stuck' = TRUE /\ UNCHANGED files
  /\ Writes(r, "clean")
  /\ Goes(r, [procs[r] EXCEPT !.pc = "scrub"], {"clean"})
  /\ UNCHANGED <<kind, rows, lock, draft, overdue, reads, approved>>

\* Fault: only ready runs are thought to need it.
NeedsCleaningReady(run) == run.status = "ready" /\ overdue

\* _expired_run_ids, and ensure_run_not_expired_or_cleanup.
NeedsCleaning(run) == run.status \notin {"none", "cleaned"} /\ overdue

\* Any request that reads the run, and the scheduled clean-up.
Visit(r) == procs[r].pc = "idle" /\ NeedsCleaning(rows.run) /\ Gathers(r, rows.run)

\* The end of a retry, which has refreshed the run, and of the other requests,
\* which have not.
Responds(r) ==
  /\ procs[r].pc = "respond"
  /\ LET run == IF procs[r].seen = NoRows THEN rows.run ELSE procs[r].seen.run
     IN \/ NeedsCleaning(run) /\ Gathers(r, run)
        \/ /\ ~NeedsCleaning(run)
           /\ Goes(r, Idle, {})
           /\ UNCHANGED <<kind, rows, files, lock, draft, overdue, reads, faults,
                          approved, crossed, stuck>>

\* Fault: the token of the source stays in the run row.
ScrubbedWithToken(r) ==
  LET seen == procs[r].seen
  IN [run |-> [View(r).run EXCEPT !.status = "cleaned"],
      res |-> [i \in Ids |-> IF seen.res[i] = NoRow THEN View(r).res[i]
                             ELSE [View(r).res[i] EXCEPT !.status = "expired", !.download = "expired"]],
      obs |-> [f \in Images |-> IF seen.obs[f] = NoRow THEN View(r).obs[f]
                              ELSE [View(r).obs[f] EXCEPT !.status = "cleaned"]]]

\* What is left of a row r loaded.
Scrubbed(r) ==
  LET seen == procs[r].seen
  IN [run |-> [status |-> "cleaned", token |-> Put(View(r).run.token, seen.run.token, FALSE)],
      res |-> [i \in Ids |-> IF seen.res[i] = NoRow THEN View(r).res[i]
                             ELSE [View(r).res[i] EXCEPT !.status = "expired", !.download = "expired"]],
      obs |-> [f \in Images |-> IF seen.obs[f] = NoRow THEN View(r).obs[f]
                              ELSE [View(r).obs[f] EXCEPT !.status = "cleaned"]]]

LoadedAreThere(r) == \A i \in Ids : procs[r].seen.res[i] # NoRow => View(r).res[i] # NoRow

Scrubs(r) ==
  /\ procs[r].pc = "scrub" /\ lock \in {NoOne, r} /\ LoadedAreThere(r)
  /\ Writes(r, "clean")
  /\ CommitsRows(r, Scrubbed(r))
  /\ Goes(r, Idle, {"clean"})
  /\ UNCHANGED <<kind, files, overdue, reads, faults, approved, stuck>>

ScrubFails(r) ==
  /\ procs[r].pc = "scrub" /\ ~LoadedAreThere(r)
  /\ RollBack(r)
  /\ UNCHANGED <<kind, rows, files, overdue, reads, faults, approved, crossed, stuck>>

-----------------------------------------------------------------------------
(* The environment *)

\* "database is locked": the busy timeout ends before another's transaction.
GivesUp(r) ==
  /\ procs[r].pc \in {"delete", "flush", "scrub"} /\ lock \notin {NoOne, r}
  /\ RollBack(r)
  /\ UNCHANGED <<kind, rows, files, overdue, reads, faults, approved, crossed, stuck>>

Expires ==
  /\ rows.run.status # "none" /\ ~overdue
  /\ overdue' = TRUE
  /\ UNCHANGED <<kind, rows, files, lock, draft, procs, reads, faults, approved,
                 crossed, stuck>>

Crash ==
  /\ faults < MaxFaults
  /\ faults' = faults + 1
  /\ procs' = [r \in Requests |-> Idle] /\ lock' = NoOne /\ draft' = NoRows
  /\ UNCHANGED <<kind, rows, files, overdue, reads, approved, crossed, stuck>>

Init ==
  /\ kind \in Kinds
  /\ rows = [run |-> [status |-> "none", token |-> FALSE],
             res |-> [i \in Ids |-> NoRow], obs |-> [f \in Images |-> NoRow]]
  /\ files = NoFiles
  /\ lock = NoOne /\ draft = NoRows
  /\ procs = [r \in Requests |-> Idle]
  /\ overdue = FALSE /\ reads = 0 /\ faults = 0
  /\ approved = {}
  /\ crossed = {} /\ stuck = FALSE

\* A process goes on with what it has begun.
Proceeds(r) ==
  \/ DeletesResources(r) \/ ReadFails(r) \/ ReadRaises(r) \/ ReadsSource(r)
  \/ StoresResources(r)
  \/ Upserts(r) \/ CallFails(r) \/ Flushes(r) \/ FlushFails(r)
  \/ Responds(r) \/ Sweeps(r) \/ Scrubs(r) \/ ScrubFails(r) \/ GivesUp(r)

Next ==
  \/ \E r \in Requests : Create(r) \/ Retry(r) \/ Visit(r) \/ Proceeds(r)
  \/ \E r \in Requests, f \in Images : Observe(r, f)
  \/ \E r \in Requests, f \in Images, task \in {"adopt", "revoke"} : Judge(r, f, task)
  \/ Expires \/ Crash

Spec == Init /\ [][Next]_vars

\* Requests are served, time passes, and the clean-up is scheduled.
FairSpec ==
  /\ Spec /\ WF_vars(Expires) /\ WF_vars(\E r \in Requests : Visit(r))
  /\ \A r \in Requests : WF_vars(Proceeds(r))

-----------------------------------------------------------------------------
(* Properties *)

TypeOK ==
  /\ kind \in Kinds /\ rows \in Rows /\ files \in Files
  /\ lock \in Requests \cup {NoOne} /\ draft \in Rows \cup {NoRows}
  /\ procs \in [Requests -> RequestStates]
  /\ overdue \in BOOLEAN /\ stuck \in BOOLEAN
  /\ reads \in 0..MaxReads /\ faults \in 0..MaxFaults
  /\ approved \subseteq Images
  /\ crossed \subseteq Harmful
  /\ lock = NoOne <=> draft = NoRows

\* validate_source_evidence_for_generation lets the observation of f pass.
PassesValidation(f) ==
  /\ Usable /\ rows.run.status = "ready"
  /\ rows.obs[f] # NoRow /\ rows.obs[f].status = "adopted"
  /\ files.detail[f] > 0
  /\ LET resource == rows.res[rows.obs[f].resource]
     IN resource # NoRow /\ resource.ref = f /\ resource.status = "adopted"

\* A request with a task of one set wrote what one with a task of the other had
\* touched unseen; a property exempts only the pairs it names.
Crossed(tasks, others) == \E s \in tasks, t \in others : {s, t} \in crossed

NothingRuns == \A r \in Requests : procs[r].pc = "idle"

\* What cleanup_source_evidence_run promises: once a run is cleaned and nothing
\* runs, its directory is empty and its rows hold no token, resource or
\* observation any more, unless the files could not be removed, a retry or an
\* observation overlapped the clean-up, or an adoption or a revocation did and the
\* server crashed before that request met the expired run itself.
CleanedKeepsNothing ==
  rows.run.status = "cleaned" /\ NothingRuns
  /\ ~stuck /\ ~Crossed({"clean"}, {"retry", "observe"})
  /\ ~(faults > 0 /\ Crossed({"clean"}, {"adopt", "revoke"})) =>
    /\ files = NoFiles
    /\ ~rows.run.token
    /\ \A i \in Ids : rows.res[i] # NoRow => rows.res[i].status = "expired"
    /\ \A f \in Images : rows.obs[f] # NoRow => rows.obs[f].status = "cleaned"

\* A ready run can be read, or else a retry can read its source again, whatever
\* failed or crashed between the directory and the rows (retry_source_evidence_run
\* clears first and commits last), unless two retries overlapped.
ReadyIsReadable ==
  rows.run.status = "ready" /\ NothingRuns /\ ~overdue /\ ~Crossed({"retry"}, {"retry"}) =>
    files.source \/ (Retryable /\ (kind = "local_file" => files.upload))

\* An observation that validate_source_evidence_for_generation lets pass describes
\* the image the run holds, of the same reading, through every retry, unless one
\* overlapped an observation.
EvidenceIsGrounded ==
  ~Crossed({"observe"}, {"retry"}) =>
    \A f \in Images : PassesValidation(f) => files.detail[f] = files.image[f]

\* What passes the validation is what a user adopted: no later observation,
\* revocation, retry or failed request leaves another description adopted, unless
\* an observation overlapped the adoption.
OnlyAdoptedPasses ==
  ~Crossed({"observe"}, {"adopt"}) => \A f \in Images : PassesValidation(f) => f \in approved

\* An observation overlapped an adoption, or a retry a clean-up.
Contested == Crossed({"observe"}, {"adopt"}) \/ Crossed({"retry"}, {"clean"})

\* What the generations that rest on the run may find of it.
Phase == IF Contested THEN "contested" ELSE rows.run.status
Passing == {f \in Images : PassesValidation(f)}

Gate == INSTANCE EvidenceGate WITH phase <- Phase, passing <- Passing

\* What a source evidence run promises, until requests contest it: read before it is
\* used; passing only by an adoption, and only while that is the last word of its
\* user; nothing passing after the source is read again; and nothing after a clean-up.
KeepsGate == Gate!Spec

\* A run that has expired is cleaned in the end, whoever else holds the lock,
\* whatever fails or crashes.
ExpiredIsCleaned == overdue ~> rows.run.status = "cleaned"
=============================================================================
