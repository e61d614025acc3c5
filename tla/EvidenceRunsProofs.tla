--------------------------- MODULE EvidenceRunsProofs ---------------------------
(***************************************************************************)
(* Proofs about EvidenceRuns for any sources, images, requests, readings,  *)
(* crossings and faults: types, that an observation which passes the       *)
(* validation describes the image the run holds and is the one adopted,    *)
(* that a ready run can be read or read again, that a cleaned one keeps    *)
(* nothing, and that the run implements EvidenceGate.                      *)
(*                                                                         *)
(* TypeOK is not inductive: what a process writes is built from the rows   *)
(* it loaded (Fits), and an observation row, once there, stays there.      *)
(***************************************************************************)
EXTENDS EvidenceRuns, TLAPS

USE EvidenceRunsAssumption, NoRowsAssumption

\* A process holds what its next step needs, and of the observations it loaded
\* none has gone from the rows it works on.
Fits(p, view) ==
  /\ p.pc \in {"read", "store", "delete", "call", "flush", "sweep", "scrub"} => p.seen \in Rows
  /\ p.pc \in {"read", "store"} => p.task \in {"create", "retry"}
  /\ p.pc = "delete" => p.task = "retry"
  /\ p.pc = "call" => p.task = "observe"
  /\ p.pc \in {"sweep", "scrub"} => p.task = "clean"
  /\ p.pc = "flush" => p.task \in {"observe", "adopt", "revoke"}
  /\ p.pc \in {"call", "flush"} =>
       /\ p.ref \in Images
       /\ p.task = "observe" =>
            \E i \in Ids : p.seen.res[i] # NoRow /\ p.seen.res[i].ref = p.ref
  /\ p.seen # NoRows => \A f \in Images : p.seen.obs[f] # NoRow => view.obs[f] # NoRow

Held ==
  \A r \in Requests :
    Fits(procs[r], View(r)) /\ (procs[r].pc \in {"read", "store"} => lock = r)

\* An open transaction has the observation rows there are.
DraftAdds ==
  lock # NoOne => \A f \in Images : rows.obs[f] # NoRow => draft.obs[f] # NoRow

\* The part of TypeOK about everything but the database and the processes.
TypesOfRest ==
  /\ kind \in Kinds /\ files \in Files
  /\ overdue \in BOOLEAN /\ stuck \in BOOLEAN
  /\ reads \in 0..MaxReads /\ faults \in 0..MaxFaults
  /\ approved \subseteq Images /\ crossed \subseteq Harmful

Inv == TypeOK /\ Held /\ DraftAdds

\* What another's step leaves of a process.
Kept(q, p) ==
  /\ q.pc = p.pc /\ q.task = p.task /\ q.ref = p.ref /\ q.image = p.image
  /\ q.seen = p.seen /\ p.past \subseteq q.past

-----------------------------------------------------------------------------
(* Processes and the write lock *)

LEMMA IdleType == Idle \in RequestStates
BY DEF Idle, RequestStates

LEMMA GoesKeeps ==
  ASSUME procs \in [Requests -> RequestStates], NEW r \in Requests,
         NEW p \in RequestStates, NEW touches \in SUBSET Tasks, Goes(r, p, touches)
  PROVE  /\ procs' \in [Requests -> RequestStates] /\ procs'[r] = p
         /\ \A s \in Requests \ {r} :
              /\ Kept(procs'[s], procs[s])
              /\ procs[s].pc # "idle" =>
                   \A k \in touches : {k, procs[s].task} \in Harmful => k \in procs'[s].past
<1>1. procs'[r] = p
  BY DEF Goes
<1>2. ASSUME NEW s \in Requests \ {r}
      PROVE  /\ procs'[s] \in RequestStates /\ Kept(procs'[s], procs[s])
             /\ procs[s].pc # "idle" =>
                  \A k \in touches : {k, procs[s].task} \in Harmful => k \in procs'[s].past
  <2>1. procs[s] \in RequestStates
    OBVIOUS
  <2>2. CASE procs[s].pc = "idle"
    BY <2>1, <2>2 DEF Goes, Kept
  <2>3. CASE procs[s].pc # "idle"
    <3> DEFINE new == {k \in touches : {k, procs[s].task} \in Harmful}
    <3>1. procs'[s] = [procs[s] EXCEPT !.past = procs[s].past \cup new]
      BY <2>3 DEF Goes
    <3>2. new \subseteq Tasks
      OBVIOUS
    <3>3. \A k \in touches : {k, procs[s].task} \in Harmful => k \in new
      OBVIOUS
    <3> HIDE DEF new
    <3> QED
      BY <2>1, <3>1, <3>2, <3>3 DEF RequestStates, Kept
  <2> QED
    BY <2>2, <2>3
<1>3. \A s \in Requests : procs'[s] \in RequestStates
  BY <1>1, <1>2
<1>4. procs' \in [Requests -> RequestStates]
  BY <1>3 DEF Goes
<1> QED
  BY <1>1, <1>2, <1>4

LEMMA FitsKept ==
  ASSUME NEW p, NEW q, NEW v, NEW w, Fits(p, v), Kept(q, p),
         \A f \in Images : v.obs[f] # NoRow => w.obs[f] # NoRow
  PROVE  Fits(q, w)
BY DEF Fits, Kept

LEMMA IdleFits == \A v : Fits(Idle, v)
BY DEF Fits, Idle

\* A step of r, after which r is p: what the other processes hold stays right when
\* r takes and releases the lock only as its holder or while it is free.
LEMMA StepInv ==
  ASSUME Inv, NEW r \in Requests, NEW p \in RequestStates, NEW touches \in SUBSET Tasks,
         Goes(r, p, touches), TypesOfRest',
         rows' \in Rows, draft' \in Rows \cup {NoRows}, lock' \in Requests \cup {NoOne},
         lock' = NoOne <=> draft' = NoRows,
         \/ lock' = lock /\ draft' = draft
         \/ lock \in {NoOne, r} /\ lock' \in {NoOne, r},
         \A f \in Images : rows.obs[f] # NoRow => rows'.obs[f] # NoRow,
         DraftAdds',
         Fits(p, IF lock' = r THEN draft' ELSE rows'),
         p.pc \in {"read", "store"} => lock' = r
  PROVE  Inv'
<1>1. /\ procs' \in [Requests -> RequestStates] /\ procs'[r] = p
      /\ \A s \in Requests \ {r} : Kept(procs'[s], procs[s])
  BY GoesKeeps DEF Inv, TypeOK
<1>2. TypeOK'
  BY <1>1 DEF TypeOK, TypesOfRest
<1>3. ASSUME NEW s \in Requests \ {r}
      PROVE  Fits(procs'[s], View(s)') /\ (procs'[s].pc \in {"read", "store"} => lock' = s)
  <2>1. Fits(procs[s], View(s)) /\ (procs[s].pc \in {"read", "store"} => lock = s)
    BY DEF Inv, Held
  <2>2. s # NoOne /\ (lock = s => lock' = s /\ draft' = draft) /\ (lock' = s => lock = s)
    OBVIOUS
  <2>3. \A f \in Images : View(s).obs[f] # NoRow => View(s)'.obs[f] # NoRow
    BY <2>2 DEF View
  <2>4. Kept(procs'[s], procs[s])
    BY <1>1
  <2>5. Fits(procs'[s], View(s)')
    BY <2>1, <2>3, <2>4, FitsKept
  <2> QED
    BY <2>1, <2>2, <2>4, <2>5 DEF Kept
<1>4. Fits(procs'[r], View(r)') /\ (procs'[r].pc \in {"read", "store"} => lock' = r)
  BY <1>1 DEF View
<1>5. Held'
  BY <1>3, <1>4 DEF Held
<1> QED
  BY <1>2, <1>5 DEF Inv

\* The rows that r works on are rows, with every observation committed.
LEMMA ViewType ==
  ASSUME Inv, NEW r \in Requests
  PROVE  /\ View(r) \in Rows /\ (lock = r => View(r) = draft)
         /\ \A f \in Images : rows.obs[f] # NoRow => View(r).obs[f] # NoRow
         /\ \A s \in Requests \ {r} : lock \in {NoOne, r} => View(s) = rows
BY DEF View, Inv, TypeOK, DraftAdds

\* Steps that leave the database alone.
LEMMA MoveInv ==
  ASSUME Inv, NEW r \in Requests, NEW p \in RequestStates, NEW touches \in SUBSET Tasks,
         Goes(r, p, touches), TypesOfRest', UNCHANGED <<rows, lock, draft>>,
         Fits(p, View(r)), p.pc \in {"read", "store"} => lock = r
  PROVE  Inv'
<1>1. DraftAdds' /\ (IF lock' = r THEN draft' ELSE rows') = View(r)
  BY DEF Inv, DraftAdds, View
<1>2. /\ rows' \in Rows /\ draft' \in Rows \cup {NoRows} /\ lock' \in Requests \cup {NoOne}
      /\ lock' = NoOne <=> draft' = NoRows
  BY DEF Inv, TypeOK
<1>3. Fits(p, IF lock' = r THEN draft' ELSE rows')
  BY <1>1
<1> QED
  BY <1>1, <1>2, <1>3, StepInv

\* Steps whose transaction takes the lock, or has it already, and stays open.
LEMMA LockInv ==
  ASSUME Inv, NEW r \in Requests, NEW p \in RequestStates, NEW touches \in SUBSET Tasks,
         Goes(r, p, touches), TypesOfRest', rows' = rows,
         lock \in {NoOne, r}, lock' = r, draft' \in Rows,
         \A f \in Images : rows.obs[f] # NoRow => draft'.obs[f] # NoRow,
         Fits(p, draft')
  PROVE  Inv'
<1>1. DraftAdds'
  BY DEF DraftAdds
<1>2. rows' \in Rows /\ draft' # NoRows /\ lock' # NoOne
  BY DEF Inv, TypeOK
<1> QED
  BY <1>1, <1>2, StepInv

LEMMA CommitInv ==
  ASSUME Inv, NEW r \in Requests, NEW p \in RequestStates, NEW touches \in SUBSET Tasks,
         NEW new \in Rows,
         Goes(r, p, touches), TypesOfRest', CommitsRows(r, new), lock \in {NoOne, r},
         \A f \in Images : rows.obs[f] # NoRow => new.obs[f] # NoRow,
         Fits(p, new), p.pc \notin {"read", "store"}
  PROVE  Inv'
<1>1. rows' = new /\ lock' = NoOne /\ draft' = NoRows /\ r # NoOne
  BY DEF CommitsRows
<1>2. DraftAdds'
  BY <1>1 DEF DraftAdds
<1> QED
  BY <1>1, <1>2, StepInv

LEMMA RollBackInv ==
  ASSUME Inv, NEW r \in Requests, RollBack(r), TypesOfRest', rows' = rows
  PROVE  Inv'
<1>1. Goes(r, Idle, {}) /\ Release(r)
  BY DEF RollBack
<1>2. /\ rows' \in Rows /\ draft' \in Rows \cup {NoRows} /\ lock' \in Requests \cup {NoOne}
      /\ lock' = NoOne <=> draft' = NoRows
      /\ \/ lock' = lock /\ draft' = draft
         \/ lock \in {NoOne, r} /\ lock' \in {NoOne, r}
  BY <1>1 DEF Release, Inv, TypeOK
<1>3. DraftAdds'
  BY <1>1 DEF Release, Inv, DraftAdds
<1>4. Idle.pc \notin {"read", "store"}
  BY DEF Idle
<1>5. Fits(Idle, IF lock' = r THEN draft' ELSE rows')
  BY IdleFits
<1> QED
  BY <1>1, <1>2, <1>3, <1>4, <1>5, IdleType, StepInv

LEMMA WritesType ==
  ASSUME Inv, NEW r \in Requests, NEW task, Writes(r, task)
  PROVE  crossed' \subseteq Harmful
BY DEF Writes, Inv, TypeOK

-----------------------------------------------------------------------------
(* Reading the source *)

LEMMA NoFilesType == NoFiles \in Files /\ Cleared \in Files
<1>1. NoFiles \in Files
  BY DEF NoFiles, Files
<1>2. (files.upload /\ kind = "local_file") \in BOOLEAN
  OBVIOUS
<1> QED
  BY <1>1, <1>2 DEF Cleared, NoFiles, Files

LEMMA CreateInv ==
  ASSUME Inv, NEW r \in Requests, Create(r)
  PROVE  Inv'
<1> DEFINE p == [Idle EXCEPT !.pc = "read", !.task = "create", !.seen = draft']
<1>1. /\ lock = NoOne /\ lock' = r /\ Goes(r, p, {})
      /\ draft' = [rows EXCEPT !.run = [status |-> "reading", token |-> kind = "local_file"]]
      /\ files' = [files EXCEPT !.upload = files.upload \/ kind = "local_file"]
      /\ UNCHANGED <<kind, rows, overdue, reads, faults, approved, crossed, stuck>>
  BY DEF Create
<1>2. rows \in Rows /\ files \in Files
  BY DEF Inv, TypeOK, TypesOfRest
<1>3. draft' \in Rows /\ draft'.obs = rows.obs
  BY <1>1, <1>2 DEF Rows, Runs
<1>4. TypesOfRest'
  BY <1>1, <1>2 DEF Inv, TypeOK, TypesOfRest, Files
<1>5. p \in RequestStates
  BY <1>3, IdleType DEF RequestStates, Tasks, Idle
<1>6. Fits(p, draft')
  BY <1>3 DEF Fits, Idle
<1> HIDE DEF p
<1> QED
  BY <1>1, <1>3, <1>4, <1>5, <1>6, LockInv

LEMMA RetryInv ==
  ASSUME Inv, NEW r \in Requests, Retry(r)
  PROVE  Inv'
<1> DEFINE p == [Idle EXCEPT !.pc = "delete", !.task = "retry", !.seen = rows]
<1>1. rows \in Rows
  BY DEF Inv, TypeOK
<1>2. p \in RequestStates /\ p.pc = "delete"
  BY <1>1, IdleType DEF RequestStates, Tasks, Idle
<1>3. Fits(p, View(r))
  BY <1>1, ViewType DEF Fits, Idle
<1>4. TypesOfRest'
  BY NoFilesType, WritesType DEF Retry, Inv, TypeOK, TypesOfRest
<1>5. Goes(r, p, {"retry"}) /\ {"retry"} \in SUBSET Tasks /\ UNCHANGED <<rows, lock, draft>>
  BY DEF Retry, Tasks
<1> HIDE DEF p
<1> QED
  BY <1>2, <1>3, <1>4, <1>5, MoveInv

LEMMA DeletesResourcesInv ==
  ASSUME Inv, NEW r \in Requests, DeletesResources(r)
  PROVE  Inv'
<1> DEFINE p == [procs[r] EXCEPT !.pc = "read"]
<1>1. rows \in Rows /\ procs[r] \in RequestStates /\ Fits(procs[r], View(r))
      /\ procs[r].pc = "delete" /\ lock = NoOne
  BY DEF Inv, TypeOK, Held, DeletesResources
<1>2. draft' \in Rows /\ draft'.obs = rows.obs
  BY <1>1 DEF DeletesResources, Rows
<1>3. p \in RequestStates
  BY <1>1 DEF RequestStates
<1>4. View(r) = rows
  BY <1>1 DEF View
<1>5. Fits(p, draft')
  BY <1>1, <1>2, <1>4 DEF Fits, RequestStates
<1>6. TypesOfRest'
  BY WritesType DEF DeletesResources, Inv, TypeOK, TypesOfRest
<1>7. Goes(r, p, {}) /\ lock' = r /\ rows' = rows
  BY DEF DeletesResources
<1> HIDE DEF p
<1> QED
  BY <1>1, <1>2, <1>3, <1>5, <1>6, <1>7, LockInv

\* The end of a reading, with the rows it makes.
LEMMA EndsReadingInv ==
  ASSUME Inv, NEW r \in Requests, NEW new \in Rows, EndsReading(r, new), lock = r,
         new.obs = draft.obs, TypesOfRest'
  PROVE  Inv'
<1> DEFINE p == IF procs[r].task = "create" THEN Idle
                ELSE [Idle EXCEPT !.pc = "respond", !.task = "retry"]
<1>1. p \in RequestStates
  BY IdleType DEF RequestStates, Tasks, Idle
<1>2. Fits(p, new) /\ p.pc \notin {"read", "store"}
  BY DEF Fits, Idle
<1>3. Goes(r, p, {"retry"}) /\ CommitsRows(r, new) /\ {"retry"} \in SUBSET Tasks
  BY DEF EndsReading, Tasks
<1>4. \A f \in Images : rows.obs[f] # NoRow => new.obs[f] # NoRow
  BY DEF Inv, DraftAdds
<1> HIDE DEF p
<1> QED
  BY <1>1, <1>2, <1>3, <1>4, CommitInv

LEMMA ReadFailsInv ==
  ASSUME Inv, NEW r \in Requests, ReadFails(r)
  PROVE  Inv'
<1> DEFINE new == [draft EXCEPT !.run.status = "failed"]
<1>1. lock = r /\ draft \in Rows
  BY DEF ReadFails, Inv, Held, TypeOK
<1>2. new \in Rows /\ new.obs = draft.obs
  BY <1>1 DEF Rows, Runs
<1>3. TypesOfRest'
  BY DEF ReadFails, Inv, TypeOK, TypesOfRest
<1>4. EndsReading(r, new)
  BY DEF ReadFails
<1> HIDE DEF new
<1> QED
  BY <1>1, <1>2, <1>3, <1>4, EndsReadingInv

LEMMA ReadRaisesInv ==
  ASSUME Inv, NEW r \in Requests, ReadRaises(r)
  PROVE  Inv'
<1>1. TypesOfRest'
  BY NoFilesType DEF ReadRaises, Inv, TypeOK, TypesOfRest
<1> QED
  BY <1>1, RollBackInv DEF ReadRaises

LEMMA ReadsSourceInv ==
  ASSUME Inv, NEW r \in Requests, ReadsSource(r)
  PROVE  Inv'
<1> DEFINE p == [procs[r] EXCEPT !.pc = "store"]
<1>1. procs[r] \in RequestStates /\ Fits(procs[r], View(r)) /\ procs[r].pc = "read" /\ lock = r
  BY DEF Inv, TypeOK, Held, ReadsSource
<1>2. p \in RequestStates /\ Fits(p, View(r))
  BY <1>1 DEF RequestStates, Fits
<1>3. reads' \in 0..MaxReads
  BY DEF ReadsSource, Inv, TypeOK
<1>4. files' \in Files
  BY DEF ReadsSource, Inv, TypeOK, Files
<1>5. TypesOfRest'
  BY <1>3, <1>4, WritesType DEF ReadsSource, Inv, TypeOK, TypesOfRest
<1>6. Goes(r, p, {}) /\ UNCHANGED <<rows, lock, draft>>
  BY DEF ReadsSource
<1> HIDE DEF p
<1> QED
  BY <1>1, <1>2, <1>5, <1>6, MoveInv

\* The rows a reading stores, and the images it downloads.
LEMMA StoresWhat ==
  ASSUME Inv, NEW r \in Requests, StoresResources(r)
  PROVE  /\ lock = r /\ draft \in Rows
         /\ \E new \in Rows :
              /\ EndsReading(r, new) /\ new.obs = draft.obs
              /\ new.run.status = "ready"
              /\ new.run.token = Put(draft.run.token, procs[r].seen.run.token, TRUE)
         /\ files' \in Files /\ files'.detail = files.detail
<1>1. PICK source \in Sources, got \in SUBSET Refs :
       /\ files' = [files EXCEPT !.image = [f \in Images |->
                     IF f \in got \cap Range(source) THEN reads ELSE files.image[f]]]
       /\ EndsReading(r, [draft EXCEPT
            !.run = [status |-> "ready",
                     token |-> Put(draft.run.token, procs[r].seen.run.token, TRUE)],
            !.res = [i \in Ids |->
              IF i \notin DOMAIN source THEN draft.res[i]
              ELSE [ref |-> source[i], status |-> "unobserved",
                    download |-> IF source[i] \in got THEN "downloaded" ELSE "failed"]]])
  BY DEF StoresResources
<1> DEFINE run == [status |-> "ready",
                   token |-> Put(draft.run.token, procs[r].seen.run.token, TRUE)]
           res == [i \in Ids |->
              IF i \notin DOMAIN source THEN draft.res[i]
              ELSE [ref |-> source[i], status |-> "unobserved",
                    download |-> IF source[i] \in got THEN "downloaded" ELSE "failed"]]
           new == [draft EXCEPT !.run = run, !.res = res]
<1>2. lock = r /\ draft \in Rows
  BY DEF StoresResources, Inv, Held, TypeOK
<1>3. /\ run \in Runs /\ run.status = "ready"
      /\ run.token = Put(draft.run.token, procs[r].seen.run.token, TRUE)
  BY <1>2 DEF Rows, Runs, Put
<1>4. res \in [Ids -> Resources \cup {NoRow}]
  <2>1. \A i \in DOMAIN source : source[i] \in Refs
    BY DEF IsASource, Injection
  <2>2. \A i \in Ids : draft.res[i] \in Resources \cup {NoRow}
    BY <1>2 DEF Rows
  <2> QED
    BY <2>1, <2>2 DEF Resources
<1>5. EndsReading(r, new)
  BY <1>1
<1> HIDE DEF run, res
<1>6. new \in Rows /\ new.obs = draft.obs /\ new.run = run
  BY <1>2, <1>3, <1>4 DEF Rows
<1>7. files' \in Files /\ files'.detail = files.detail
  <2> DEFINE image == [f \in Images |->
                        IF f \in got \cap Range(source) THEN reads ELSE files.image[f]]
  <2>1. files \in Files /\ reads \in 0..MaxReads
    BY DEF Inv, TypeOK
  <2>2. image \in [Images -> 0..MaxReads]
    BY <2>1 DEF Files
  <2>3. files' = [files EXCEPT !.image = image]
    BY <1>1
  <2> HIDE DEF image
  <2> QED
    BY <2>1, <2>2, <2>3 DEF Files
<1> HIDE DEF new
<1> QED
  BY <1>2, <1>3, <1>5, <1>6, <1>7

LEMMA StoresResourcesInv ==
  ASSUME Inv, NEW r \in Requests, StoresResources(r)
  PROVE  Inv'
<1>1. PICK new \in Rows : EndsReading(r, new) /\ new.obs = draft.obs
  BY StoresWhat
<1>2. TypesOfRest'
  BY StoresWhat, WritesType DEF StoresResources, Inv, TypeOK, TypesOfRest
<1>3. lock = r
  BY StoresWhat
<1> QED
  BY <1>1, <1>2, <1>3, EndsReadingInv

-----------------------------------------------------------------------------
(* Observing and adopting *)

LEMMA ObserveInv ==
  ASSUME Inv, NEW r \in Requests, NEW f \in Images, Observe(r, f)
  PROVE  Inv'
<1> DEFINE p == [Idle EXCEPT !.pc = "call", !.task = "observe", !.ref = f, !.seen = rows,
                             !.image = files.image[f]]
<1>1. rows \in Rows /\ files.image[f] \in 0..MaxReads
  BY DEF Inv, TypeOK, Files
<1>2. p \in RequestStates
  BY <1>1, IdleType DEF RequestStates, Tasks, Idle
<1>3. \E i \in Ids : rows.res[i] # NoRow /\ rows.res[i].ref = f
  BY DEF Observe
<1>4. Fits(p, View(r))
  BY <1>1, <1>3, ViewType DEF Fits, Idle
<1>5. TypesOfRest' /\ p.pc = "call"
  BY DEF Observe, Inv, TypeOK, TypesOfRest, Idle
<1>6. Goes(r, p, {}) /\ UNCHANGED <<rows, lock, draft>>
  BY DEF Observe
<1> HIDE DEF p
<1> QED
  BY <1>2, <1>4, <1>5, <1>6, MoveInv

LEMMA LoadedIsThere ==
  ASSUME Inv, NEW r \in Requests, procs[r].pc \in {"call", "flush"}, procs[r].task = "observe"
  PROVE  Loaded(r) \in Ids /\ procs[r].seen.res[Loaded(r)] # NoRow
         /\ procs[r].seen.res[Loaded(r)].ref = procs[r].ref
<1>1. \E i \in Ids : procs[r].seen.res[i] # NoRow /\ procs[r].seen.res[i].ref = procs[r].ref
  BY DEF Inv, Held, Fits
<1> QED
  BY <1>1 DEF Loaded

LEMMA UpsertsInv ==
  ASSUME Inv, NEW r \in Requests, Upserts(r)
  PROVE  Inv'
<1> DEFINE p == [procs[r] EXCEPT !.pc = "flush"]
           f == procs[r].ref
<1>1. /\ procs[r] \in RequestStates /\ Fits(procs[r], View(r)) /\ procs[r].pc = "call"
      /\ procs[r].task = "observe" /\ f \in Images /\ rows \in Rows
  BY DEF Inv, TypeOK, Held, Upserts, Fits
<1>2. p \in RequestStates /\ p.pc = "flush"
  BY <1>1 DEF RequestStates
<1>3. \A v : Fits(procs[r], v) => Fits(p, v)
  BY <1>1 DEF Fits, RequestStates
<1>4. Goes(r, p, {"observe"}) /\ {"observe"} \in SUBSET Tasks /\ rows' = rows
  BY DEF Upserts, Tasks
<1>5. files' \in Files
  <2>1. files \in Files /\ procs[r].image \in 0..MaxReads
    BY <1>1 DEF Inv, TypeOK, RequestStates
  <2>2. files' = [files EXCEPT !.detail = [files.detail EXCEPT ![f] = procs[r].image]]
    BY DEF Upserts
  <2>3. [files.detail EXCEPT ![f] = procs[r].image] \in [Images -> 0..MaxReads]
    BY <2>1 DEF Files
  <2> QED
    BY <2>1, <2>2, <2>3 DEF Files
<1>6. TypesOfRest'
  BY <1>5, WritesType DEF Upserts, Inv, TypeOK, TypesOfRest
<1> HIDE DEF p, f
<1>7. CASE UNCHANGED <<lock, draft>>
  BY <1>1, <1>2, <1>3, <1>4, <1>6, <1>7, MoveInv
<1>8. CASE ~UNCHANGED <<lock, draft>>
  <2> DEFINE row == [status |-> "observed", resource |-> Loaded(r)]
  <2>1. /\ lock = NoOne /\ lock' = r
        /\ draft' = [rows EXCEPT !.obs[f] = row]
    BY <1>8 DEF Upserts, f
  <2>2. row \in Observations
    BY <1>1, LoadedIsThere DEF Observations
  <2> HIDE DEF row
  <2>3. draft' \in Rows /\ \A g \in Images : rows.obs[g] # NoRow => draft'.obs[g] # NoRow
    <3>1. rows.obs \in [Images -> Observations \cup {NoRow}]
      BY <1>1 DEF Rows
    <3>2. [rows.obs EXCEPT ![f] = row] \in [Images -> Observations \cup {NoRow}]
      BY <2>2, <3>1
    <3>3. draft' = [rows EXCEPT !.obs = [rows.obs EXCEPT ![f] = row]]
      BY <2>1
    <3>4. draft' \in Rows
      BY <1>1, <3>2, <3>3 DEF Rows
    <3>5. draft'.obs = [rows.obs EXCEPT ![f] = row]
      BY <1>1, <3>3 DEF Rows
    <3>6. row # NoRow
      BY <2>2
    <3> QED
      BY <1>1, <3>1, <3>4, <3>5, <3>6
  <2>4. View(r) = rows
    BY <2>1 DEF View
  <2>5. \A q : Kept(q, q)
    BY DEF Kept
  <2>6. Fits(procs[r], draft')
    BY <1>1, <2>3, <2>4, <2>5, FitsKept
  <2>7. Fits(p, draft')
    BY <1>3, <2>6
  <2> QED
    BY <1>2, <1>4, <1>6, <2>1, <2>3, <2>7, LockInv
<1> QED
  BY <1>7, <1>8

LEMMA CallFailsInv ==
  ASSUME Inv, NEW r \in Requests, CallFails(r) \/ FlushFails(r) \/ ScrubFails(r) \/ GivesUp(r)
  PROVE  Inv'
<1>1. TypesOfRest' /\ RollBack(r) /\ rows' = rows
  BY DEF CallFails, FlushFails, ScrubFails, GivesUp, Inv, TypeOK, TypesOfRest
<1> QED
  BY <1>1, RollBackInv

LEMMA JudgeInv ==
  ASSUME Inv, NEW r \in Requests, NEW f \in Images, NEW task \in {"adopt", "revoke"},
         Judge(r, f, task)
  PROVE  Inv'
<1> DEFINE p == [Idle EXCEPT !.pc = "flush", !.task = task, !.ref = f, !.seen = rows]
<1>1. rows \in Rows
  BY DEF Inv, TypeOK
<1>2. p \in RequestStates /\ p.pc = "flush"
  BY <1>1, IdleType DEF RequestStates, Tasks, Idle
<1>3. Fits(p, View(r))
  BY <1>1, ViewType DEF Fits, Idle
<1>4. TypesOfRest'
  BY DEF Judge, Inv, TypeOK, TypesOfRest
<1>5. Goes(r, p, {}) /\ UNCHANGED <<rows, lock, draft>>
  BY DEF Judge
<1> HIDE DEF p
<1> QED
  BY <1>2, <1>3, <1>4, <1>5, MoveInv

\* What a flush writes are rows: the observation it updates is still there, and
\* its resource by the guard RowsAreThere.
LEMMA FlushedType ==
  ASSUME Inv, NEW r \in Requests, procs[r].pc = "flush", RowsAreThere(r)
  PROVE  /\ Flushed(r) \in Rows /\ Flushed(r).run = View(r).run
         /\ \A f \in Images : View(r).obs[f] # NoRow => Flushed(r).obs[f] # NoRow
<1> DEFINE f == procs[r].ref
           seen == procs[r].seen
           view == View(r)
           new == IF procs[r].task = "adopt" THEN "adopted" ELSE "observed"
           old == seen.obs[f]
           resource == IF procs[r].task = "observe" THEN Loaded(r) ELSE view.obs[f].resource
           row == IF old = NoRow THEN view.obs[f]
                  ELSE [status |-> Put(view.obs[f].status, old.status, new),
                        resource |-> Put(view.obs[f].resource, old.resource, resource)]
           res == [i \in Ids |->
                    IF i \in Target(r)
                    THEN [view.res[i] EXCEPT !.status = Put(view.res[i].status, seen.res[i].status, new)]
                    ELSE view.res[i]]
<1>1. /\ f \in Images /\ seen \in Rows /\ view \in Rows
      /\ \A g \in Images : seen.obs[g] # NoRow => view.obs[g] # NoRow
  <2>1. Fits(procs[r], View(r)) /\ View(r) \in Rows
    BY ViewType DEF Inv, Held
  <2> QED
    BY <2>1 DEF Fits
<1>2. Flushed(r) = [run |-> view.run, obs |-> [view.obs EXCEPT ![f] = row], res |-> res]
  BY DEF Flushed
<1>3. res \in [Ids -> Resources \cup {NoRow}]
  <2>1. \A i \in Ids : view.res[i] \in Resources \cup {NoRow}
    BY <1>1 DEF Rows
  <2>2. \A i \in Target(r) : view.res[i] # NoRow
    BY DEF RowsAreThere
  <2>3. new \in {"observed", "adopted"}
    OBVIOUS
  <2> HIDE DEF new, seen, view
  <2>4. ASSUME NEW i \in Ids PROVE res[i] \in Resources \cup {NoRow}
    BY <2>1, <2>2, <2>3 DEF Resources, Put
  <2> QED
    BY <2>4
<1>4. row \in Observations \cup {NoRow} /\ (view.obs[f] # NoRow => row # NoRow)
  <2>1. view.obs[f] \in Observations \cup {NoRow} /\ old \in Observations \cup {NoRow}
    BY <1>1 DEF Rows
  <2>2. old # NoRow => view.obs[f] # NoRow
    BY <1>1
  <2>3. new \in {"observed", "adopted"}
    OBVIOUS
  <2>4. procs[r].task = "observe" => Loaded(r) \in Ids
    BY LoadedIsThere
  <2> HIDE DEF new, old, view
  <2>5. CASE old = NoRow
    BY <2>1, <2>5
  <2>6. CASE old # NoRow
    <3>1. row \in Observations
      BY <2>1, <2>2, <2>3, <2>4, <2>6 DEF Observations, Put
    <3> QED
      BY <3>1
  <2> QED
    BY <2>5, <2>6
<1> HIDE DEF row, res, view, f
<1>5. /\ view.obs \in [Images -> Observations \cup {NoRow}]
      /\ [view.obs EXCEPT ![f] = row] \in [Images -> Observations \cup {NoRow}]
  BY <1>1, <1>4 DEF Rows
<1>6. Flushed(r) \in Rows /\ Flushed(r).run = view.run
      /\ Flushed(r).obs = [view.obs EXCEPT ![f] = row]
  BY <1>1, <1>2, <1>3, <1>5 DEF Rows
<1> QED
  BY <1>1, <1>4, <1>5, <1>6 DEF view

LEMMA FlushesInv ==
  ASSUME Inv, NEW r \in Requests, Flushes(r)
  PROVE  Inv'
<1>1. /\ procs[r].pc = "flush" /\ lock \in {NoOne, r} /\ procs[r] \in RequestStates
      /\ Fits(procs[r], View(r)) /\ procs[r].ref \in Images /\ procs[r].task \in Tasks
  BY DEF Flushes, Inv, Held, TypeOK, Fits, RequestStates
<1>2. /\ Flushed(r) \in Rows
      /\ \A f \in Images : View(r).obs[f] # NoRow => Flushed(r).obs[f] # NoRow
      /\ \A f \in Images : rows.obs[f] # NoRow => Flushed(r).obs[f] # NoRow
  BY FlushedType, ViewType DEF Flushes
<1>3. files' \in Files
  BY <1>1 DEF Flushes, Inv, TypeOK, Files
<1>4. approved' \subseteq Images
  <2>1. approved \subseteq Images
    BY DEF Inv, TypeOK
  <2>2. approved' \subseteq approved \cup {procs[r].ref}
    BY DEF Flushes
  <2> QED
    BY <1>1, <2>1, <2>2
<1>5. TypesOfRest'
  BY <1>3, <1>4, WritesType DEF Flushes, Inv, TypeOK, TypesOfRest
<1>6. CASE overdue
  <2> DEFINE p == [procs[r] EXCEPT !.pc = "respond"]
  <2>1. p \in RequestStates
    BY <1>1 DEF RequestStates
  <2>2. Fits(p, Flushed(r))
    BY <1>1, <1>2 DEF Fits, RequestStates
  <2>3. Goes(r, p, {}) /\ lock' = r /\ draft' = Flushed(r) /\ rows' = rows
    BY <1>6 DEF Flushes
  <2> HIDE DEF p
  <2> QED
    BY <1>1, <1>2, <1>5, <2>1, <2>2, <2>3, LockInv
<1>7. CASE ~overdue
  <2>1. CommitsRows(r, Flushed(r)) /\ Goes(r, Idle, {procs[r].task})
    BY <1>7 DEF Flushes
  <2>2. Fits(Idle, Flushed(r)) /\ Idle.pc \notin {"read", "store"} /\ {procs[r].task} \in SUBSET Tasks
    BY <1>1, IdleFits DEF Idle
  <2> QED
    BY <1>1, <1>2, <1>5, <2>1, <2>2, IdleType, CommitInv
<1> QED
  BY <1>6, <1>7

-----------------------------------------------------------------------------
(* Cleaning *)

LEMMA GathersInv ==
  ASSUME Inv, NEW r \in Requests, NEW run \in Runs, Gathers(r, run)
  PROVE  Inv'
<1> DEFINE past == IF procs[r].pc = "idle" THEN {} ELSE procs[r].past
           seen == [View(r) EXCEPT !.run = run]
           p == [Idle EXCEPT !.pc = "sweep", !.task = "clean", !.past = past, !.seen = seen]
<1>1. View(r) \in Rows /\ procs[r] \in RequestStates
  BY ViewType DEF Inv, TypeOK
<1>2. seen \in Rows /\ seen.obs = View(r).obs
  BY <1>1 DEF Rows
<1>3. past \in SUBSET Tasks
  BY <1>1 DEF RequestStates
<1>4. Goes(r, p, {}) /\ UNCHANGED <<rows, lock, draft>>
  BY DEF Gathers
<1> HIDE DEF past, seen
<1>5. p \in RequestStates /\ p.pc = "sweep"
  BY <1>2, <1>3, IdleType DEF RequestStates, Tasks, Idle
<1>6. Fits(p, View(r))
  BY <1>2 DEF Fits, Idle
<1>7. TypesOfRest'
  BY DEF Gathers, Inv, TypeOK, TypesOfRest
<1> HIDE DEF p
<1> QED
  BY <1>4, <1>5, <1>6, <1>7, MoveInv

LEMMA SweepsInv ==
  ASSUME Inv, NEW r \in Requests, Sweeps(r)
  PROVE  Inv'
<1> DEFINE p == [procs[r] EXCEPT !.pc = "scrub"]
<1>1. procs[r] \in RequestStates /\ Fits(procs[r], View(r)) /\ procs[r].pc = "sweep"
  BY DEF Inv, TypeOK, Held, Sweeps
<1>2. Goes(r, p, {"clean"}) /\ {"clean"} \in SUBSET Tasks /\ UNCHANGED <<rows, lock, draft>>
  BY DEF Sweeps, Tasks
<1>3. p \in RequestStates /\ p.pc = "scrub" /\ Fits(p, View(r))
  BY <1>1 DEF RequestStates, Fits
<1>4. faults' \in 0..MaxFaults /\ files' \in Files /\ stuck' \in BOOLEAN
  <2>1. /\ faults \in 0..MaxFaults /\ files \in Files /\ stuck \in BOOLEAN
        /\ \/ files' = NoFiles /\ faults' = faults /\ stuck' = stuck
           \/ faults < MaxFaults /\ faults' = faults + 1 /\ stuck' = TRUE /\ files' = files
    BY DEF Sweeps, Inv, TypeOK
  <2>2. faults' \in 0..MaxFaults
    BY <2>1
  <2> QED
    BY <2>1, <2>2, NoFilesType
<1>5. TypesOfRest'
  BY <1>4, WritesType DEF Sweeps, Inv, TypeOK, TypesOfRest
<1> HIDE DEF p
<1> QED
  BY <1>2, <1>3, <1>5, MoveInv

LEMMA VisitInv ==
  ASSUME Inv, NEW r \in Requests, Visit(r)
  PROVE  Inv'
<1>1. rows.run \in Runs
  BY DEF Inv, TypeOK, Rows
<1> QED
  BY <1>1, GathersInv DEF Visit

LEMMA RespondsInv ==
  ASSUME Inv, NEW r \in Requests, Responds(r)
  PROVE  Inv'
<1> DEFINE run == IF procs[r].seen = NoRows THEN rows.run ELSE procs[r].seen.run
<1>1. run \in Runs
  BY DEF Inv, TypeOK, RequestStates, Rows
<1>2. CASE Gathers(r, run)
  BY <1>1, <1>2, GathersInv
<1>3. CASE ~NeedsCleaning(run)
  <2>1. /\ Goes(r, Idle, {})
        /\ UNCHANGED <<kind, rows, files, lock, draft, overdue, reads, faults, approved,
                       crossed, stuck>>
    BY <1>3 DEF Responds
  <2>2. TypesOfRest'
    BY <2>1 DEF Inv, TypeOK, TypesOfRest
  <2>3. Fits(Idle, View(r)) /\ Idle.pc \notin {"read", "store"}
    BY IdleFits DEF Idle
  <2> QED
    BY <2>1, <2>2, <2>3, IdleType, MoveInv
<1> QED
  BY <1>2, <1>3 DEF Responds

\* What a clean-up writes are rows: those it loaded are still there.
LEMMA ScrubbedType ==
  ASSUME Inv, NEW r \in Requests, procs[r].pc = "scrub", LoadedAreThere(r)
  PROVE  /\ Scrubbed(r) \in Rows /\ Scrubbed(r).run.status = "cleaned"
         /\ \A f \in Images : View(r).obs[f] # NoRow => Scrubbed(r).obs[f] # NoRow
<1> DEFINE seen == procs[r].seen
           view == View(r)
           run == [status |-> "cleaned", token |-> Put(view.run.token, seen.run.token, FALSE)]
           res == [i \in Ids |-> IF seen.res[i] = NoRow THEN view.res[i]
                    ELSE [view.res[i] EXCEPT !.status = "expired", !.download = "expired"]]
           obs == [f \in Images |-> IF seen.obs[f] = NoRow THEN view.obs[f]
                    ELSE [view.obs[f] EXCEPT !.status = "cleaned"]]
<1>1. /\ seen \in Rows /\ view \in Rows
      /\ \A g \in Images : seen.obs[g] # NoRow => view.obs[g] # NoRow
  <2>1. Fits(procs[r], View(r)) /\ View(r) \in Rows
    BY ViewType DEF Inv, Held
  <2> QED
    BY <2>1 DEF Fits
<1>2. Scrubbed(r) = [run |-> run, res |-> res, obs |-> obs]
  BY DEF Scrubbed
<1>3. \A i \in Ids : seen.res[i] # NoRow => view.res[i] # NoRow
  BY DEF LoadedAreThere
<1> HIDE DEF seen, view
<1>4. run \in Runs
  BY <1>1 DEF Rows, Runs, Put
<1>5. res \in [Ids -> Resources \cup {NoRow}]
  <2>1. ASSUME NEW i \in Ids PROVE res[i] \in Resources \cup {NoRow}
    <3>1. view.res[i] \in Resources \cup {NoRow}
      BY <1>1 DEF Rows
    <3> QED
      BY <1>3, <3>1 DEF Resources
  <2> QED
    BY <2>1
<1>6. /\ obs \in [Images -> Observations \cup {NoRow}]
      /\ \A f \in Images : view.obs[f] # NoRow => obs[f] # NoRow
  <2>1. ASSUME NEW f \in Images
        PROVE  obs[f] \in Observations \cup {NoRow} /\ (view.obs[f] # NoRow => obs[f] # NoRow)
    <3>1. view.obs[f] \in Observations \cup {NoRow}
      BY <1>1 DEF Rows
    <3>2. CASE seen.obs[f] = NoRow
      BY <3>1, <3>2
    <3>3. CASE seen.obs[f] # NoRow
      <4>1. [view.obs[f] EXCEPT !.status = "cleaned"] \in Observations
        BY <1>1, <3>1, <3>3 DEF Observations
      <4> QED
        BY <3>3, <4>1
    <3> QED
      BY <3>2, <3>3
  <2> QED
    BY <2>1
<1>7. run.status = "cleaned"
  OBVIOUS
<1> HIDE DEF run, res, obs
<1> QED
  BY <1>2, <1>4, <1>5, <1>6, <1>7 DEF Rows, view

LEMMA ScrubsInv ==
  ASSUME Inv, NEW r \in Requests, Scrubs(r)
  PROVE  Inv'
<1>1. /\ Scrubbed(r) \in Rows
      /\ \A f \in Images : rows.obs[f] # NoRow => Scrubbed(r).obs[f] # NoRow
  BY ScrubbedType, ViewType DEF Scrubs
<1>2. TypesOfRest'
  BY WritesType DEF Scrubs, Inv, TypeOK, TypesOfRest
<1>3. /\ CommitsRows(r, Scrubbed(r)) /\ Goes(r, Idle, {"clean"}) /\ lock \in {NoOne, r}
      /\ {"clean"} \in SUBSET Tasks
  BY DEF Scrubs, Tasks
<1>4. Fits(Idle, Scrubbed(r)) /\ Idle.pc \notin {"read", "store"}
  BY IdleFits DEF Idle
<1> QED
  BY <1>1, <1>2, <1>3, <1>4, IdleType, CommitInv

-----------------------------------------------------------------------------
(* Types *)

LEMMA InvInit == Init => Inv
<1> SUFFICES ASSUME Init PROVE Inv
  OBVIOUS
<1>1. rows \in Rows
  BY DEF Init, Rows, Runs
<1>2. files \in Files /\ \A r \in Requests : procs[r] = Idle /\ Fits(Idle, View(r))
  BY NoFilesType, IdleFits DEF Init
<1>3. TypeOK
  <2>1. procs \in [Requests -> RequestStates]
    BY IdleType DEF Init
  <2>2. 0 \in 0..MaxReads /\ 0 \in 0..MaxFaults
    OBVIOUS
  <2> QED
    BY <1>1, <1>2, <2>1, <2>2 DEF Init, TypeOK
<1>4. Held /\ DraftAdds
  BY <1>2 DEF Init, Held, DraftAdds, Idle
<1> QED
  BY <1>3, <1>4 DEF Inv

LEMMA EnvironmentInv ==
  ASSUME Inv, Expires \/ Crash
  PROVE  Inv'
<1>1. CASE Expires
  BY <1>1 DEF Expires, Inv, TypeOK, Held, DraftAdds, View
<1>2. CASE Crash
  <2>1. procs' \in [Requests -> RequestStates] /\ \A r \in Requests : procs'[r] = Idle
    BY <1>2, IdleType DEF Crash
  <2>2. faults' \in 0..MaxFaults
    BY <1>2 DEF Crash, Inv, TypeOK
  <2>3. TypeOK'
    BY <1>2, <2>1, <2>2 DEF Crash, Inv, TypeOK
  <2>4. Held' /\ DraftAdds'
    BY <1>2, <2>1, IdleFits DEF Crash, Held, DraftAdds, Idle
  <2> QED
    BY <2>3, <2>4 DEF Inv
<1> QED
  BY <1>1, <1>2

LEMMA InvStep == Inv /\ [Next]_vars => Inv'
<1> SUFFICES ASSUME Inv, [Next]_vars PROVE Inv'
  OBVIOUS
<1>1. CASE UNCHANGED vars
  BY <1>1 DEF vars, Inv, TypeOK, Held, DraftAdds, View
<1>2. ASSUME NEW r \in Requests, Proceeds(r)
      PROVE  Inv'
  BY <1>2, DeletesResourcesInv, ReadFailsInv, ReadRaisesInv, ReadsSourceInv, StoresResourcesInv,
     UpsertsInv, CallFailsInv, FlushesInv, RespondsInv, SweepsInv, ScrubsInv DEF Proceeds
<1> QED
  BY <1>1, <1>2, CreateInv, RetryInv, VisitInv, ObserveInv, JudgeInv, EnvironmentInv DEF Next

\* Rows, files, transactions and requests are well typed through every reading,
\* observation, clean-up, rollback and crash.
THEOREM TypeCorrect == Spec => []TypeOK
<1>1. Inv => TypeOK
  BY DEF Inv
<1> QED
  BY <1>1, InvInit, InvStep, PTL DEF Spec

-----------------------------------------------------------------------------
(* Before the run exists *)

\* While the run is not committed only its creation is at work, alone, and there
\* is nothing that could be observed.
CreatesAlone ==
  \A r \in Requests : procs[r].pc # "idle" /\ procs[r].task = "create" =>
    lock = r /\ rows.run.status = "none" /\ procs[r].pc \in {"read", "store"}

NothingYet ==
  rows.run.status = "none" =>
    /\ \A f \in Images : files.image[f] = 0 /\ files.detail[f] = 0 /\ rows.obs[f] = NoRow
    /\ \A r \in Requests : procs[r].pc # "idle" => procs[r].task = "create"

DraftStarted == lock # NoOne => draft.run.status # "none"

Started == CreatesAlone /\ NothingYet /\ DraftStarted

LEMMA StartedInit == Init => Started
BY DEF Init, Started, CreatesAlone, NothingYet, DraftStarted, Idle, NoFiles

\* Once the run exists it does not go back, and nothing creates it again.
LEMMA LaterStep ==
  ASSUME Inv, Started, NEW r \in Requests, NEW p \in RequestStates,
         NEW touches \in SUBSET Tasks, Goes(r, p, touches),
         rows.run.status # "none", rows'.run.status # "none",
         lock' # NoOne => draft'.run.status # "none",
         p.pc = "idle" \/ p.task # "create"
  PROVE  Started'
<1>1. procs'[r] = p /\ \A s \in Requests \ {r} : Kept(procs'[s], procs[s])
  BY GoesKeeps DEF Inv, TypeOK
<1>2. \A s \in Requests : ~(procs'[s].pc # "idle" /\ procs'[s].task = "create")
  BY <1>1 DEF Started, CreatesAlone, Kept
<1> QED
  BY <1>2 DEF Started, CreatesAlone, NothingYet, DraftStarted

\* Whoever is busy with anything but a creation works on a run that exists.
LEMMA BusyIsLater ==
  ASSUME Inv, Started, NEW r \in Requests, procs[r].pc # "idle", procs[r].task # "create"
  PROVE  rows.run.status # "none" /\ View(r).run.status # "none"
BY DEF Started, NothingYet, DraftStarted, View

LEMMA CreateStarted ==
  ASSUME Inv, Started, NEW r \in Requests, Create(r)
  PROVE  Started'
<1> DEFINE p == [Idle EXCEPT !.pc = "read", !.task = "create", !.seen = draft']
<1>1. /\ lock = NoOne /\ lock' = r /\ Goes(r, p, {}) /\ rows' = rows
      /\ rows.run.status = "none" /\ rows \in Rows /\ files \in Files
      /\ draft' = [rows EXCEPT !.run = [status |-> "reading", token |-> kind = "local_file"]]
      /\ files' = [files EXCEPT !.upload = files.upload \/ kind = "local_file"]
  BY DEF Create, Inv, TypeOK
<1>2. \A s \in Requests \ {r} : procs[s].pc = "idle"
  BY <1>1 DEF Started, NothingYet, CreatesAlone
<1>3. draft' \in Rows /\ draft'.run.status = "reading"
  BY <1>1 DEF Rows, Runs
<1>4. p \in RequestStates /\ p.pc = "read" /\ p.task = "create"
  BY <1>3, IdleType DEF RequestStates, Tasks, Idle
<1>5. files'.image = files.image /\ files'.detail = files.detail
  BY <1>1 DEF Files
<1> HIDE DEF p
<1>6. procs'[r] = p /\ \A s \in Requests \ {r} : procs'[s].pc = "idle"
  BY <1>1, <1>2, <1>4, GoesKeeps DEF Inv, TypeOK, Kept
<1> QED
  BY <1>1, <1>3, <1>4, <1>5, <1>6 DEF Started, CreatesAlone, NothingYet, DraftStarted

\* The end of a reading commits a run that exists.
LEMMA EndsReadingStarted ==
  ASSUME Inv, Started, NEW r \in Requests, NEW new \in Rows, EndsReading(r, new), lock = r,
         new.run.status # "none", procs[r].pc \in {"read", "store"}
  PROVE  Started'
<1> DEFINE p == IF procs[r].task = "create" THEN Idle
                ELSE [Idle EXCEPT !.pc = "respond", !.task = "retry"]
<1>1. p \in RequestStates /\ (p.pc = "idle" \/ p.task # "create")
  BY IdleType DEF RequestStates, Tasks, Idle
<1>2. Goes(r, p, {"retry"}) /\ rows' = new /\ lock' = NoOne /\ {"retry"} \in SUBSET Tasks
  BY DEF EndsReading, CommitsRows, Tasks
<1> HIDE DEF p
<1>3. CASE procs[r].task # "create"
  BY <1>1, <1>2, <1>3, BusyIsLater, LaterStep
<1>4. CASE procs[r].task = "create"
  <2>1. \A s \in Requests \ {r} : procs[s].pc = "idle"
    BY <1>4 DEF Started, CreatesAlone, NothingYet
  <2>2. procs'[r] = Idle /\ \A s \in Requests \ {r} : procs'[s].pc = "idle"
    BY <1>1, <1>2, <1>4, <2>1, GoesKeeps DEF Inv, TypeOK, Kept, p
  <2> QED
    BY <1>2, <2>2 DEF Started, CreatesAlone, NothingYet, DraftStarted, Idle
<1> QED
  BY <1>3, <1>4

LEMMA ReadingStarted ==
  ASSUME Inv, Started, NEW r \in Requests,
         ReadFails(r) \/ ReadRaises(r) \/ ReadsSource(r) \/ StoresResources(r)
  PROVE  Started'
<1>1. /\ procs[r].pc \in {"read", "store"} /\ lock = r /\ draft \in Rows /\ files \in Files
      /\ draft.run.status # "none" /\ procs[r] \in RequestStates
  BY DEF ReadFails, ReadRaises, ReadsSource, StoresResources, Inv, Held, TypeOK, Started,
         DraftStarted
<1>2. CASE ReadFails(r)
  <2> DEFINE new == [draft EXCEPT !.run.status = "failed"]
  <2>1. new \in Rows /\ new.run.status = "failed" /\ EndsReading(r, new)
    BY <1>1, <1>2 DEF ReadFails, Rows, Runs
  <2> HIDE DEF new
  <2> QED
    BY <1>1, <2>1, EndsReadingStarted
<1>3. CASE ReadRaises(r)
  <2>1. Goes(r, Idle, {}) /\ rows' = rows /\ lock' = NoOne
    BY <1>1, <1>3 DEF ReadRaises, RollBack, Release
  <2>2. CASE procs[r].task # "create"
    BY <1>1, <2>1, <2>2, IdleType, BusyIsLater, LaterStep DEF Idle
  <2>3. CASE procs[r].task = "create"
    <3>1. rows.run.status = "none" /\ \A s \in Requests \ {r} : procs[s].pc = "idle"
      BY <1>1, <2>3 DEF Started, CreatesAlone, NothingYet
    <3>2. procs'[r] = Idle /\ \A s \in Requests \ {r} : procs'[s].pc = "idle"
      BY <2>1, <3>1, IdleType, GoesKeeps DEF Inv, TypeOK, Kept
    <3>3. files' = files \/ files' = NoFiles
      BY <1>3 DEF ReadRaises
    <3> QED
      BY <2>1, <3>1, <3>2, <3>3
         DEF Started, CreatesAlone, NothingYet, DraftStarted, Idle, NoFiles
  <2> QED
    BY <2>2, <2>3
<1>4. CASE ReadsSource(r)
  <2> DEFINE p == [procs[r] EXCEPT !.pc = "store"]
  <2>1. Goes(r, p, {}) /\ UNCHANGED <<rows, lock, draft>>
        /\ files' = [files EXCEPT !.source = TRUE]
    BY <1>4 DEF ReadsSource
  <2>2. p \in RequestStates /\ p.pc = "store" /\ p.task = procs[r].task
    BY <1>1 DEF RequestStates
  <2>3. files'.image = files.image /\ files'.detail = files.detail
    BY <1>1, <2>1 DEF Files
  <2> HIDE DEF p
  <2>4. procs'[r] = p /\ \A s \in Requests \ {r} : Kept(procs'[s], procs[s])
    BY <2>1, <2>2, GoesKeeps DEF Inv, TypeOK
  <2>5. CreatesAlone'
    BY <1>1, <2>1, <2>2, <2>4 DEF Started, CreatesAlone, Kept
  <2>6. NothingYet'
    BY <1>1, <2>1, <2>2, <2>3, <2>4 DEF Started, NothingYet, Kept
  <2> QED
    BY <2>1, <2>5, <2>6 DEF Started, DraftStarted
<1>5. CASE StoresResources(r)
  <2>1. PICK new \in Rows : EndsReading(r, new) /\ new.run.status = "ready"
    BY <1>5, StoresWhat
  <2>2. new.run.status # "none"
    BY <2>1
  <2> QED
    BY <1>1, <2>1, <2>2, EndsReadingStarted
<1> QED
  BY <1>2, <1>3, <1>4, <1>5

LEMMA LaterStarted ==
  ASSUME Inv, Started, NEW r \in Requests,
         \/ Retry(r) \/ Visit(r) \/ DeletesResources(r) \/ Upserts(r)
         \/ CallFails(r) \/ FlushFails(r) \/ ScrubFails(r) \/ GivesUp(r)
         \/ Flushes(r) \/ Responds(r) \/ Sweeps(r) \/ Scrubs(r)
         \/ \E f \in Images : Observe(r, f)
         \/ \E f \in Images, task \in {"adopt", "revoke"} : Judge(r, f, task)
  PROVE  Started'
<1>1. /\ rows \in Rows /\ procs[r] \in RequestStates /\ Fits(procs[r], View(r))
      /\ lock # NoOne => draft.run.status # "none"
  BY DEF Inv, TypeOK, Held, Started, DraftStarted
<1> DEFINE Later(p, touches) ==
      /\ Goes(r, p, touches) /\ p \in RequestStates /\ touches \in SUBSET Tasks
      /\ p.pc = "idle" \/ p.task # "create"
<1>2. ASSUME NEW p, NEW touches, Later(p, touches),
             rows.run.status # "none", rows'.run.status # "none",
             lock' # NoOne => draft'.run.status # "none"
      PROVE  Started'
  BY <1>2, LaterStep
<1>3. ASSUME procs[r].pc \in {"delete", "call", "flush", "respond", "sweep", "scrub"}
      PROVE  procs[r].task # "create" /\ rows.run.status # "none" /\ View(r).run.status # "none"
  <2>1. procs[r].task # "create"
    BY <1>3 DEF Started, CreatesAlone
  <2> QED
    BY <1>3, <2>1, BusyIsLater
<1>4. CASE Retry(r)
  <2> DEFINE p == [Idle EXCEPT !.pc = "delete", !.task = "retry", !.seen = rows]
  <2>1. Later(p, {"retry"})
    BY <1>1, <1>4, IdleType DEF Retry, RequestStates, Tasks, Idle
  <2>2. rows.run.status # "none" /\ UNCHANGED <<rows, lock, draft>>
    BY <1>4 DEF Retry, Retryable
  <2> HIDE DEF p
  <2> QED
    BY <1>1, <1>2, <2>1, <2>2
<1>5. ASSUME NEW run \in Runs, Gathers(r, run), rows.run.status # "none"
      PROVE  Started'
  <2> DEFINE past == IF procs[r].pc = "idle" THEN {} ELSE procs[r].past
             seen == [View(r) EXCEPT !.run = run]
             p == [Idle EXCEPT !.pc = "sweep", !.task = "clean", !.past = past, !.seen = seen]
  <2>1. seen \in Rows /\ past \in SUBSET Tasks
    BY <1>1, ViewType DEF Rows, RequestStates
  <2>2. Goes(r, p, {}) /\ UNCHANGED <<rows, lock, draft>>
    BY <1>5 DEF Gathers
  <2> HIDE DEF past, seen
  <2>3. Later(p, {})
    BY <2>1, <2>2, IdleType DEF RequestStates, Tasks, Idle
  <2> HIDE DEF p
  <2> QED
    BY <1>1, <1>2, <1>5, <2>2, <2>3
<1>6. CASE Visit(r)
  BY <1>1, <1>5, <1>6 DEF Visit, NeedsCleaning, Rows
<1>7. CASE DeletesResources(r)
  <2> DEFINE p == [procs[r] EXCEPT !.pc = "read"]
  <2>1. rows.run.status # "none" /\ procs[r].task # "create"
    BY <1>3, <1>7 DEF DeletesResources
  <2>2. Goes(r, p, {}) /\ rows' = rows /\ draft' = [rows EXCEPT !.res = [i \in Ids |-> NoRow]]
    BY <1>7 DEF DeletesResources
  <2>3. Later(p, {})
    BY <1>1, <2>1, <2>2 DEF RequestStates
  <2>4. draft'.run = rows.run
    BY <1>1, <2>2 DEF Rows
  <2> HIDE DEF p
  <2> QED
    BY <1>2, <2>1, <2>2, <2>3, <2>4
<1>8. CASE Upserts(r)
  <2> DEFINE p == [procs[r] EXCEPT !.pc = "flush"]
  <2>1. rows.run.status # "none" /\ procs[r].task # "create"
    BY <1>3, <1>8 DEF Upserts
  <2>2. Goes(r, p, {"observe"}) /\ rows' = rows
    BY <1>8 DEF Upserts
  <2>3. Later(p, {"observe"})
    BY <1>1, <2>1, <2>2 DEF RequestStates, Tasks
  <2>4. \/ UNCHANGED <<lock, draft>>
        \/ draft' = [rows EXCEPT !.obs[procs[r].ref] =
                       [status |-> "observed", resource |-> Loaded(r)]]
    BY <1>8 DEF Upserts
  <2>5. lock' # NoOne => draft'.run.status # "none"
    BY <1>1, <2>1, <2>4 DEF Rows
  <2> HIDE DEF p
  <2> QED
    BY <1>2, <2>1, <2>2, <2>3, <2>5
<1>9. CASE CallFails(r) \/ FlushFails(r) \/ ScrubFails(r) \/ GivesUp(r)
  <2>1. rows.run.status # "none"
    BY <1>3, <1>9 DEF CallFails, FlushFails, ScrubFails, GivesUp
  <2>2. Goes(r, Idle, {}) /\ Release(r) /\ rows' = rows
    BY <1>9 DEF CallFails, FlushFails, ScrubFails, GivesUp, RollBack
  <2>3. Later(Idle, {}) /\ (lock' # NoOne => draft'.run.status # "none")
    BY <1>1, <2>2, IdleType DEF Release, Idle
  <2> QED
    BY <1>2, <2>1, <2>2, <2>3
<1>10. CASE Flushes(r)
  <2>1. /\ rows.run.status # "none" /\ procs[r].task # "create"
        /\ Flushed(r).run.status # "none" /\ procs[r].task \in Tasks
    BY <1>1, <1>3, <1>10, FlushedType DEF Flushes, Fits, Tasks
  <2>2. CASE overdue
    <3> DEFINE p == [procs[r] EXCEPT !.pc = "respond"]
    <3>1. Goes(r, p, {}) /\ rows' = rows /\ draft' = Flushed(r)
      BY <1>10, <2>2 DEF Flushes
    <3>2. Later(p, {})
      BY <1>1, <2>1, <3>1 DEF RequestStates
    <3> HIDE DEF p
    <3> QED
      BY <1>2, <2>1, <3>1, <3>2
  <2>3. CASE ~overdue
    <3>1. Goes(r, Idle, {procs[r].task}) /\ rows' = Flushed(r) /\ lock' = NoOne
      BY <1>10, <2>3 DEF Flushes, CommitsRows
    <3>2. Later(Idle, {procs[r].task})
      BY <2>1, <3>1, IdleType DEF Idle
    <3> QED
      BY <1>2, <2>1, <3>1, <3>2
  <2> QED
    BY <2>2, <2>3
<1>11. CASE Responds(r)
  <2>1. rows.run.status # "none"
    BY <1>3, <1>11 DEF Responds
  <2> DEFINE run == IF procs[r].seen = NoRows THEN rows.run ELSE procs[r].seen.run
  <2>2. run \in Runs
    BY <1>1 DEF RequestStates, Rows
  <2>3. CASE Gathers(r, run)
    BY <1>5, <2>1, <2>2, <2>3
  <2>4. CASE Goes(r, Idle, {}) /\ UNCHANGED <<rows, lock, draft>>
    <3>1. Later(Idle, {})
      BY <2>4, IdleType DEF Idle
    <3> QED
      BY <1>1, <1>2, <2>1, <2>4, <3>1
  <2> QED
    BY <1>11, <2>3, <2>4 DEF Responds
<1>12. CASE Scrubs(r)
  <2>1. rows.run.status # "none" /\ Scrubbed(r).run.status = "cleaned"
    BY <1>3, <1>12, ScrubbedType DEF Scrubs
  <2>2. Goes(r, Idle, {"clean"}) /\ rows' = Scrubbed(r) /\ lock' = NoOne
    BY <1>12 DEF Scrubs, CommitsRows
  <2>3. Later(Idle, {"clean"})
    BY <2>2, IdleType DEF Idle, Tasks
  <2> QED
    BY <1>2, <2>1, <2>2, <2>3
<1>13. ASSUME NEW f \in Images, Observe(r, f)
       PROVE  Started'
  <2> DEFINE p == [Idle EXCEPT !.pc = "call", !.task = "observe", !.ref = f, !.seen = rows,
                               !.image = files.image[f]]
  <2>1. files.image[f] \in 0..MaxReads
    BY DEF Inv, TypeOK, Files
  <2>2. Goes(r, p, {}) /\ UNCHANGED <<rows, lock, draft>> /\ rows.run.status # "none"
    BY <1>13 DEF Observe
  <2>3. Later(p, {})
    BY <1>1, <2>1, <2>2, IdleType DEF RequestStates, Tasks, Idle
  <2> HIDE DEF p
  <2> QED
    BY <1>1, <1>2, <2>2, <2>3
<1>14. ASSUME NEW f \in Images, NEW task \in {"adopt", "revoke"}, Judge(r, f, task)
       PROVE  Started'
  <2> DEFINE p == [Idle EXCEPT !.pc = "flush", !.task = task, !.ref = f, !.seen = rows]
  <2>1. Goes(r, p, {}) /\ UNCHANGED <<rows, lock, draft>> /\ rows.run.status # "none"
    BY <1>14 DEF Judge, Started, NothingYet
  <2>2. Later(p, {})
    BY <1>1, <2>1, IdleType DEF RequestStates, Tasks, Idle
  <2> HIDE DEF p
  <2> QED
    BY <1>1, <1>2, <2>1, <2>2
<1>15. CASE Sweeps(r)
  <2> DEFINE p == [procs[r] EXCEPT !.pc = "scrub"]
  <2>1. rows.run.status # "none" /\ procs[r].task # "create"
    BY <1>3, <1>15 DEF Sweeps
  <2>2. Goes(r, p, {"clean"}) /\ UNCHANGED <<rows, lock, draft>>
    BY <1>15 DEF Sweeps
  <2>3. Later(p, {"clean"})
    BY <1>1, <2>1, <2>2 DEF RequestStates, Tasks
  <2> HIDE DEF p
  <2> QED
    BY <1>1, <1>2, <2>1, <2>2, <2>3
<1> QED
  BY <1>4, <1>6, <1>7, <1>8, <1>9, <1>10, <1>11, <1>12, <1>13, <1>14, <1>15

LEMMA StartedStep == Inv /\ Started /\ [Next]_vars => Started'
<1> SUFFICES ASSUME Inv, Started, [Next]_vars PROVE Started'
  OBVIOUS
<1>1. CASE UNCHANGED vars
  BY <1>1 DEF vars, Started, CreatesAlone, NothingYet, DraftStarted
<1>2. ASSUME NEW r \in Requests, Proceeds(r)
      PROVE  Started'
  BY <1>2, ReadingStarted, LaterStarted DEF Proceeds
<1>3. CASE Expires
  BY <1>3 DEF Expires, Started, CreatesAlone, NothingYet, DraftStarted
<1>4. CASE Crash
  <2>1. /\ UNCHANGED <<rows, files>> /\ lock' = NoOne
        /\ \A r \in Requests : procs'[r].pc = "idle"
    BY <1>4 DEF Crash, Idle
  <2> QED
    BY <2>1 DEF Started, CreatesAlone, NothingYet, DraftStarted
<1> QED
  BY <1>1, <1>2, <1>3, <1>4, CreateStarted, LaterStarted DEF Next

-----------------------------------------------------------------------------
(* Only an expired run is cleaned *)

SweepsExpired == \A r \in Requests : procs[r].pc = "sweep" => overdue

LEMMA SweepsExpiredInit == Init => SweepsExpired
BY DEF Init, SweepsExpired, Idle

\* A step of r, after which r is p.
LEMMA StepSweepsExpired ==
  ASSUME Inv, SweepsExpired, NEW r \in Requests, NEW p, NEW touches, Goes(r, p, touches),
         overdue' = overdue, p.pc = "sweep" => overdue
  PROVE  SweepsExpired'
<1>1. ASSUME NEW s \in Requests, procs'[s].pc = "sweep"
      PROVE  overdue
  <2>1. CASE s = r
    BY <1>1, <2>1 DEF Goes
  <2>2. CASE s # r
    <3>1. procs[s] \in RequestStates
      BY DEF Inv, TypeOK
    <3>2. PICK past : procs'[s] \in {procs[s], [procs[s] EXCEPT !.past = past]}
      BY <2>2 DEF Goes
    <3>3. procs[s].pc = "sweep"
      BY <1>1, <3>1, <3>2 DEF RequestStates
    <3> QED
      BY <3>3 DEF SweepsExpired
  <2> QED
    BY <2>1, <2>2
<1> QED
  BY <1>1 DEF SweepsExpired

LEMMA SweepsExpiredStep == Inv /\ SweepsExpired /\ [Next]_vars => SweepsExpired'
<1> SUFFICES ASSUME Inv, SweepsExpired, [Next]_vars PROVE SweepsExpired'
  OBVIOUS
<1> DEFINE Moves(r, p, touches) ==
      Goes(r, p, touches) /\ overdue' = overdue /\ (p.pc = "sweep" => overdue)
<1>1. CASE UNCHANGED vars
  BY <1>1 DEF vars, SweepsExpired
<1>2. CASE Expires
  BY <1>2 DEF Expires, SweepsExpired
<1>3. CASE Crash
  BY <1>3 DEF Crash, SweepsExpired, Idle
<1>4. ASSUME NEW r \in Requests, NEW p, NEW touches, Moves(r, p, touches)
      PROVE  SweepsExpired'
  BY <1>4, StepSweepsExpired
<1>5. ASSUME NEW r \in Requests, Goes(r, Idle, {}) \/ Goes(r, Idle, {"clean"}), overdue' = overdue
      PROVE  SweepsExpired'
  BY <1>4, <1>5 DEF Idle
<1>6. ASSUME NEW r \in Requests, Create(r) \/ Retry(r)
      PROVE  SweepsExpired'
  <2> DEFINE created == [Idle EXCEPT !.pc = "read", !.task = "create", !.seen = draft']
             retrying == [Idle EXCEPT !.pc = "delete", !.task = "retry", !.seen = rows]
  <2>1. created.pc = "read" /\ retrying.pc = "delete"
    BY DEF Idle
  <2>2. Goes(r, created, {}) \/ Goes(r, retrying, {"retry"})
    BY <1>6 DEF Create, Retry
  <2>3. overdue' = overdue
    BY <1>6 DEF Create, Retry
  <2>4. PICK q : q \in {created, retrying} /\ (Goes(r, q, {}) \/ Goes(r, q, {"retry"}))
    BY <2>2
  <2> QED
    BY <1>4, <2>1, <2>3, <2>4
<1>7. ASSUME NEW r \in Requests, NEW f \in Images,
             Observe(r, f) \/ \E task \in {"adopt", "revoke"} : Judge(r, f, task)
      PROVE  SweepsExpired'
  <2>1. CASE Observe(r, f)
    <3> DEFINE p == [Idle EXCEPT !.pc = "call", !.task = "observe", !.ref = f, !.seen = rows,
                                 !.image = files.image[f]]
    <3>1. Goes(r, p, {}) /\ overdue' = overdue /\ p.pc = "call"
      BY <2>1 DEF Observe, Idle
    <3> HIDE DEF p
    <3> QED
      BY <1>4, <3>1
  <2>2. ASSUME NEW task \in {"adopt", "revoke"}, Judge(r, f, task)
        PROVE  SweepsExpired'
    <3> DEFINE p == [Idle EXCEPT !.pc = "flush", !.task = task, !.ref = f, !.seen = rows]
    <3>1. Goes(r, p, {}) /\ overdue' = overdue /\ p.pc = "flush"
      BY <2>2 DEF Judge, Idle
    <3> HIDE DEF p
    <3> QED
      BY <1>4, <3>1
  <2> QED
    BY <1>7, <2>1, <2>2
<1>8. ASSUME NEW r \in Requests, NEW run, Gathers(r, run), NeedsCleaning(run)
      PROVE  SweepsExpired'
  <2>1. PICK q : Goes(r, q, {}) /\ overdue' = overdue
    BY <1>8 DEF Gathers
  <2> QED
    BY <1>4, <1>8, <2>1 DEF NeedsCleaning
<1>9. ASSUME NEW r \in Requests, Visit(r) \/ Responds(r)
      PROVE  SweepsExpired'
  <2>1. CASE Visit(r)
    BY <1>8, <2>1 DEF Visit
  <2>2. CASE Responds(r)
    BY <1>5, <1>8, <2>2 DEF Responds
  <2> QED
    BY <1>9, <2>1, <2>2
<1>10. ASSUME NEW r \in Requests, ReadFails(r) \/ StoresResources(r)
       PROVE  SweepsExpired'
  <2> DEFINE p == IF procs[r].task = "create" THEN Idle
                  ELSE [Idle EXCEPT !.pc = "respond", !.task = "retry"]
  <2>1. Goes(r, p, {"retry"}) /\ overdue' = overdue /\ p.pc \in {"idle", "respond"}
    BY <1>10 DEF ReadFails, StoresResources, EndsReading, Idle
  <2> HIDE DEF p
  <2> QED
    BY <1>4, <2>1
<1>11. ASSUME NEW r \in Requests, NEW pc \in {"read", "store", "flush", "respond", "scrub"},
              NEW touches, Goes(r, [procs[r] EXCEPT !.pc = pc], touches), overdue' = overdue
       PROVE  SweepsExpired'
  <2> DEFINE p == [procs[r] EXCEPT !.pc = pc]
  <2>1. p.pc = pc
    BY DEF Inv, TypeOK, RequestStates
  <2>2. Goes(r, p, touches)
    BY <1>11
  <2> HIDE DEF p
  <2> QED
    BY <1>4, <1>11, <2>1, <2>2
<1>12. ASSUME NEW r \in Requests, Proceeds(r)
       PROVE  SweepsExpired'
  <2>1. CASE DeletesResources(r)
    BY <1>11, <2>1 DEF DeletesResources
  <2>2. CASE ReadsSource(r)
    BY <1>11, <2>2 DEF ReadsSource
  <2>3. CASE Upserts(r)
    BY <1>11, <2>3 DEF Upserts
  <2>4. CASE Sweeps(r)
    BY <1>11, <2>4 DEF Sweeps
  <2>5. CASE Flushes(r)
    <3>1. CASE overdue
      BY <1>11, <2>5, <3>1 DEF Flushes
    <3>2. CASE ~overdue
      <4>1. Goes(r, Idle, {procs[r].task}) /\ overdue' = overdue /\ Idle.pc = "idle"
        BY <2>5, <3>2 DEF Flushes, Idle
      <4> QED
        BY <1>4, <4>1
    <3> QED
      BY <3>1, <3>2
  <2>6. CASE ReadRaises(r) \/ CallFails(r) \/ FlushFails(r) \/ ScrubFails(r) \/ GivesUp(r)
    BY <1>5, <2>6 DEF ReadRaises, CallFails, FlushFails, ScrubFails, GivesUp, RollBack
  <2>7. CASE Scrubs(r)
    BY <1>5, <2>7 DEF Scrubs
  <2> QED
    BY <1>9, <1>10, <1>12, <2>1, <2>2, <2>3, <2>4, <2>5, <2>6, <2>7 DEF Proceeds
<1> QED
  BY <1>1, <1>2, <1>3, <1>6, <1>7, <1>9, <1>12 DEF Next

-----------------------------------------------------------------------------
(* Observations describe the images of the run *)

\* The run has not expired, and no retry crossed an observation.
Quiet == ~overdue /\ ~Crossed({"observe"}, {"retry"})

DetailsMatch == \A f \in Images : files.detail[f] # 0 => files.detail[f] = files.image[f]

\* What the vision model looks at is still the image, or a retry touched the run.
LooksAtCurrent ==
  \A r \in Requests : procs[r].pc = "call" /\ "retry" \notin procs[r].past =>
    procs[r].image = files.image[procs[r].ref]

\* A retry has cleared the observations until one was made since.
RetryHasCleared ==
  \A r \in Requests :
    procs[r].pc \in {"delete", "read", "store"} /\ procs[r].task = "retry"
      /\ "observe" \notin procs[r].past => \A f \in Images : files.detail[f] = 0

Grounded == Quiet => DetailsMatch /\ LooksAtCurrent /\ RetryHasCleared

LEMMA GroundedInit == Init => Grounded
BY DEF Init, Grounded, DetailsMatch, LooksAtCurrent, RetryHasCleared, Idle, NoFiles

LEMMA ObserveRetry ==
  /\ {"observe", "retry"} \in Harmful /\ {"retry", "observe"} = {"observe", "retry"}
  /\ Crossed({"observe"}, {"retry"}) <=> {"observe", "retry"} \in crossed
<1>1. {"retry", "observe"} = {"observe", "retry"}
  OBVIOUS
<1> QED
  BY <1>1 DEF Harmful, Crossed

\* Who observes and retries, or retries and observes, has it recorded.
LEMMA WritesCross ==
  ASSUME NEW r \in Requests, NEW task, NEW k, Writes(r, task),
         procs[r].pc # "idle", k \in procs[r].past, {task, k} \in Harmful
  PROVE  {task, k} \in crossed'
BY DEF Writes

\* Every step leaves crossings and faults recorded, and an expired run expired.
LEMMA CrossingsStay ==
  ASSUME [Next]_vars
  PROVE  /\ crossed \subseteq crossed' /\ (overdue => overdue')
         /\ (stuck => stuck') /\ faults' \in {faults, faults + 1}
<1> DEFINE Grows == /\ crossed \subseteq crossed' /\ (overdue => overdue')
                    /\ (stuck => stuck') /\ faults' \in {faults, faults + 1}
<1>1. ASSUME NEW r, NEW task, Writes(r, task)
      PROVE  crossed \subseteq crossed'
  BY <1>1 DEF Writes
<1>2. ASSUME NEW r, Create(r) \/ Retry(r)
      PROVE  Grows
  BY <1>1, <1>2 DEF Create, Retry
<1>3. ASSUME NEW r, \/ DeletesResources(r) \/ ReadFails(r) \/ ReadRaises(r) \/ ReadsSource(r)
                    \/ StoresResources(r)
      PROVE  Grows
  <2>1. UNCHANGED <<overdue, stuck, faults>>
    BY <1>3 DEF DeletesResources, ReadFails, ReadRaises, ReadsSource, StoresResources
  <2>2. CASE ReadFails(r) \/ ReadRaises(r)
    BY <2>1, <2>2 DEF ReadFails, ReadRaises
  <2>3. CASE DeletesResources(r) \/ ReadsSource(r) \/ StoresResources(r)
    BY <1>1, <2>1, <2>3 DEF DeletesResources, ReadsSource, StoresResources
  <2> QED
    BY <1>3, <2>2, <2>3
<1>4. ASSUME NEW r, \/ Upserts(r) \/ CallFails(r) \/ Flushes(r) \/ FlushFails(r)
                    \/ Scrubs(r) \/ ScrubFails(r) \/ GivesUp(r)
      PROVE  Grows
  BY <1>1, <1>4 DEF Upserts, CallFails, Flushes, FlushFails, Scrubs, ScrubFails, GivesUp
<1>5. ASSUME NEW r, Sweeps(r)
      PROVE  Grows
  BY <1>1, <1>5 DEF Sweeps
<1>6. ASSUME NEW r, Visit(r) \/ Responds(r)
      PROVE  Grows
  BY <1>6 DEF Visit, Responds, Gathers
<1>7. ASSUME NEW r, NEW f, NEW task, Observe(r, f) \/ Judge(r, f, task)
      PROVE  Grows
  BY <1>7 DEF Observe, Judge
<1>8. ASSUME Expires \/ Crash \/ UNCHANGED vars
      PROVE  Grows
  BY <1>8 DEF Expires, Crash, vars
<1> HIDE DEF Grows
<1>9. Grows
  BY <1>2, <1>3, <1>4, <1>5, <1>6, <1>7, <1>8 DEF Next, Proceeds
<1> QED
  BY <1>9 DEF Grows

LEMMA QuietBefore ==
  ASSUME [Next]_vars, Quiet'
  PROVE  Quiet
BY CrossingsStay, ObserveRetry DEF Quiet, Crossed

\* Steps that leave images and observation files alone.
LEMMA SameFilesGrounded ==
  ASSUME Inv, DetailsMatch, LooksAtCurrent, RetryHasCleared,
         NEW r \in Requests, NEW p \in RequestStates, NEW touches \in SUBSET Tasks,
         Goes(r, p, touches),
         files'.image = files.image, files'.detail = files.detail,
         p.pc = "call" => p.image = files.image[p.ref],
         p.pc \in {"delete", "read", "store"} /\ p.task = "retry" =>
           /\ procs[r].pc \in {"delete", "read", "store"} /\ procs[r].task = "retry"
           /\ procs[r].past = p.past
  PROVE  DetailsMatch' /\ LooksAtCurrent' /\ RetryHasCleared'
<1>1. procs'[r] = p /\ \A s \in Requests \ {r} : Kept(procs'[s], procs[s])
  BY GoesKeeps DEF Inv, TypeOK
<1>2. DetailsMatch'
  BY DEF DetailsMatch
<1>3. LooksAtCurrent'
  BY <1>1 DEF LooksAtCurrent, Kept
<1>4. RetryHasCleared'
  BY <1>1 DEF RetryHasCleared, Kept
<1> QED
  BY <1>2, <1>3, <1>4

LEMMA RetryGrounded ==
  ASSUME Inv, NEW r \in Requests, Retry(r)
  PROVE  DetailsMatch' /\ LooksAtCurrent' /\ RetryHasCleared'
<1> DEFINE p == [Idle EXCEPT !.pc = "delete", !.task = "retry", !.seen = rows]
<1>1. Goes(r, p, {"retry"}) /\ {"retry"} \in SUBSET Tasks /\ p \in RequestStates
      /\ p.pc = "delete"
  BY IdleType DEF Retry, Inv, TypeOK, RequestStates, Tasks, Idle
<1>2. \A f \in Images : files'.detail[f] = 0
  BY DEF Retry, Cleared, NoFiles
<1> HIDE DEF p
<1>3. ASSUME NEW s \in Requests, procs'[s].pc = "call"
      PROVE  "retry" \in procs'[s].past
  <2>1. procs'[r] = p
    BY <1>1, GoesKeeps DEF Inv, TypeOK
  <2>2. s # r
    BY <1>1, <1>3, <2>1
  <2>3. /\ Kept(procs'[s], procs[s])
        /\ procs[s].pc # "idle" =>
             \A k \in {"retry"} : {k, procs[s].task} \in Harmful => k \in procs'[s].past
    BY <1>1, <2>2, GoesKeeps DEF Inv, TypeOK
  <2>4. procs[s].pc = "call" /\ procs[s].task = "observe"
    BY <1>3, <2>3 DEF Kept, Inv, Held, Fits
  <2> QED
    BY <2>3, <2>4, ObserveRetry
<1> QED
  BY <1>2, <1>3 DEF DetailsMatch, LooksAtCurrent, RetryHasCleared

\* A reading stores images where no observation is, and whoever is looking at an
\* image misses it.
LEMMA StoresGrounded ==
  ASSUME Inv, Started, RetryHasCleared, NEW r \in Requests, StoresResources(r), Quiet'
  PROVE  DetailsMatch' /\ LooksAtCurrent' /\ RetryHasCleared'
<1> DEFINE p == IF procs[r].task = "create" THEN Idle
                ELSE [Idle EXCEPT !.pc = "respond", !.task = "retry"]
<1>1. /\ procs[r].pc = "store" /\ procs[r].task \in {"create", "retry"}
      /\ Writes(r, procs[r].task)
  BY DEF StoresResources, Inv, Held, Fits
<1>2. Goes(r, p, {"retry"}) /\ {"retry"} \in SUBSET Tasks /\ p \in RequestStates
      /\ p.pc \in {"idle", "respond"}
  BY IdleType DEF StoresResources, EndsReading, RequestStates, Tasks, Idle
<1>3. \A f \in Images : files'.detail[f] = 0
  <2>1. files'.detail = files.detail
    BY StoresWhat
  <2>2. CASE procs[r].task = "create"
    BY <1>1, <2>1, <2>2 DEF Started, CreatesAlone, NothingYet
  <2>3. CASE procs[r].task = "retry"
    <3>1. "observe" \notin procs[r].past
      <4> SUFFICES ASSUME "observe" \in procs[r].past PROVE FALSE
        OBVIOUS
      <4>1. {"retry", "observe"} \in crossed'
        BY <1>1, <2>3, ObserveRetry, WritesCross
      <4> QED
        BY <4>1, ObserveRetry DEF Quiet, Crossed
    <3> QED
      BY <1>1, <2>1, <2>3, <3>1 DEF RetryHasCleared
  <2> QED
    BY <1>1, <2>2, <2>3
<1> HIDE DEF p
<1>4. ASSUME NEW s \in Requests, procs'[s].pc = "call"
      PROVE  "retry" \in procs'[s].past
  <2>1. procs'[r] = p
    BY <1>2, GoesKeeps DEF Inv, TypeOK
  <2>2. s # r
    BY <1>2, <1>4, <2>1
  <2>3. /\ Kept(procs'[s], procs[s])
        /\ procs[s].pc # "idle" =>
             \A k \in {"retry"} : {k, procs[s].task} \in Harmful => k \in procs'[s].past
    BY <1>2, <2>2, GoesKeeps DEF Inv, TypeOK
  <2>4. procs[s].pc = "call" /\ procs[s].task = "observe"
    BY <1>4, <2>3 DEF Kept, Inv, Held, Fits
  <2> QED
    BY <2>3, <2>4, ObserveRetry
<1> QED
  BY <1>3, <1>4 DEF DetailsMatch, LooksAtCurrent, RetryHasCleared

\* An observation is of the image there is, and a retry at work misses it.
LEMMA UpsertsGrounded ==
  ASSUME Inv, DetailsMatch, LooksAtCurrent, NEW r \in Requests, Upserts(r), Quiet'
  PROVE  DetailsMatch' /\ LooksAtCurrent' /\ RetryHasCleared'
<1> DEFINE p == [procs[r] EXCEPT !.pc = "flush"]
           f == procs[r].ref
<1>1. /\ procs[r].pc = "call" /\ procs[r].task = "observe" /\ f \in Images
      /\ procs[r] \in RequestStates /\ files \in Files
      /\ Writes(r, "observe") /\ files' = [files EXCEPT !.detail[f] = procs[r].image]
  BY DEF Upserts, Inv, TypeOK, Held, Fits
<1>2. Goes(r, p, {"observe"}) /\ {"observe"} \in SUBSET Tasks /\ p \in RequestStates
      /\ p.pc = "flush"
  BY <1>1 DEF Upserts, RequestStates, Tasks
<1>3. "retry" \notin procs[r].past
  <2> SUFFICES ASSUME "retry" \in procs[r].past PROVE FALSE
    OBVIOUS
  <2>1. {"observe", "retry"} \in crossed'
    BY <1>1, ObserveRetry, WritesCross
  <2> QED
    BY <2>1, ObserveRetry DEF Quiet, Crossed
<1>4. procs[r].image = files.image[f]
  BY <1>1, <1>3 DEF LooksAtCurrent
<1>5. /\ files'.image = files.image
      /\ \A g \in Images : files'.detail[g] = IF g = f THEN procs[r].image ELSE files.detail[g]
  <2>1. files' = [files EXCEPT !.detail = [files.detail EXCEPT ![f] = procs[r].image]]
    BY <1>1
  <2>2. files'.image = files.image /\ files'.detail = [files.detail EXCEPT ![f] = procs[r].image]
    BY <1>1, <2>1 DEF Files
  <2>3. files.detail \in [Images -> 0..MaxReads]
    BY <1>1 DEF Files
  <2> QED
    BY <2>2, <2>3
<1> HIDE DEF p, f
<1>6. procs'[r] = p /\ \A s \in Requests \ {r} :
        /\ Kept(procs'[s], procs[s])
        /\ procs[s].pc # "idle" =>
             \A k \in {"observe"} : {k, procs[s].task} \in Harmful => k \in procs'[s].past
  BY <1>2, GoesKeeps DEF Inv, TypeOK
<1>7. DetailsMatch'
  BY <1>4, <1>5 DEF DetailsMatch
<1>8. LooksAtCurrent'
  <2> SUFFICES ASSUME NEW s \in Requests, procs'[s].pc = "call", "retry" \notin procs'[s].past
               PROVE  procs'[s].image = files'.image[procs'[s].ref]
    BY DEF LooksAtCurrent
  <2>1. s # r
    BY <1>2, <1>6
  <2>2. /\ procs[s].pc = "call" /\ "retry" \notin procs[s].past
        /\ procs'[s].image = procs[s].image /\ procs'[s].ref = procs[s].ref
    BY <1>6, <2>1 DEF Kept
  <2> QED
    BY <1>5, <2>2 DEF LooksAtCurrent
<1>9. RetryHasCleared'
  <2> SUFFICES ASSUME NEW s \in Requests, procs'[s].pc \in {"delete", "read", "store"},
                      procs'[s].task = "retry"
               PROVE  "observe" \in procs'[s].past
    BY DEF RetryHasCleared
  <2>1. s # r
    BY <1>2, <1>6
  <2>2. procs[s].pc # "idle" /\ procs[s].task = "retry"
    BY <1>6, <2>1 DEF Kept
  <2> QED
    BY <1>6, <2>1, <2>2, ObserveRetry
<1> QED
  BY <1>7, <1>8, <1>9

LEMMA ReadingGrounded ==
  ASSUME Inv, Started, DetailsMatch, LooksAtCurrent, RetryHasCleared, Quiet',
         NEW r \in Requests,
         \/ Create(r) \/ Retry(r) \/ DeletesResources(r) \/ ReadFails(r) \/ ReadRaises(r)
         \/ ReadsSource(r) \/ StoresResources(r)
  PROVE  DetailsMatch' /\ LooksAtCurrent' /\ RetryHasCleared'
<1>1. rows \in Rows /\ files \in Files /\ procs[r] \in RequestStates
  BY DEF Inv, TypeOK
<1>2. CASE Create(r)
  <2> DEFINE p == [Idle EXCEPT !.pc = "read", !.task = "create", !.seen = draft']
  <2>1. /\ Goes(r, p, {})
        /\ draft' = [rows EXCEPT !.run = [status |-> "reading", token |-> kind = "local_file"]]
        /\ files' = [files EXCEPT !.upload = files.upload \/ kind = "local_file"]
    BY <1>2 DEF Create
  <2>2. draft' \in Rows
    BY <1>1, <2>1 DEF Rows, Runs
  <2>3. p \in RequestStates /\ p.pc = "read" /\ p.task = "create"
    BY <2>2, IdleType DEF RequestStates, Tasks, Idle
  <2>4. files'.image = files.image /\ files'.detail = files.detail
    BY <1>1, <2>1 DEF Files
  <2> HIDE DEF p
  <2> QED
    BY <2>1, <2>3, <2>4, SameFilesGrounded
<1>3. CASE DeletesResources(r)
  <2> DEFINE p == [procs[r] EXCEPT !.pc = "read"]
  <2>1. Goes(r, p, {}) /\ files' = files /\ procs[r].pc = "delete" /\ procs[r].task = "retry"
    BY <1>3 DEF DeletesResources, Inv, Held, Fits
  <2>2. p \in RequestStates /\ p.pc = "read" /\ p.past = procs[r].past
    BY <1>1 DEF RequestStates
  <2> HIDE DEF p
  <2> QED
    BY <2>1, <2>2, SameFilesGrounded
<1>4. CASE ReadsSource(r)
  <2> DEFINE p == [procs[r] EXCEPT !.pc = "store"]
  <2>1. Goes(r, p, {}) /\ files' = [files EXCEPT !.source = TRUE] /\ procs[r].pc = "read"
    BY <1>4 DEF ReadsSource
  <2>2. /\ p \in RequestStates /\ p.pc = "store" /\ p.past = procs[r].past
        /\ p.task = procs[r].task
    BY <1>1 DEF RequestStates
  <2>3. files'.image = files.image /\ files'.detail = files.detail
    BY <1>1, <2>1 DEF Files
  <2> HIDE DEF p
  <2> QED
    BY <2>1, <2>2, <2>3, SameFilesGrounded
<1>5. CASE ReadFails(r)
  <2> DEFINE p == IF procs[r].task = "create" THEN Idle
                  ELSE [Idle EXCEPT !.pc = "respond", !.task = "retry"]
  <2>1. /\ Goes(r, p, {"retry"}) /\ {"retry"} \in SUBSET Tasks /\ p \in RequestStates
        /\ p.pc \in {"idle", "respond"} /\ files' = files
    BY <1>5, IdleType DEF ReadFails, EndsReading, RequestStates, Tasks, Idle
  <2> HIDE DEF p
  <2> QED
    BY <2>1, SameFilesGrounded
<1>6. CASE ReadRaises(r)
  <2>1. Goes(r, Idle, {}) /\ Idle.pc = "idle"
    BY <1>6 DEF ReadRaises, RollBack, Idle
  <2>2. CASE files' = files
    BY <2>1, <2>2, IdleType, SameFilesGrounded
  <2>3. CASE files' # files
    <3>1. files' = NoFiles /\ procs[r].task = "create" /\ procs[r].pc = "read"
      BY <1>6, <2>3 DEF ReadRaises
    <3>2. \A f \in Images : files.image[f] = 0 /\ files.detail[f] = 0
      BY <3>1 DEF Started, CreatesAlone, NothingYet
    <3>3. files'.image = files.image /\ files'.detail = files.detail
      BY <1>1, <3>1, <3>2 DEF NoFiles, Files
    <3> QED
      BY <2>1, <3>3, IdleType, SameFilesGrounded
  <2> QED
    BY <2>2, <2>3
<1> QED
  BY <1>2, <1>3, <1>4, <1>5, <1>6, RetryGrounded, StoresGrounded

LEMMA LaterGrounded ==
  ASSUME Inv, SweepsExpired, DetailsMatch, LooksAtCurrent, RetryHasCleared, Quiet', NEW r \in Requests,
         \/ Visit(r) \/ Upserts(r) \/ CallFails(r) \/ FlushFails(r) \/ ScrubFails(r)
         \/ GivesUp(r) \/ Flushes(r) \/ Responds(r) \/ Sweeps(r) \/ Scrubs(r)
         \/ \E f \in Images : Observe(r, f)
         \/ \E f \in Images, task \in {"adopt", "revoke"} : Judge(r, f, task)
  PROVE  DetailsMatch' /\ LooksAtCurrent' /\ RetryHasCleared'
<1>1. rows \in Rows /\ files \in Files /\ procs[r] \in RequestStates
  BY DEF Inv, TypeOK
<1>2. ASSUME NEW touches \in SUBSET Tasks, Goes(r, Idle, touches),
             files'.image = files.image, files'.detail = files.detail
      PROVE  DetailsMatch' /\ LooksAtCurrent' /\ RetryHasCleared'
  <2>1. Idle.pc = "idle"
    BY DEF Idle
  <2> QED
    BY <1>2, <2>1, IdleType, SameFilesGrounded
<1>3. CASE CallFails(r) \/ FlushFails(r) \/ ScrubFails(r) \/ GivesUp(r) \/ Scrubs(r)
  <2>1. files' = files /\ (Goes(r, Idle, {}) \/ Goes(r, Idle, {"clean"})) /\ {"clean"} \in SUBSET Tasks
    BY <1>3 DEF CallFails, FlushFails, ScrubFails, GivesUp, Scrubs, RollBack, Tasks
  <2> QED
    BY <1>2, <2>1
<1>4. ASSUME NEW run \in Runs, Gathers(r, run), overdue
      PROVE  FALSE
  BY <1>4 DEF Gathers, Quiet
<1>5. CASE Visit(r)
  BY <1>1, <1>4, <1>5 DEF Visit, NeedsCleaning, Rows
<1>6. CASE Responds(r)
  <2> DEFINE run == IF procs[r].seen = NoRows THEN rows.run ELSE procs[r].seen.run
  <2>1. run \in Runs
    BY <1>1 DEF RequestStates, Rows
  <2>2. ~(NeedsCleaning(run) /\ Gathers(r, run))
    BY <1>4, <2>1 DEF NeedsCleaning
  <2>3. Goes(r, Idle, {}) /\ files' = files
    BY <1>6, <2>2 DEF Responds
  <2> QED
    BY <1>2, <2>3
<1>7. CASE Flushes(r)
  <2>1. files' = [files EXCEPT !.index = files.index \/ procs[r].task # "observe"]
    BY <1>7 DEF Flushes
  <2>2. files'.image = files.image /\ files'.detail = files.detail
    BY <1>1, <2>1 DEF Files
  <2>3. Goes(r, Idle, {procs[r].task}) /\ {procs[r].task} \in SUBSET Tasks
    BY <1>1, <1>7 DEF Flushes, Quiet, Inv, Held, Fits, Tasks
  <2> QED
    BY <1>2, <2>2, <2>3
<1>8. ASSUME NEW f \in Images, Observe(r, f)
      PROVE  DetailsMatch' /\ LooksAtCurrent' /\ RetryHasCleared'
  <2> DEFINE p == [Idle EXCEPT !.pc = "call", !.task = "observe", !.ref = f, !.seen = rows,
                               !.image = files.image[f]]
  <2>1. files.image[f] \in 0..MaxReads
    BY <1>1 DEF Files
  <2>2. p \in RequestStates /\ p.pc = "call" /\ p.image = files.image[p.ref]
    BY <1>1, <2>1, IdleType DEF RequestStates, Tasks, Idle
  <2>3. Goes(r, p, {}) /\ files' = files
    BY <1>8 DEF Observe
  <2> HIDE DEF p
  <2> QED
    BY <2>2, <2>3, SameFilesGrounded
<1>9. ASSUME NEW f \in Images, NEW task \in {"adopt", "revoke"}, Judge(r, f, task)
      PROVE  DetailsMatch' /\ LooksAtCurrent' /\ RetryHasCleared'
  <2> DEFINE p == [Idle EXCEPT !.pc = "flush", !.task = task, !.ref = f, !.seen = rows]
  <2>1. p \in RequestStates /\ p.pc = "flush"
    BY <1>1, IdleType DEF RequestStates, Tasks, Idle
  <2>2. Goes(r, p, {}) /\ files' = files
    BY <1>9 DEF Judge
  <2> HIDE DEF p
  <2> QED
    BY <2>1, <2>2, SameFilesGrounded
<1>10. CASE Sweeps(r)
  BY <1>10 DEF Sweeps, SweepsExpired, Quiet
<1> QED
  BY <1>3, <1>5, <1>6, <1>7, <1>8, <1>9, <1>10, UpsertsGrounded

LEMMA GroundedStep == Inv /\ Started /\ SweepsExpired /\ Grounded /\ [Next]_vars => Grounded'
<1> SUFFICES ASSUME Inv, Started, SweepsExpired, Grounded, [Next]_vars, Quiet'
             PROVE  DetailsMatch' /\ LooksAtCurrent' /\ RetryHasCleared'
  BY DEF Grounded
<1>1. DetailsMatch /\ LooksAtCurrent /\ RetryHasCleared
  BY QuietBefore DEF Grounded
<1>2. CASE UNCHANGED vars
  BY <1>1, <1>2 DEF vars, DetailsMatch, LooksAtCurrent, RetryHasCleared
<1>3. CASE Expires
  BY <1>3 DEF Expires, Quiet
<1>4. CASE Crash
  <2>1. files' = files /\ \A r \in Requests : procs'[r].pc = "idle"
    BY <1>4 DEF Crash, Idle
  <2> QED
    BY <1>1, <2>1 DEF DetailsMatch, LooksAtCurrent, RetryHasCleared
<1>5. ASSUME NEW r \in Requests, Proceeds(r)
      PROVE  DetailsMatch' /\ LooksAtCurrent' /\ RetryHasCleared'
  BY <1>1, <1>5, ReadingGrounded, LaterGrounded DEF Proceeds
<1> QED
  BY <1>1, <1>2, <1>3, <1>4, <1>5, ReadingGrounded, LaterGrounded DEF Next

\* An observation that passes the validation describes the image the run holds, of
\* the same reading, whatever else overlaps, fails or crashes, unless a retry
\* overlapped an observation.
THEOREM PassedEvidenceIsGrounded == Spec => []EvidenceIsGrounded
<1>1. Grounded => EvidenceIsGrounded
  <2> SUFFICES ASSUME Grounded, ~Crossed({"observe"}, {"retry"}),
                      NEW f \in Images, PassesValidation(f)
               PROVE  files.detail[f] = files.image[f]
    BY DEF EvidenceIsGrounded
  <2>1. Quiet /\ files.detail[f] # 0
    BY DEF PassesValidation, Usable, Quiet
  <2> QED
    BY <2>1 DEF Grounded, DetailsMatch
<1> QED
  BY <1>1, InvInit, InvStep, StartedInit, StartedStep, SweepsExpiredInit,
     SweepsExpiredStep, GroundedInit, GroundedStep, PTL DEF Spec

-----------------------------------------------------------------------------
(* A ready run can be read, or read again *)

\* The run has not expired, and no two retries crossed.
Still == ~overdue /\ ~Crossed({"retry"}, {"retry"})

\* An upload is there from the creation on.
UploadKept ==
  kind = "local_file" /\ (rows.run.status # "none" \/ lock # NoOne) => files.upload

StoreHasSource == \A r \in Requests : procs[r].pc = "store" => files.source
ReadyHasSource == rows.run.status = "ready" => files.source \/ HasFailedResource

\* Only a reading has changed the run or its resources before its commit.
DraftsSame ==
  \A r \in Requests : lock = r /\ procs[r].pc \notin {"read", "store"} =>
    draft.run = rows.run /\ draft.res = rows.res

Readable == Still => UploadKept /\ StoreHasSource /\ ReadyHasSource /\ DraftsSame

LEMMA ReadableInit == Init => Readable
BY DEF Init, Readable, UploadKept, StoreHasSource, ReadyHasSource, DraftsSame, Idle

LEMMA RetryRetry ==
  /\ {"retry"} \in Harmful /\ {"retry", "retry"} = {"retry"}
  /\ Crossed({"retry"}, {"retry"}) <=> {"retry"} \in crossed
<1>1. {"retry", "retry"} = {"retry"}
  OBVIOUS
<1> QED
  BY <1>1 DEF Harmful, Crossed

LEMMA StillBefore ==
  ASSUME [Next]_vars, Still'
  PROVE  Still
BY CrossingsStay, RetryRetry DEF Still, Crossed

\* Steps that leave the committed rows, the upload and the source alone. If r's
\* transaction stays open, or opens, it has changed the rows only for a reading.
LEMMA SameRowsReadable ==
  ASSUME Inv, UploadKept, StoreHasSource, ReadyHasSource, DraftsSame,
         NEW r \in Requests, NEW p \in RequestStates, NEW touches \in SUBSET Tasks,
         Goes(r, p, touches), rows' = rows, kind' = kind,
         files'.upload = files.upload, files.source => files'.source,
         p.pc = "store" => files'.source,
         \/ /\ lock' = lock /\ draft' = draft
            /\ p.pc \in {"read", "store"} \/ procs[r].pc \notin {"read", "store"}
         \/ lock \in {NoOne, r} /\ lock' = NoOne
         \/ /\ lock = NoOne /\ lock' = r /\ rows.run.status # "none"
            /\ p.pc = "read" \/ (draft'.run = rows.run /\ draft'.res = rows.res)
  PROVE  UploadKept' /\ StoreHasSource' /\ ReadyHasSource' /\ DraftsSame'
<1>1. procs'[r] = p /\ \A s \in Requests \ {r} : Kept(procs'[s], procs[s])
  BY GoesKeeps DEF Inv, TypeOK
<1>2. UploadKept'
  BY DEF UploadKept
<1>3. StoreHasSource'
  BY <1>1 DEF StoreHasSource, Kept
<1>4. ReadyHasSource'
  BY DEF ReadyHasSource, HasFailedResource
<1>5. DraftsSame'
  BY <1>1 DEF DraftsSame, Kept
<1> QED
  BY <1>2, <1>3, <1>4, <1>5

\* Steps that commit: nobody else held the lock.
LEMMA CommitReadable ==
  ASSUME Inv, UploadKept, StoreHasSource, NEW r \in Requests, NEW p \in RequestStates,
         NEW touches \in SUBSET Tasks, NEW new,
         Goes(r, p, touches), CommitsRows(r, new), kind' = kind,
         files'.upload = files.upload, files'.source = files.source,
         lock = r \/ rows.run.status # "none", p.pc # "store",
         new.run.status = "ready" => files.source \/ HasFailedResource'
  PROVE  UploadKept' /\ StoreHasSource' /\ ReadyHasSource' /\ DraftsSame'
<1>1. procs'[r] = p /\ \A s \in Requests \ {r} : Kept(procs'[s], procs[s])
  BY GoesKeeps DEF Inv, TypeOK
<1>2. rows' = new /\ lock' = NoOne /\ r # NoOne
  BY DEF CommitsRows
<1>3. UploadKept'
  BY <1>2 DEF UploadKept
<1>4. StoreHasSource'
  BY <1>1 DEF StoreHasSource, Kept
<1>5. ReadyHasSource' /\ DraftsSame'
  BY <1>2 DEF ReadyHasSource, DraftsSame
<1> QED
  BY <1>3, <1>4, <1>5

\* A retry clears the source of a run that can be retried; whoever was reading
\* the source for another retry is crossed.
LEMMA RetryReadable ==
  ASSUME Inv, Started, UploadKept, ReadyHasSource, DraftsSame,
         NEW r \in Requests, Retry(r), Still'
  PROVE  UploadKept' /\ StoreHasSource' /\ ReadyHasSource' /\ DraftsSame'
<1> DEFINE p == [Idle EXCEPT !.pc = "delete", !.task = "retry", !.seen = rows]
<1>1. /\ Goes(r, p, {"retry"}) /\ UNCHANGED <<kind, rows, lock, draft>> /\ Retryable
      /\ procs[r].pc = "idle" /\ files' = Cleared /\ Writes(r, "retry")
  BY DEF Retry
<1>2. p \in RequestStates /\ p.pc = "delete" /\ {"retry"} \in SUBSET Tasks
  BY IdleType DEF Inv, TypeOK, RequestStates, Tasks, Idle
<1> HIDE DEF p
<1>3. procs'[r] = p /\ \A s \in Requests \ {r} : Kept(procs'[s], procs[s])
  BY <1>1, <1>2, GoesKeeps DEF Inv, TypeOK
<1>4. rows.run.status \in {"failed", "ready"} /\ (rows.run.status = "ready" => HasFailedResource)
  BY <1>1 DEF Retryable
<1>5. kind = "local_file" => files'.upload
  <2>1. files'.upload = (files.upload /\ kind = "local_file")
    BY <1>1 DEF Cleared, NoFiles
  <2> QED
    BY <1>4, <2>1 DEF UploadKept
<1>6. UploadKept' /\ ReadyHasSource'
  BY <1>1, <1>4, <1>5 DEF UploadKept, ReadyHasSource, HasFailedResource
<1>7. StoreHasSource'
  <2> SUFFICES ASSUME NEW s \in Requests, procs'[s].pc = "store" PROVE FALSE
    BY DEF StoreHasSource
  <2>1. s # r /\ procs[s].pc = "store"
    BY <1>2, <1>3 DEF Kept
  <2>2. lock = s /\ procs[s].task = "retry"
    BY <1>4, <2>1 DEF Inv, Held, Fits, Started, CreatesAlone
  <2>3. {"retry", procs[s].task} \in crossed'
    BY <1>1, <2>1, <2>2, RetryRetry DEF Writes
  <2> QED
    BY <2>2, <2>3, RetryRetry DEF Still, Crossed
<1>8. DraftsSame'
  BY <1>1, <1>2, <1>3 DEF DraftsSame, Kept
<1> QED
  BY <1>6, <1>7, <1>8

LEMMA CreateReadable ==
  ASSUME Inv, Started, NEW r \in Requests, Create(r)
  PROVE  UploadKept' /\ StoreHasSource' /\ ReadyHasSource' /\ DraftsSame'
<1> DEFINE p == [Idle EXCEPT !.pc = "read", !.task = "create", !.seen = draft']
<1>1. /\ lock = NoOne /\ lock' = r /\ Goes(r, p, {}) /\ rows' = rows /\ kind' = kind
      /\ rows.run.status = "none" /\ rows \in Rows /\ files \in Files
      /\ draft' = [rows EXCEPT !.run = [status |-> "reading", token |-> kind = "local_file"]]
      /\ files' = [files EXCEPT !.upload = files.upload \/ kind = "local_file"]
  BY DEF Create, Inv, TypeOK
<1>2. \A s \in Requests \ {r} : procs[s].pc = "idle"
  BY <1>1 DEF Started, NothingYet, CreatesAlone
<1>3. draft' \in Rows
  BY <1>1 DEF Rows, Runs
<1>4. p \in RequestStates /\ p.pc = "read"
  BY <1>3, IdleType DEF RequestStates, Tasks, Idle
<1>5. kind = "local_file" => files'.upload
  BY <1>1 DEF Files
<1> HIDE DEF p
<1>6. procs'[r] = p /\ \A s \in Requests \ {r} : procs'[s].pc = "idle"
  BY <1>1, <1>2, <1>4, GoesKeeps DEF Inv, TypeOK, Kept
<1> QED
  BY <1>1, <1>4, <1>5, <1>6 DEF UploadKept, StoreHasSource, ReadyHasSource, DraftsSame

LEMMA ReadingReadable ==
  ASSUME Inv, Started, UploadKept, StoreHasSource, ReadyHasSource, DraftsSame,
         NEW r \in Requests,
         ReadFails(r) \/ ReadRaises(r) \/ ReadsSource(r) \/ StoresResources(r)
  PROVE  UploadKept' /\ StoreHasSource' /\ ReadyHasSource' /\ DraftsSame'
<1>1. /\ procs[r].pc \in {"read", "store"} /\ lock = r /\ draft \in Rows /\ files \in Files
      /\ procs[r] \in RequestStates /\ lock # NoOne
  BY DEF ReadFails, ReadRaises, ReadsSource, StoresResources, Inv, Held, TypeOK
<1>2. ASSUME NEW new, EndsReading(r, new), kind' = kind,
             files'.upload = files.upload, files'.source = files.source,
             new.run.status = "ready" => files.source
      PROVE  UploadKept' /\ StoreHasSource' /\ ReadyHasSource' /\ DraftsSame'
  <2> DEFINE p == IF procs[r].task = "create" THEN Idle
                  ELSE [Idle EXCEPT !.pc = "respond", !.task = "retry"]
  <2>1. /\ Goes(r, p, {"retry"}) /\ CommitsRows(r, new) /\ {"retry"} \in SUBSET Tasks
        /\ p \in RequestStates /\ p.pc \in {"idle", "respond"}
    BY <1>2, IdleType DEF EndsReading, RequestStates, Tasks, Idle
  <2> HIDE DEF p
  <2> QED
    BY <1>1, <1>2, <2>1, CommitReadable
<1>3. CASE ReadFails(r)
  <2> DEFINE new == [draft EXCEPT !.run.status = "failed"]
  <2>1. new.run.status = "failed" /\ EndsReading(r, new) /\ UNCHANGED <<kind, files>>
    BY <1>1, <1>3 DEF ReadFails, Rows, Runs
  <2> HIDE DEF new
  <2> QED
    BY <1>2, <2>1
<1>4. CASE ReadRaises(r)
  <2>1. /\ Goes(r, Idle, {}) /\ UNCHANGED <<kind, rows>> /\ lock' = NoOne
        /\ Idle.pc = "idle" /\ Idle \in RequestStates
    BY <1>1, <1>4, IdleType DEF ReadRaises, RollBack, Release, Idle
  <2>2. CASE files' = files
    BY <1>1, <2>1, <2>2, SameRowsReadable
  <2>3. CASE files' # files
    <3>1. procs[r].task = "create"
      BY <1>4, <2>3 DEF ReadRaises
    <3>2. rows.run.status = "none" /\ \A s \in Requests \ {r} : procs[s].pc = "idle"
      BY <1>1, <3>1 DEF Started, CreatesAlone, NothingYet
    <3>3. \A s \in Requests : procs'[s].pc = "idle"
      BY <2>1, <3>2, GoesKeeps DEF Inv, TypeOK, Kept
    <3> QED
      BY <2>1, <3>2, <3>3 DEF UploadKept, StoreHasSource, ReadyHasSource, DraftsSame
  <2> QED
    BY <2>2, <2>3
<1>5. CASE ReadsSource(r)
  <2> DEFINE p == [procs[r] EXCEPT !.pc = "store"]
  <2>1. /\ Goes(r, p, {}) /\ UNCHANGED <<kind, rows, lock, draft>>
        /\ files' = [files EXCEPT !.source = TRUE]
    BY <1>5 DEF ReadsSource
  <2>2. p \in RequestStates /\ p.pc = "store"
    BY <1>1 DEF RequestStates
  <2>3. files'.upload = files.upload /\ files'.source
    BY <1>1, <2>1 DEF Files
  <2> HIDE DEF p
  <2> QED
    BY <2>1, <2>2, <2>3, SameRowsReadable
<1>6. CASE StoresResources(r)
  <2>1. PICK new \in Rows : EndsReading(r, new)
    BY <1>6, StoresWhat
  <2>2. PICK image : files' = [files EXCEPT !.image = image]
    BY <1>6 DEF StoresResources
  <2>3. files'.upload = files.upload /\ files'.source = files.source
    BY <1>1, <2>2 DEF Files
  <2>4. kind' = kind /\ files.source
    BY <1>6 DEF StoresResources, StoreHasSource
  <2> QED
    BY <1>2, <2>1, <2>3, <2>4
<1> QED
  BY <1>3, <1>4, <1>5, <1>6

\* A flush changes no run, and of a resource only its status.
LEMMA FlushesReadable ==
  ASSUME Inv, Started, UploadKept, StoreHasSource, ReadyHasSource, DraftsSame,
         NEW r \in Requests, Flushes(r), ~overdue
  PROVE  UploadKept' /\ StoreHasSource' /\ ReadyHasSource' /\ DraftsSame'
<1>1. /\ procs[r].pc = "flush" /\ RowsAreThere(r) /\ lock \in {NoOne, r}
      /\ CommitsRows(r, Flushed(r)) /\ Goes(r, Idle, {procs[r].task}) /\ kind' = kind
      /\ files' = [files EXCEPT !.index = files.index \/ procs[r].task # "observe"]
  BY DEF Flushes
<1>2. /\ procs[r].task \in {"observe", "adopt", "revoke"} /\ files \in Files
      /\ rows.run.status # "none"
  BY <1>1, BusyIsLater DEF Inv, TypeOK, Held, Fits
<1>3. files'.upload = files.upload /\ files'.source = files.source
  BY <1>1, <1>2 DEF Files
<1>4. View(r).run = rows.run /\ View(r).res = rows.res /\ View(r) \in Rows
  BY <1>1, ViewType DEF View, DraftsSame
<1>5. Flushed(r) \in Rows /\ Flushed(r).run = rows.run
  BY <1>1, <1>4, FlushedType
<1>6. HasFailedResource => HasFailedResource'
  <2> SUFFICES ASSUME NEW i \in Ids, rows.res[i] # NoRow, rows.res[i].download = "failed"
               PROVE  Flushed(r).res[i] # NoRow /\ Flushed(r).res[i].download = "failed"
    BY <1>1 DEF HasFailedResource, CommitsRows
  <2>1. rows.res[i] \in Resources
    BY DEF Inv, TypeOK, Rows
  <2>2. PICK status \in {"observed", "adopted", rows.res[i].status} :
          Flushed(r).res[i] \in {rows.res[i], [rows.res[i] EXCEPT !.status = status]}
    BY <1>4 DEF Flushed, Put
  <2>3. Flushed(r).res[i] \in Resources /\ Flushed(r).res[i].download = "failed"
    BY <2>1, <2>2 DEF Resources
  <2> QED
    BY <2>3
<1>7. Idle.pc = "idle" /\ {procs[r].task} \in SUBSET Tasks
  BY <1>2 DEF Idle, Tasks
<1> QED
  BY <1>1, <1>2, <1>3, <1>5, <1>6, <1>7, IdleType, CommitReadable DEF ReadyHasSource

LEMMA LaterReadable ==
  ASSUME Inv, Started, UploadKept, StoreHasSource, ReadyHasSource, DraftsSame, Still,
         SweepsExpired, NEW r \in Requests,
         \/ DeletesResources(r) \/ Visit(r) \/ Upserts(r) \/ CallFails(r) \/ FlushFails(r)
         \/ ScrubFails(r) \/ GivesUp(r) \/ Flushes(r) \/ Responds(r) \/ Sweeps(r) \/ Scrubs(r)
         \/ \E f \in Images : Observe(r, f)
         \/ \E f \in Images, task \in {"adopt", "revoke"} : Judge(r, f, task)
  PROVE  UploadKept' /\ StoreHasSource' /\ ReadyHasSource' /\ DraftsSame'
<1>1. rows \in Rows /\ files \in Files /\ procs[r] \in RequestStates
  BY DEF Inv, TypeOK
<1>2. Idle.pc = "idle" /\ Idle \in RequestStates
  BY IdleType DEF Idle
<1>3. ASSUME procs[r].pc \in {"delete", "call", "flush", "respond", "sweep", "scrub"}
      PROVE  rows.run.status # "none"
  <2>1. procs[r].task # "create"
    BY <1>3 DEF Started, CreatesAlone
  <2> QED
    BY <1>3, <2>1, BusyIsLater
<1>4. CASE DeletesResources(r)
  <2> DEFINE p == [procs[r] EXCEPT !.pc = "read"]
  <2>1. /\ Goes(r, p, {}) /\ UNCHANGED <<kind, rows, files>> /\ lock = NoOne /\ lock' = r
        /\ rows.run.status # "none"
    BY <1>3, <1>4 DEF DeletesResources
  <2>2. p \in RequestStates /\ p.pc = "read"
    BY <1>1 DEF RequestStates
  <2> HIDE DEF p
  <2> QED
    BY <2>1, <2>2, SameRowsReadable
<1>5. CASE Upserts(r)
  <2> DEFINE p == [procs[r] EXCEPT !.pc = "flush"]
  <2>1. /\ Goes(r, p, {"observe"}) /\ UNCHANGED <<kind, rows>> /\ procs[r].pc = "call"
        /\ files' = [files EXCEPT !.detail[procs[r].ref] = procs[r].image]
        /\ \/ UNCHANGED <<lock, draft>>
           \/ /\ lock = NoOne /\ lock' = r
              /\ draft' = [rows EXCEPT !.obs[procs[r].ref] =
                             [status |-> "observed", resource |-> Loaded(r)]]
    BY <1>5 DEF Upserts
  <2>2. p \in RequestStates /\ p.pc = "flush" /\ {"observe"} \in SUBSET Tasks
    BY <1>1 DEF RequestStates, Tasks
  <2>3. files'.upload = files.upload /\ files'.source = files.source
    BY <1>1, <2>1 DEF Files
  <2>4. \/ UNCHANGED <<lock, draft>>
        \/ /\ lock = NoOne /\ lock' = r /\ rows.run.status # "none"
           /\ draft'.run = rows.run /\ draft'.res = rows.res
    BY <1>1, <1>3, <2>1 DEF Rows
  <2> HIDE DEF p
  <2> QED
    BY <2>1, <2>2, <2>3, <2>4, SameRowsReadable
<1>6. CASE CallFails(r) \/ FlushFails(r) \/ ScrubFails(r) \/ GivesUp(r)
  <2>1. /\ Goes(r, Idle, {}) /\ Release(r) /\ UNCHANGED <<kind, rows, files>>
        /\ procs[r].pc \in {"call", "flush", "scrub", "delete"}
    BY <1>6 DEF CallFails, FlushFails, ScrubFails, GivesUp, RollBack
  <2>2. \/ lock' = lock /\ draft' = draft
        \/ lock = r /\ lock' = NoOne
    BY <2>1 DEF Release
  <2> QED
    BY <1>2, <2>1, <2>2, SameRowsReadable
<1>7. ASSUME NEW run, NeedsCleaning(run)
      PROVE  FALSE
  BY <1>7 DEF NeedsCleaning, Still
<1>8. CASE Responds(r)
  <2>1. Goes(r, Idle, {}) /\ UNCHANGED <<kind, rows, files, lock, draft>> /\ procs[r].pc = "respond"
    BY <1>7, <1>8 DEF Responds
  <2> QED
    BY <1>2, <2>1, SameRowsReadable
<1>9. CASE Scrubs(r)
  <2>1. /\ Goes(r, Idle, {"clean"}) /\ CommitsRows(r, Scrubbed(r)) /\ UNCHANGED <<kind, files>>
        /\ rows.run.status # "none" /\ {"clean"} \in SUBSET Tasks
        /\ Scrubbed(r).run.status = "cleaned"
    BY <1>3, <1>9, ScrubbedType DEF Scrubs, Tasks
  <2> QED
    BY <1>2, <2>1, CommitReadable
<1>10. ASSUME NEW f \in Images, Observe(r, f)
       PROVE  UploadKept' /\ StoreHasSource' /\ ReadyHasSource' /\ DraftsSame'
  <2> DEFINE p == [Idle EXCEPT !.pc = "call", !.task = "observe", !.ref = f, !.seen = rows,
                               !.image = files.image[f]]
  <2>1. files.image[f] \in 0..MaxReads
    BY <1>1 DEF Files
  <2>2. p \in RequestStates /\ p.pc = "call"
    BY <1>1, <2>1, IdleType DEF RequestStates, Tasks, Idle
  <2>3. Goes(r, p, {}) /\ UNCHANGED <<kind, rows, files, lock, draft>> /\ procs[r].pc = "idle"
    BY <1>10 DEF Observe
  <2> HIDE DEF p
  <2> QED
    BY <2>2, <2>3, SameRowsReadable
<1>11. ASSUME NEW f \in Images, NEW task \in {"adopt", "revoke"}, Judge(r, f, task)
       PROVE  UploadKept' /\ StoreHasSource' /\ ReadyHasSource' /\ DraftsSame'
  <2> DEFINE p == [Idle EXCEPT !.pc = "flush", !.task = task, !.ref = f, !.seen = rows]
  <2>1. p \in RequestStates /\ p.pc = "flush"
    BY <1>1, IdleType DEF RequestStates, Tasks, Idle
  <2>2. Goes(r, p, {}) /\ UNCHANGED <<kind, rows, files, lock, draft>> /\ procs[r].pc = "idle"
    BY <1>11 DEF Judge
  <2> HIDE DEF p
  <2> QED
    BY <2>1, <2>2, SameRowsReadable
<1>12. CASE Flushes(r)
  BY <1>12, FlushesReadable DEF Still
<1>13. CASE Sweeps(r)
  BY <1>13 DEF Sweeps, SweepsExpired, Still
<1> QED
  BY <1>4, <1>5, <1>6, <1>7, <1>8, <1>9, <1>10, <1>11, <1>12, <1>13 DEF Visit

LEMMA ReadableStep == Inv /\ Started /\ SweepsExpired /\ Readable /\ [Next]_vars => Readable'
<1> SUFFICES ASSUME Inv, Started, SweepsExpired, Readable, [Next]_vars, Still'
             PROVE  UploadKept' /\ StoreHasSource' /\ ReadyHasSource' /\ DraftsSame'
  BY DEF Readable
<1>1. Still /\ UploadKept /\ StoreHasSource /\ ReadyHasSource /\ DraftsSame
  BY StillBefore DEF Readable
<1>2. CASE UNCHANGED vars
  BY <1>1, <1>2
     DEF vars, UploadKept, StoreHasSource, ReadyHasSource, HasFailedResource, DraftsSame
<1>3. CASE Expires
  BY <1>3 DEF Expires, Still
<1>4. CASE Crash
  <2>1. /\ UNCHANGED <<kind, rows, files>> /\ lock' = NoOne
        /\ \A r \in Requests : procs'[r].pc = "idle"
    BY <1>4 DEF Crash, Idle
  <2> QED
    BY <1>1, <2>1 DEF UploadKept, StoreHasSource, ReadyHasSource, HasFailedResource, DraftsSame
<1>5. ASSUME NEW r \in Requests, Proceeds(r)
      PROVE  UploadKept' /\ StoreHasSource' /\ ReadyHasSource' /\ DraftsSame'
  BY <1>1, <1>5, ReadingReadable, LaterReadable DEF Proceeds
<1> QED
  BY <1>1, <1>2, <1>3, <1>4, <1>5, CreateReadable, RetryReadable, LaterReadable DEF Next

\* ReadyIsReadable: a ready run's source is there, or a retry can fetch it again,
\* from the upload where that is the source, whatever a retry that failed, gave up
\* or crashed had cleared before.
THEOREM ReadyRunsAreReadable == Spec => []ReadyIsReadable
<1>1. Readable => ReadyIsReadable
  BY DEF Readable, Still, UploadKept, ReadyHasSource, ReadyIsReadable, Retryable
<1> QED
  BY <1>1, InvInit, InvStep, StartedInit, StartedStep, SweepsExpiredInit,
     SweepsExpiredStep, ReadableInit, ReadableStep, PTL DEF Spec

-----------------------------------------------------------------------------
(* What passes is what was adopted *)

\* The run has not expired, and no observation crossed an adoption.
Calm == ~overdue /\ ~Crossed({"observe"}, {"adopt"})

AdoptedIn(view, f) == view.obs[f] # NoRow /\ view.obs[f].status = "adopted"

AdoptedApproved == \A f \in Images : AdoptedIn(rows, f) => f \in approved

\* An image is observed while it is not adopted, or an adoption touched it since.
ObservesUnadopted ==
  \A r \in Requests : procs[r].pc = "call" /\ "adopt" \notin procs[r].past =>
    ~AdoptedIn(rows, procs[r].ref)

RevokesAdopted ==
  \A r \in Requests : procs[r].pc = "flush" /\ procs[r].task = "revoke" =>
    AdoptedIn(procs[r].seen, procs[r].ref)

\* No open transaction adopts: an adoption commits as it writes.
DraftAdopts == lock # NoOne => \A f \in Images : AdoptedIn(draft, f) => AdoptedIn(rows, f)

Approvals ==
  Calm => AdoptedApproved /\ ObservesUnadopted /\ RevokesAdopted /\ DraftAdopts

LEMMA ApprovalsInit == Init => Approvals
BY DEF Init, Approvals, AdoptedApproved, ObservesUnadopted, RevokesAdopted, DraftAdopts,
       AdoptedIn, Idle

LEMMA ObserveAdopt ==
  /\ {"observe", "adopt"} \in Harmful /\ {"adopt", "observe"} = {"observe", "adopt"}
  /\ Crossed({"observe"}, {"adopt"}) <=> {"observe", "adopt"} \in crossed
<1>1. {"adopt", "observe"} = {"observe", "adopt"}
  OBVIOUS
<1> QED
  BY <1>1 DEF Harmful, Crossed

LEMMA CalmBefore ==
  ASSUME [Next]_vars, Calm'
  PROVE  Calm
BY CrossingsStay, ObserveAdopt DEF Calm, Crossed

\* Steps that adopt nothing: what is adopted was adopted before, and stays approved.
LEMMA NothingAdopted ==
  ASSUME Inv, AdoptedApproved, ObservesUnadopted, RevokesAdopted,
         NEW r \in Requests, NEW p \in RequestStates, NEW touches \in SUBSET Tasks,
         Goes(r, p, touches),
         \A f \in Images : AdoptedIn(rows', f) =>
           AdoptedIn(rows, f) /\ (f \in approved => f \in approved'),
         lock' # NoOne => \A f \in Images : AdoptedIn(draft', f) => AdoptedIn(rows', f),
         p.pc = "call" => ~AdoptedIn(rows', p.ref),
         p.pc = "flush" /\ p.task = "revoke" => AdoptedIn(p.seen, p.ref)
  PROVE  AdoptedApproved' /\ ObservesUnadopted' /\ RevokesAdopted' /\ DraftAdopts'
<1>1. procs'[r] = p /\ \A s \in Requests \ {r} : Kept(procs'[s], procs[s])
  BY GoesKeeps DEF Inv, TypeOK
<1>2. \A f \in Images : (AdoptedIn(rows, f)' <=> AdoptedIn(rows', f))
                        /\ (AdoptedIn(draft, f)' <=> AdoptedIn(draft', f))
  BY DEF AdoptedIn
<1>3. AdoptedApproved'
  BY <1>2 DEF AdoptedApproved
<1>4. ASSUME NEW s \in Requests, procs'[s].pc = "call", "adopt" \notin procs'[s].past
      PROVE  ~AdoptedIn(rows', procs'[s].ref)
  <2>1. CASE s = r
    BY <1>1, <1>4, <2>1
  <2>2. CASE s # r
    <3>1. /\ procs[s].pc = "call" /\ "adopt" \notin procs[s].past
          /\ procs'[s].ref = procs[s].ref /\ procs[s].ref \in Images
      BY <1>1, <1>4, <2>2 DEF Kept, Inv, Held, Fits
    <3> QED
      BY <3>1 DEF ObservesUnadopted
  <2> QED
    BY <2>1, <2>2
<1>5. ObservesUnadopted'
  BY <1>4 DEF ObservesUnadopted, AdoptedIn
<1>6. ASSUME NEW s \in Requests, procs'[s].pc = "flush", procs'[s].task = "revoke"
      PROVE  AdoptedIn(procs'[s].seen, procs'[s].ref)
  BY <1>1, <1>6 DEF RevokesAdopted, Kept
<1>7. RevokesAdopted'
  BY <1>6 DEF RevokesAdopted, AdoptedIn
<1>8. DraftAdopts'
  BY <1>2 DEF DraftAdopts
<1> QED
  BY <1>3, <1>5, <1>7, <1>8

\* Of these, the steps that commit nothing and approve as before.
LEMMA SameRowsApproved ==
  ASSUME Inv, AdoptedApproved, ObservesUnadopted, RevokesAdopted, DraftAdopts,
         NEW r \in Requests, NEW p \in RequestStates, NEW touches \in SUBSET Tasks,
         Goes(r, p, touches), rows' = rows, approved' = approved,
         \/ lock' = lock /\ draft' = draft
         \/ lock' = NoOne
         \/ draft'.obs = rows.obs,
         p.pc = "call" => ~AdoptedIn(rows, p.ref),
         p.pc = "flush" /\ p.task = "revoke" => AdoptedIn(p.seen, p.ref)
  PROVE  AdoptedApproved' /\ ObservesUnadopted' /\ RevokesAdopted' /\ DraftAdopts'
<1>1. lock' # NoOne => \A f \in Images : AdoptedIn(draft', f) => AdoptedIn(rows', f)
  <2>1. CASE lock' = lock /\ draft' = draft
    BY <2>1 DEF DraftAdopts
  <2>2. CASE draft'.obs = rows.obs
    BY <2>2 DEF AdoptedIn
  <2> QED
    BY <2>1, <2>2
<1> QED
  BY <1>1, NothingAdopted

\* A commit of r, whose rows adopt nothing the rows it works on did not.
LEMMA CommitApproved ==
  ASSUME Inv, AdoptedApproved, ObservesUnadopted, RevokesAdopted, DraftAdopts,
         NEW r \in Requests, NEW p \in RequestStates, NEW touches \in SUBSET Tasks,
         NEW new, Goes(r, p, touches), CommitsRows(r, new),
         \A f \in Images : AdoptedIn(new, f) =>
           AdoptedIn(View(r), f) /\ (f \in approved => f \in approved'),
         p.pc \notin {"call", "flush"}
  PROVE  AdoptedApproved' /\ ObservesUnadopted' /\ RevokesAdopted' /\ DraftAdopts'
<1>1. rows' = new /\ lock' = NoOne
  BY DEF CommitsRows
<1>2. \A f \in Images : AdoptedIn(View(r), f) => AdoptedIn(rows, f)
  BY DEF View, DraftAdopts
<1> QED
  BY <1>1, <1>2, NothingAdopted

LEMMA ReadingApproved ==
  ASSUME Inv, AdoptedApproved, ObservesUnadopted, RevokesAdopted, DraftAdopts,
         NEW r \in Requests,
         \/ Create(r) \/ Retry(r) \/ DeletesResources(r) \/ ReadFails(r) \/ ReadRaises(r)
         \/ ReadsSource(r) \/ StoresResources(r)
  PROVE  AdoptedApproved' /\ ObservesUnadopted' /\ RevokesAdopted' /\ DraftAdopts'
<1>1. rows \in Rows /\ procs[r] \in RequestStates
  BY DEF Inv, TypeOK
<1>2. CASE Create(r)
  <2> DEFINE p == [Idle EXCEPT !.pc = "read", !.task = "create", !.seen = draft']
  <2>1. /\ Goes(r, p, {}) /\ UNCHANGED <<rows, approved>>
        /\ draft' = [rows EXCEPT !.run = [status |-> "reading", token |-> kind = "local_file"]]
    BY <1>2 DEF Create
  <2>2. draft' \in Rows /\ draft'.obs = rows.obs
    BY <1>1, <2>1 DEF Rows, Runs
  <2>3. p \in RequestStates /\ p.pc = "read"
    BY <2>2, IdleType DEF RequestStates, Tasks, Idle
  <2> HIDE DEF p
  <2> QED
    BY <2>1, <2>2, <2>3, SameRowsApproved
<1>3. CASE Retry(r)
  <2> DEFINE p == [Idle EXCEPT !.pc = "delete", !.task = "retry", !.seen = rows]
  <2>1. /\ Goes(r, p, {"retry"}) /\ UNCHANGED <<rows, lock, draft, approved>>
        /\ {"retry"} \in SUBSET Tasks
    BY <1>3 DEF Retry, Tasks
  <2>2. p \in RequestStates /\ p.pc = "delete"
    BY <1>1, IdleType DEF RequestStates, Tasks, Idle
  <2> HIDE DEF p
  <2> QED
    BY <2>1, <2>2, SameRowsApproved
<1>4. CASE DeletesResources(r)
  <2> DEFINE p == [procs[r] EXCEPT !.pc = "read"]
  <2>1. /\ Goes(r, p, {}) /\ UNCHANGED <<rows, approved>>
        /\ draft' = [rows EXCEPT !.res = [i \in Ids |-> NoRow]]
    BY <1>4 DEF DeletesResources
  <2>2. draft'.obs = rows.obs
    BY <1>1, <2>1 DEF Rows
  <2>3. p \in RequestStates /\ p.pc = "read"
    BY <1>1 DEF RequestStates
  <2> HIDE DEF p
  <2> QED
    BY <2>1, <2>2, <2>3, SameRowsApproved
<1>5. CASE ReadsSource(r)
  <2> DEFINE p == [procs[r] EXCEPT !.pc = "store"]
  <2>1. Goes(r, p, {}) /\ UNCHANGED <<rows, lock, draft, approved>>
    BY <1>5 DEF ReadsSource
  <2>2. p \in RequestStates /\ p.pc = "store"
    BY <1>1 DEF RequestStates
  <2> HIDE DEF p
  <2> QED
    BY <2>1, <2>2, SameRowsApproved
<1>6. CASE ReadRaises(r)
  <2>1. /\ Goes(r, Idle, {}) /\ UNCHANGED <<rows, approved>>
        /\ (lock' = lock /\ draft' = draft) \/ lock' = NoOne
        /\ Idle.pc = "idle" /\ Idle \in RequestStates
    BY <1>6, IdleType DEF ReadRaises, RollBack, Release, Idle
  <2> QED
    BY <2>1, SameRowsApproved
<1>7. ASSUME NEW new, EndsReading(r, new), lock = r, new.obs = draft.obs, approved' = approved
      PROVE  AdoptedApproved' /\ ObservesUnadopted' /\ RevokesAdopted' /\ DraftAdopts'
  <2> DEFINE p == IF procs[r].task = "create" THEN Idle
                  ELSE [Idle EXCEPT !.pc = "respond", !.task = "retry"]
  <2>1. /\ Goes(r, p, {"retry"}) /\ CommitsRows(r, new) /\ {"retry"} \in SUBSET Tasks
        /\ p \in RequestStates /\ p.pc \in {"idle", "respond"}
    BY <1>7, IdleType DEF EndsReading, RequestStates, Tasks, Idle
  <2>2. \A f \in Images : AdoptedIn(new, f) => AdoptedIn(View(r), f)
    BY <1>7 DEF AdoptedIn, View
  <2> HIDE DEF p
  <2> QED
    BY <1>7, <2>1, <2>2, CommitApproved
<1>8. CASE ReadFails(r)
  <2> DEFINE new == [draft EXCEPT !.run.status = "failed"]
  <2>1. lock = r /\ draft \in Rows
    BY <1>8 DEF ReadFails, Inv, Held, TypeOK
  <2>2. new.obs = draft.obs /\ EndsReading(r, new) /\ approved' = approved
    BY <1>8, <2>1 DEF ReadFails, Rows
  <2> HIDE DEF new
  <2> QED
    BY <1>7, <2>1, <2>2
<1>9. CASE StoresResources(r)
  <2>1. PICK new \in Rows : EndsReading(r, new) /\ new.obs = draft.obs
    BY <1>9, StoresWhat
  <2>2. lock = r /\ approved' = approved
    BY <1>9, StoresWhat DEF StoresResources
  <2> QED
    BY <1>7, <2>1, <2>2
<1> QED
  BY <1>2, <1>3, <1>4, <1>5, <1>6, <1>8, <1>9

\* A new observation is of an image that is not adopted, or crosses the adoption.
LEMMA UpsertsApproved ==
  ASSUME Inv, AdoptedApproved, ObservesUnadopted, RevokesAdopted, DraftAdopts,
         NEW r \in Requests, Upserts(r), Calm'
  PROVE  AdoptedApproved' /\ ObservesUnadopted' /\ RevokesAdopted' /\ DraftAdopts'
<1> DEFINE p == [procs[r] EXCEPT !.pc = "flush"]
           f == procs[r].ref
<1>1. /\ procs[r] \in RequestStates /\ procs[r].pc = "call" /\ procs[r].task = "observe"
      /\ f \in Images /\ rows \in Rows
  BY DEF Inv, TypeOK, Held, Upserts, Fits
<1>2. /\ Goes(r, p, {"observe"}) /\ rows' = rows /\ approved' = approved \ {f}
      /\ Writes(r, "observe") /\ {"observe"} \in SUBSET Tasks
      /\ \/ UNCHANGED <<lock, draft>>
         \/ /\ lock' = r
            /\ draft' = [rows EXCEPT !.obs[f] = [status |-> "observed", resource |-> Loaded(r)]]
  BY DEF Upserts, Tasks
<1>3. p \in RequestStates /\ p.pc = "flush" /\ p.task = "observe"
  BY <1>1 DEF RequestStates
<1>4. "adopt" \notin procs[r].past
  <2> SUFFICES ASSUME "adopt" \in procs[r].past PROVE FALSE
    OBVIOUS
  <2>1. {"observe", "adopt"} \in crossed'
    BY <1>1, <1>2, ObserveAdopt, WritesCross
  <2> QED
    BY <2>1, ObserveAdopt DEF Calm, Crossed
<1>5. ~AdoptedIn(rows, f)
  BY <1>1, <1>4 DEF ObservesUnadopted
<1>6. lock' # NoOne => \A g \in Images : AdoptedIn(draft', g) => AdoptedIn(rows', g)
  <2>1. CASE UNCHANGED <<lock, draft>>
    BY <1>2, <2>1 DEF DraftAdopts
  <2>2. CASE draft' = [rows EXCEPT !.obs[f] = [status |-> "observed", resource |-> Loaded(r)]]
    <3>1. \A g \in Images : draft'.obs[g] =
            IF g = f THEN [status |-> "observed", resource |-> Loaded(r)] ELSE rows.obs[g]
      BY <1>1, <2>2 DEF Rows
    <3> QED
      BY <1>2, <3>1 DEF AdoptedIn
  <2> QED
    BY <1>2, <2>1, <2>2
<1> HIDE DEF p, f
<1>7. \A g \in Images : AdoptedIn(rows', g) =>
        AdoptedIn(rows, g) /\ (g \in approved => g \in approved')
  BY <1>2, <1>5
<1> QED
  BY <1>2, <1>3, <1>6, <1>7, NothingAdopted

\* An adoption approves the description that is there, unless it was not the one
\* its user saw; whoever is observing misses it.
LEMMA AdoptionApproved ==
  ASSUME Inv, AdoptedApproved, ObservesUnadopted, RevokesAdopted, DraftAdopts,
         NEW r \in Requests, Flushes(r), ~overdue, procs[r].task = "adopt", Calm'
  PROVE  AdoptedApproved' /\ ObservesUnadopted' /\ RevokesAdopted' /\ DraftAdopts'
<1> DEFINE f == procs[r].ref
<1>1. /\ procs[r].pc = "flush" /\ f \in Images /\ RowsAreThere(r)
      /\ CommitsRows(r, Flushed(r)) /\ Goes(r, Idle, {"adopt"}) /\ Writes(r, "adopt")
      /\ {"adopt"} \in SUBSET Tasks /\ Idle.pc = "idle"
  BY DEF Flushes, Inv, Held, Fits, Tasks, Idle
<1>2. "observe" \notin procs[r].past
  <2> SUFFICES ASSUME "observe" \in procs[r].past PROVE FALSE
    OBVIOUS
  <2>1. {"adopt", "observe"} \in crossed'
    BY <1>1, <2>1, ObserveAdopt, WritesCross
  <2> QED
    BY <2>1, ObserveAdopt DEF Calm, Crossed
<1>3. approved' = approved \cup {f}
  BY <1>2 DEF Flushes
<1>4. rows' = Flushed(r) /\ lock' = NoOne /\ View(r) \in Rows
  BY <1>1, ViewType DEF CommitsRows
<1>5. \A g \in Images \ {f} : AdoptedIn(rows', g) => AdoptedIn(rows, g)
  <2>1. \A g \in Images \ {f} : Flushed(r).obs[g] = View(r).obs[g]
    BY <1>4 DEF Flushed, Rows
  <2>2. \A g \in Images : AdoptedIn(View(r), g) => AdoptedIn(rows, g)
    BY DEF View, DraftAdopts
  <2> QED
    BY <1>4, <2>1, <2>2 DEF AdoptedIn
<1>6. procs'[r] = Idle /\ \A s \in Requests \ {r} :
        /\ Kept(procs'[s], procs[s])
        /\ procs[s].pc # "idle" =>
             \A k \in {"adopt"} : {k, procs[s].task} \in Harmful => k \in procs'[s].past
  BY <1>1, IdleType, GoesKeeps DEF Inv, TypeOK
<1> HIDE DEF f
<1>7. AdoptedApproved'
  BY <1>3, <1>5 DEF AdoptedApproved, AdoptedIn
<1>8. ASSUME NEW s \in Requests, procs'[s].pc = "call"
      PROVE  "adopt" \in procs'[s].past
  <2>1. s # r
    BY <1>1, <1>6, <1>8
  <2>2. procs[s].pc = "call" /\ procs[s].task = "observe"
    BY <1>6, <1>8, <2>1 DEF Kept, Inv, Held, Fits
  <2> QED
    BY <1>6, <2>1, <2>2, ObserveAdopt
<1>9. RevokesAdopted'
  <2>1. ASSUME NEW s \in Requests, procs'[s].pc = "flush", procs'[s].task = "revoke"
        PROVE  AdoptedIn(procs'[s].seen, procs'[s].ref)
    BY <1>1, <1>6, <2>1 DEF RevokesAdopted, Kept
  <2> QED
    BY <2>1 DEF RevokesAdopted, AdoptedIn
<1> QED
  BY <1>4, <1>7, <1>8, <1>9 DEF ObservesUnadopted, DraftAdopts

\* An observation adopts nothing, and a revocation empties what it had loaded as
\* adopted.
LEMMA OtherFlushApproved ==
  ASSUME Inv, AdoptedApproved, ObservesUnadopted, RevokesAdopted, DraftAdopts,
         NEW r \in Requests, Flushes(r), ~overdue, procs[r].task # "adopt"
  PROVE  AdoptedApproved' /\ ObservesUnadopted' /\ RevokesAdopted' /\ DraftAdopts'
<1> DEFINE f == procs[r].ref
           old == procs[r].seen.obs[f]
<1>1. /\ procs[r].pc = "flush" /\ procs[r].task \in {"observe", "revoke"} /\ f \in Images
      /\ CommitsRows(r, Flushed(r)) /\ Goes(r, Idle, {procs[r].task})
      /\ {procs[r].task} \in SUBSET Tasks /\ Idle.pc = "idle" /\ Idle \in RequestStates
  BY IdleType DEF Flushes, Inv, Held, Fits, Tasks, Idle
<1>2. View(r) \in Rows
  BY ViewType
<1>3. \A g \in Images \ {f} : Flushed(r).obs[g] = View(r).obs[g]
  BY <1>2 DEF Flushed, Rows
<1>4. Flushed(r).obs[f] = IF old = NoRow THEN View(r).obs[f]
        ELSE [status |-> Put(View(r).obs[f].status, old.status, "observed"),
              resource |-> Flushed(r).obs[f].resource]
  BY <1>1, <1>2 DEF Flushed, Rows
<1>5. procs[r].task = "revoke" => old # NoRow /\ old.status = "adopted"
  BY <1>1 DEF RevokesAdopted, AdoptedIn
<1>6. AdoptedIn(Flushed(r), f) => AdoptedIn(View(r), f) /\ procs[r].task = "observe"
  <2> SUFFICES ASSUME AdoptedIn(Flushed(r), f)
               PROVE  AdoptedIn(View(r), f) /\ procs[r].task = "observe"
    OBVIOUS
  <2>1. CASE old = NoRow
    BY <1>1, <1>4, <1>5, <2>1 DEF AdoptedIn
  <2>2. CASE old # NoRow
    <3>1. Flushed(r).obs[f].status = Put(View(r).obs[f].status, old.status, "observed")
      BY <1>4, <2>2
    <3>2. old.status = "observed" /\ View(r).obs[f].status = "adopted"
      BY <3>1 DEF Put, AdoptedIn
    <3>3. View(r).obs[f] # NoRow
      BY <1>1, <2>2 DEF Inv, Held, Fits
    <3> QED
      BY <1>1, <1>5, <3>2, <3>3 DEF AdoptedIn
  <2> QED
    BY <2>1, <2>2
<1>7. approved' = IF procs[r].task = "revoke" THEN approved \ {f} ELSE approved
  BY <1>1 DEF Flushes
<1>8. \A g \in Images : AdoptedIn(Flushed(r), g) =>
        AdoptedIn(View(r), g) /\ (g \in approved => g \in approved')
  BY <1>3, <1>6, <1>7 DEF AdoptedIn
<1> QED
  BY <1>1, <1>8, CommitApproved

LEMMA LaterApproved ==
  ASSUME Inv, SweepsExpired, AdoptedApproved, ObservesUnadopted, RevokesAdopted, DraftAdopts, Calm, Calm',
         NEW r \in Requests,
         \/ Visit(r) \/ Upserts(r) \/ CallFails(r) \/ FlushFails(r)
         \/ ScrubFails(r) \/ GivesUp(r) \/ Flushes(r) \/ Responds(r) \/ Sweeps(r) \/ Scrubs(r)
         \/ \E f \in Images : Observe(r, f)
         \/ \E f \in Images, task \in {"adopt", "revoke"} : Judge(r, f, task)
  PROVE  AdoptedApproved' /\ ObservesUnadopted' /\ RevokesAdopted' /\ DraftAdopts'
<1>1. rows \in Rows /\ files \in Files /\ Idle.pc = "idle" /\ Idle \in RequestStates
  BY IdleType DEF Inv, TypeOK, Idle
<1>2. CASE CallFails(r) \/ FlushFails(r) \/ ScrubFails(r) \/ GivesUp(r)
  <2>1. Goes(r, Idle, {}) /\ Release(r) /\ UNCHANGED <<rows, approved>>
    BY <1>2 DEF CallFails, FlushFails, ScrubFails, GivesUp, RollBack
  <2>2. (lock' = lock /\ draft' = draft) \/ lock' = NoOne
    BY <2>1 DEF Release
  <2> QED
    BY <1>1, <2>1, <2>2, SameRowsApproved
<1>3. ASSUME NEW run, NeedsCleaning(run)
      PROVE  FALSE
  BY <1>3 DEF NeedsCleaning, Calm
<1>4. CASE Responds(r)
  <2>1. Goes(r, Idle, {}) /\ UNCHANGED <<rows, lock, draft, approved>>
    BY <1>3, <1>4 DEF Responds
  <2> QED
    BY <1>1, <2>1, SameRowsApproved
<1>5. CASE Scrubs(r)
  <2>1. /\ Goes(r, Idle, {"clean"}) /\ CommitsRows(r, Scrubbed(r)) /\ approved' = approved
        /\ {"clean"} \in SUBSET Tasks
    BY <1>5 DEF Scrubs, Tasks
  <2>2. \A f \in Images : AdoptedIn(Scrubbed(r), f) => AdoptedIn(View(r), f)
    <3> SUFFICES ASSUME NEW f \in Images, AdoptedIn(Scrubbed(r), f)
                 PROVE  AdoptedIn(View(r), f)
      OBVIOUS
    <3>1. CASE procs[r].seen.obs[f] = NoRow
      BY <3>1 DEF Scrubbed, AdoptedIn
    <3>2. CASE procs[r].seen.obs[f] # NoRow
      <4>1. View(r).obs[f] # NoRow /\ View(r) \in Rows
        BY <1>5, <3>2, ViewType DEF Scrubs, Inv, Held, Fits
      <4>2. View(r).obs[f] \in Observations
        BY <4>1 DEF Rows
      <4>3. Scrubbed(r).obs[f] = [View(r).obs[f] EXCEPT !.status = "cleaned"]
        BY <3>2 DEF Scrubbed
      <4>4. Scrubbed(r).obs[f].status = "cleaned"
        BY <4>2, <4>3 DEF Observations
      <4> QED
        BY <4>4 DEF AdoptedIn
    <3> QED
      BY <3>1, <3>2
  <2> QED
    BY <1>1, <2>1, <2>2, CommitApproved
<1>6. ASSUME NEW f \in Images, Observe(r, f)
      PROVE  AdoptedApproved' /\ ObservesUnadopted' /\ RevokesAdopted' /\ DraftAdopts'
  <2> DEFINE p == [Idle EXCEPT !.pc = "call", !.task = "observe", !.ref = f, !.seen = rows,
                               !.image = files.image[f]]
  <2>1. files.image[f] \in 0..MaxReads
    BY <1>1 DEF Files
  <2>2. p \in RequestStates /\ p.pc = "call" /\ p.ref = f
    BY <1>1, <2>1 DEF RequestStates, Tasks, Idle
  <2>3. Goes(r, p, {}) /\ UNCHANGED <<rows, lock, draft, approved>> /\ ~AdoptedIn(rows, f)
    BY <1>6 DEF Observe, IsAdopted, AdoptedIn
  <2> HIDE DEF p
  <2> QED
    BY <2>2, <2>3, SameRowsApproved
<1>7. ASSUME NEW f \in Images, NEW task \in {"adopt", "revoke"}, Judge(r, f, task)
      PROVE  AdoptedApproved' /\ ObservesUnadopted' /\ RevokesAdopted' /\ DraftAdopts'
  <2> DEFINE p == [Idle EXCEPT !.pc = "flush", !.task = task, !.ref = f, !.seen = rows]
  <2>1. p \in RequestStates /\ p.pc = "flush" /\ p.task = task /\ p.ref = f /\ p.seen = rows
    BY <1>1 DEF RequestStates, Tasks, Idle
  <2>2. Goes(r, p, {}) /\ UNCHANGED <<rows, lock, draft, approved>>
        /\ (task = "revoke" => AdoptedIn(rows, f))
    BY <1>7 DEF Judge, AdoptedIn
  <2> HIDE DEF p
  <2> QED
    BY <2>1, <2>2, SameRowsApproved
<1>8. CASE Flushes(r)
  BY <1>8, AdoptionApproved, OtherFlushApproved DEF Calm
<1>9. CASE Sweeps(r)
  BY <1>9 DEF Sweeps, SweepsExpired, Calm
<1> QED
  BY <1>2, <1>3, <1>4, <1>5, <1>6, <1>7, <1>8, <1>9, UpsertsApproved DEF Visit

LEMMA ApprovalsStep == Inv /\ SweepsExpired /\ Approvals /\ [Next]_vars => Approvals'
<1> SUFFICES ASSUME Inv, SweepsExpired, Approvals, [Next]_vars, Calm'
             PROVE  AdoptedApproved' /\ ObservesUnadopted' /\ RevokesAdopted' /\ DraftAdopts'
  BY DEF Approvals
<1>1. Calm /\ AdoptedApproved /\ ObservesUnadopted /\ RevokesAdopted /\ DraftAdopts
  BY CalmBefore DEF Approvals
<1>2. CASE UNCHANGED vars
  BY <1>1, <1>2
     DEF vars, AdoptedApproved, ObservesUnadopted, RevokesAdopted, DraftAdopts, AdoptedIn
<1>3. CASE Expires
  BY <1>3 DEF Expires, Calm
<1>4. CASE Crash
  <2>1. /\ UNCHANGED <<rows, approved>> /\ lock' = NoOne
        /\ \A r \in Requests : procs'[r].pc = "idle"
    BY <1>4 DEF Crash, Idle
  <2> QED
    BY <1>1, <2>1
       DEF AdoptedApproved, ObservesUnadopted, RevokesAdopted, DraftAdopts, AdoptedIn
<1>5. ASSUME NEW r \in Requests, Proceeds(r)
      PROVE  AdoptedApproved' /\ ObservesUnadopted' /\ RevokesAdopted' /\ DraftAdopts'
  BY <1>1, <1>5, ReadingApproved, LaterApproved DEF Proceeds
<1> QED
  BY <1>1, <1>2, <1>3, <1>4, <1>5, ReadingApproved, LaterApproved DEF Next

\* OnlyAdoptedPasses: an observation that the validation lets pass is the one a
\* user adopted, whatever was observed, revoked, retried or failed in between.
THEOREM OnlyAdoptedEvidencePasses == Spec => []OnlyAdoptedPasses
<1>1. Approvals => OnlyAdoptedPasses
  BY DEF Approvals, Calm, AdoptedApproved, AdoptedIn, OnlyAdoptedPasses, PassesValidation,
         Usable
<1> QED
  BY <1>1, InvInit, InvStep, SweepsExpiredInit, SweepsExpiredStep, ApprovalsInit,
     ApprovalsStep, PTL DEF Spec

-----------------------------------------------------------------------------
(* What a clean-up leaves *)

\* Whoever reads the run or changes it, and has not been told of a later clean-up.
Working == {"delete", "read", "store", "call", "flush"}

\* A process that answers with the run it loaded before it wrote.
Loads(p) == p.pc \in {"call", "flush"} \/ (p.pc = "respond" /\ p.seen # NoRows)

\* One that works on what it has loaded before.
Relies(p) == Loads(p) \/ (p.task = "retry" /\ p.pc \in {"delete", "read", "store"})

Swept == rows.run.status = "cleaned" \/ \E r \in Requests : procs[r].pc = "scrub"

\* Only an expired run is cleaned, and who works on it then will cross the clean-up.
CleansExpired ==
  /\ overdue => rows.run.status # "none"
  /\ Swept => overdue
  /\ Swept => \A r \in Requests : procs[r].pc \in Working => "clean" \in procs[r].past

LoadedRuns ==
  \A r \in Requests : Loads(procs[r]) =>
    /\ procs[r].seen.run.status \notin {"none", "cleaned"}
    /\ procs[r].pc = "respond" => overdue

HoldsLock ==
  \A r \in Requests : lock = r =>
    /\ procs[r].pc # "idle" /\ (procs[r].pc = "respond" => procs[r].seen # NoRows)
    /\ draft.run = IF procs[r].task = "create" THEN procs[r].seen.run ELSE rows.run
    /\ procs[r].pc \in {"read", "store"} =>
         draft.obs = rows.obs /\ \A i \in Ids : draft.res[i] = NoRow

NoResourceYet == rows.run.status = "none" => \A i \in Ids : rows.res[i] = NoRow

Orderly == CleansExpired /\ LoadedRuns /\ HoldsLock /\ NoResourceYet

\* What CleanedKeepsNothing exempts has not happened.
Sound ==
  /\ ~stuck /\ ~Crossed({"clean"}, {"retry", "observe"})
  /\ ~(faults > 0 /\ Crossed({"clean"}, {"adopt", "revoke"}))

\* A request that judged an observation meanwhile, and will clean the run itself.
Returning(r) ==
  /\ lock = r /\ procs[r].pc \in {"respond", "sweep"}
  /\ Crossed({"clean"}, {"adopt", "revoke"})

Emptied == Swept => files = NoFiles \/ \E r \in Requests : Returning(r)

EmptyIn(view) ==
  /\ ~view.run.token
  /\ \A i \in Ids : view.res[i] # NoRow => view.res[i].status = "expired"
  /\ \A f \in Images : view.obs[f] # NoRow => view.obs[f].status = "cleaned"

CleanedIsEmpty == rows.run.status = "cleaned" => EmptyIn(rows)

\* What holds resources or observations has a token, so that the clean-up, which
\* writes what differs from what it loaded, removes it.
TokenIn(view) ==
  (\E i \in Ids : view.res[i] # NoRow) \/ (\E f \in Images : view.obs[f] # NoRow) => view.run.token

TokensAreThere ==
  /\ rows.run.status # "cleaned" => TokenIn(rows)
  /\ \A r \in Requests :
       /\ Loads(procs[r]) => procs[r].seen.run.token
       /\ Relies(procs[r]) /\ procs[r].seen.run.token =>
            rows.run.token \/ rows.run.status = "cleaned"

ReadsUncleaned ==
  \A r \in Requests : procs[r].pc \in {"read", "store"} => rows.run.status # "cleaned"

\* A clean-up has loaded what there is, or it was told of what came since.
Misses(p, view) ==
  /\ "retry" \notin p.past =>
       /\ ~p.seen.run.token => ~view.run.token
       /\ \A i \in Ids : p.seen.res[i] = NoRow /\ view.res[i] # NoRow => view.res[i].status = "expired"
  /\ "observe" \notin p.past =>
       \A f \in Images : p.seen.obs[f] = NoRow /\ view.obs[f] # NoRow => view.obs[f].status = "cleaned"

ScrubsAll ==
  \A r \in Requests : procs[r].pc \in {"sweep", "scrub"} => Misses(procs[r], View(r))

Cleaned ==
  Emptied /\ CleanedIsEmpty /\ TokensAreThere /\ ReadsUncleaned /\ ScrubsAll

Cleanings == Orderly /\ (Sound => Cleaned)

LEMMA CleaningsInit == Init => Cleanings
<1> SUFFICES ASSUME Init PROVE Cleanings
  OBVIOUS
<1>1. /\ rows.run.status = "none" /\ lock = NoOne /\ ~overdue
      /\ \A i \in Ids : rows.res[i] = NoRow
      /\ \A f \in Images : rows.obs[f] = NoRow
      /\ \A r \in Requests : procs[r].pc = "idle"
  BY DEF Init, Idle
<1>2. Orderly
  BY <1>1 DEF Orderly, CleansExpired, Swept, LoadedRuns, Loads, HoldsLock, NoResourceYet
<1>3. Cleaned
  BY <1>1 DEF Cleaned, Emptied, Swept, CleanedIsEmpty, TokensAreThere, TokenIn, Relies,
              Loads, ReadsUncleaned, ScrubsAll
<1> QED
  BY <1>2, <1>3 DEF Cleanings

LEMMA CleanCrossings ==
  /\ \A k \in {"retry", "observe", "adopt", "revoke"} :
       {k, "clean"} \in Harmful /\ {"clean", k} = {k, "clean"}
  /\ Crossed({"clean"}, {"retry", "observe"}) <=>
       {"clean", "retry"} \in crossed \/ {"clean", "observe"} \in crossed
  /\ Crossed({"clean"}, {"adopt", "revoke"}) <=>
       {"clean", "adopt"} \in crossed \/ {"clean", "revoke"} \in crossed
<1>1. \A k : {"clean", k} = {k, "clean"}
  OBVIOUS
<1> QED
  BY <1>1 DEF Harmful, Crossed

LEMMA SoundBefore ==
  ASSUME Inv, [Next]_vars, Sound'
  PROVE  Sound
<1>1. faults \in Nat /\ (faults > 0 => faults' > 0)
  BY CrossingsStay DEF Inv, TypeOK
<1>2. crossed \subseteq crossed' /\ (stuck => stuck')
  BY CrossingsStay
<1> QED
  BY <1>1, <1>2 DEF Sound, Crossed

\* A retry or an observation that has been told of a clean-up crosses it as it writes.
LEMMA WarnedCrosses ==
  ASSUME NEW r \in Requests, Writes(r, procs[r].task), procs[r].pc # "idle",
         procs[r].task \in {"retry", "observe"}, "clean" \in procs[r].past
  PROVE  ~Sound'
<1>1. {procs[r].task, "clean"} \in crossed'
  BY CleanCrossings, WritesCross
<1> QED
  BY <1>1, CleanCrossings DEF Sound, Crossed

\* Files that nothing changes, or that are removed, stay as a clean-up left them.
FilesSwept(r) ==
  \/ files' = NoFiles
  \/ files' = files /\ ~Returning(r)
  \/ Returning(r)'

LEMMA EmptiedStays ==
  ASSUME Inv, Emptied, NEW r \in Requests, NEW p \in RequestStates,
         NEW touches \in SUBSET Tasks, Goes(r, p, touches), crossed \subseteq crossed',
         Swept' => Swept \/ files' = NoFiles,
         lock = lock' \/ lock \in {NoOne, r},
         FilesSwept(r)
  PROVE  Emptied'
<1>1. procs'[r] = p /\ \A s \in Requests \ {r} : Kept(procs'[s], procs[s])
  BY GoesKeeps DEF Inv, TypeOK
<1>2. ASSUME NEW s \in Requests \ {r}, Returning(s)
      PROVE  Returning(s)'
  <2>1. lock' = s
    BY <1>2 DEF Returning
  <2>2. procs'[s].pc = procs[s].pc /\ procs'[s].task = procs[s].task /\ procs'[s].seen = procs[s].seen
    BY <1>1 DEF Kept
  <2>3. Crossed({"clean"}, {"adopt", "revoke"})'
    BY <1>2 DEF Returning, Crossed
  <2> QED
    BY <1>2, <2>1, <2>2, <2>3 DEF Returning
<1> QED
  BY <1>2 DEF Emptied, FilesSwept

\* Steps of r that leave the committed rows alone and are no sweep, after which it
\* is p.
LEMMA SameRowsClean ==
  ASSUME Inv, Cleanings, NEW r \in Requests, NEW p \in RequestStates,
         NEW touches \in SUBSET Tasks, Goes(r, p, touches),
         rows' = rows, overdue' = overdue, crossed \subseteq crossed', Sound' => Sound,
         \/ lock' = lock /\ draft' = draft
         \/ lock \in {NoOne, r} /\ lock' \in {NoOne, r},
         p.pc # "scrub",
         p.pc \in Working /\ Swept => "clean" \in p.past,
         Loads(p) => /\ p.seen.run.status \notin {"none", "cleaned"}
                     /\ p.pc = "respond" => overdue,
         lock' = r =>
           /\ p.pc # "idle" /\ (p.pc = "respond" => p.seen # NoRows)
           /\ draft'.run = IF p.task = "create" THEN p.seen.run ELSE rows.run
           /\ p.pc \in {"read", "store"} =>
                draft'.obs = rows.obs /\ \A i \in Ids : draft'.res[i] = NoRow,
         Sound' =>
           /\ Swept => FilesSwept(r)
           /\ p.pc = "sweep" => Misses(p, IF lock' = r THEN draft' ELSE rows)
           /\ Loads(p) => p.seen.run.token
           /\ Relies(p) /\ p.seen.run.token => rows.run.token \/ rows.run.status = "cleaned"
           /\ p.pc \in {"read", "store"} => rows.run.status # "cleaned"
  PROVE  Cleanings'
<1>1. procs'[r] = p /\ \A s \in Requests \ {r} : Kept(procs'[s], procs[s])
  BY GoesKeeps DEF Inv, TypeOK
<1>2. Swept' => Swept
  BY <1>1 DEF Swept, Kept
<1>3. \A s \in Requests \ {r} : lock' = s => lock = s /\ draft' = draft
  OBVIOUS
<1>4. CleansExpired'
  <2>1. ASSUME Swept', NEW s \in Requests, procs'[s].pc \in Working
        PROVE  "clean" \in procs'[s].past
    BY <1>1, <1>2, <2>1 DEF Cleanings, Orderly, CleansExpired, Kept
  <2> QED
    BY <1>2, <2>1 DEF Cleanings, Orderly, CleansExpired
<1>5. LoadedRuns'
  <2>1. ASSUME NEW s \in Requests, Loads(procs'[s])
        PROVE  /\ procs'[s].seen.run.status \notin {"none", "cleaned"}
               /\ procs'[s].pc = "respond" => overdue
    BY <1>1, <2>1 DEF Cleanings, Orderly, LoadedRuns, Loads, Kept
  <2> QED
    BY <2>1 DEF LoadedRuns, Loads
<1>6. HoldsLock'
  <2>1. ASSUME NEW s \in Requests, lock' = s
        PROVE  /\ procs'[s].pc # "idle" /\ (procs'[s].pc = "respond" => procs'[s].seen # NoRows)
               /\ draft'.run = IF procs'[s].task = "create" THEN procs'[s].seen.run ELSE rows.run
               /\ procs'[s].pc \in {"read", "store"} =>
                    draft'.obs = rows.obs /\ \A i \in Ids : draft'.res[i] = NoRow
    BY <1>1, <1>3, <2>1 DEF Cleanings, Orderly, HoldsLock, Kept
  <2> QED
    BY <2>1 DEF HoldsLock
<1>7. Orderly'
  BY <1>4, <1>5, <1>6 DEF Cleanings, Orderly, NoResourceYet
<1>8. ASSUME Sound'
      PROVE  Cleaned'
  <2>1. Cleaned
    BY <1>8 DEF Cleanings
  <2>2. Emptied'
    <3>1. CASE Swept
      BY <1>8, <2>1, <3>1, EmptiedStays DEF Cleaned
    <3>2. CASE ~Swept
      BY <1>2, <3>2 DEF Emptied
    <3> QED
      BY <3>1, <3>2
  <2>3. CleanedIsEmpty'
    BY <2>1 DEF Cleaned, CleanedIsEmpty, EmptyIn
  <2>4. TokensAreThere'
    <3>1. ASSUME NEW s \in Requests
          PROVE  /\ Loads(procs'[s]) => procs'[s].seen.run.token
                 /\ Relies(procs'[s]) /\ procs'[s].seen.run.token =>
                      rows.run.token \/ rows.run.status = "cleaned"
      BY <1>1, <1>8, <2>1 DEF Cleaned, TokensAreThere, Relies, Loads, Kept
    <3> QED
      BY <2>1, <3>1 DEF Cleaned, TokensAreThere, TokenIn, Relies, Loads
  <2>5. ReadsUncleaned'
    BY <1>1, <1>8, <2>1 DEF Cleaned, ReadsUncleaned, Kept
  <2>6. ScrubsAll'
    <3>1. ASSUME NEW s \in Requests \ {r}, procs'[s].pc \in {"sweep", "scrub"}
          PROVE  Misses(procs'[s], View(s)')
      <4>1. procs[s].pc \in {"sweep", "scrub"} /\ Kept(procs'[s], procs[s])
        BY <1>1, <3>1 DEF Kept
      <4>2. View(s)' = View(s)
        BY <4>1 DEF View
      <4>3. Misses(procs[s], View(s))
        BY <2>1, <4>1 DEF Cleaned, ScrubsAll
      <4> QED
        BY <4>1, <4>2, <4>3 DEF Misses, Kept
    <3>2. ASSUME procs'[r].pc \in {"sweep", "scrub"}
          PROVE  Misses(procs'[r], View(r)')
      BY <1>1, <1>8, <3>2 DEF View
    <3> QED
      BY <3>1, <3>2 DEF ScrubsAll, Misses
  <2> QED
    BY <2>2, <2>3, <2>4, <2>5, <2>6 DEF Cleaned
<1> QED
  BY <1>7, <1>8 DEF Cleanings

\* The requests that read the source, until they commit.
LEMMA ReadingClean ==
  ASSUME Inv, Started, Cleanings, crossed \subseteq crossed', Sound' => Sound,
         NEW r \in Requests,
         Create(r) \/ Retry(r) \/ DeletesResources(r) \/ ReadRaises(r) \/ ReadsSource(r)
  PROVE  Cleanings'
<1>1. /\ rows \in Rows /\ files \in Files /\ procs[r] \in RequestStates
      /\ Fits(procs[r], View(r)) /\ (procs[r].pc \in {"read", "store"} => lock = r)
  BY DEF Inv, TypeOK, Held
<1>2. /\ overdue => rows.run.status # "none"
      /\ Swept => overdue
      /\ Swept /\ procs[r].pc \in Working => "clean" \in procs[r].past
  BY DEF Cleanings, Orderly, CleansExpired
<1>3. procs[r].pc = "idle" => lock # r
  BY DEF Cleanings, Orderly, HoldsLock
<1>4. ASSUME Sound'
      PROVE  Cleaned
  BY <1>4 DEF Cleanings
<1>5. CASE Create(r)
  <2> DEFINE p == [Idle EXCEPT !.pc = "read", !.task = "create", !.seen = draft']
  <2>1. /\ Goes(r, p, {}) /\ UNCHANGED <<rows, overdue>> /\ lock = NoOne /\ lock' = r
        /\ draft' = [rows EXCEPT !.run = [status |-> "reading", token |-> kind = "local_file"]]
        /\ rows.run.status = "none"
    BY <1>5 DEF Create
  <2>2. draft' \in Rows /\ draft'.obs = rows.obs /\ draft'.res = rows.res
    BY <1>1, <2>1 DEF Rows, Runs
  <2>3. \A i \in Ids : draft'.res[i] = NoRow
    BY <2>1, <2>2 DEF Cleanings, Orderly, NoResourceYet
  <2>4. p \in RequestStates /\ p.pc = "read" /\ p.task = "create" /\ p.seen = draft'
    BY <2>2, IdleType DEF RequestStates, Tasks, Idle
  <2>5. ~Swept /\ ~Loads(p) /\ ~Relies(p)
    BY <1>2, <2>1, <2>4 DEF Loads, Relies
  <2> HIDE DEF p
  <2> QED
    BY <2>1, <2>2, <2>3, <2>4, <2>5, SameRowsClean
<1>6. CASE Retry(r)
  <2> DEFINE p == [Idle EXCEPT !.pc = "delete", !.task = "retry", !.seen = rows]
  <2>1. /\ Goes(r, p, {"retry"}) /\ UNCHANGED <<rows, overdue, lock, draft>>
        /\ {"retry"} \in SUBSET Tasks /\ ~overdue /\ procs[r].pc = "idle"
    BY <1>6 DEF Retry, Usable, Tasks
  <2>2. p \in RequestStates /\ p.pc = "delete" /\ p.task = "retry" /\ p.seen = rows
    BY <1>1, IdleType DEF RequestStates, Tasks, Idle
  <2>3. ~Swept /\ ~Loads(p) /\ lock' # r
    BY <1>2, <1>3, <2>1, <2>2 DEF Loads
  <2> HIDE DEF p
  <2> QED
    BY <2>1, <2>2, <2>3, SameRowsClean
<1>7. CASE DeletesResources(r)
  <2> DEFINE p == [procs[r] EXCEPT !.pc = "read"]
  <2>1. /\ Goes(r, p, {}) /\ UNCHANGED <<rows, overdue, files>> /\ lock = NoOne /\ lock' = r
        /\ draft' = [rows EXCEPT !.res = [i \in Ids |-> NoRow]]
        /\ procs[r].pc = "delete" /\ Writes(r, "retry")
    BY <1>7 DEF DeletesResources
  <2>2. procs[r].task = "retry"
    BY <1>1, <2>1 DEF Fits
  <2>3. draft'.obs = rows.obs /\ draft'.run = rows.run /\ \A i \in Ids : draft'.res[i] = NoRow
    BY <1>1, <2>1 DEF Rows
  <2>4. p \in RequestStates /\ p.pc = "read" /\ p.task = "retry" /\ p.seen = procs[r].seen
        /\ p.past = procs[r].past
    BY <1>1, <2>2 DEF RequestStates
  <2>5. ~Loads(p) /\ Relies(procs[r]) /\ ~Returning(r)
    BY <2>1, <2>2, <2>4 DEF Loads, Relies, Returning
  <2>6. Swept => "clean" \in p.past
    BY <1>2, <2>1, <2>4 DEF Working
  <2>7. ASSUME Sound'
        PROVE  /\ rows.run.status # "cleaned"
               /\ p.seen.run.token => rows.run.token \/ rows.run.status = "cleaned"
    <3>1. ~Swept
      BY <2>1, <2>2, <2>4, <2>6, <2>7, WarnedCrosses
    <3> QED
      BY <1>4, <2>4, <2>5, <2>7, <3>1 DEF Swept, Cleaned, TokensAreThere
  <2> HIDE DEF p
  <2> QED
    BY <2>1, <2>3, <2>4, <2>5, <2>6, <2>7, SameRowsClean DEF FilesSwept
<1>8. CASE ReadRaises(r)
  <2>1. /\ Goes(r, Idle, {}) /\ Release(r) /\ UNCHANGED <<rows, overdue>> /\ procs[r].pc = "read"
        /\ files' = NoFiles \/ files' = files
    BY <1>8 DEF ReadRaises, RollBack
  <2>2. lock' = NoOne /\ lock = r /\ FilesSwept(r)
    BY <1>1, <2>1 DEF Release, FilesSwept, Returning
  <2>3. Idle.pc = "idle" /\ ~Loads(Idle) /\ ~Relies(Idle)
    BY DEF Idle, Loads, Relies
  <2> QED
    BY <2>1, <2>2, <2>3, IdleType, SameRowsClean DEF Working
<1>9. CASE ReadsSource(r)
  <2> DEFINE p == [procs[r] EXCEPT !.pc = "store"]
  <2>1. /\ Goes(r, p, {}) /\ UNCHANGED <<rows, overdue, lock, draft>>
        /\ procs[r].pc = "read" /\ Writes(r, procs[r].task) /\ lock = r
    BY <1>1, <1>9 DEF ReadsSource
  <2>2. /\ procs[r].task \in {"create", "retry"}
        /\ procs[r].task = "create" => rows.run.status = "none"
    BY <1>1, <2>1 DEF Fits, Started, CreatesAlone
  <2>3. p \in RequestStates /\ p.pc = "store" /\ p.task = procs[r].task
        /\ p.seen = procs[r].seen /\ p.past = procs[r].past
    BY <1>1 DEF RequestStates
  <2>4. /\ draft.run = IF p.task = "create" THEN p.seen.run ELSE rows.run
        /\ draft.obs = rows.obs /\ \A i \in Ids : draft.res[i] = NoRow
    BY <2>1, <2>3 DEF Cleanings, Orderly, HoldsLock
  <2>5. ~Loads(p) /\ (Relies(p) => Relies(procs[r]))
    BY <2>1, <2>3 DEF Loads, Relies
  <2>6. Swept => "clean" \in p.past
    BY <1>2, <2>1, <2>3 DEF Working
  <2>7. ASSUME Sound', Swept
        PROVE  FALSE
    BY <1>2, <2>1, <2>2, <2>3, <2>6, <2>7, WarnedCrosses
  <2>8. ASSUME Sound'
        PROVE  /\ rows.run.status # "cleaned"
               /\ Relies(p) /\ p.seen.run.token => rows.run.token \/ rows.run.status = "cleaned"
    BY <1>4, <2>1, <2>3, <2>5, <2>8 DEF Cleaned, TokensAreThere, ReadsUncleaned
  <2> HIDE DEF p
  <2> QED
    BY <2>1, <2>3, <2>4, <2>5, <2>6, <2>7, <2>8, SameRowsClean
<1> QED
  BY <1>5, <1>6, <1>7, <1>8, <1>9

\* What a process that is going to answer has loaded, and its transaction.
LEMMA WorkingOnRun ==
  ASSUME Inv, Cleanings, NEW r \in Requests, procs[r].pc \in {"call", "flush"}
  PROVE  /\ procs[r].seen \in Rows /\ procs[r].seen # NoRows
         /\ procs[r].seen.run.status \notin {"none", "cleaned"}
         /\ procs[r].task \in {"observe", "adopt", "revoke"}
         /\ View(r).run = rows.run
         /\ Swept => "clean" \in procs[r].past
         /\ Sound => procs[r].seen.run.token /\ (rows.run.token \/ rows.run.status = "cleaned")
<1>1. Loads(procs[r]) /\ Relies(procs[r])
  BY DEF Loads, Relies
<1>2. Fits(procs[r], View(r))
  BY DEF Inv, Held
<1>3. procs[r].seen \in Rows /\ procs[r].task \in {"observe", "adopt", "revoke"}
  BY <1>2 DEF Fits
<1>4. procs[r].seen # NoRows /\ procs[r].seen.run.status \notin {"none", "cleaned"}
  BY <1>1, <1>3 DEF Cleanings, Orderly, LoadedRuns
<1>5. View(r).run = rows.run
  BY <1>3 DEF View, Cleanings, Orderly, HoldsLock
<1>6. Swept => "clean" \in procs[r].past
  BY DEF Cleanings, Orderly, CleansExpired, Working
<1>7. Sound => procs[r].seen.run.token /\ (rows.run.token \/ rows.run.status = "cleaned")
  BY <1>1 DEF Cleanings, Cleaned, TokensAreThere
<1> QED
  BY <1>3, <1>4, <1>5, <1>6, <1>7

\* The other requests, until they commit or clean.
LEMMA AnswersClean ==
  ASSUME Inv, Started, Cleanings, crossed \subseteq crossed', Sound' => Sound,
         NEW r \in Requests,
         \/ Upserts(r) \/ CallFails(r) \/ FlushFails(r) \/ ScrubFails(r) \/ GivesUp(r)
         \/ \E f \in Images : Observe(r, f)
         \/ \E f \in Images, task \in {"adopt", "revoke"} : Judge(r, f, task)
  PROVE  Cleanings'
<1>1. rows \in Rows /\ files \in Files /\ procs[r] \in RequestStates
  BY DEF Inv, TypeOK
<1>2. (Swept => overdue) /\ (procs[r].pc = "idle" => lock # r)
  BY DEF Cleanings, Orderly, CleansExpired, HoldsLock
<1>3. CASE Upserts(r)
  <2> DEFINE p == [procs[r] EXCEPT !.pc = "flush"]
  <2>1. /\ Goes(r, p, {"observe"}) /\ UNCHANGED <<rows, overdue>> /\ {"observe"} \in SUBSET Tasks
        /\ procs[r].pc = "call" /\ Writes(r, "observe")
        /\ \/ lock' = lock /\ draft' = draft
           \/ /\ lock = NoOne /\ lock' = r
              /\ draft' = [rows EXCEPT !.obs[procs[r].ref] =
                             [status |-> "observed", resource |-> Loaded(r)]]
    BY <1>3 DEF Upserts, Tasks
  <2>2. procs[r].task = "observe"
    BY <2>1 DEF Inv, Held, Fits
  <2>3. p \in RequestStates /\ p.pc = "flush" /\ p.task = "observe" /\ p.seen = procs[r].seen
        /\ p.past = procs[r].past
    BY <1>1, <2>2 DEF RequestStates
  <2>4. lock' = r => draft'.run = rows.run
    <3>1. CASE lock' = lock /\ draft' = draft
      BY <2>1, <3>1, WorkingOnRun DEF View
    <3>2. CASE draft' = [rows EXCEPT !.obs[procs[r].ref] =
                           [status |-> "observed", resource |-> Loaded(r)]]
      BY <1>1, <3>2 DEF Rows
    <3> QED
      BY <2>1, <3>1, <3>2
  <2>5. Sound' => ~Swept
    BY <2>1, <2>2, WorkingOnRun, WarnedCrosses
  <2> HIDE DEF p
  <2> QED
    BY <2>1, <2>3, <2>4, <2>5, WorkingOnRun, SameRowsClean
<1>4. CASE CallFails(r) \/ FlushFails(r) \/ ScrubFails(r) \/ GivesUp(r)
  <2>1. /\ Goes(r, Idle, {}) /\ Release(r) /\ UNCHANGED <<rows, overdue, files>>
        /\ procs[r].pc \notin {"respond", "sweep"}
    BY <1>4 DEF CallFails, FlushFails, ScrubFails, GivesUp, RollBack
  <2>2. FilesSwept(r) /\ lock' # r
    BY <2>1 DEF FilesSwept, Returning, Release
  <2>3. \/ lock' = lock /\ draft' = draft
        \/ lock \in {NoOne, r} /\ lock' \in {NoOne, r}
    BY <2>1 DEF Release
  <2>4. Idle.pc = "idle" /\ ~Loads(Idle) /\ ~Relies(Idle)
    BY DEF Idle, Loads, Relies
  <2> QED
    BY <2>1, <2>2, <2>3, <2>4, IdleType, SameRowsClean DEF Working
<1>5. ASSUME NEW p \in RequestStates, Goes(r, p, {}), p.pc \in {"call", "flush"}, p.seen = rows,
             UNCHANGED <<rows, overdue, lock, draft>>, Usable, procs[r].pc = "idle",
             \/ \E i \in Ids : rows.res[i] # NoRow
             \/ \E f \in Images : rows.obs[f] # NoRow
      PROVE  Cleanings'
  <2>1. rows.run.status \notin {"none", "cleaned"} /\ ~Swept /\ lock # r
    BY <1>2, <1>5 DEF Usable, Started, NothingYet, Cleanings, Orderly, NoResourceYet
  <2>2. Sound' => rows.run.token
    BY <1>5, <2>1 DEF Cleanings, Cleaned, TokensAreThere, TokenIn
  <2> QED
    BY <1>5, <2>1, <2>2, SameRowsClean
<1>6. ASSUME NEW f \in Images, Observe(r, f)
      PROVE  Cleanings'
  <2> DEFINE p == [Idle EXCEPT !.pc = "call", !.task = "observe", !.ref = f, !.seen = rows,
                               !.image = files.image[f]]
  <2>1. files.image[f] \in 0..MaxReads
    BY <1>1 DEF Files
  <2>2. p \in RequestStates /\ p.pc = "call" /\ p.seen = rows
    BY <1>1, <2>1 DEF RequestStates, Tasks, Idle
  <2>3. /\ Goes(r, p, {}) /\ UNCHANGED <<rows, overdue, lock, draft>> /\ Usable
        /\ procs[r].pc = "idle" /\ \E i \in Ids : rows.res[i] # NoRow
    BY <1>6 DEF Observe
  <2> HIDE DEF p
  <2> QED
    BY <1>5, <2>2, <2>3
<1>7. ASSUME NEW f \in Images, NEW task \in {"adopt", "revoke"}, Judge(r, f, task)
      PROVE  Cleanings'
  <2> DEFINE p == [Idle EXCEPT !.pc = "flush", !.task = task, !.ref = f, !.seen = rows]
  <2> task \in Tasks
    BY DEF Tasks
  <2>1. p \in RequestStates /\ p.pc = "flush" /\ p.seen = rows
    BY <1>1, IdleType DEF RequestStates, Idle
  <2>2. /\ Goes(r, p, {}) /\ UNCHANGED <<rows, overdue, lock, draft>> /\ Usable
        /\ procs[r].pc = "idle" /\ rows.obs[f] # NoRow
    BY <1>7 DEF Judge
  <2> HIDE DEF p
  <2> QED
    BY <1>5, <2>1, <2>2
<1> QED
  BY <1>3, <1>4, <1>6, <1>7

\* An answer to an expired run keeps its transaction open for the clean-up.
LEMMA LateFlushClean ==
  ASSUME Inv, Cleanings, crossed \subseteq crossed', Sound' => Sound,
         NEW r \in Requests, Flushes(r), overdue
  PROVE  Cleanings'
<1> DEFINE p == [procs[r] EXCEPT !.pc = "respond"]
<1>1. /\ Goes(r, p, {}) /\ UNCHANGED <<rows, overdue>> /\ lock' = r /\ draft' = Flushed(r)
      /\ procs[r].pc = "flush" /\ Writes(r, procs[r].task) /\ RowsAreThere(r)
      /\ lock \in {NoOne, r} /\ procs[r] \in RequestStates
  BY DEF Flushes, Inv, TypeOK
<1>2. /\ p \in RequestStates /\ p.pc = "respond" /\ p.task = procs[r].task
      /\ p.seen = procs[r].seen /\ p.past = procs[r].past
  BY <1>1 DEF RequestStates
<1> HIDE DEF p
<1>3. draft'.run = rows.run /\ p.seen # NoRows /\ p.task \in {"observe", "adopt", "revoke"}
  BY <1>1, <1>2, FlushedType, WorkingOnRun
<1>4. ASSUME Sound', Swept
      PROVE  FilesSwept(r)
  <2>1. "clean" \in procs[r].past
    BY <1>1, <1>4, WorkingOnRun
  <2>2. procs[r].task \in {"adopt", "revoke"}
    BY <1>1, <1>2, <1>3, <1>4, <2>1, WarnedCrosses
  <2>3. {"clean", procs[r].task} \in crossed'
    <3>1. {procs[r].task, "clean"} \in Harmful
      BY <2>2, CleanCrossings
    <3>2. {procs[r].task, "clean"} \in crossed'
      BY <1>1, <2>1, <3>1, WritesCross
    <3> QED
      BY <2>2, <3>2, CleanCrossings
  <2>4. procs'[r] = p
    BY <1>1, <1>2, GoesKeeps DEF Inv, TypeOK
  <2>5. Crossed({"clean"}, {"adopt", "revoke"})'
    BY <2>2, <2>3 DEF Crossed
  <2> QED
    BY <1>1, <1>2, <2>4, <2>5 DEF FilesSwept, Returning
<1> QED
  BY <1>1, <1>2, <1>3, <1>4, WorkingOnRun, SameRowsClean DEF Working, Relies, Loads

\* A clean-up loads what there is, or has been told of what it misses.
LEMMA GathersClean ==
  ASSUME Inv, Started, Cleanings, crossed \subseteq crossed', Sound' => Sound,
         NEW r \in Requests, NEW run \in Runs, Gathers(r, run), overdue,
         (run = rows.run /\ lock # r) \/ (Loads(procs[r]) /\ run = procs[r].seen.run)
  PROVE  Cleanings'
<1> DEFINE past == IF procs[r].pc = "idle" THEN {} ELSE procs[r].past
           seen == [View(r) EXCEPT !.run = run]
           p == [Idle EXCEPT !.pc = "sweep", !.task = "clean", !.past = past, !.seen = seen]
<1>1. View(r) \in Rows /\ procs[r] \in RequestStates
  BY ViewType DEF Inv, TypeOK
<1>2. /\ seen \in Rows /\ seen.obs = View(r).obs /\ seen.res = View(r).res /\ seen.run = run
      /\ past \in SUBSET Tasks
  BY <1>1 DEF Rows, RequestStates
<1>3. Goes(r, p, {}) /\ UNCHANGED <<rows, files, lock, draft, overdue, crossed>>
  BY DEF Gathers
<1> HIDE DEF past, seen
<1>4. p \in RequestStates /\ p.pc = "sweep" /\ p.task = "clean" /\ p.seen = seen
  BY <1>2, IdleType DEF RequestStates, Tasks, Idle
<1> HIDE DEF p
<1>5. procs[r].task # "create" \/ lock # r
  BY DEF Started, CreatesAlone, Cleanings, Orderly, CleansExpired, HoldsLock
<1>6. lock = r => draft.run = rows.run
  BY <1>5 DEF Cleanings, Orderly, HoldsLock
<1>7. FilesSwept(r)
  <2>1. CASE Returning(r)
    <3>1. procs'[r] = p
      BY <1>3, <1>4, GoesKeeps DEF Inv, TypeOK
    <3>2. Crossed({"clean"}, {"adopt", "revoke"})'
      BY <1>3, <2>1 DEF Returning, Crossed
    <3> QED
      BY <1>3, <1>4, <2>1, <3>1, <3>2 DEF FilesSwept, Returning
  <2> QED
    BY <1>3, <2>1 DEF FilesSwept
<1>8. ASSUME Sound'
      PROVE  Misses(p, View(r))
  <2>1. Cleaned
    BY <1>8 DEF Cleanings
  <2>2. ~run.token => ~View(r).run.token
    BY <1>6, <2>1 DEF View, Cleaned, TokensAreThere
  <2> QED
    BY <1>2, <1>4, <2>2 DEF Misses
<1>9. ~Loads(p) /\ ~Relies(p) /\ p.pc \notin Working
  BY <1>4 DEF Loads, Relies, Working
<1>10. Misses(p, View(r)) => Misses(p, IF lock' = r THEN draft' ELSE rows)
  BY <1>3 DEF View
<1> QED
  BY <1>3, <1>4, <1>5, <1>6, <1>7, <1>8, <1>9, <1>10, SameRowsClean

\* A sweep tells whoever is at work, and empties the directory or says that it could
\* not.
LEMMA SweepsClean ==
  ASSUME Inv, Started, SweepsExpired, Cleanings, crossed \subseteq crossed',
         Sound' => Sound, NEW r \in Requests, Sweeps(r)
  PROVE  Cleanings'
<1> DEFINE p == [procs[r] EXCEPT !.pc = "scrub"]
<1>1. procs[r] \in RequestStates /\ procs[r].pc = "sweep" /\ procs[r].task = "clean" /\ overdue
  BY DEF Inv, TypeOK, Held, Fits, Sweeps, SweepsExpired
<1>2. /\ Goes(r, p, {"clean"}) /\ {"clean"} \in SUBSET Tasks
      /\ UNCHANGED <<rows, lock, draft, overdue>>
      /\ files' = NoFiles \/ stuck'
  BY DEF Sweeps, Tasks
<1>3. /\ p \in RequestStates /\ p.pc = "scrub" /\ p.task = "clean" /\ p.seen = procs[r].seen
      /\ p.past = procs[r].past
  BY <1>1 DEF RequestStates
<1> HIDE DEF p
<1>4. procs'[r] = p /\ \A s \in Requests \ {r} :
        /\ Kept(procs'[s], procs[s])
        /\ procs[s].pc # "idle" =>
             \A k \in {"clean"} : {k, procs[s].task} \in Harmful => k \in procs'[s].past
  BY <1>2, <1>3, GoesKeeps DEF Inv, TypeOK
<1>6. overdue /\ rows.run.status # "none"
  BY <1>1 DEF Cleanings, Orderly, CleansExpired
<1>7. ASSUME NEW s \in Requests, procs'[s].pc \in Working
      PROVE  "clean" \in procs'[s].past
  <2>1. s # r /\ procs[s].pc \in Working /\ procs[s].pc # "idle"
    BY <1>3, <1>4, <1>7 DEF Working, Kept
  <2>2. procs[s].task \in {"create", "retry", "observe", "adopt", "revoke"}
    BY <2>1 DEF Working, Inv, Held, Fits
  <2>3. procs[s].task # "create"
    BY <1>6, <2>1 DEF Started, CreatesAlone
  <2>4. {"clean", procs[s].task} \in Harmful
    BY <2>2, <2>3, CleanCrossings
  <2> QED
    BY <1>4, <2>1, <2>4
<1>8. CleansExpired'
  BY <1>2, <1>6, <1>7 DEF CleansExpired
<1>9. LoadedRuns'
  <2>1. ASSUME NEW s \in Requests, Loads(procs'[s])
        PROVE  /\ procs'[s].seen.run.status \notin {"none", "cleaned"}
               /\ procs'[s].pc = "respond" => overdue
    BY <1>3, <1>4, <2>1 DEF Cleanings, Orderly, LoadedRuns, Loads, Kept
  <2> QED
    BY <1>2, <2>1 DEF LoadedRuns, Loads
<1>10. HoldsLock'
  <2>1. procs[r].task # "create"
    BY <1>1
  <2>2. ASSUME NEW s \in Requests, lock = s
        PROVE  /\ procs'[s].pc # "idle" /\ (procs'[s].pc = "respond" => procs'[s].seen # NoRows)
               /\ draft.run = IF procs'[s].task = "create" THEN procs'[s].seen.run ELSE rows.run
               /\ procs'[s].pc \in {"read", "store"} =>
                    draft.obs = rows.obs /\ \A i \in Ids : draft.res[i] = NoRow
    <3>1. /\ procs[s].pc # "idle" /\ (procs[s].pc = "respond" => procs[s].seen # NoRows)
          /\ draft.run = IF procs[s].task = "create" THEN procs[s].seen.run ELSE rows.run
          /\ procs[s].pc \in {"read", "store"} =>
               draft.obs = rows.obs /\ \A i \in Ids : draft.res[i] = NoRow
      BY <2>2 DEF Cleanings, Orderly, HoldsLock
    <3>2. CASE s = r
      BY <1>3, <1>4, <2>1, <2>2, <3>1, <3>2
    <3>3. CASE s # r
      BY <1>4, <3>1, <3>3 DEF Kept
    <3> QED
      BY <3>2, <3>3
  <2> QED
    BY <1>2, <2>2 DEF HoldsLock
<1>11. Orderly'
  BY <1>2, <1>8, <1>9, <1>10 DEF Cleanings, Orderly, NoResourceYet
<1>12. ASSUME Sound'
       PROVE  Cleaned'
  <2>1. Cleaned /\ files' = NoFiles
    BY <1>2, <1>12 DEF Cleanings, Sound
  <2>2. Emptied' /\ CleanedIsEmpty'
    BY <1>2, <2>1 DEF Emptied, Cleaned, CleanedIsEmpty, EmptyIn
  <2>3. TokensAreThere'
    <3>1. ASSUME NEW s \in Requests
          PROVE  /\ Loads(procs'[s]) => procs'[s].seen.run.token
                 /\ Relies(procs'[s]) /\ procs'[s].seen.run.token =>
                      rows.run.token \/ rows.run.status = "cleaned"
      BY <1>3, <1>4, <2>1 DEF Cleaned, TokensAreThere, Relies, Loads, Kept
    <3> QED
      BY <1>2, <2>1, <3>1 DEF Cleaned, TokensAreThere, TokenIn, Relies, Loads
  <2>4. ReadsUncleaned'
    BY <1>2, <1>3, <1>4, <2>1 DEF Cleaned, ReadsUncleaned, Kept
  <2>5. ASSUME NEW s \in Requests, procs'[s].pc \in {"sweep", "scrub"}
        PROVE  Misses(procs'[s], View(s))
    <3>1. CASE s = r
      <4>1. Misses(procs[r], View(r))
        BY <1>1, <2>1 DEF Cleaned, ScrubsAll
      <4> QED
        BY <1>3, <1>4, <3>1, <4>1 DEF Misses
    <3>2. CASE s # r
      <4>1. procs[s].pc \in {"sweep", "scrub"} /\ Kept(procs'[s], procs[s])
        BY <1>4, <2>5, <3>2 DEF Kept
      <4> QED
        BY <2>1, <4>1 DEF Cleaned, ScrubsAll, Misses, Kept
    <3> QED
      BY <3>1, <3>2
  <2>6. ScrubsAll'
    <3>1. \A s \in Requests : View(s)' = View(s)
      BY <1>2 DEF View
    <3> QED
      BY <2>5, <3>1 DEF ScrubsAll, Misses
  <2> QED
    BY <2>2, <2>3, <2>4, <2>6 DEF Cleaned
<1> QED
  BY <1>11, <1>12 DEF Cleanings

LEMMA MeetsExpiredClean ==
  ASSUME Inv, Started, Cleanings, crossed \subseteq crossed', Sound' => Sound,
         NEW r \in Requests, Visit(r) \/ Responds(r)
  PROVE  Cleanings'
<1>1. rows.run \in Runs /\ procs[r] \in RequestStates
  BY DEF Inv, TypeOK, Rows
<1>2. lock = r => procs[r].pc # "idle" /\ (procs[r].pc = "respond" => procs[r].seen # NoRows)
  BY DEF Cleanings, Orderly, HoldsLock
<1>3. CASE Visit(r)
  <2>1. Gathers(r, rows.run) /\ overdue /\ lock # r
    BY <1>2, <1>3 DEF Visit, NeedsCleaning
  <2> QED
    BY <1>1, <2>1, GathersClean
<1>4. CASE Responds(r)
  <2> DEFINE run == IF procs[r].seen = NoRows THEN rows.run ELSE procs[r].seen.run
  <2>1. run \in Runs
    BY <1>1 DEF RequestStates, Rows
  <2>2. procs[r].pc = "respond" /\ (Loads(procs[r]) <=> procs[r].seen # NoRows)
    BY <1>4 DEF Responds, Loads
  <2>3. CASE NeedsCleaning(run) /\ Gathers(r, run)
    <3>1. overdue /\ ((run = rows.run /\ lock # r) \/ (Loads(procs[r]) /\ run = procs[r].seen.run))
      BY <1>2, <2>2, <2>3 DEF NeedsCleaning
    <3> HIDE DEF run
    <3> QED
      BY <2>1, <2>3, <3>1, GathersClean
  <2>4. CASE ~NeedsCleaning(run)
    <3>1. Goes(r, Idle, {}) /\ UNCHANGED <<rows, overdue, files, lock, draft>>
      BY <1>4, <2>4 DEF Responds
    <3>2. ~Loads(procs[r])
      BY <2>2, <2>4 DEF NeedsCleaning, Cleanings, Orderly, LoadedRuns
    <3>3. lock # r /\ FilesSwept(r)
      BY <1>2, <2>2, <3>1, <3>2 DEF FilesSwept, Returning
    <3>4. Idle.pc = "idle" /\ ~Loads(Idle) /\ ~Relies(Idle)
      BY DEF Idle, Loads, Relies
    <3> QED
      BY <3>1, <3>3, <3>4, IdleType, SameRowsClean DEF Working
  <2> QED
    BY <1>4, <2>3, <2>4 DEF Responds
<1> QED
  BY <1>3, <1>4

\* The end of a reading tells the clean-ups; it has seen the run uncleaned.
LEMMA EndsReadingClean ==
  ASSUME Inv, Started, Cleanings, crossed \subseteq crossed', Sound' => Sound,
         NEW r \in Requests, NEW new \in Rows, EndsReading(r, new), lock = r,
         procs[r].pc \in {"read", "store"}, overdue' = overdue,
         new.obs = draft.obs, new.run.status # "none",
         new.run.status = "cleaned" => rows.run.status = "cleaned",
         draft.run.token => new.run.token,
         Sound' => new.run.token \/ \A i \in Ids : new.res[i] = NoRow,
         Sound' /\ Swept => files' = files
  PROVE  Cleanings'
<1> DEFINE p == IF procs[r].task = "create" THEN Idle
                ELSE [Idle EXCEPT !.pc = "respond", !.task = "retry"]
<1>1. p \in RequestStates /\ p.pc \in {"idle", "respond"} /\ ~Loads(p) /\ ~Relies(p)
  BY IdleType DEF RequestStates, Tasks, Idle, Loads, Relies
<1>2. Goes(r, p, {"retry"}) /\ rows' = new /\ lock' = NoOne /\ {"retry"} \in SUBSET Tasks
  BY DEF EndsReading, CommitsRows, Tasks
<1> HIDE DEF p
<1>3. procs'[r] = p /\ \A s \in Requests \ {r} :
        /\ Kept(procs'[s], procs[s])
        /\ procs[s].pc # "idle" =>
             \A k \in {"retry"} : {k, procs[s].task} \in Harmful => k \in procs'[s].past
  BY <1>1, <1>2, GoesKeeps DEF Inv, TypeOK
<1>4. /\ draft.obs = rows.obs
      /\ procs[r].task = "retry" => draft.run = rows.run
      /\ procs[r].task \in {"create", "retry"}
  BY DEF Cleanings, Orderly, HoldsLock, Inv, Held, Fits
<1>5. Swept' => Swept
  BY <1>1, <1>2, <1>3 DEF Swept, Kept
<1>6. CleansExpired'
  <2>1. ASSUME Swept', NEW s \in Requests, procs'[s].pc \in Working
        PROVE  "clean" \in procs'[s].past
    BY <1>1, <1>3, <1>5, <2>1 DEF Cleanings, Orderly, CleansExpired, Working, Kept
  <2> QED
    BY <1>2, <1>5, <2>1 DEF Cleanings, Orderly, CleansExpired
<1>7. LoadedRuns'
  <2>1. ASSUME NEW s \in Requests, Loads(procs'[s])
        PROVE  /\ procs'[s].seen.run.status \notin {"none", "cleaned"}
               /\ procs'[s].pc = "respond" => overdue
    BY <1>1, <1>3, <2>1 DEF Cleanings, Orderly, LoadedRuns, Loads, Kept
  <2> QED
    BY <2>1 DEF LoadedRuns, Loads
<1>8. Orderly'
  BY <1>2, <1>6, <1>7 DEF Orderly, HoldsLock, NoResourceYet
<1>9. ASSUME Sound'
      PROVE  Cleaned'
  <2>1. Cleaned /\ rows.run.status # "cleaned"
    BY <1>9 DEF Cleanings, Cleaned, ReadsUncleaned
  <2>2. Emptied'
    <3>1. CASE Swept
      <4>1. FilesSwept(r)
        BY <1>9, <3>1 DEF FilesSwept, Returning
      <4> QED
        BY <1>1, <1>2, <1>5, <2>1, <4>1, EmptiedStays DEF Cleaned
    <3>2. CASE ~Swept
      BY <1>5, <3>2 DEF Emptied
    <3> QED
      BY <3>1, <3>2
  <2>3. CleanedIsEmpty'
    BY <1>2, <2>1 DEF CleanedIsEmpty
  <2>4. TokenIn(new)
    <3>1. ASSUME NEW f \in Images, new.obs[f] # NoRow
          PROVE  new.run.token
      <4>1. rows.run.token /\ rows.run.status # "none"
        BY <1>4, <2>1, <3>1
           DEF Cleaned, TokensAreThere, TokenIn, Started, NothingYet
      <4>2. procs[r].task = "retry"
        BY <1>4, <4>1 DEF Started, CreatesAlone
      <4> QED
        BY <1>4, <4>1, <4>2
    <3> QED
      BY <1>9, <3>1 DEF TokenIn
  <2>5. ASSUME NEW s \in Requests, Loads(procs'[s]) \/ Relies(procs'[s])
        PROVE  /\ Loads(procs'[s]) => procs'[s].seen.run.token
               /\ Relies(procs'[s]) /\ procs'[s].seen.run.token => new.run.token
    <3>1. s # r /\ Kept(procs'[s], procs[s])
      BY <1>1, <1>3, <2>5
    <3>2. (Loads(procs[s]) <=> Loads(procs'[s])) /\ (Relies(procs[s]) <=> Relies(procs'[s]))
      BY <3>1 DEF Loads, Relies, Kept
    <3>3. procs[r].task = "retry"
      <4>1. procs[s].pc # "idle" /\ lock # s
        BY <2>5, <3>1, <3>2 DEF Loads, Relies
      <4> QED
        BY <1>4, <4>1 DEF Started, CreatesAlone, NothingYet
    <3> QED
      BY <1>4, <2>1, <3>1, <3>2, <3>3 DEF Cleaned, TokensAreThere, Kept
  <2>6. TokensAreThere'
    BY <1>2, <2>4, <2>5 DEF TokensAreThere, TokenIn, Relies, Loads
  <2>7. ReadsUncleaned'
    BY <1>2, <2>1 DEF ReadsUncleaned
  <2>8. ASSUME NEW s \in Requests, procs'[s].pc \in {"sweep", "scrub"}
        PROVE  Misses(procs'[s], new)
    <3>1. s # r /\ procs[s].pc \in {"sweep", "scrub"} /\ Kept(procs'[s], procs[s])
      BY <1>1, <1>3, <2>8 DEF Kept
    <3>2. procs[s].task = "clean"
      BY <3>1 DEF Inv, Held, Fits
    <3>3. "retry" \in procs'[s].past
      BY <1>3, <3>1, <3>2, CleanCrossings
    <3>4. Misses(procs[s], rows)
      BY <2>1, <3>1 DEF Cleaned, ScrubsAll, View
    <3> QED
      BY <1>4, <3>1, <3>3, <3>4 DEF Misses, Kept
  <2>9. ScrubsAll'
    BY <1>2, <2>8 DEF ScrubsAll, Misses, View
  <2> QED
    BY <2>2, <2>3, <2>6, <2>7, <2>9 DEF Cleaned
<1> QED
  BY <1>8, <1>9 DEF Cleanings

LEMMA EndingClean ==
  ASSUME Inv, Started, Cleanings, crossed \subseteq crossed', Sound' => Sound,
         NEW r \in Requests, ReadFails(r) \/ StoresResources(r)
  PROVE  Cleanings'
<1>1. /\ procs[r].pc \in {"read", "store"} /\ lock = r /\ draft \in Rows
      /\ procs[r].task \in {"create", "retry"} /\ procs[r] \in RequestStates
      /\ overdue' = overdue
  BY DEF ReadFails, StoresResources, Inv, Held, Fits, TypeOK
<1>2. /\ draft.run = IF procs[r].task = "create" THEN procs[r].seen.run ELSE rows.run
      /\ \A i \in Ids : draft.res[i] = NoRow
  BY <1>1 DEF Cleanings, Orderly, HoldsLock
<1>3. CASE ReadFails(r)
  <2> DEFINE new == [draft EXCEPT !.run.status = "failed"]
  <2>1. /\ new \in Rows /\ new.run.status = "failed" /\ new.run.token = draft.run.token
        /\ new.obs = draft.obs /\ new.res = draft.res
    BY <1>1 DEF Rows, Runs
  <2>2. EndsReading(r, new) /\ files' = files
    BY <1>3 DEF ReadFails
  <2> HIDE DEF new
  <2> QED
    BY <1>1, <1>2, <2>1, <2>2, EndsReadingClean
<1>4. CASE StoresResources(r)
  <2>1. PICK new \in Rows :
          /\ EndsReading(r, new) /\ new.obs = draft.obs
          /\ new.run.status = "ready"
          /\ new.run.token = Put(draft.run.token, procs[r].seen.run.token, TRUE)
    BY <1>4, StoresWhat
  <2>2. procs[r].pc = "store" /\ Writes(r, procs[r].task)
    BY <1>4 DEF StoresResources
  <2>3. ASSUME Sound'
        PROVE  ~Swept /\ rows.run.status # "cleaned" /\ Cleaned
    <3>1. Cleaned /\ rows.run.status # "cleaned"
      BY <1>1, <2>3 DEF Cleanings, Cleaned, ReadsUncleaned
    <3>2. procs[r].task = "create" => ~Swept
      BY <1>1 DEF Started, CreatesAlone, Cleanings, Orderly, CleansExpired
    <3>3. Swept => "clean" \in procs[r].past
      BY <2>2 DEF Cleanings, Orderly, CleansExpired, Working
    <3>4. procs[r].task = "retry" => ~Swept
      BY <2>2, <2>3, <3>3, WarnedCrosses
    <3> QED
      BY <1>1, <3>1, <3>2, <3>4
  <2>4. new.run.status # "none" /\ (new.run.status = "cleaned" => rows.run.status = "cleaned")
    <3>1. draft.run.status # "none"
      BY <1>1 DEF Started, DraftStarted
    <3> QED
      BY <2>1
  <2>5. draft.run.token => new.run.token
    BY <1>1, <2>1 DEF Put, Rows, Runs
  <2>6. ASSUME Sound'
        PROVE  new.run.token
    <3>1. CASE ~procs[r].seen.run.token
      BY <1>1, <2>1, <3>1 DEF Put
    <3>2. CASE procs[r].seen.run.token
      <4>1. procs[r].task = "retry" => rows.run.token
        BY <1>1, <2>3, <2>6, <3>2 DEF Relies, Cleaned, TokensAreThere
      <4> QED
        BY <1>1, <1>2, <2>5, <3>2, <4>1
    <3> QED
      BY <3>1, <3>2
  <2> QED
    BY <1>1, <2>1, <2>3, <2>4, <2>5, <2>6, EndsReadingClean
<1> QED
  BY <1>3, <1>4

\* What judges an observation commits while nobody cleans.
LEMMA FlushClean ==
  ASSUME Inv, Started, SweepsExpired, Cleanings, crossed \subseteq crossed', Sound' => Sound,
         NEW r \in Requests, Flushes(r), ~overdue
  PROVE  Cleanings'
<1>1. /\ Goes(r, Idle, {procs[r].task}) /\ rows' = Flushed(r) /\ lock' = NoOne
      /\ overdue' = overdue /\ procs[r].pc = "flush" /\ Flushed(r).run = rows.run
      /\ {procs[r].task} \in SUBSET Tasks
  BY FlushedType, WorkingOnRun DEF Flushes, CommitsRows, Tasks
<1>2. procs'[r] = Idle /\ \A s \in Requests \ {r} : Kept(procs'[s], procs[s])
  BY <1>1, IdleType, GoesKeeps DEF Inv, TypeOK
<1>3. Idle.pc = "idle" /\ ~Loads(Idle) /\ ~Relies(Idle)
  BY DEF Idle, Loads, Relies
<1>4. /\ rows.run.status \notin {"none", "cleaned"}
      /\ \A s \in Requests : procs[s].pc \notin {"sweep", "scrub"}
  <2>1. ~Swept /\ \A s \in Requests : procs[s].pc # "sweep"
    BY DEF Cleanings, Orderly, CleansExpired, SweepsExpired
  <2>2. rows.run.status # "none"
    <3>1. procs[r].pc # "idle" /\ procs[r].task # "create"
      BY <1>1, WorkingOnRun
    <3> QED
      BY <3>1 DEF Started, NothingYet
  <2> QED
    BY <2>1, <2>2 DEF Swept
<1>5. ~Swept'
  BY <1>1, <1>2, <1>3, <1>4 DEF Swept, Kept
<1>6. LoadedRuns'
  <2>1. ASSUME NEW s \in Requests, Loads(procs'[s])
        PROVE  /\ procs'[s].seen.run.status \notin {"none", "cleaned"}
               /\ procs'[s].pc = "respond" => overdue
    BY <1>2, <1>3, <2>1 DEF Cleanings, Orderly, LoadedRuns, Loads, Kept
  <2> QED
    BY <1>1, <2>1 DEF LoadedRuns, Loads
<1>7. Orderly'
  BY <1>1, <1>4, <1>5, <1>6 DEF Orderly, CleansExpired, HoldsLock, NoResourceYet
<1>8. ASSUME Sound'
      PROVE  Cleaned'
  <2>1. Cleaned /\ rows.run.token
    BY <1>1, <1>4, <1>8, WorkingOnRun DEF Cleanings
  <2>2. ASSUME NEW s \in Requests, Loads(procs'[s])
        PROVE  procs'[s].seen.run.token
    BY <1>2, <1>3, <2>1, <2>2 DEF Cleaned, TokensAreThere, Loads, Kept
  <2>3. TokensAreThere'
    BY <1>1, <2>1, <2>2 DEF TokensAreThere, TokenIn, Loads
  <2>4. \A s \in Requests : procs'[s].pc \notin {"sweep", "scrub"}
    BY <1>2, <1>3, <1>4 DEF Kept
  <2> QED
    BY <1>1, <1>4, <1>5, <2>3, <2>4
       DEF Cleaned, Emptied, CleanedIsEmpty, ReadsUncleaned, ScrubsAll, Swept
<1> QED
  BY <1>7, <1>8 DEF Cleanings

\* A clean-up that crossed no reading and no observation leaves nothing.
LEMMA ScrubbedIsEmpty ==
  ASSUME Inv, NEW r \in Requests, procs[r].pc = "scrub", LoadedAreThere(r),
         Misses(procs[r], View(r)), procs[r].past \cap {"retry", "observe"} = {}
  PROVE  EmptyIn(Scrubbed(r))
<1> DEFINE seen == procs[r].seen
           view == View(r)
<1>1. /\ seen \in Rows /\ view \in Rows
      /\ \A f \in Images : seen.obs[f] # NoRow => view.obs[f] # NoRow
  BY ViewType DEF Inv, Held, Fits
<1>2. /\ ~seen.run.token => ~view.run.token
      /\ \A i \in Ids : seen.res[i] = NoRow /\ view.res[i] # NoRow => view.res[i].status = "expired"
      /\ \A f \in Images : seen.obs[f] = NoRow /\ view.obs[f] # NoRow => view.obs[f].status = "cleaned"
  BY DEF Misses
<1>3. \A i \in Ids : seen.res[i] # NoRow => view.res[i] # NoRow
  BY DEF LoadedAreThere
<1>4. /\ Scrubbed(r).run.token = Put(view.run.token, seen.run.token, FALSE)
      /\ \A i \in Ids : Scrubbed(r).res[i] = IF seen.res[i] = NoRow THEN view.res[i]
           ELSE [view.res[i] EXCEPT !.status = "expired", !.download = "expired"]
      /\ \A f \in Images : Scrubbed(r).obs[f] = IF seen.obs[f] = NoRow THEN view.obs[f]
           ELSE [view.obs[f] EXCEPT !.status = "cleaned"]
  BY DEF Scrubbed
<1> HIDE DEF seen, view
<1>5. ~Scrubbed(r).run.token
  <2>1. seen.run.token \in BOOLEAN /\ view.run.token \in BOOLEAN
    BY <1>1 DEF Rows, Runs
  <2> QED
    BY <1>2, <1>4, <2>1 DEF Put
<1>6. ASSUME NEW i \in Ids, Scrubbed(r).res[i] # NoRow
      PROVE  Scrubbed(r).res[i].status = "expired"
  <2>1. CASE seen.res[i] = NoRow
    BY <1>2, <1>4, <1>6, <2>1
  <2>2. CASE seen.res[i] # NoRow
    <3>1. view.res[i] \in Resources
      BY <1>1, <1>3, <2>2 DEF Rows
    <3>2. Scrubbed(r).res[i] = [view.res[i] EXCEPT !.status = "expired", !.download = "expired"]
      BY <1>4, <2>2
    <3> QED
      BY <3>1, <3>2 DEF Resources
  <2> QED
    BY <2>1, <2>2
<1>7. ASSUME NEW f \in Images, Scrubbed(r).obs[f] # NoRow
      PROVE  Scrubbed(r).obs[f].status = "cleaned"
  <2>1. CASE seen.obs[f] = NoRow
    BY <1>2, <1>4, <1>7, <2>1
  <2>2. CASE seen.obs[f] # NoRow
    <3>1. view.obs[f] \in Observations
      BY <1>1, <2>2 DEF Rows
    <3>2. Scrubbed(r).obs[f] = [view.obs[f] EXCEPT !.status = "cleaned"]
      BY <1>4, <2>2
    <3> QED
      BY <3>1, <3>2 DEF Observations
  <2> QED
    BY <2>1, <2>2
<1> QED
  BY <1>5, <1>6, <1>7 DEF EmptyIn

LEMMA ScrubsClean ==
  ASSUME Inv, Cleanings, crossed \subseteq crossed', Sound' => Sound,
         NEW r \in Requests, Scrubs(r)
  PROVE  Cleanings'
<1>1. /\ Goes(r, Idle, {"clean"}) /\ rows' = Scrubbed(r) /\ lock' = NoOne
      /\ UNCHANGED <<overdue, files>> /\ procs[r].pc = "scrub" /\ lock \in {NoOne, r}
      /\ LoadedAreThere(r) /\ Writes(r, "clean") /\ {"clean"} \in SUBSET Tasks
      /\ rows'.run.status = "cleaned"
  BY ScrubbedType DEF Scrubs, CommitsRows, Tasks
<1>2. procs'[r] = Idle /\ \A s \in Requests \ {r} : Kept(procs'[s], procs[s])
  BY <1>1, IdleType, GoesKeeps DEF Inv, TypeOK
<1>3. Idle.pc = "idle" /\ ~Loads(Idle) /\ ~Relies(Idle)
  BY DEF Idle, Loads, Relies
<1>4. Swept /\ overdue
  BY <1>1 DEF Swept, Cleanings, Orderly, CleansExpired
<1>5. CleansExpired'
  <2>1. ASSUME NEW s \in Requests, procs'[s].pc \in Working
        PROVE  "clean" \in procs'[s].past
    BY <1>2, <1>3, <1>4, <2>1 DEF Cleanings, Orderly, CleansExpired, Working, Kept
  <2> QED
    BY <1>1, <1>4, <2>1 DEF CleansExpired
<1>6. LoadedRuns'
  <2>1. ASSUME NEW s \in Requests, Loads(procs'[s])
        PROVE  procs'[s].seen.run.status \notin {"none", "cleaned"}
    BY <1>2, <1>3, <2>1 DEF Cleanings, Orderly, LoadedRuns, Loads, Kept
  <2> QED
    BY <1>1, <1>4, <2>1 DEF LoadedRuns, Loads
<1>7. Orderly'
  BY <1>1, <1>5, <1>6 DEF Orderly, HoldsLock, NoResourceYet
<1>8. ASSUME Sound'
      PROVE  Cleaned'
  <2>1. Cleaned
    BY <1>8 DEF Cleanings
  <2>2. ASSUME NEW k \in {"retry", "observe"}
        PROVE  k \notin procs[r].past
    <3> SUFFICES ASSUME k \in procs[r].past PROVE FALSE
      OBVIOUS
    <3>1. {"clean", k} \in Harmful
      BY CleanCrossings
    <3>2. {"clean", k} \in crossed'
      BY <1>1, <3>1, WritesCross
    <3> QED
      BY <1>8, <3>2 DEF Sound, Crossed
  <2>3. EmptyIn(rows')
    BY <1>1, <2>1, <2>2, ScrubbedIsEmpty DEF Cleaned, ScrubsAll
  <2>4. Emptied'
    <3>1. FilesSwept(r)
      BY <1>1 DEF FilesSwept, Returning
    <3> QED
      BY <1>1, <1>4, <2>1, <3>1, IdleType, EmptiedStays DEF Cleaned
  <2>5. CleanedIsEmpty'
    BY <2>3 DEF CleanedIsEmpty, EmptyIn
  <2>6. TokensAreThere'
    <3>1. ASSUME NEW s \in Requests, Loads(procs'[s])
          PROVE  procs'[s].seen.run.token
      BY <1>2, <1>3, <2>1, <3>1 DEF Cleaned, TokensAreThere, Loads, Kept
    <3> QED
      BY <1>1, <3>1 DEF TokensAreThere, Loads
  <2>7. ReadsUncleaned'
    <3>1. ASSUME NEW s \in Requests
          PROVE  procs'[s].pc \notin {"read", "store"}
      BY <1>1, <1>2, <1>3 DEF Inv, Held, Kept
    <3> QED
      BY <3>1 DEF ReadsUncleaned
  <2>8. ASSUME NEW s \in Requests
        PROVE  Misses(procs'[s], rows')
    BY <2>3 DEF EmptyIn, Misses
  <2>9. ScrubsAll'
    BY <1>1, <2>8 DEF ScrubsAll, Misses, View
  <2> QED
    BY <2>4, <2>5, <2>6, <2>7, <2>9 DEF Cleaned
<1> QED
  BY <1>7, <1>8 DEF Cleanings

LEMMA CrashClean ==
  ASSUME Inv, Cleanings, Sound' => Sound, Crash
  PROVE  Cleanings'
<1>1. /\ UNCHANGED <<rows, files, overdue, crossed>> /\ lock' = NoOne
      /\ \A r \in Requests : procs'[r] = Idle
      /\ faults' > 0
  BY DEF Crash, Inv, TypeOK
<1>2. Idle.pc = "idle" /\ ~Loads(Idle) /\ ~Relies(Idle)
  BY DEF Idle, Loads, Relies
<1>3. Swept' => Swept
  BY <1>1, <1>2 DEF Swept
<1>4. LoadedRuns' /\ HoldsLock' /\ CleansExpired'
  <2>1. \A r \in Requests : ~Loads(procs'[r])
    BY <1>1, <1>2
  <2>2. LoadedRuns'
    BY <2>1 DEF LoadedRuns, Loads
  <2>3. HoldsLock'
    BY <1>1 DEF HoldsLock
  <2>4. CleansExpired'
    BY <1>1, <1>2, <1>3 DEF CleansExpired, Working, Cleanings, Orderly
  <2> QED
    BY <2>2, <2>3, <2>4
<1>5. Orderly'
  BY <1>1, <1>4 DEF Cleanings, Orderly, NoResourceYet
<1>6. ASSUME Sound'
      PROVE  Cleaned'
  <2>1. Cleaned
    BY <1>6 DEF Cleanings
  <2>2. ASSUME NEW r \in Requests, Returning(r)
        PROVE  FALSE
    BY <1>1, <1>6, <2>2 DEF Returning, Sound, Crossed
  <2>3. Emptied'
    BY <1>1, <1>3, <2>1, <2>2 DEF Cleaned, Emptied
  <2>4. CleanedIsEmpty'
    BY <1>1, <2>1 DEF Cleaned, CleanedIsEmpty, EmptyIn
  <2>5. TokensAreThere'
    <3>1. \A r \in Requests : ~Loads(procs'[r]) /\ ~Relies(procs'[r])
      BY <1>1, <1>2
    <3> QED
      BY <1>1, <2>1, <3>1 DEF Cleaned, TokensAreThere, TokenIn, Loads, Relies
  <2>6. ReadsUncleaned' /\ ScrubsAll'
    BY <1>1, <1>2 DEF ReadsUncleaned, ScrubsAll
  <2> QED
    BY <2>3, <2>4, <2>5, <2>6 DEF Cleaned
<1> QED
  BY <1>5, <1>6 DEF Cleanings

LEMMA CleaningsStep == Inv /\ Started /\ SweepsExpired /\ Cleanings /\ [Next]_vars => Cleanings'
<1> SUFFICES ASSUME Inv, Started, SweepsExpired, Cleanings, [Next]_vars
             PROVE  Cleanings'
  OBVIOUS
<1>1. crossed \subseteq crossed' /\ (Sound' => Sound)
  BY CrossingsStay, SoundBefore
<1>2. CASE UNCHANGED vars
  BY <1>2 DEF vars, Cleanings, Orderly, CleansExpired, LoadedRuns, HoldsLock, NoResourceYet,
     Sound, Crossed, Cleaned, Emptied, Swept, Returning, CleanedIsEmpty, EmptyIn, TokensAreThere,
     TokenIn, Relies, Loads, ReadsUncleaned, ScrubsAll, Misses, View
<1>3. CASE Expires
  <2>1. /\ UNCHANGED <<rows, files, lock, draft, procs, faults, crossed, stuck>>
        /\ overdue' = TRUE /\ rows.run.status # "none"
    BY <1>3 DEF Expires
  <2>2. Orderly'
    BY <2>1 DEF Cleanings, Orderly, CleansExpired, Swept, LoadedRuns, Loads, HoldsLock,
       NoResourceYet
  <2>3. Cleaned => Emptied' /\ CleanedIsEmpty' /\ ReadsUncleaned'
    BY <2>1 DEF Cleaned, Emptied, Swept, Returning, Crossed, CleanedIsEmpty, EmptyIn,
       ReadsUncleaned
  <2>4. Cleaned => TokensAreThere'
    BY <2>1 DEF Cleaned, TokensAreThere, TokenIn, Relies, Loads
  <2>5. Cleaned => ScrubsAll'
    BY <2>1 DEF Cleaned, ScrubsAll, Misses, View
  <2> QED
    BY <1>1, <2>2, <2>3, <2>4, <2>5 DEF Cleanings, Cleaned
<1>4. ASSUME NEW r \in Requests, Proceeds(r)
      PROVE  Cleanings'
  BY <1>1, <1>4, ReadingClean, EndingClean, AnswersClean, LateFlushClean, FlushClean,
     MeetsExpiredClean, SweepsClean, ScrubsClean DEF Proceeds
<1> QED
  BY <1>1, <1>2, <1>3, <1>4, ReadingClean, AnswersClean, MeetsExpiredClean, CrashClean DEF Next

\* CleanedKeepsNothing: a cleaned run leaves no files, no token, no resource and no
\* observation, whoever met it expired, unless a removal failed or the clean-up was
\* crossed.
THEOREM CleanedRunsKeepNothing == Spec => []CleanedKeepsNothing
<1>1. Cleanings => CleanedKeepsNothing
  <2> SUFFICES ASSUME Cleanings, rows.run.status = "cleaned", NothingRuns, Sound
               PROVE  files = NoFiles /\ EmptyIn(rows)
    BY DEF CleanedKeepsNothing, Sound, EmptyIn
  <2>1. Cleaned /\ Swept
    BY DEF Cleanings, Swept
  <2>2. \A r \in Requests : ~Returning(r)
    BY DEF NothingRuns, Returning
  <2> QED
    BY <2>1, <2>2 DEF Cleaned, Emptied, CleanedIsEmpty
<1> QED
  BY <1>1, InvInit, InvStep, StartedInit, StartedStep, SweepsExpiredInit,
     SweepsExpiredStep, CleaningsInit, CleaningsStep, PTL DEF Spec

-----------------------------------------------------------------------------
(* What the gate of a run promises *)

\* Who holds the write lock never waits for the vision model, and what it is about
\* to flush adds to the committed rows only an observation that is not adopted.
MayHold(p, new, old) ==
  /\ p.pc # "call"
  /\ p.pc = "flush" =>
       /\ p.task = "observe" /\ new.res = old.res
       /\ \A f \in Images : new.obs[f] = old.obs[f] \/ new.obs[f].status # "adopted"

HoldersObserve == \A r \in Requests : lock = r => MayHold(procs[r], draft, rows)

\* No reading commits what it has not finished.
NeverReading == rows.run.status # "reading"

\* What an observation replaces is not approved, or an adoption touched it since.
Disapproves(p, accepted) ==
  p.pc = "flush" /\ p.task = "observe" /\ "adopt" \notin p.past => p.ref \notin accepted

ObservesDisapproved == ~overdue => \A r \in Requests : Disapproves(procs[r], approved)

\* A reading of a cleaned run contests it.
ReadersUncleaned ==
  ~Contested => \A r \in Requests :
    procs[r].pc \in {"read", "store"} => rows.run.status # "cleaned"

Guarded == HoldersObserve /\ NeverReading /\ ObservesDisapproved /\ ReadersUncleaned

LEMMA GuardedInit == Init => Guarded
BY DEF Init, Guarded, HoldersObserve, NeverReading, ObservesDisapproved, Disapproves,
       ReadersUncleaned, Idle

LEMMA RetryClean ==
  /\ {"retry", "clean"} \in Harmful
  /\ Crossed({"retry"}, {"clean"}) <=> {"retry", "clean"} \in crossed
BY DEF Harmful, Crossed

LEMMA UncontestedBefore ==
  ASSUME [Next]_vars, ~Contested'
  PROVE  ~Contested
BY CrossingsStay DEF Contested, Crossed

\* A step of r, after which r is p.
LEMMA StepGuarded ==
  ASSUME Inv, Guarded, [Next]_vars, NEW r \in Requests, NEW p \in RequestStates,
         NEW touches \in SUBSET Tasks, Goes(r, p, touches),
         \/ UNCHANGED <<rows, lock, draft>>
         \/ lock \in {NoOne, r} /\ lock' \in {NoOne, r},
         rows'.run.status # "reading",
         lock' = r => MayHold(p, draft', rows'),
         \/ overdue'
         \/ /\ approved' \subseteq approved \/ "adopt" \in touches
            /\ Disapproves(p, approved'),
         \/ Contested' \/ p.pc \notin {"read", "store"} \/ rows'.run.status # "cleaned"
  PROVE  Guarded'
<1>1. procs'[r] = p /\ \A s \in Requests \ {r} :
        /\ Kept(procs'[s], procs[s])
        /\ procs[s].pc # "idle" =>
             \A k \in touches : {k, procs[s].task} \in Harmful => k \in procs'[s].past
  BY GoesKeeps DEF Inv, TypeOK
<1>2. HoldersObserve'
  <2>1. ASSUME NEW s \in Requests, lock' = s
        PROVE  MayHold(procs'[s], draft', rows')
    <3>1. CASE s = r
      BY <1>1, <2>1, <3>1
    <3>2. CASE s # r
      <4>1. lock = s /\ UNCHANGED <<rows, draft>>
        BY <2>1, <3>2
      <4>2. MayHold(procs[s], draft, rows)
        BY <4>1 DEF Guarded, HoldersObserve
      <4> QED
        BY <1>1, <3>2, <4>1, <4>2 DEF MayHold, Kept
    <3> QED
      BY <3>1, <3>2
  <2> QED
    BY <2>1 DEF HoldersObserve, MayHold
<1>3. ObservesDisapproved'
  <2>1. ASSUME ~overdue', NEW s \in Requests
        PROVE  Disapproves(procs'[s], approved')
    <3>1. CASE s = r
      BY <1>1, <2>1, <3>1
    <3>2. CASE s # r
      <4> SUFFICES ASSUME procs'[s].pc = "flush", procs'[s].task = "observe",
                          "adopt" \notin procs'[s].past
                   PROVE  procs'[s].ref \notin approved'
        BY DEF Disapproves
      <4>1. /\ procs[s].pc = "flush" /\ procs[s].task = "observe"
            /\ "adopt" \notin procs[s].past /\ procs'[s].ref = procs[s].ref
        BY <1>1, <3>2 DEF Kept
      <4>2. procs[s].ref \notin approved
        BY <2>1, <4>1, CrossingsStay DEF Guarded, ObservesDisapproved, Disapproves
      <4>3. "adopt" \notin touches
        BY <1>1, <3>2, <4>1, ObserveAdopt
      <4> QED
        BY <2>1, <4>1, <4>2, <4>3
    <3> QED
      BY <3>1, <3>2
  <2> QED
    BY <2>1 DEF ObservesDisapproved, Disapproves
<1>4. ASSUME ~Contested', NEW s \in Requests, procs'[s].pc \in {"read", "store"}
      PROVE  rows'.run.status # "cleaned"
  <2>1. CASE s = r
    BY <1>1, <1>4, <2>1
  <2>2. CASE s # r
    <3>1. procs[s].pc \in {"read", "store"}
      BY <1>1, <1>4, <2>2 DEF Kept
    <3>2. lock = s
      BY <3>1 DEF Inv, Held
    <3>3. rows' = rows
      BY <2>2, <3>2
    <3> QED
      BY <1>4, <3>1, <3>3, UncontestedBefore DEF Guarded, ReadersUncleaned
  <2> QED
    BY <2>1, <2>2
<1> QED
  BY <1>2, <1>3, <1>4 DEF Guarded, NeverReading, ReadersUncleaned

\* What a reading of the source commits: a run that is failed or ready, and no
\* resource that was observed.
LEMMA ReadingCommits ==
  ASSUME Inv, Cleanings, NEW r \in Requests, ReadFails(r) \/ StoresResources(r)
  PROVE  /\ lock = r /\ procs[r].pc \in {"read", "store"}
         /\ rows'.run.status \in {"failed", "ready"} /\ rows' \in Rows
         /\ \A i \in Ids : rows'.res[i] # NoRow => rows'.res[i].status = "unobserved"
         /\ EndsReading(r, rows')
<1>1. /\ procs[r].pc \in {"read", "store"} /\ lock = r /\ draft \in Rows
      /\ procs[r].task \in {"create", "retry"}
  BY DEF ReadFails, StoresResources, Inv, Held, Fits, TypeOK
<1>2. /\ \A i \in Ids : draft.res[i] = NoRow
      /\ draft.run = IF procs[r].task = "create" THEN procs[r].seen.run ELSE rows.run
  BY <1>1 DEF Cleanings, Orderly, HoldsLock
<1>3. CASE ReadFails(r)
  <2> DEFINE new == [draft EXCEPT !.run.status = "failed"]
  <2>1. EndsReading(r, new)
    BY <1>3 DEF ReadFails
  <2>2. new \in Rows /\ new.run.status = "failed" /\ new.res = draft.res
    BY <1>1 DEF Rows, Runs
  <2> HIDE DEF new
  <2>3. rows' = new
    BY <2>1 DEF EndsReading, CommitsRows
  <2> QED
    BY <1>1, <1>2, <2>1, <2>2, <2>3
<1>4. CASE StoresResources(r)
  <2>1. PICK source \in Sources, got \in SUBSET Refs :
          EndsReading(r, [draft EXCEPT
            !.run = [status |-> "ready",
                     token |-> Put(draft.run.token, procs[r].seen.run.token, TRUE)],
            !.res = [i \in Ids |->
              IF i \notin DOMAIN source THEN draft.res[i]
              ELSE [ref |-> source[i], status |-> "unobserved",
                    download |-> IF source[i] \in got THEN "downloaded" ELSE "failed"]]])
    BY <1>4 DEF StoresResources
  <2> DEFINE run == [status |-> "ready",
                     token |-> Put(draft.run.token, procs[r].seen.run.token, TRUE)]
             res == [i \in Ids |->
                IF i \notin DOMAIN source THEN draft.res[i]
                ELSE [ref |-> source[i], status |-> "unobserved",
                      download |-> IF source[i] \in got THEN "downloaded" ELSE "failed"]]
             new == [draft EXCEPT !.run = run, !.res = res]
  <2>2. EndsReading(r, new)
    BY <2>1
  <2>3. \A i \in Ids : res[i] # NoRow => res[i].status = "unobserved"
    BY <1>2
  <2>4. run.status = "ready"
    OBVIOUS
  <2> HIDE DEF run, res
  <2>5. new.run = run /\ new.res = res
    BY <1>1 DEF Rows
  <2> HIDE DEF new
  <2>6. rows' = new
    BY <2>2 DEF EndsReading, CommitsRows
  <2>7. rows' \in Rows
    BY <1>4, StoresWhat DEF EndsReading, CommitsRows
  <2>8. rows'.run.status = "ready"
    BY <2>4, <2>5, <2>6
  <2> QED
    BY <1>1, <2>2, <2>3, <2>5, <2>6, <2>7, <2>8
<1> QED
  BY <1>3, <1>4

LEMMA ReadingGuarded ==
  ASSUME Inv, Started, Cleanings, Guarded, [Next]_vars, NEW r \in Requests,
         \/ Create(r) \/ Retry(r) \/ DeletesResources(r) \/ ReadFails(r) \/ ReadRaises(r)
         \/ ReadsSource(r) \/ StoresResources(r)
  PROVE  Guarded'
<1>1. /\ rows \in Rows /\ procs[r] \in RequestStates /\ {} \in SUBSET Tasks
      /\ {"retry"} \in SUBSET Tasks /\ rows.run.status # "reading"
  BY DEF Inv, TypeOK, Tasks, Guarded, NeverReading
<1>2. CASE Create(r)
  <2> DEFINE p == [Idle EXCEPT !.pc = "read", !.task = "create", !.seen = draft']
  <2>1. /\ Goes(r, p, {}) /\ UNCHANGED <<rows, approved>> /\ lock = NoOne /\ lock' = r
        /\ draft' = [rows EXCEPT !.run = [status |-> "reading", token |-> kind = "local_file"]]
        /\ rows.run.status = "none"
    BY <1>2 DEF Create
  <2>2. draft' \in Rows
    BY <1>1, <2>1 DEF Rows, Runs
  <2>3. p \in RequestStates /\ p.pc = "read"
    BY <2>2, IdleType DEF RequestStates, Tasks, Idle
  <2> HIDE DEF p
  <2> QED
    BY <1>1, <2>1, <2>3, StepGuarded DEF MayHold, Disapproves
<1>3. CASE Retry(r)
  <2> DEFINE p == [Idle EXCEPT !.pc = "delete", !.task = "retry", !.seen = rows]
  <2>1. Goes(r, p, {"retry"}) /\ UNCHANGED <<rows, lock, draft, approved>>
    BY <1>3 DEF Retry
  <2>2. p \in RequestStates /\ p.pc = "delete"
    BY <1>1, IdleType DEF RequestStates, Tasks, Idle
  <2> HIDE DEF p
  <2> QED
    BY <1>1, <2>1, <2>2, StepGuarded DEF MayHold, Disapproves
<1>4. CASE DeletesResources(r)
  <2> DEFINE p == [procs[r] EXCEPT !.pc = "read"]
  <2>1. /\ Goes(r, p, {}) /\ UNCHANGED <<rows, approved>> /\ lock = NoOne /\ lock' = r
        /\ procs[r].pc = "delete" /\ Writes(r, "retry")
    BY <1>4 DEF DeletesResources
  <2>2. p \in RequestStates /\ p.pc = "read"
    BY <1>1 DEF RequestStates
  <2>3. rows.run.status = "cleaned" => Contested'
    <3> SUFFICES ASSUME rows.run.status = "cleaned" PROVE Contested'
      OBVIOUS
    <3>1. "clean" \in procs[r].past
      BY <2>1 DEF Cleanings, Orderly, CleansExpired, Swept, Working
    <3>2. {"retry", "clean"} \in crossed'
      BY <2>1, <3>1, RetryClean, WritesCross
    <3> QED
      BY <3>2 DEF Contested, Crossed
  <2> HIDE DEF p
  <2> QED
    BY <1>1, <2>1, <2>2, <2>3, StepGuarded DEF MayHold, Disapproves
<1>5. CASE ReadsSource(r)
  <2> DEFINE p == [procs[r] EXCEPT !.pc = "store"]
  <2>1. Goes(r, p, {}) /\ UNCHANGED <<rows, lock, draft, approved>> /\ procs[r].pc = "read"
    BY <1>5 DEF ReadsSource
  <2>2. p \in RequestStates /\ p.pc = "store"
    BY <1>1 DEF RequestStates
  <2>3. Contested' \/ rows.run.status # "cleaned"
    BY <2>1, UncontestedBefore DEF Guarded, ReadersUncleaned
  <2> HIDE DEF p
  <2> QED
    BY <1>1, <2>1, <2>2, <2>3, StepGuarded DEF MayHold, Disapproves
<1>6. CASE ReadRaises(r)
  <2>1. /\ Goes(r, Idle, {}) /\ UNCHANGED <<rows, approved>>
        /\ (lock' = lock /\ draft' = draft) \/ (lock = r /\ lock' = NoOne)
        /\ Idle.pc = "idle" /\ Idle \in RequestStates
    BY <1>6, IdleType DEF ReadRaises, RollBack, Release, Idle
  <2> QED
    BY <1>1, <2>1, StepGuarded DEF MayHold, Disapproves
<1>7. CASE ReadFails(r) \/ StoresResources(r)
  <2> DEFINE p == IF procs[r].task = "create" THEN Idle
                  ELSE [Idle EXCEPT !.pc = "respond", !.task = "retry"]
  <2>1. /\ lock = r /\ lock' = NoOne /\ Goes(r, p, {"retry"}) /\ rows'.run.status # "reading"
    BY <1>7, ReadingCommits DEF EndsReading, CommitsRows
  <2>2. approved' = approved
    BY <1>7 DEF ReadFails, StoresResources
  <2>3. p \in RequestStates /\ p.pc \in {"idle", "respond"}
    BY IdleType DEF RequestStates, Tasks, Idle
  <2> HIDE DEF p
  <2> QED
    BY <1>1, <2>1, <2>2, <2>3, StepGuarded DEF MayHold, Disapproves
<1> QED
  BY <1>2, <1>3, <1>4, <1>5, <1>6, <1>7

\* A new observation is no longer approved, and adopts nothing.
LEMMA UpsertsGuarded ==
  ASSUME Inv, Guarded, [Next]_vars, NEW r \in Requests, Upserts(r)
  PROVE  Guarded'
<1> DEFINE p == [procs[r] EXCEPT !.pc = "flush"]
           f == procs[r].ref
<1>1. /\ procs[r] \in RequestStates /\ procs[r].pc = "call" /\ procs[r].task = "observe"
      /\ f \in Images /\ rows \in Rows /\ rows.run.status # "reading"
  BY DEF Inv, TypeOK, Held, Upserts, Fits, Guarded, NeverReading
<1>2. lock # r
  BY <1>1 DEF Guarded, HoldersObserve, MayHold
<1>3. /\ Goes(r, p, {"observe"}) /\ rows' = rows /\ approved' = approved \ {f}
      /\ {"observe"} \in SUBSET Tasks
      /\ \/ UNCHANGED <<lock, draft>>
         \/ /\ lock = NoOne /\ lock' = r
            /\ draft' = [rows EXCEPT !.obs[f] = [status |-> "observed", resource |-> Loaded(r)]]
  BY DEF Upserts, Tasks
<1>4. p \in RequestStates /\ p.pc = "flush" /\ p.task = "observe" /\ p.ref = f
  BY <1>1 DEF RequestStates
<1>5. lock' = r => MayHold(p, draft', rows')
  <2> SUFFICES ASSUME lock' = r PROVE MayHold(p, draft', rows')
    OBVIOUS
  <2>1. draft' = [rows EXCEPT !.obs[f] = [status |-> "observed", resource |-> Loaded(r)]]
    BY <1>2, <1>3
  <2>2. draft'.res = rows.res /\ \A g \in Images : draft'.obs[g] =
          IF g = f THEN [status |-> "observed", resource |-> Loaded(r)] ELSE rows.obs[g]
    BY <1>1, <2>1 DEF Rows
  <2> QED
    BY <1>3, <1>4, <2>2 DEF MayHold
<1>6. Disapproves(p, approved')
  BY <1>3, <1>4 DEF Disapproves
<1> HIDE DEF p, f
<1> QED
  BY <1>1, <1>3, <1>4, <1>5, <1>6, StepGuarded

LEMMA FlushesGuarded ==
  ASSUME Inv, Cleanings, Guarded, [Next]_vars, NEW r \in Requests, Flushes(r)
  PROVE  Guarded'
<1>1. /\ procs[r].pc = "flush" /\ procs[r] \in RequestStates /\ lock \in {NoOne, r}
      /\ procs[r].task \in {"observe", "adopt", "revoke"} /\ RowsAreThere(r)
      /\ rows.run.status # "reading" /\ Idle \in RequestStates /\ Idle.pc = "idle"
  BY IdleType DEF Flushes, Inv, TypeOK, Held, Fits, Guarded, NeverReading, Idle
<1>2. CASE overdue
  <2> DEFINE p == [procs[r] EXCEPT !.pc = "respond"]
  <2>1. Goes(r, p, {}) /\ lock' = r /\ rows' = rows /\ overdue'
    BY <1>2 DEF Flushes
  <2>2. p \in RequestStates /\ p.pc = "respond" /\ {} \in SUBSET Tasks
    BY <1>1 DEF RequestStates
  <2> HIDE DEF p
  <2> QED
    BY <1>1, <2>1, <2>2, StepGuarded DEF MayHold
<1>3. CASE ~overdue
  <2>1. Goes(r, Idle, {procs[r].task}) /\ rows' = Flushed(r) /\ lock' = NoOne
    BY <1>3 DEF Flushes, CommitsRows
  <2>2. rows'.run = rows.run
    BY <1>1, <2>1, FlushedType, WorkingOnRun
  <2>3. approved' \subseteq approved \/ procs[r].task = "adopt"
    BY <1>1 DEF Flushes
  <2>4. {procs[r].task} \in SUBSET Tasks
    BY <1>1 DEF Tasks
  <2>5. approved' \subseteq approved \/ "adopt" \in {procs[r].task}
    BY <2>3
  <2> QED
    BY <1>1, <2>1, <2>2, <2>4, <2>5, StepGuarded DEF Disapproves
<1> QED
  BY <1>2, <1>3

LEMMA GathersGuarded ==
  ASSUME Inv, Guarded, [Next]_vars, NEW r \in Requests, NEW run \in Runs, Gathers(r, run)
  PROVE  Guarded'
<1> DEFINE past == IF procs[r].pc = "idle" THEN {} ELSE procs[r].past
           seen == [View(r) EXCEPT !.run = run]
           p == [Idle EXCEPT !.pc = "sweep", !.task = "clean", !.past = past, !.seen = seen]
<1>1. View(r) \in Rows /\ procs[r] \in RequestStates /\ rows.run.status # "reading"
  BY ViewType DEF Inv, TypeOK, Guarded, NeverReading
<1>2. seen \in Rows /\ past \in SUBSET Tasks
  BY <1>1 DEF Rows, RequestStates
<1>3. Goes(r, p, {}) /\ UNCHANGED <<rows, lock, draft, approved>>
  BY DEF Gathers
<1> HIDE DEF past, seen
<1>4. p \in RequestStates /\ p.pc = "sweep"
  BY <1>2, IdleType DEF RequestStates, Tasks, Idle
<1> HIDE DEF p
<1> QED
  BY <1>1, <1>3, <1>4, StepGuarded DEF MayHold, Disapproves

LEMMA LaterGuarded ==
  ASSUME Inv, Cleanings, Guarded, [Next]_vars, NEW r \in Requests,
         \/ Visit(r) \/ Upserts(r) \/ CallFails(r) \/ FlushFails(r)
         \/ ScrubFails(r) \/ GivesUp(r) \/ Flushes(r) \/ Responds(r) \/ Sweeps(r) \/ Scrubs(r)
         \/ \E f \in Images : Observe(r, f)
         \/ \E f \in Images, task \in {"adopt", "revoke"} : Judge(r, f, task)
  PROVE  Guarded'
<1>1. /\ rows \in Rows /\ files \in Files /\ Idle.pc = "idle" /\ Idle \in RequestStates
      /\ procs[r] \in RequestStates /\ {} \in SUBSET Tasks /\ rows.run.status # "reading"
  BY IdleType DEF Inv, TypeOK, Idle, Guarded, NeverReading
<1>2. CASE CallFails(r) \/ FlushFails(r) \/ ScrubFails(r) \/ GivesUp(r)
  <2>1. Goes(r, Idle, {}) /\ Release(r) /\ UNCHANGED <<rows, approved>>
    BY <1>2 DEF CallFails, FlushFails, ScrubFails, GivesUp, RollBack
  <2>2. (lock' = lock /\ draft' = draft) \/ (lock = r /\ lock' = NoOne)
    BY <2>1 DEF Release
  <2> QED
    BY <1>1, <2>1, <2>2, StepGuarded DEF MayHold, Disapproves
<1>3. ASSUME NEW run \in Runs, Gathers(r, run)
      PROVE  Guarded'
  BY <1>3, GathersGuarded
<1>4. CASE Visit(r)
  BY <1>1, <1>3, <1>4 DEF Visit, Rows
<1>5. CASE Responds(r)
  <2> DEFINE run == IF procs[r].seen = NoRows THEN rows.run ELSE procs[r].seen.run
  <2>1. run \in Runs
    BY <1>1 DEF RequestStates, Rows
  <2>2. Gathers(r, run) \/ (Goes(r, Idle, {}) /\ UNCHANGED <<rows, lock, draft, approved>>)
    BY <1>5 DEF Responds
  <2> HIDE DEF run
  <2> QED
    BY <1>1, <1>3, <2>1, <2>2, StepGuarded DEF MayHold, Disapproves
<1>6. CASE Scrubs(r)
  <2>1. /\ Goes(r, Idle, {"clean"}) /\ rows' = Scrubbed(r) /\ lock \in {NoOne, r}
        /\ lock' = NoOne /\ approved' = approved /\ {"clean"} \in SUBSET Tasks
        /\ Scrubbed(r).run.status = "cleaned"
    BY <1>6, ScrubbedType DEF Scrubs, CommitsRows, Tasks
  <2> QED
    BY <1>1, <2>1, StepGuarded DEF Disapproves
<1>7. ASSUME NEW f \in Images, Observe(r, f)
      PROVE  Guarded'
  <2> DEFINE p == [Idle EXCEPT !.pc = "call", !.task = "observe", !.ref = f, !.seen = rows,
                               !.image = files.image[f]]
  <2>1. files.image[f] \in 0..MaxReads
    BY <1>1 DEF Files
  <2>2. p \in RequestStates /\ p.pc = "call"
    BY <1>1, <2>1 DEF RequestStates, Tasks, Idle
  <2>3. Goes(r, p, {}) /\ UNCHANGED <<rows, lock, draft, approved>> /\ procs[r].pc = "idle"
    BY <1>7 DEF Observe
  <2>4. lock # r
    BY <2>3 DEF Cleanings, Orderly, HoldsLock
  <2> HIDE DEF p
  <2> QED
    BY <1>1, <2>2, <2>3, <2>4, StepGuarded DEF Disapproves
<1>8. ASSUME NEW f \in Images, NEW task \in {"adopt", "revoke"}, Judge(r, f, task)
      PROVE  Guarded'
  <2> DEFINE p == [Idle EXCEPT !.pc = "flush", !.task = task, !.ref = f, !.seen = rows]
  <2>1. p \in RequestStates /\ p.pc = "flush" /\ p.task = task
    BY <1>1 DEF RequestStates, Tasks, Idle
  <2>2. Goes(r, p, {}) /\ UNCHANGED <<rows, lock, draft, approved>> /\ procs[r].pc = "idle"
    BY <1>8 DEF Judge
  <2>3. lock # r
    BY <2>2 DEF Cleanings, Orderly, HoldsLock
  <2> HIDE DEF p
  <2> QED
    BY <1>1, <2>1, <2>2, <2>3, StepGuarded DEF Disapproves
<1>9. CASE Sweeps(r)
  <2> DEFINE p == [procs[r] EXCEPT !.pc = "scrub"]
  <2>1. /\ Goes(r, p, {"clean"}) /\ {"clean"} \in SUBSET Tasks /\ procs[r].pc = "sweep"
        /\ UNCHANGED <<rows, lock, draft, approved>>
    BY <1>9 DEF Sweeps, Tasks
  <2>2. p \in RequestStates /\ p.pc = "scrub"
    BY <1>1 DEF RequestStates
  <2> HIDE DEF p
  <2> QED
    BY <1>1, <2>1, <2>2, StepGuarded DEF MayHold, Disapproves
<1> QED
  BY <1>2, <1>4, <1>5, <1>6, <1>7, <1>8, <1>9, UpsertsGuarded, FlushesGuarded

LEMMA GuardedStep == Inv /\ Started /\ Cleanings /\ Guarded /\ [Next]_vars => Guarded'
<1> SUFFICES ASSUME Inv, Started, Cleanings, Guarded, [Next]_vars
             PROVE  Guarded'
  OBVIOUS
<1>1. CASE UNCHANGED vars
  BY <1>1 DEF vars, Guarded, HoldersObserve, MayHold, NeverReading, ObservesDisapproved,
              Disapproves, ReadersUncleaned, Contested, Crossed
<1>2. CASE Expires
  BY <1>2 DEF Expires, Guarded, HoldersObserve, MayHold, NeverReading, ObservesDisapproved,
              Disapproves, ReadersUncleaned, Contested, Crossed
<1>3. CASE Crash
  <2>1. rows' = rows /\ lock' = NoOne /\ \A r \in Requests : procs'[r].pc = "idle"
    BY <1>3 DEF Crash, Idle
  <2> QED
    BY <2>1 DEF Guarded, HoldersObserve, NeverReading, ObservesDisapproved, Disapproves,
                ReadersUncleaned
<1>4. ASSUME NEW r \in Requests, Proceeds(r)
      PROVE  Guarded'
  BY <1>4, ReadingGuarded, LaterGuarded DEF Proceeds
<1> QED
  BY <1>1, <1>2, <1>3, <1>4, ReadingGuarded, LaterGuarded DEF Next

LEMMA PassingIsApproved == Approvals /\ ~Contested => Passing \subseteq approved
BY DEF Approvals, Calm, AdoptedApproved, AdoptedIn, Contested, Passing, PassesValidation, Usable

\* What passes after a step is approved, and nothing passes once the run has expired.
LEMMA PassesAfter ==
  ASSUME Approvals'
  PROVE  /\ ~Contested' => Passing' \subseteq approved'
         /\ overdue' => Passing' = {}
<1>1. ~Contested' => Passing' \subseteq approved'
  BY DEF Approvals, Calm, AdoptedApproved, AdoptedIn, Contested, Passing, PassesValidation, Usable
<1>2. overdue' => Passing' = {}
  BY DEF Passing, PassesValidation, Usable
<1> QED
  BY <1>1, <1>2

\* Steps after which nothing is approved or passes that was not and did not.
LEMMA StepWithdraws ==
  ASSUME Approvals', ~Contested, ~Contested', rows'.run.status = rows.run.status,
         approved' \subseteq approved, overdue' \/ Passing' \subseteq Passing
  PROVE  Gate!Withdraw
BY PassesAfter DEF Gate!Withdraw, Phase

LEMMA SameRowsPass ==
  ASSUME [Next]_vars, rows' = rows,
         NEW f \in Images, f \in Passing', files'.detail[f] > 0 => files.detail[f] > 0
  PROVE  f \in Passing
<1>1. PassesValidation(f)'
  BY DEF Passing
<1>2. PassesValidation(f)
  BY <1>1, CrossingsStay DEF PassesValidation, Usable
<1> QED
  BY <1>2 DEF Passing

\* Steps that leave the rows and what is approved alone, and describe no image.
LEMMA SameRowsGate ==
  ASSUME [Next]_vars, Approvals', ~Contested, ~Contested', rows' = rows, approved' = approved,
         \/ overdue' \/ files'.detail = files.detail
         \/ \A f \in Images : files'.detail[f] = 0
  PROVE  Gate!Withdraw
<1>1. overdue' \/ Passing' \subseteq Passing
  <2> SUFFICES ASSUME ~overdue', NEW f \in Passing' PROVE f \in Passing
    OBVIOUS
  <2>1. f \in Images
    BY DEF Passing
  <2>2. files'.detail[f] > 0 => files.detail[f] > 0
    <3>1. ~(0 > 0)
      OBVIOUS
    <3> QED
      BY <2>1, <3>1
  <2> QED
    BY <2>1, <2>2, SameRowsPass
<1> QED
  BY <1>1, StepWithdraws

\* A reading leaves nothing that passes.
LEMMA ReadingReads ==
  ASSUME Inv, Started, Cleanings, Guarded, [Next]_vars, ~Contested, ~Contested',
         NEW r \in Requests, ReadFails(r) \/ StoresResources(r)
  PROVE  Gate!Read
<1>1. /\ procs[r].pc \in {"read", "store"}
      /\ rows'.run.status \in {"failed", "ready"} \/ rows.run.status = "cleaned"
      /\ rows'.run.status # "reading" /\ rows' \in Rows
      /\ \A i \in Ids : rows'.res[i] # NoRow => rows'.res[i].status = "unobserved"
  BY ReadingCommits
<1>2. rows.run.status # "cleaned" /\ rows.run.status # "reading"
  BY <1>1 DEF Guarded, ReadersUncleaned, NeverReading
<1>3. rows.run.status \in {"none", "failed", "ready"}
  BY <1>2 DEF Inv, TypeOK, Rows, Runs
<1>4. Passing' = {}
  <2> SUFFICES ASSUME NEW f \in Images, PassesValidation(f)' PROVE FALSE
    BY DEF Passing
  <2>1. PICK i : i = rows'.obs[f].resource
    OBVIOUS
  <2>2. rows'.obs[f] # NoRow /\ rows'.res[i] # NoRow /\ rows'.res[i].status = "adopted"
    BY <2>1 DEF PassesValidation
  <2>3. rows'.obs[f] \in Observations
    BY <1>1, <2>2 DEF Rows
  <2>4. i \in Ids
    BY <2>1, <2>3 DEF Observations
  <2> QED
    BY <1>1, <2>2, <2>4
<1>5. approved' = approved
  BY DEF ReadFails, StoresResources
<1> QED
  BY <1>1, <1>2, <1>3, <1>4, <1>5 DEF Gate!Read, Phase

LEMMA ReadingKeepsGate ==
  ASSUME Inv, Started, Cleanings, Guarded, Approvals', [Next]_vars, ~Contested, ~Contested',
         NEW r \in Requests,
         \/ Create(r) \/ Retry(r) \/ DeletesResources(r) \/ ReadFails(r) \/ ReadRaises(r)
         \/ ReadsSource(r) \/ StoresResources(r)
  PROVE  Gate!Next
<1>1. files \in Files /\ \A f \in Images : NoFiles.detail[f] = 0
  BY DEF Inv, TypeOK, NoFiles
<1>2. CASE Create(r) \/ DeletesResources(r) \/ ReadsSource(r)
  <2>1. UNCHANGED <<rows, approved>> /\ files'.detail = files.detail
    BY <1>1, <1>2 DEF Create, DeletesResources, ReadsSource, Files
  <2> QED
    BY <2>1, SameRowsGate DEF Gate!Next
<1>3. CASE Retry(r)
  <2>1. UNCHANGED <<rows, approved>> /\ \A f \in Images : files'.detail[f] = 0
    BY <1>3 DEF Retry, Cleared, NoFiles
  <2> QED
    BY <2>1, SameRowsGate DEF Gate!Next
<1>4. CASE ReadRaises(r)
  <2>1. UNCHANGED <<rows, approved>> /\ files' \in {files, NoFiles}
    BY <1>4 DEF ReadRaises
  <2> QED
    BY <1>1, <2>1, SameRowsGate DEF Gate!Next
<1> QED
  BY <1>2, <1>3, <1>4, ReadingReads DEF Gate!Next

LEMMA UpsertsWithdraws ==
  ASSUME Inv, [Next]_vars, Approvals', ~Contested, ~Contested', NEW r \in Requests, Upserts(r)
  PROVE  Gate!Withdraw
<1> DEFINE f == procs[r].ref
<1>1. /\ rows' = rows /\ approved' = approved \ {f} /\ files \in Files
      /\ files' = [files EXCEPT !.detail[f] = procs[r].image]
  BY DEF Upserts, Inv, TypeOK
<1>2. \A g \in Images \ {f} : files'.detail[g] = files.detail[g]
  BY <1>1 DEF Files
<1>3. Passing' \subseteq Passing
  <2> SUFFICES ASSUME NEW g \in Passing' PROVE g \in Passing
    OBVIOUS
  <2>1. g \in Images /\ g \in approved'
    BY PassesAfter DEF Passing
  <2>2. g # f
    BY <1>1, <2>1
  <2> QED
    BY <1>1, <1>2, <2>1, <2>2, SameRowsPass
<1> QED
  BY <1>1, <1>3, StepWithdraws

\* What an adoption writes keeps what it finds adopted.
LEMMA AdoptionKeeps ==
  ASSUME Inv, Cleanings, Guarded, [Next]_vars, NEW r \in Requests, Flushes(r), ~overdue,
         procs[r].task = "adopt"
  PROVE  Passing \subseteq Passing'
<1> DEFINE f == procs[r].ref
           old == procs[r].seen.obs[f]
<1>1. /\ procs[r].pc = "flush" /\ lock \in {NoOne, r} /\ RowsAreThere(r) /\ rows \in Rows
      /\ rows' = Flushed(r) /\ overdue' = overdue /\ files \in Files
      /\ files' = [files EXCEPT !.index = files.index \/ procs[r].task # "observe"]
      /\ f \in Images
  BY DEF Flushes, CommitsRows, Inv, TypeOK, Held, Fits
<1>2. lock # r
  BY <1>1 DEF Guarded, HoldersObserve, MayHold
<1>3. View(r) = rows /\ files'.detail = files.detail
  BY <1>1, <1>2 DEF View, Files
<1>4. rows'.run = rows.run /\ rows' \in Rows
  BY <1>1, <1>3, FlushedType
<1>5. ASSUME NEW g \in Images, PassesValidation(g)
      PROVE  PassesValidation(g)'
  <2>1. PICK i : i = rows.obs[g].resource
    OBVIOUS
  <2>2. /\ rows.obs[g] # NoRow /\ rows.obs[g].status = "adopted" /\ files.detail[g] > 0
        /\ rows.res[i] # NoRow /\ rows.res[i].ref = g /\ rows.res[i].status = "adopted"
    BY <1>5, <2>1 DEF PassesValidation
  <2>3. rows.obs[g] \in Observations /\ i \in Ids
    BY <1>1, <2>1, <2>2 DEF Rows, Observations
  <2>4. rows'.obs[g] # NoRow /\ rows'.obs[g].status = "adopted" /\ rows'.obs[g].resource = i
    <3>1. CASE g # f
      <4>1. rows'.obs[g] = rows.obs[g]
        BY <1>1, <1>3, <3>1 DEF Flushed, Rows
      <4> QED
        BY <2>1, <2>2, <4>1
    <3>2. CASE g = f /\ old = NoRow
      <4>1. rows'.obs[g] = rows.obs[g]
        BY <1>1, <1>3, <3>2 DEF Flushed, Rows
      <4> QED
        BY <2>1, <2>2, <4>1
    <3>3. CASE g = f /\ old # NoRow
      <4>1. rows'.obs[g] = [status |-> Put(rows.obs[g].status, old.status, "adopted"),
                            resource |-> Put(rows.obs[g].resource, old.resource, rows.obs[g].resource)]
        BY <1>1, <1>3, <3>3 DEF Flushed, Rows
      <4>2. /\ Put(rows.obs[g].status, old.status, "adopted") = "adopted"
            /\ Put(rows.obs[g].resource, old.resource, rows.obs[g].resource) = i
        BY <2>1, <2>2 DEF Put
      <4>3. rows'.obs[g] # NoRow
        BY <1>1, <1>3, <2>2, FlushedType
      <4> QED
        BY <4>1, <4>2, <4>3
    <3> QED
      BY <3>1, <3>2, <3>3
  <2>5. rows'.res[i] # NoRow /\ rows'.res[i].ref = g /\ rows'.res[i].status = "adopted"
    <3>1. rows.res[i] \in Resources
      BY <1>1, <2>2, <2>3 DEF Rows
    <3>2. CASE i \notin Target(r)
      <4>1. rows'.res[i] = rows.res[i]
        BY <1>1, <1>3, <2>3, <3>2 DEF Flushed
      <4> QED
        BY <2>2, <4>1
    <3>3. CASE i \in Target(r)
      <4>1. PICK st : st = Put(rows.res[i].status, procs[r].seen.res[i].status, "adopted")
        OBVIOUS
      <4>2. rows'.res[i] = [rows.res[i] EXCEPT !.status = st]
        BY <1>1, <1>3, <2>3, <3>3, <4>1 DEF Flushed
      <4>3. st = "adopted"
        BY <2>2, <4>1 DEF Put
      <4>4. rows'.res[i] \in Resources /\ rows'.res[i].ref = g /\ rows'.res[i].status = "adopted"
        BY <2>2, <3>1, <4>2, <4>3 DEF Resources
      <4> QED
        BY <4>4, NoRowsAssumption
    <3> QED
      BY <3>2, <3>3
  <2>6. Usable' /\ rows'.run.status = "ready"
    BY <1>1, <1>4, <1>5 DEF PassesValidation, Usable
  <2> QED
    BY <1>3, <2>2, <2>4, <2>5, <2>6 DEF PassesValidation
<1> QED
  BY <1>5 DEF Passing

\* An observation or a revocation makes nothing pass that did not.
LEMMA OtherFlushKeeps ==
  ASSUME Inv, Cleanings, Guarded, Approvals, Approvals', [Next]_vars, ~Contested, ~Contested',
         NEW r \in Requests, Flushes(r), ~overdue, procs[r].task # "adopt"
  PROVE  Passing' \subseteq Passing
<1> DEFINE f == procs[r].ref
<1>1. /\ procs[r].pc = "flush" /\ lock \in {NoOne, r} /\ RowsAreThere(r) /\ rows \in Rows
      /\ rows' = Flushed(r) /\ overdue' = overdue /\ files \in Files
      /\ files' = [files EXCEPT !.index = files.index \/ procs[r].task # "observe"]
      /\ f \in Images /\ procs[r].task \in {"observe", "revoke"} /\ Writes(r, procs[r].task)
      /\ approved' = IF procs[r].task = "revoke" THEN approved \ {f} ELSE approved
  BY DEF Flushes, CommitsRows, Inv, TypeOK, Held, Fits
<1>2. files'.detail = files.detail /\ View(r) \in Rows
  BY <1>1, ViewType DEF Files
<1>3. rows'.run = rows.run
  BY <1>1, FlushedType, WorkingOnRun
<1>4. f \notin approved'
  <2>1. CASE procs[r].task = "revoke"
    BY <1>1, <2>1
  <2>2. CASE procs[r].task = "observe"
    <3>1. "adopt" \notin procs[r].past
      <4> SUFFICES ASSUME "adopt" \in procs[r].past PROVE FALSE
        OBVIOUS
      <4>1. {"observe", "adopt"} \in crossed'
        BY <1>1, <2>2, ObserveAdopt, WritesCross
      <4> QED
        BY <4>1, ObserveAdopt DEF Contested, Crossed
    <3> QED
      BY <1>1, <2>2, <3>1 DEF Guarded, ObservesDisapproved, Disapproves
  <2> QED
    BY <1>1, <2>1, <2>2
<1>5. ASSUME NEW g \in Images, PassesValidation(g)'
      PROVE  PassesValidation(g)
  <2>1. g # f
    BY <1>4, <1>5, PassesAfter DEF Passing
  <2>2. rows'.obs[g] = View(r).obs[g]
    BY <1>1, <1>2, <2>1 DEF Flushed, Rows
  <2>3. PICK i : i = rows'.obs[g].resource
    OBVIOUS
  <2>4. /\ rows'.obs[g] # NoRow /\ rows'.obs[g].status = "adopted" /\ files'.detail[g] > 0
        /\ rows'.res[i] # NoRow /\ rows'.res[i].ref = g /\ rows'.res[i].status = "adopted"
        /\ Usable' /\ rows'.run.status = "ready"
    BY <1>5, <2>3 DEF PassesValidation
  <2>5. View(r).res = rows.res /\ View(r).obs[g] = rows.obs[g]
    <3>1. CASE lock = r
      BY <1>1, <2>2, <2>4, <3>1 DEF Guarded, HoldersObserve, MayHold, View
    <3>2. CASE lock # r
      BY <3>2 DEF View
    <3> QED
      BY <3>1, <3>2
  <2>6. i \in Ids
    BY <1>2, <2>2, <2>3, <2>4 DEF Rows, Observations
  <2>7. rows.res[i] # NoRow /\ rows.res[i].ref = g /\ rows.res[i].status = "adopted"
    <3>1. CASE i \notin Target(r)
      <4>1. rows'.res[i] = rows.res[i]
        BY <1>1, <2>5, <2>6, <3>1 DEF Flushed
      <4> QED
        BY <2>4, <4>1
    <3>2. CASE i \in Target(r)
      <4>1. PICK st : st = Put(rows.res[i].status, procs[r].seen.res[i].status, "observed")
        OBVIOUS
      <4>2. rows'.res[i] = [rows.res[i] EXCEPT !.status = st]
        BY <1>1, <2>5, <2>6, <3>2, <4>1 DEF Flushed
      <4>3. rows.res[i] # NoRow
        BY <1>1, <2>5, <3>2 DEF RowsAreThere
      <4>4. rows.res[i] \in Resources
        BY <1>1, <2>6, <4>3 DEF Rows
      <4>5. rows'.res[i].ref = rows.res[i].ref /\ rows'.res[i].status = st
        BY <4>2, <4>4 DEF Resources
      <4>6. st = "adopted" => rows.res[i].status = "adopted"
        BY <4>1 DEF Put
      <4> QED
        BY <2>4, <4>3, <4>5, <4>6
    <3> QED
      BY <3>1, <3>2
  <2>8. Usable /\ rows.run.status = "ready" /\ files.detail[g] > 0
    BY <1>1, <1>2, <1>3, <2>4 DEF Usable
  <2> QED
    BY <2>2, <2>3, <2>4, <2>5, <2>7, <2>8 DEF PassesValidation
<1> QED
  BY <1>5 DEF Passing

LEMMA FlushesKeepsGate ==
  ASSUME Inv, Cleanings, Guarded, Approvals, Approvals', [Next]_vars, ~Contested, ~Contested',
         NEW r \in Requests, Flushes(r)
  PROVE  Gate!Next
<1> DEFINE f == procs[r].ref
<1>1. /\ procs[r].pc = "flush" /\ RowsAreThere(r) /\ f \in Images
      /\ procs[r].task \in {"observe", "adopt", "revoke"} /\ overdue' = overdue
      /\ rows' = rows \/ rows' = Flushed(r)
  BY DEF Flushes, CommitsRows, Inv, Held, Fits
<1>2. rows'.run = rows.run
  BY <1>1, FlushedType, WorkingOnRun
<1>3. Phase' = Phase
  BY <1>2 DEF Phase
<1>4. approved' \subseteq approved \/ (approved' = approved \cup {f} /\ procs[r].task = "adopt")
  BY <1>1 DEF Flushes
<1>5. overdue => Passing = {} /\ Passing' = {}
  BY <1>1, PassesAfter DEF Passing, PassesValidation, Usable
<1>6. CASE approved' = approved \cup {f} /\ procs[r].task = "adopt"
  <2>1. Passing \subseteq Passing'
    BY <1>5, <1>6, AdoptionKeeps
  <2>2. Passing' \subseteq approved'
    BY PassesAfter
  <2>3. \E g \in Images : approved' = approved \cup {g}
    BY <1>1, <1>6
  <2> QED
    BY <1>3, <2>1, <2>2, <2>3 DEF Gate!Adopt, Gate!Next
<1>7. CASE approved' \subseteq approved /\ (overdue \/ procs[r].task # "adopt")
  <2>1. overdue' \/ Passing' \subseteq Passing
    BY <1>1, <1>7, OtherFlushKeeps
  <2> QED
    BY <1>2, <1>7, <2>1, StepWithdraws DEF Gate!Next
<1>8. ~overdue /\ procs[r].task = "adopt" => approved' = approved \cup {f}
  <2> SUFFICES ASSUME ~overdue, procs[r].task = "adopt" PROVE approved' = approved \cup {f}
    OBVIOUS
  <2>1. "observe" \notin procs[r].past
    <3> SUFFICES ASSUME "observe" \in procs[r].past PROVE FALSE
      OBVIOUS
    <3>1. Writes(r, "adopt")
      BY DEF Flushes
    <3>2. {"adopt", "observe"} \in crossed'
      BY <1>1, <3>1, ObserveAdopt, WritesCross
    <3> QED
      BY <3>2, ObserveAdopt DEF Contested, Crossed
  <2> QED
    BY <2>1 DEF Flushes
<1> QED
  BY <1>4, <1>6, <1>7, <1>8

LEMMA LaterKeepsGate ==
  ASSUME Inv, SweepsExpired, Cleanings, Guarded, Approvals, Approvals', [Next]_vars, ~Contested, ~Contested',
         NEW r \in Requests,
         \/ Visit(r) \/ Upserts(r) \/ CallFails(r) \/ FlushFails(r)
         \/ ScrubFails(r) \/ GivesUp(r) \/ Flushes(r) \/ Responds(r) \/ Sweeps(r) \/ Scrubs(r)
         \/ \E f \in Images : Observe(r, f)
         \/ \E f \in Images, task \in {"adopt", "revoke"} : Judge(r, f, task)
  PROVE  Gate!Next
<1>1. CASE \/ CallFails(r) \/ FlushFails(r) \/ ScrubFails(r) \/ GivesUp(r)
           \/ \E f \in Images : Observe(r, f)
           \/ \E f \in Images, task \in {"adopt", "revoke"} : Judge(r, f, task)
  <2>1. UNCHANGED <<rows, approved, files>>
    BY <1>1 DEF CallFails, FlushFails, ScrubFails, GivesUp, Observe, Judge
  <2> QED
    BY <2>1, SameRowsGate DEF Gate!Next
<1>2. CASE Sweeps(r)
  <2>1. overdue' /\ UNCHANGED <<rows, approved>>
    BY <1>2 DEF Sweeps, SweepsExpired
  <2> QED
    BY <2>1, SameRowsGate DEF Gate!Next
<1>3. CASE Visit(r) \/ Responds(r)
  <2>1. UNCHANGED <<rows, approved, files>>
    BY <1>3 DEF Visit, Responds, Gathers
  <2> QED
    BY <2>1, SameRowsGate DEF Gate!Next
<1>5. CASE Scrubs(r)
  <2>1. rows'.run.status = "cleaned" /\ approved' = approved
    BY <1>5, ScrubbedType DEF Scrubs, CommitsRows
  <2>2. overdue /\ rows.run.status # "none" /\ rows.run.status # "reading"
    BY <1>5 DEF Scrubs, Cleanings, Orderly, CleansExpired, Swept, Guarded, NeverReading
  <2>3. rows.run.status \in {"failed", "ready", "cleaned"}
    BY <2>2 DEF Inv, TypeOK, Rows, Runs
  <2>4. Passing' = {}
    BY <2>2, PassesAfter, CrossingsStay
  <2>5. CASE rows.run.status = "cleaned"
    BY <2>1, <2>4, <2>5, StepWithdraws DEF Gate!Next
  <2>6. CASE rows.run.status \in {"failed", "ready"}
    <3>1. Gate!Clean
      BY <2>1, <2>4, <2>6 DEF Gate!Clean, Phase
    <3> QED
      BY <3>1 DEF Gate!Next
  <2> QED
    BY <2>3, <2>5, <2>6
<1> QED
  BY <1>1, <1>2, <1>3, <1>5, UpsertsWithdraws, FlushesKeepsGate DEF Gate!Next

LEMMA GateInit == Init => Gate!Init
<1> SUFFICES ASSUME Init PROVE Gate!Init
  OBVIOUS
<1>1. Phase = "none"
  BY DEF Init, Phase, Contested, Crossed
<1>2. Passing = {}
  BY DEF Init, Passing, PassesValidation
<1> QED
  BY <1>1, <1>2 DEF Init, Gate!Init

LEMMA GateStep ==
  Inv /\ Started /\ SweepsExpired /\ Cleanings /\ Guarded /\ Approvals /\ Approvals' /\ [Next]_vars =>
    [Gate!Next]_Gate!vars
<1> SUFFICES ASSUME Inv, Started, SweepsExpired, Cleanings, Guarded, Approvals, Approvals', [Next]_vars
             PROVE  [Gate!Next]_Gate!vars
  OBVIOUS
<1>1. CASE Contested'
  <2>1. Phase' = "contested"
    BY <1>1 DEF Phase
  <2> QED
    BY <2>1 DEF Gate!Contest, Gate!Next
<1>2. CASE ~Contested'
  <2>1. ~Contested
    BY <1>2, UncontestedBefore
  <2>2. CASE UNCHANGED vars
    <3>1. Phase' = Phase /\ Passing' = Passing /\ approved' = approved
      BY <2>2 DEF vars, Phase, Contested, Crossed, Passing, PassesValidation, Usable
    <3> QED
      BY <3>1 DEF Gate!vars
  <2>3. CASE Expires \/ Crash
    <3>1. UNCHANGED <<rows, files, approved>>
      BY <2>3 DEF Expires, Crash
    <3> QED
      BY <1>2, <2>1, <3>1, SameRowsGate DEF Gate!Next
  <2>4. ASSUME NEW r \in Requests, Proceeds(r)
        PROVE  Gate!Next
    BY <1>2, <2>1, <2>4, ReadingKeepsGate, LaterKeepsGate DEF Proceeds
  <2>5. CASE \/ \E r \in Requests : Create(r) \/ Retry(r) \/ Visit(r)
             \/ \E r \in Requests, f \in Images : Observe(r, f)
             \/ \E r \in Requests, f \in Images, task \in {"adopt", "revoke"} : Judge(r, f, task)
    BY <1>2, <2>1, <2>5, ReadingKeepsGate, LaterKeepsGate
  <2> QED
    BY <2>2, <2>3, <2>4, <2>5 DEF Next
<1> QED
  BY <1>1, <1>2

\* KeepsGate: whatever requests, clean-ups, rolled back transactions and crashes do
\* to a source evidence run, the generations that rest on it find it as EvidenceGate
\* promises, until an observation overlaps an adoption or a retry a clean-up.
THEOREM ImplementsGate == Spec => KeepsGate
<1> DEFINE All == Inv /\ Started /\ SweepsExpired /\ Cleanings /\ Guarded /\ Approvals
<1>1. Init => All
  BY InvInit, StartedInit, SweepsExpiredInit, CleaningsInit, GuardedInit, ApprovalsInit
<1>2. All /\ [Next]_vars => All'
  BY InvStep, StartedStep, SweepsExpiredStep, CleaningsStep, GuardedStep, ApprovalsStep
<1>3. All /\ All' /\ [Next]_vars => [Gate!Next]_Gate!vars
  BY GateStep
<1> HIDE DEF All
<1> QED
  BY <1>1, <1>2, <1>3, GateInit, PTL DEF Spec, KeepsGate, Gate!Spec

=============================================================================
